-------------------------- MODULE MCBackgroundTasks --------------------------
(***************************************************************************)
(* BackgroundTasks with two tasks.                                         *)
(***************************************************************************)
EXTENDS BackgroundTasks

Times(n) == [h \in Occasion |-> IF h \in DOMAIN n THEN n[h] ELSE 0]

Kept ==
  {Times([background |-> 1, foreground |-> 1, detach |-> 1, prompt |-> 1, crash |-> 2]),
   Times([background |-> 1, foreground |-> 1, detach |-> 1, cancel |-> 1, stop |-> 1]),
   Times([background |-> 2, taskStop |-> 1, timeout |-> 1, crash |-> 1]),
   Times([background |-> 1, foreground |-> 1, detach |-> 1, spill |-> 1, close |-> 1]),
   Times([background |-> 1, cancel |-> 2, turnFails |-> 1, prompt |-> 1, openCall |-> 1]),
   Times([background |-> 1, foreground |-> 1, close |-> 1, keepAlive |-> 1, resumeFails |-> 1]),
   Times([background |-> 1, foreground |-> 1, detach |-> 1, timeout |-> 1, stop |-> 1, writeFails |-> 1])}
=============================================================================
