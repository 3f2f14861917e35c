------------------------------ MODULE MCPrompts ------------------------------
(***************************************************************************)
(* Prompts with up to three prompts.  Kept has the situations in which the *)
(* promises hold, the others are those in which one of them does not.      *)
(***************************************************************************)
EXTENDS Prompts

Times(n) == [h \in Occasion |-> IF h \in DOMAIN n THEN n[h] ELSE 0]

ThreePrompts == 1..3

Kept ==
  {Times([submit |-> 3, abort |-> 2, stop |-> 1]),
   Times([submit |-> 1, earlyAbort |-> 1, promptFails |-> 1]),
   Times([submit |-> 1, abort |-> 2, cancelFails |-> 1]),
   Times([submit |-> 2, promptFails |-> 2]),
   Times([submit |-> 2, steer |-> 1, steerFails |-> 1]),
   Times([submit |-> 3, override |-> 1, setterFails |-> 1]),
   Times([submit |-> 2, override |-> 1, abort |-> 1]),
   Times([submit |-> 1, goal |-> 1, abort |-> 1]),
   Times([other |-> 1, goal |-> 1, stop |-> 1])}

GoalGoesOn == {Times([submit |-> 2, goal |-> 1])}
=============================================================================
