---------------------------- MODULE MCEventStream ----------------------------
(***************************************************************************)
(* EventStream with few events and a small buffer, so that replays come    *)
(* from the tail, from the file, or not at all.                            *)
(***************************************************************************)
EXTENDS EventStream

Times(n) == [h \in Occasion |-> IF h \in DOMAIN n THEN n[h] ELSE 0]

AllScenarios ==
  {Times([event |-> 3, drop |-> 2, volatile |-> 1, click |-> 1]),
   Times([event |-> 3, drop |-> 1, crash |-> 2]),
   Times([event |-> 3, crash |-> 1, fetchFails |-> 1, click |-> 1]),
   Times([event |-> 3, tear |-> 1, crash |-> 1]),
   Times([event |-> 4, writeFails |-> 1, crash |-> 1])}

(* The socket drops while the client is brought up to date, or a snapshot  *)
(* it needs is not had.                                                    *)
BroughtUpInParts ==
  {Times([event |-> 2, drop |-> 2]),
   Times([event |-> 1, volatile |-> 1, click |-> 1, drop |-> 1]),
   Times([event |-> 3, fetchFails |-> 1])}
=============================================================================
