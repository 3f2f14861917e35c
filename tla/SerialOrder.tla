---------------------------- MODULE SerialOrder -----------------------------
(***************************************************************************)
(* What the tool scheduler promises for the calls of one model response:   *)
(* calls that conflict run one at a time, in the order the provider listed *)
(* them, whatever else overlaps with them.                                 *)
(***************************************************************************)
EXTENDS Integers

CONSTANT Task              \* the calls, numbered in provider order

VARIABLES status,          \* what has become of each call
          rival            \* rival[t]: the calls t conflicts with

svars == <<status, rival>>

Status == {"absent", "waiting", "running", "finished"}

After(s) == CASE s = "absent"   -> {"absent", "waiting", "running"}
              [] s = "waiting"  -> {"waiting", "running"}
              [] s = "running"  -> {"running", "finished"}
              [] s = "finished" -> {"finished"}

Init == status = [t \in Task |-> "absent"]

(* A step moves any number of calls along.  Which calls are rivals is      *)
(* settled when the second of them arrives, and one that begins to run has *)
(* every earlier rival behind it.                                          *)
Step ==
  /\ \A t \in Task : status'[t] \in After(status[t])
  /\ \A t, u \in Task :
       status[t] # "absent" /\ status[u] # "absent"
         => (u \in rival'[t] <=> u \in rival[t])
  /\ \A t \in Task :
       status[t] # "running" /\ status'[t] = "running"
         => \A u \in rival'[t] : u < t => status'[u] = "finished"

Spec == Init /\ [][Step]_svars
=============================================================================
