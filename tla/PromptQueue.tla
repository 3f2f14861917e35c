----------------------------- MODULE PromptQueue -----------------------------
(***************************************************************************)
(* What the prompt service promises of a session's prompts                 *)
(* (packages/agent-core/src/services/prompt/prompt.ts, "queueing"): at     *)
(* most one runs, the others wait in the order in which they came, and the *)
(* one that has waited longest is next.  A prompt that is being stopped no *)
(* longer counts, so that a new one may start at once.  What a client is   *)
(* told of a prompt that is over is not said here.                         *)
(***************************************************************************)
EXTENDS Naturals, Sequences, SequencesExt

CONSTANTS Prompt

VARIABLES status,   \* what has become of each prompt
          waiting   \* the prompts that wait, the oldest first

vars == <<status, waiting>>

Init == status = [p \in Prompt |-> "new"] /\ waiting = <<>>

NoneIs(s) == \A p \in Prompt : status[p] # s

Becomes(p, s) == status' = [status EXCEPT ![p] = s]

(* A prompt that is being stopped is forgotten when another one runs.      *)
Runs(p) ==
  /\ NoneIs("running")
  /\ status' = [q \in Prompt |-> IF q = p THEN "running"
                                 ELSE IF status[q] = "stopping" THEN "over" ELSE status[q]]

Start(p) == status[p] = "new" /\ (waiting = <<>> \/ ~NoneIs("stopping")) /\ Runs(p) /\ UNCHANGED waiting

Wait(p) == status[p] = "new" /\ ~NoneIs("running") /\ Becomes(p, "waiting") /\ waiting' = Append(waiting, p)

Refuse(p) == status[p] = "new" /\ Becomes(p, "over") /\ UNCHANGED waiting

Stop(p) == status[p] = "running" /\ Becomes(p, "stopping") /\ UNCHANGED waiting

StopFails(p) == status[p] = "stopping" /\ Becomes(p, "running") /\ UNCHANGED waiting

(* A prompt ends or comes to nothing; the next one, if there is one, runs  *)
(* or is made ready.                                                       *)
End(p) ==
  /\ status[p] \in {"running", "stopping", "taken"}
  /\ \/ Becomes(p, "over") /\ UNCHANGED waiting
     \/ /\ waiting # <<>>
        /\ \A q \in Prompt \ {p} : status[q] # "running"
        /\ \E s \in {"running", "taken"} :
              status' = [status EXCEPT ![p] = "over", ![Head(waiting)] = s]
        /\ waiting' = Tail(waiting)

(* Taken out of the queue, to be put into the turn that runs or for good.  *)
Withdraw(p) ==
  /\ status[p] = "waiting"
  /\ Becomes(p, "taken") \/ Becomes(p, "over")
  /\ \E i \in DOMAIN waiting : waiting[i] = p /\ waiting' = RemoveAt(waiting, i)

PutBack(p) == status[p] = "taken" /\ Becomes(p, "waiting") /\ waiting' = <<p>> \o waiting

Ready(p) == status[p] = "taken" /\ Runs(p) /\ UNCHANGED waiting

Next == \E p \in Prompt : \/ Start(p) \/ Wait(p) \/ Refuse(p) \/ Stop(p) \/ StopFails(p)
                          \/ End(p) \/ Withdraw(p) \/ PutBack(p) \/ Ready(p)

Spec == Init /\ [][Next]_vars
=============================================================================
