-------------------------- MODULE MCToolCallBatch ---------------------------
(* Three calls: enough for a duplicate of a call that waits behind a       *)
(* third, and for a queued call behind one the grace timer gives up on.    *)
EXTENDS ToolCallBatch

CONSTANTS a, none, k1, k2, k3

MCSegment == {a}
MCFold == [s \in MCSegment |-> s]
MCFile == {<<a>>}

Write == {FileAccess("write", <<a>>, FALSE)}
Read  == {FileAccess("read", <<a>>, FALSE)}

MCAccessSets == {Write, Read}

(* Calls write the file, read it, or declare nothing.  A run with every    *)
(* choice is out of reach, so a behaviour is of one of two kinds.          *)
(*                                                                         *)
(* Duplicates: calls of two keys write the file, and may be refused, fail, *)
(* stop the turn or come with a swarm.  Keys are only compared, so it is   *)
(* enough to look at the behaviours in which the first call has k1.        *)
Duplicates ==
  /\ \A t \in Task : /\ keyOf[t] # k3
                     /\ keyOf[t] = k2 => \E u \in 1..t - 1 : keyOf[u] = k1
  /\ Read \notin {prepared.declared} \cup {accesses[t] : t \in 1..added}

(* Readers and writers: every call has a key of its own and is let run,    *)
(* with nothing but an abort in its way.                                   *)
AllRun ==
  /\ ~ mixed /\ \A t \in Task : keyOf[t] \in {NoKey, <<k1, k2, k3>>[t]}
  /\ pc \in {"record", "add"} =>
       prepared.result \in {Nothing, "aborted"} /\ ~ prepared.stopBatch
  /\ pc # "unwind" /\ finalized \notin {"failed", "stop"} /\ \A t \in Task : outcome[t] # "stop"

MCSpec ==
  /\ BatchInit /\ [][BatchNext /\ (Duplicates \/ AllRun)']_vars
  /\ WF_vars(runToolCallBatch)
  /\ \A t \in Task : WF_vars(resolveTask(t) \/ graceTimeout(t)) /\ WF_vars(finishTask(t))
=============================================================================
