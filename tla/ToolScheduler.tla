--------------------------- MODULE ToolScheduler ----------------------------
(***************************************************************************)
(* The scheduler of the tool calls of one model response                   *)
(* (packages/agent-core/src/loop/tool-scheduler.ts).                       *)
(*                                                                         *)
(* add() is called in provider order, so a task is named by its position   *)
(* and the order of both arrays is the order of the numbers: activeTasks   *)
(* and queuedTasks are sets of positions.  Every start() in the program is *)
(* an async function, which cannot throw before it returns its promise, so *)
(* the catch branch of start() has no action.                              *)
(***************************************************************************)
EXTENDS Integers, ToolAccess

CONSTANTS NumTasks,        \* bound: calls in one model response
          AccessSets       \* the access lists a call may declare

WellFormed(access) ==
  \/ access = AllAccess
  \/ /\ access.kind = "file"
     /\ access.operation \in FileOperation
     /\ access.recursive \in BOOLEAN
     /\ normalizePath(access.path) \in Seq(Segment)

ASSUME NumTasksAssumption == NumTasks \in Nat
ASSUME AccessSetsAssumption ==
  /\ \A declared \in AccessSets : \A access \in declared : WellFormed(access)
  /\ \A f \in File : f \in Seq(Segment)

Task == 1..NumTasks

VARIABLES added,           \* how many calls add() has received
          accesses,        \* the accesses each of them declared
          activeTasks,     \* started, not yet removed by finish()
          queuedTasks,     \* waiting for the calls they conflict with
          settledTasks     \* calls whose result promise has settled

schedulerVars == <<added, accesses, activeTasks, queuedTasks, settledTasks>>

SchedulerTypeOK ==
  /\ added \in 0..NumTasks
  /\ accesses \in [Task -> AccessSets \cup {{}}]
  /\ activeTasks \subseteq 1..added
  /\ queuedTasks \subseteq (1..added) \ activeTasks
  /\ settledTasks \subseteq (1..added) \ queuedTasks

SchedulerInit ==
  /\ added = 0
  /\ accesses = [t \in Task |-> {}]
  /\ activeTasks = {}
  /\ queuedTasks = {}
  /\ settledTasks = {}

-----------------------------------------------------------------------------
conflictsWithAny(declared, candidates) ==
  \E c \in candidates : conflict(declared, accesses[c])

isBlocked_overtakes(declared, active, queuedBefore) ==
  conflictsWithAny(declared, active)

isBlocked(declared, active, queuedBefore) ==
  conflictsWithAny(declared, active) \/ conflictsWithAny(declared, queuedBefore)

(* add(): start the call, or queue it behind what it conflicts with.       *)
add(declared) ==
  /\ added < NumTasks
  /\ added' = added + 1
  /\ accesses' = [accesses EXCEPT ![added + 1] = declared]
  /\ IF isBlocked(declared, activeTasks, queuedTasks)
       THEN queuedTasks' = queuedTasks \cup {added + 1} /\ UNCHANGED activeTasks
       ELSE activeTasks' = activeTasks \cup {added + 1} /\ UNCHANGED queuedTasks
  /\ UNCHANGED settledTasks

(* The result promise of a started call resolves or rejects.               *)
settle(t) ==
  /\ t \in activeTasks \ settledTasks
  /\ settledTasks' = settledTasks \cup {t}
  /\ UNCHANGED <<added, accesses, activeTasks, queuedTasks>>

startQueuedTasks_fromFront(active) ==
  {t \in queuedTasks :
     \A u \in queuedTasks :
       u <= t => ~ isBlocked(accesses[u], active, {v \in queuedTasks : v < u})}

(* The queued calls startQueuedTasks() starts.  Its loop asks each of them *)
(* whether it conflicts with an active call or with one it has left in the *)
(* queue; an earlier queued call is by then one or the other, so the       *)
(* question is whether any call active before the pass or queued earlier   *)
(* stands in the way.                                                      *)
startQueuedTasks(active) ==
  {t \in queuedTasks :
     ~ isBlocked(accesses[t], active, {u \in queuedTasks : u < t})}

finish_wakesBeforeLeaving(t) ==
  /\ t \in activeTasks \cap settledTasks
  /\ LET started == startQueuedTasks(activeTasks)
     IN  /\ activeTasks' = (activeTasks \ {t}) \cup started
         /\ queuedTasks' = queuedTasks \ started
  /\ UNCHANGED <<added, accesses, settledTasks>>

(* finish(): runs in a later microtask than the settlement it follows.     *)
finish(t) ==
  /\ t \in activeTasks \cap settledTasks
  /\ LET left    == activeTasks \ {t}
         started == startQueuedTasks(left)
     IN  /\ activeTasks' = left \cup started
         /\ queuedTasks' = queuedTasks \ started
  /\ UNCHANGED <<added, accesses, settledTasks>>

-----------------------------------------------------------------------------
(* A tool may declare no access at all; a call that is answered without    *)
(* running has none.                                                       *)
Declared == AccessSets \cup {{}}

Next ==
  \/ \E declared \in Declared : add(declared)
  \/ \E t \in Task : settle(t)
  \/ \E t \in Task : finish(t)

Spec == SchedulerInit /\ [][Next]_schedulerVars

(* A call that is started settles (the grace timer sees to it once the     *)
(* turn is aborted), and finish() follows by the microtask queue.          *)
FairSpec ==
  /\ Spec
  /\ \A t \in Task : WF_schedulerVars(settle(t)) /\ WF_schedulerVars(finish(t))

-----------------------------------------------------------------------------
Conflicting(t, u) == conflict(accesses[t], accesses[u])

(* No call may change a file that another call active at the same time may *)
(* touch.                                                                  *)
NoTornFile ==
  \A t, u \in activeTasks, f \in File :
    t # u /\ MayChange(accesses[t], f) => ~ MayTouch(accesses[u], f)

(* No lost wake-up: a call stays queued only while an active call, or an   *)
(* earlier queued one, stands in its way.                                  *)
QueuedIsBlocked ==
  \A t \in queuedTasks :
    \/ \E u \in activeTasks : Conflicting(t, u)
    \/ \E u \in queuedTasks : u < t /\ Conflicting(t, u)

(* Hence the queue never waits on nothing.                                 *)
QueueHasRunner == queuedTasks # {} => activeTasks # {}

(* Every call add() received is eventually over.                           *)
EveryTaskFinishes ==
  \A t \in Task : (t <= added) ~> (t \in 1..added \ (activeTasks \cup queuedTasks))

-----------------------------------------------------------------------------
(* The scheduler implements SerialOrder.                                   *)
status ==
  [t \in Task |-> IF t > added THEN "absent"
                  ELSE IF t \in queuedTasks THEN "waiting"
                  ELSE IF t \in activeTasks THEN "running"
                  ELSE "finished"]

rival == [t \in Task |-> {u \in Task : Conflicting(t, u)}]

Serial == INSTANCE SerialOrder WITH Task <- Task, status <- status, rival <- rival

SerialSpec == Serial!Spec
=============================================================================
