------------------------ MODULE ToolCallBatchProofs -------------------------
(***************************************************************************)
(* A batch of tool calls, for every number of calls and every choice of    *)
(* accesses: no two of its tool bodies touch a file one of them changes,   *)
(* and their effects on a file come in provider order, whatever the grace  *)
(* timer has given up on; and what the batch records.                      *)
(***************************************************************************)
EXTENDS ToolCallBatch, ToolSchedulerProofs

USE NumTasksAssumption DEF Task, Declared

Preparing == {"prepare", "resolve", "authorize", "record", "add", "skip"}

(* Where the batch is, and what that says about its two counters.          *)
PhaseOK ==
  /\ pc \in Preparing => added < NumTasks /\ drained = 0
  /\ pc \in {"drain", "append"} => drained < added
  /\ pc \in {"virtualCall", "virtualResult"} => added = 0 /\ drained < NumTasks
  /\ pc \in {"returned", "threw"} => settledTasks = 1..added

BatchInv == BatchTypeOK /\ PhaseOK

(* Every step of a batch is a step of the scheduler or leaves it alone.    *)
LEMMA BatchStepSchedules ==
  ASSUME prepared.declared \in Declared, [BatchNext]_vars
  PROVE  [Next]_schedulerVars
<1>1. CASE addTask
  BY <1>1 DEF addTask, Next
<1>2. CASE \E t \in Task : \/ resolveTask(t) \/ executeReturns(t)
                           \/ graceTimeout(t) \/ finishTask(t)
  BY <1>2 DEF resolveTask, executeReturns, graceTimeout, finishTask, Next
<1>3. CASE \/ prepareToolCall \/ resolveExecution \/ authorizeToolExecution
           \/ prepareSkippedToolCall \/ dispatchToolCall
           \/ finalizePendingToolResult \/ dispatchToolResult \/ allSettled
           \/ virtualTurn \/ abort \/ UNCHANGED vars
  BY <1>3 DEF prepareToolCall, resolveExecution, authorizeToolExecution,
              prepareSkippedToolCall, dispatchToolCall,
              finalizePendingToolResult, dispatchToolResult, allSettled,
              virtualTurn, abort, vars
<1> QED
  BY <1>1, <1>2, <1>3 DEF BatchNext, runToolCallBatch

(* The two ways to make a task make tasks.                                 *)
LEMMA TaskTypes ==
  /\ \A r \in Outcome : Resolved(r) \in PreparedToolCallTask
  /\ \A declared \in Declared, stopBatch \in BOOLEAN :
       Runnable(declared, stopBatch) \in PreparedToolCallTask
BY DEF Resolved, Runnable, PreparedToolCallTask, Stops

(* A batch begins in the invariant.                                        *)
LEMMA BatchInitOK == BatchInit => BatchInv
<1> SUFFICES ASSUME BatchInit PROVE BatchInv
  OBVIOUS
<1>1. SchedulerTypeOK
  BY TypeInit DEF BatchInit
<1>2. prepared \in PreparedToolCallTask
  BY TaskTypes DEF BatchInit, NoTask, Outcome
<1>3. transcript \in Seq(Event)
  BY DEF BatchInit
<1>4. /\ outcome \in [Task -> Outcome \cup {Nothing}]
      /\ body \in [Task -> {"idle", "running", "over"}]
      /\ keyOf \in [Task -> Key \cup {NoKey}]
      /\ deferred \in [Key -> Outcome \cup {Nothing}]
  BY DEF BatchInit
<1>5. /\ added = 0 /\ settledTasks = {} /\ drained = 0
      /\ mixed \in BOOLEAN /\ aborted \in BOOLEAN /\ stopTurn \in BOOLEAN
      /\ finalized \in Outcome \cup {Nothing}
  BY DEF BatchInit, SchedulerInit
<1>6. CASE NumTasks = 0
  <2>1. pc = "returned"
    BY <1>6 DEF BatchInit
  <2> QED
    BY <1>1, <1>2, <1>3, <1>4, <1>5, <1>6, <2>1
    DEF BatchInv, BatchTypeOK, PhaseOK, Preparing
<1>7. CASE NumTasks # 0
  <2>1. pc \in {"virtualCall", "prepare"}
    BY <1>7 DEF BatchInit
  <2>2. NumTasks > 0
    BY <1>7
  <2> QED
    BY <1>1, <1>2, <1>3, <1>4, <1>5, <2>1, <2>2
    DEF BatchInv, BatchTypeOK, PhaseOK, Preparing
<1> QED
  BY <1>6, <1>7

(* Starting calls keeps the type of what it sets.                          *)
LEMMA LaunchTypes ==
  ASSUME body \in [Task -> {"idle", "running", "over"}],
         NEW pending \in [Task -> Outcome \cup {Nothing}],
         launch(pending)
  PROVE  /\ outcome' \in [Task -> Outcome \cup {Nothing}]
         /\ body' \in [Task -> {"idle", "running", "over"}]
BY DEF launch, Outcome

(* Type and phase are preserved by every step of a batch.                  *)
LEMMA BatchInductive == BatchInv /\ [BatchNext]_vars => BatchInv'
<1> SUFFICES ASSUME BatchInv, [BatchNext]_vars
             PROVE  BatchInv'
  OBVIOUS
<1> USE DEF BatchInv, BatchTypeOK
<1>1. SchedulerTypeOK'
  <2>1. prepared.declared \in Declared
    BY DEF PreparedToolCallTask
  <2> QED
    BY <2>1, BatchStepSchedules, TypeInductive
<1>2. /\ added \in 0..NumTasks /\ added' \in 0..NumTasks
      /\ drained \in 0..NumTasks
  BY <1>1 DEF SchedulerTypeOK
<1> USE <1>1, <1>2 DEF PhaseOK, Preparing
<1>3. CASE prepareToolCall
  <2>1. prepared' \in PreparedToolCallTask /\ pc' \in {"record", "resolve"}
    BY <1>3, TaskTypes DEF prepareToolCall, Outcome
  <2>2. keyOf' \in [Task -> Key \cup {NoKey}]
    BY <1>3 DEF prepareToolCall
  <2> QED
    BY <1>3, <2>1, <2>2 DEF prepareToolCall, schedulerVars
<1>4. CASE resolveExecution
  <2>1. prepared' \in PreparedToolCallTask /\ pc' \in {"record", "authorize"}
    BY <1>4, TaskTypes DEF resolveExecution, Outcome
  <2> QED
    BY <1>4, <2>1 DEF resolveExecution, schedulerVars
<1>5. CASE authorizeToolExecution
  <2>1. prepared' \in PreparedToolCallTask /\ pc' = "record"
    BY <1>5, TaskTypes DEF authorizeToolExecution, Outcome
  <2> QED
    BY <1>5, <2>1 DEF authorizeToolExecution, schedulerVars
<1>6. CASE prepareSkippedToolCall
  <2>1. prepared' \in PreparedToolCallTask /\ pc' = "record"
    BY <1>6, TaskTypes DEF prepareSkippedToolCall, Outcome
  <2> QED
    BY <1>6, <2>1 DEF prepareSkippedToolCall, schedulerVars
<1>7. CASE dispatchToolCall
  <2>1. current \in Task
    BY <1>7 DEF dispatchToolCall, current
  <2>2. Call(current) \in Event
    BY <2>1 DEF Call, Event
  <2>3. Append(transcript, Call(current)) \in Seq(Event)
    BY <2>2
  <2>4. transcript' \in Seq(Event) /\ pc' \in {"add", "unwind"}
    BY <1>7, <2>3 DEF dispatchToolCall
  <2> QED
    BY <1>7, <2>4 DEF dispatchToolCall, schedulerVars
<1>8. CASE addTask
  <2>1. [outcome EXCEPT ![current] = prepared.result] \in [Task -> Outcome \cup {Nothing}]
    BY DEF PreparedToolCallTask
  <2>2. /\ outcome' \in [Task -> Outcome \cup {Nothing}]
        /\ body' \in [Task -> {"idle", "running", "over"}]
    BY <1>8, <2>1, LaunchTypes DEF addTask
  <2>3. stopTurn' \in BOOLEAN
    BY <1>8 DEF addTask
  <2>4. prepared' \in PreparedToolCallTask
    BY <1>8, TaskTypes DEF addTask, NoTask, Outcome
  <2>5. added' = added + 1 /\ added < NumTasks
    BY <1>8 DEF addTask, add
  <2>6. CASE current = NumTasks
    <3>1. pc' = "drain"
      BY <1>8, <2>6 DEF addTask
    <3>2. added' = NumTasks
      BY <2>5, <2>6 DEF current
    <3> QED
      BY <1>8, <2>2, <2>3, <2>4, <3>1, <3>2 DEF addTask
  <2>7. CASE current # NumTasks
    <3>1. pc' \in {"skip", "prepare"}
      BY <1>8, <2>7 DEF addTask
    <3>2. added' < NumTasks
      BY <2>5, <2>7 DEF current
    <3> QED
      BY <1>8, <2>2, <2>3, <2>4, <3>1, <3>2 DEF addTask
  <2> QED
    BY <2>6, <2>7
<1>9. ASSUME NEW t \in Task, resolveTask(t)
      PROVE  BatchInv'
  <2>1. added' = added /\ UNCHANGED batchVars
    BY <1>9 DEF resolveTask, settle
  <2>2. settledTasks \subseteq settledTasks'
    BY <1>9 DEF resolveTask, settle
  <2> QED
    BY <2>1, <2>2 DEF batchVars, SchedulerTypeOK
<1>10. ASSUME NEW t \in Task, executeReturns(t)
       PROVE  BatchInv'
  <2>1. /\ outcome' \in [Task -> Outcome \cup {Nothing}]
        /\ body' \in [Task -> {"idle", "running", "over"}]
    BY <1>10 DEF executeReturns, Outcome
  <2>2. added' = added /\ settledTasks \subseteq settledTasks'
    BY <1>10 DEF executeReturns, settle, schedulerVars
  <2> QED
    BY <1>10, <2>1, <2>2 DEF executeReturns, SchedulerTypeOK
<1>11. ASSUME NEW t \in Task, graceTimeout(t)
       PROVE  BatchInv'
  <2>1. outcome' \in [Task -> Outcome \cup {Nothing}]
    BY <1>11 DEF graceTimeout, Outcome
  <2>2. added' = added /\ settledTasks \subseteq settledTasks'
    BY <1>11 DEF graceTimeout, settle
  <2> QED
    BY <1>11, <2>1, <2>2 DEF graceTimeout, SchedulerTypeOK
<1>12. ASSUME NEW t \in Task, finishTask(t)
       PROVE  BatchInv'
  <2>1. /\ outcome' \in [Task -> Outcome \cup {Nothing}]
        /\ body' \in [Task -> {"idle", "running", "over"}]
    BY <1>12, LaunchTypes DEF finishTask
  <2>2. added' = added /\ settledTasks' = settledTasks
    BY <1>12 DEF finishTask, finish
  <2> QED
    BY <1>12, <2>1, <2>2 DEF finishTask
<1>13. CASE finalizePendingToolResult
  <2>1. PICK r \in {outcome[draining], "stop"}, hookFails \in BOOLEAN :
          LET t == draining
              final == IF IsDup(t) THEN deferred[keyOf[t]] ELSE r
          IN  /\ keyOf[t] = NoKey => r = outcome[t]
              /\ final # Nothing
              /\ deferred' = IF keyOf[t] = NoKey \/ IsDup(t) THEN deferred
                             ELSE [deferred EXCEPT ![keyOf[t]] = final]
              /\ finalized' = IF hookFails THEN "failed" ELSE final
              /\ stopTurn' = \/ stopTurn
                             \/ Stops(outcome[t])
                             \/ Stops(finalized')
    BY <1>13 DEF finalizePendingToolResult
  <2>2. draining \in Task /\ pc = "drain" /\ pc' = "append"
    BY <1>13 DEF finalizePendingToolResult, draining
  <2> DEFINE t == draining
             final == IF IsDup(t) THEN deferred[keyOf[t]] ELSE r
  <2>3. final \in Outcome \cup {Nothing}
    <3>1. CASE IsDup(t)
      <4>1. keyOf[t] \in Key
        BY <2>2, <3>1 DEF IsDup
      <4> QED
        BY <3>1, <4>1
    <3>2. CASE ~ IsDup(t)
      BY <2>2, <3>2 DEF Outcome
    <3> QED
      BY <3>1, <3>2
  <2>4. deferred' \in [Key -> Outcome \cup {Nothing}]
    BY <2>1, <2>3
  <2>5. finalized' \in Outcome \cup {Nothing}
    BY <2>1, <2>3 DEF Outcome
  <2>6. stopTurn' \in BOOLEAN
    BY <2>1 DEF Stops
  <2> QED
    BY <1>13, <2>2, <2>4, <2>5, <2>6 DEF finalizePendingToolResult, schedulerVars
<1>14. CASE dispatchToolResult
  <2>1. draining \in Task /\ draining = drained + 1 /\ drained < added
    BY <1>14 DEF dispatchToolResult, draining
  <2>2. Result(draining, finalized) \in Event
    BY <2>1 DEF Result, Event
  <2>3. Append(transcript, Result(draining, finalized)) \in Seq(Event)
    BY <2>2
  <2>4. transcript' \in Seq(Event)
    BY <1>14, <2>3 DEF dispatchToolResult
  <2>5. /\ drained' \in 0..NumTasks
        /\ pc' \in {"settle", "drain", "unwind"}
        /\ pc' = "drain" => drained' < added
    BY <1>14, <2>1 DEF dispatchToolResult
  <2> QED
    BY <1>14, <2>4, <2>5 DEF dispatchToolResult, schedulerVars
<1>15. CASE allSettled
  <2>1. pc' \in {"returned", "threw"} /\ settledTasks = 1..added
    BY <1>15 DEF allSettled
  <2> QED
    BY <1>15, <2>1 DEF allSettled, schedulerVars
<1>16. CASE virtualTurn
  <2>1. added = 0 /\ drained < NumTasks
    BY <1>16 DEF virtualTurn
  <2>2. draining \in Task /\ draining = drained + 1
    BY <2>1 DEF draining
  <2>3. Call(draining) \in Event /\ Result(draining, "done") \in Event
    BY <2>2 DEF Call, Result, Event, Outcome
  <2>4. /\ Append(transcript, Call(draining)) \in Seq(Event)
        /\ Append(transcript, Result(draining, "done")) \in Seq(Event)
    BY <2>3
  <2>5. transcript' \in Seq(Event)
    BY <1>16, <2>4 DEF virtualTurn
  <2>6. settledTasks = 1..added
    BY <2>1 DEF SchedulerTypeOK
  <2>7. /\ drained' \in 0..NumTasks /\ stopTurn' \in BOOLEAN
        /\ pc' \in {"virtualCall", "virtualResult", "returned", "threw"}
        /\ pc' \in {"virtualCall", "virtualResult"} => drained' < NumTasks
    <3>1. CASE drained' = drained /\ stopTurn' = stopTurn
               /\ pc' \in {"virtualResult", "threw"}
      BY <2>1, <3>1
    <3>2. CASE /\ drained' = draining
               /\ stopTurn' = (draining = NumTasks)
               /\ pc' = IF draining = NumTasks THEN "returned" ELSE "virtualCall"
      <4>1. draining \in 0..NumTasks /\ (draining # NumTasks => draining < NumTasks)
        BY <2>1, <2>2
      <4>2. stopTurn' \in BOOLEAN
        BY <3>2
      <4> QED
        BY <3>2, <4>1, <4>2
    <3> QED
      BY <1>16, <3>1, <3>2 DEF virtualTurn
  <2> QED
    BY <1>16, <2>1, <2>5, <2>6, <2>7 DEF virtualTurn, schedulerVars
<1>17. CASE abort
  BY <1>17 DEF abort, schedulerVars, Over
<1>18. CASE UNCHANGED vars
  BY <1>18 DEF vars, schedulerVars, batchVars
<1> QED
  BY <1>3, <1>4, <1>5, <1>6, <1>7, <1>8, <1>9, <1>10, <1>11, <1>12, <1>13, <1>14,
     <1>15, <1>16, <1>17, <1>18 DEF BatchNext, runToolCallBatch

(* A batch keeps its type, for any number of calls.                        *)
THEOREM BatchTypeCorrect == BatchSpec => []BatchTypeOK
<1>1. BatchInv => BatchTypeOK
  BY DEF BatchInv
<1> QED
  BY <1>1, BatchInitOK, BatchInductive, PTL DEF BatchSpec

(* A batch calls the scheduler as ToolScheduler describes it, so what is   *)
(* proved of the scheduler holds of its variables here.                    *)
LEMMA BatchRefinesScheduler == BatchSpec => Spec
<1>1. BatchInit => SchedulerInit
  BY DEF BatchInit
<1>2. BatchInv /\ [BatchNext]_vars => [Next]_schedulerVars
  BY BatchStepSchedules DEF BatchInv, BatchTypeOK, PreparedToolCallTask
<1> QED
  BY <1>1, <1>2, BatchInitOK, BatchInductive, PTL DEF BatchSpec, Spec

-----------------------------------------------------------------------------
(* Running bodies do not conflict; until the abort each belongs to a call  *)
(* the scheduler still holds active, so that a new one cannot conflict     *)
(* with it; after the abort none is started.                               *)
BodyInv ==
  /\ Running \subseteq 1..added
  /\ \A t, u \in Running : t # u => ~ Conflicting(t, u)
  /\ ~ aborted => \A t \in Running :
       t \in activeTasks \ settledTasks /\ outcome[t] = Nothing

(* What launch() starts: nothing once the turn is aborted, and before that *)
(* only calls that have just become active.                                *)
LEMMA LaunchStarts ==
  ASSUME activeTasks' \subseteq Task,
         NEW pending \in [Task -> Outcome \cup {Nothing}],
         launch(pending)
  PROVE  /\ aborted => Running' = Running
         /\ ~ aborted => /\ \A t \in Task : outcome'[t] = pending[t]
                         /\ \A t \in Running' :
                              \/ t \in Running
                              \/ /\ t \in activeTasks' \ activeTasks
                                 /\ pending[t] = Nothing
BY DEF launch, Running

(* Conflicts among the calls already added do not change.                  *)
LEMMA ConflictsStay ==
  ASSUME SchedulerTypeOK, [Next]_schedulerVars,
         NEW t \in 1..added, NEW u \in 1..added
  PROVE  Conflicting(t, u)' <=> Conflicting(t, u)
<1>1. t \in Task /\ u \in Task /\ t # added + 1 /\ u # added + 1
  BY DEF SchedulerTypeOK
<1>2. accesses'[t] = accesses[t] /\ accesses'[u] = accesses[u]
  BY <1>1 DEF Next, add, settle, finish, schedulerVars, SchedulerTypeOK
<1> QED
  BY <1>2 DEF Conflicting

(* Every step keeps the running bodies apart.                              *)
LEMMA BodyInductive ==
  /\ BatchInv /\ SchedulerInv /\ SchedulerInv' /\ BodyInv
  /\ [BatchNext]_vars
  => BodyInv'
<1> SUFFICES ASSUME BatchInv, SchedulerInv, SchedulerInv', BodyInv, [BatchNext]_vars
             PROVE  BodyInv'
  OBVIOUS
<1>1. [Next]_schedulerVars
  BY BatchStepSchedules DEF BatchInv, BatchTypeOK, PreparedToolCallTask
<1>2. added \in Nat /\ added' \in Nat /\ added <= added'
  <2>1. added \in 0..NumTasks /\ added' \in 0..NumTasks
    BY DEF SchedulerInv, SchedulerTypeOK
  <2>2. added' = added + 1 \/ added' = added
    BY <1>1 DEF Next, add, settle, finish, schedulerVars
  <2> QED
    BY <2>1, <2>2
<1>3. /\ activeTasks' \subseteq Task /\ activeTasks' \subseteq 1..added'
      /\ settledTasks \subseteq 1..added /\ settledTasks \cap queuedTasks = {}
  BY <1>2 DEF SchedulerInv, SchedulerTypeOK
<1>4. /\ outcome \in [Task -> Outcome \cup {Nothing}]
      /\ body \in [Task -> {"idle", "running", "over"}]
  BY DEF BatchInv, BatchTypeOK
<1>5. \A t, u \in Running : Conflicting(t, u)' <=> Conflicting(t, u)
  BY <1>1, ConflictsStay DEF BodyInv, SchedulerInv
<1>6. ASSUME Running' \subseteq Running,
             ~ aborted' => /\ ~ aborted
                           /\ \A t \in Running' :
                                t \in activeTasks' \ settledTasks' /\ outcome'[t] = Nothing
      PROVE  BodyInv'
  <2>1. Running' \subseteq 1..added'
    BY <1>2, <1>6 DEF BodyInv
  <2>2. \A t, u \in Running' : t # u => ~ Conflicting(t, u)'
    BY <1>5, <1>6 DEF BodyInv
  <2> QED
    BY <1>6, <2>1, <2>2 DEF BodyInv
<1>7. ASSUME aborted' = aborted, ~ aborted,
             \A t \in Running' :
               t \in activeTasks' \ settledTasks' /\ outcome'[t] = Nothing
      PROVE  BodyInv'
  BY <1>3, <1>7 DEF BodyInv, SchedulerInv, ActiveDisjoint
<1>8. CASE addTask
  <2>1. PICK new \in Task : new = added + 1
    BY <1>8 DEF addTask, add, SchedulerInv, SchedulerTypeOK
  <2> DEFINE pending == [outcome EXCEPT ![new] = prepared.result]
  <2>2. /\ aborted' = aborted /\ settledTasks' = settledTasks
        /\ activeTasks \subseteq activeTasks'
        /\ activeTasks' \subseteq activeTasks \cup {new}
        /\ new \notin settledTasks /\ new \notin Running
    BY <1>2, <1>3, <1>8, <2>1 DEF addTask, add, BodyInv
  <2>3. launch(pending) /\ pending \in [Task -> Outcome \cup {Nothing}]
    BY <1>4, <1>8, <2>1 DEF addTask, current, BatchInv, BatchTypeOK, PreparedToolCallTask
  <2>4. \A t \in Task : t # new => pending[t] = outcome[t]
    BY <1>4, <2>1
  <2>5. Running \subseteq Task /\ Running' \subseteq Task
    BY DEF Running
  <2> HIDE DEF pending
  <2>6. CASE aborted
    BY <1>3, <1>6, <2>2, <2>3, <2>6, LaunchStarts
  <2>7. CASE ~ aborted
    <3>0. \A t \in Running' :
           \/ t \in Running
           \/ /\ t \in activeTasks' \ activeTasks
              /\ pending[t] = Nothing
      BY <1>3, <2>3, <2>7, LaunchStarts
    <3>1. \A t \in Running' :
           \/ t \in Running
           \/ t = new /\ t \in activeTasks' /\ pending[t] = Nothing
      <4> TAKE t \in Running'
      <4>1. CASE t \in activeTasks' \ activeTasks
        BY <2>2, <3>0, <4>1
      <4> QED
        BY <3>0, <4>1
    <3>2. \A t \in Task : outcome'[t] = pending[t]
      BY <1>3, <2>3, <2>7, LaunchStarts
    <3> QED
      BY <1>7, <2>2, <2>4, <2>5, <2>7, <3>1, <3>2 DEF BodyInv
  <2> QED
    BY <2>6, <2>7
<1>9. ASSUME NEW t \in Task, resolveTask(t)
      PROVE  BodyInv'
  <2>1. /\ Running' = Running /\ aborted' = aborted /\ outcome' = outcome
        /\ activeTasks' = activeTasks /\ settledTasks' = settledTasks \cup {t}
        /\ outcome[t] # Nothing
    BY <1>9 DEF resolveTask, settle, batchVars, Running
  <2> QED
    BY <1>6, <2>1 DEF BodyInv
<1>10. ASSUME NEW t \in Task, executeReturns(t)
       PROVE  BodyInv'
  <2>1. /\ Running' = Running \ {t} /\ aborted' = aborted /\ activeTasks' = activeTasks
        /\ settledTasks' \subseteq settledTasks \cup {t}
        /\ \A u \in Task : u # t => outcome'[u] = outcome[u]
    BY <1>4, <1>10 DEF executeReturns, settle, schedulerVars, Running
  <2>2. Running \subseteq Task
    BY DEF Running
  <2> QED
    BY <1>6, <2>1, <2>2 DEF BodyInv
<1>11. ASSUME NEW t \in Task, graceTimeout(t)
       PROVE  BodyInv'
  <2>1. Running' = Running /\ aborted /\ aborted' = aborted
    BY <1>11 DEF graceTimeout, Running
  <2> QED
    BY <1>6, <2>1
<1>12. ASSUME NEW t \in Task, finishTask(t)
       PROVE  BodyInv'
  <2>1. /\ aborted' = aborted /\ settledTasks' = settledTasks /\ t \in settledTasks
        /\ activeTasks \ {t} \subseteq activeTasks'
        /\ activeTasks' \ activeTasks \subseteq queuedTasks
        /\ launch(outcome)
    BY <1>12 DEF finishTask, finish, startQueuedTasks
  <2>2. Running \subseteq Task /\ Running' \subseteq Task
    BY DEF Running
  <2>3. CASE aborted
    BY <1>3, <1>4, <1>6, <2>1, <2>3, LaunchStarts
  <2>4. CASE ~ aborted
    <3>0. \A u \in Running' :
           \/ u \in Running
           \/ /\ u \in activeTasks' \ activeTasks
              /\ outcome[u] = Nothing
      BY <1>3, <1>4, <2>1, <2>4, LaunchStarts
    <3>1. \A u \in Running' :
           \/ u \in Running
           \/ u \in activeTasks' \cap queuedTasks /\ outcome[u] = Nothing
      <4> TAKE u \in Running'
      <4>1. CASE u \in activeTasks' \ activeTasks
        BY <2>1, <3>0, <4>1
      <4> QED
        BY <3>0, <4>1
    <3>2. \A u \in Task : outcome'[u] = outcome[u]
      BY <1>3, <1>4, <2>1, <2>4, LaunchStarts
    <3> QED
      BY <1>3, <1>7, <2>1, <2>2, <2>4, <3>1, <3>2 DEF BodyInv
  <2> QED
    BY <2>3, <2>4
<1>13. CASE \/ prepareToolCall \/ resolveExecution \/ authorizeToolExecution
            \/ prepareSkippedToolCall \/ dispatchToolCall
            \/ finalizePendingToolResult \/ dispatchToolResult \/ allSettled
            \/ virtualTurn \/ abort \/ UNCHANGED vars
  <2>1. /\ UNCHANGED <<body, outcome, activeTasks, settledTasks>>
        /\ ~ aborted' => ~ aborted
    <3>1. CASE \/ prepareToolCall \/ resolveExecution \/ authorizeToolExecution
               \/ prepareSkippedToolCall \/ dispatchToolCall
      BY <3>1 DEF prepareToolCall, resolveExecution, authorizeToolExecution,
                  prepareSkippedToolCall, dispatchToolCall, schedulerVars
    <3>2. CASE finalizePendingToolResult
      BY <3>2 DEF finalizePendingToolResult, schedulerVars
    <3>3. CASE dispatchToolResult \/ allSettled \/ virtualTurn \/ abort
      BY <3>3 DEF dispatchToolResult, allSettled, virtualTurn, abort, schedulerVars
    <3>4. CASE UNCHANGED vars
      BY <3>4 DEF vars, schedulerVars, batchVars
    <3> QED
      BY <1>13, <3>1, <3>2, <3>3, <3>4
  <2>2. Running' = Running
    BY <2>1 DEF Running
  <2> QED
    BY <1>6, <2>1, <2>2 DEF BodyInv
<1> QED
  BY <1>8, <1>9, <1>10, <1>11, <1>12, <1>13 DEF BatchNext, runToolCallBatch

(* What holds of the scheduler holds of every state of a batch.            *)
LEMMA BatchKeepsSchedulerInv == BatchSpec => []SchedulerInv
BY BatchRefinesScheduler, InvHolds, PTL

(* A batch begins with no body running.                                    *)
LEMMA BodyInit == BatchInit => BodyInv
BY DEF BatchInit, BodyInv, Running

(* Running bodies are kept apart in every state of every batch.            *)
LEMMA BodiesApart == BatchSpec => []BodyInv
<1>1. BatchSpec => []BatchInv
  BY BatchInitOK, BatchInductive, PTL DEF BatchSpec
<1> QED
  BY <1>1, BatchKeepsSchedulerInv, BodyInit, BodyInductive, PTL DEF BatchSpec

(* No tool body changes a file that another running body may touch, for    *)
(* every batch, whether or not the grace timer has given up on some.       *)
THEOREM BodiesNeverClash == BatchSpec => []BodiesProtectFiles
<1>1. SchedulerInv /\ BodyInv => BodiesProtectFiles
  <2> SUFFICES ASSUME SchedulerInv, BodyInv,
                      NEW t \in Running, NEW u \in Running, NEW f \in File,
                      t # u, MayChange(accesses[t], f), MayTouch(accesses[u], f)
               PROVE  FALSE
    BY DEF BodiesProtectFiles
  <2>1. t \in Task /\ u \in Task
    BY DEF Running
  <2>2. \A v \in Task : \A access \in accesses[v] : WellFormed(access)
    BY AccessSetsAssumption DEF SchedulerInv, SchedulerTypeOK
  <2>3. Conflicting(t, u)
    BY <2>1, <2>2, SharedFileConflicts, AccessSetsAssumption DEF Conflicting
  <2> QED
    BY <2>3 DEF BodyInv
<1> QED
  BY <1>1, BatchKeepsSchedulerInv, BodiesApart, PTL

-----------------------------------------------------------------------------
(* Why bodies run in order: what has left the scheduler has settled, what  *)
(* has left the queue has every earlier call it conflicts with out of the  *)
(* scheduler, and a body that has begun belongs to such a call.            *)
LeftHasSettled == (1..added) \ (activeTasks \cup queuedTasks) \subseteq settledTasks

EarlierHaveLeft ==
  \A t \in (1..added) \ queuedTasks : \A u \in 1..(t - 1) :
    Conflicting(t, u) => u \notin activeTasks \cup queuedTasks

Begun == {t \in Task : body[t] # "idle"}

BegunInOrder ==
  /\ Begun \subseteq (1..added) \ queuedTasks
  /\ \A t \in Begun : \A u \in 1..(t - 1) : Conflicting(t, u) => body[u] # "running"

OrderInv == LeftHasSettled /\ EarlierHaveLeft /\ BegunInOrder

(* The scheduler's half is kept by every step of the scheduler.            *)
LEMMA SchedulerInOrder ==
  ASSUME SchedulerInv, SchedulerTypeOK', LeftHasSettled, EarlierHaveLeft,
         [Next]_schedulerVars
  PROVE  LeftHasSettled' /\ EarlierHaveLeft'
<1> USE DEF SchedulerInv
<1>0. added \in Nat
  BY DEF SchedulerTypeOK
<1>1. ASSUME NEW declared \in Declared, add(declared)
      PROVE  LeftHasSettled' /\ EarlierHaveLeft'
  <2>1. PICK new \in Task : new = added + 1
    BY <1>1 DEF add, SchedulerTypeOK
  <2>2. /\ added' = new /\ settledTasks' = settledTasks
        /\ 1..added' = (1..added) \cup {new} /\ new \notin 1..added
    BY <1>0, <1>1, <2>1 DEF add
  <2>3. \A t, u \in 1..added : Conflicting(t, u)' <=> Conflicting(t, u)
    BY <1>1, ConflictsStay DEF Next
  <2>4. /\ accesses'[new] = declared
        /\ \A u \in activeTasks \cup queuedTasks : accesses'[u] = accesses[u]
    BY <1>1, <2>1, AddKeepsAccesses
  <2>5. activeTasks \cup queuedTasks \subseteq 1..added
    BY DEF SchedulerTypeOK
  <2>6. CASE isBlocked(declared, activeTasks, queuedTasks)
    <3>1. activeTasks' = activeTasks /\ queuedTasks' = queuedTasks \cup {new}
      BY <1>1, <2>1, <2>6 DEF add
    <3>2. LeftHasSettled'
      BY <2>2, <3>1 DEF LeftHasSettled
    <3>3. ASSUME NEW t \in (1..added') \ queuedTasks', NEW u \in 1..(t - 1),
                 Conflicting(t, u)'
          PROVE  u \notin activeTasks' \cup queuedTasks'
      <4>1. t \in (1..added) \ queuedTasks /\ u \in 1..added /\ u # new
        <5>1. t \in 1..added /\ t \notin queuedTasks
          BY <2>2, <3>1
        <5> QED BY <1>0, <2>1, <5>1
      <4> QED BY <2>3, <3>1, <3>3, <4>1 DEF EarlierHaveLeft
    <3> QED BY <3>2, <3>3 DEF EarlierHaveLeft
  <2>7. CASE ~ isBlocked(declared, activeTasks, queuedTasks)
    <3>1. activeTasks' = activeTasks \cup {new} /\ queuedTasks' = queuedTasks
      BY <1>1, <2>1, <2>7 DEF add
    <3>2. LeftHasSettled'
      BY <2>2, <3>1 DEF LeftHasSettled
    <3>3. ASSUME NEW t \in (1..added') \ queuedTasks', NEW u \in 1..(t - 1),
                 Conflicting(t, u)'
          PROVE  u \notin activeTasks' \cup queuedTasks'
      <4>1. u \in 1..added /\ u # new
        BY <1>0, <2>1, <2>2
      <4>2. CASE t = new
        BY <2>4, <2>7, <3>1, <3>3, <4>1, <4>2
        DEF Conflicting, isBlocked, conflictsWithAny
      <4>3. CASE t # new
        BY <2>2, <2>3, <3>1, <3>3, <4>1, <4>3 DEF EarlierHaveLeft
      <4> QED BY <4>2, <4>3
    <3> QED BY <3>2, <3>3 DEF EarlierHaveLeft
  <2> QED BY <2>6, <2>7
<1>2. ASSUME NEW t \in Task, settle(t)
      PROVE  LeftHasSettled' /\ EarlierHaveLeft'
  BY <1>2 DEF settle, LeftHasSettled, EarlierHaveLeft, Conflicting
<1>3. ASSUME NEW t \in Task, finish(t)
      PROVE  LeftHasSettled' /\ EarlierHaveLeft'
  <2> DEFINE left    == activeTasks \ {t}
             started == startQueuedTasks(left)
  <2>1. /\ activeTasks' = left \cup started
        /\ queuedTasks' = queuedTasks \ started
        /\ added' = added /\ settledTasks' = settledTasks /\ t \in settledTasks
        /\ \A u, v : Conflicting(u, v)' <=> Conflicting(u, v)
    BY <1>3 DEF finish, Conflicting
  <2> HIDE DEF started
  <2>2. \A u \in started : /\ u \in queuedTasks
                           /\ \A v \in left : ~ Conflicting(u, v)
                           /\ \A v \in queuedTasks : v < u => ~ Conflicting(u, v)
    BY StartedIsFree DEF started
  <2>3. LeftHasSettled'
    BY <2>1, <2>2 DEF LeftHasSettled
  <2>4. ASSUME NEW u \in (1..added) \ queuedTasks', NEW v \in 1..(u - 1),
               Conflicting(u, v)
        PROVE  v \notin activeTasks' \cup queuedTasks'
    <3>1. v < u /\ u \in 1..added
      OBVIOUS
    <3>2. CASE u \in started
      <4>1. v \notin left /\ v \notin queuedTasks
        BY <2>2, <2>4, <3>1, <3>2
      <4> QED BY <2>1, <2>2, <4>1
    <3>3. CASE u \notin started
      <4>1. v \notin activeTasks \cup queuedTasks
        BY <2>1, <2>4, <3>1, <3>3 DEF EarlierHaveLeft
      <4> QED BY <2>1, <2>2, <4>1
    <3> QED BY <3>2, <3>3
  <2> QED BY <2>1, <2>3, <2>4 DEF EarlierHaveLeft
<1>4. CASE UNCHANGED schedulerVars
  BY <1>4 DEF schedulerVars, LeftHasSettled, EarlierHaveLeft, Conflicting
<1> QED
  BY <1>1, <1>2, <1>3, <1>4 DEF Next

(* Which bodies a step begins: those launch() starts, and none otherwise.  *)
LEMMA StepBegins ==
  ASSUME BatchInv, SchedulerInv, SchedulerInv', [BatchNext]_vars
  PROVE  /\ Running' \subseteq Running
              \cup {t \in activeTasks' \ activeTasks : ~ aborted}
         /\ Begun' \subseteq Begun \cup (Running' \ Running)
<1>0. /\ outcome \in [Task -> Outcome \cup {Nothing}]
      /\ body \in [Task -> {"idle", "running", "over"}]
      /\ prepared.result \in Outcome \cup {Nothing}
  BY DEF BatchInv, BatchTypeOK, PreparedToolCallTask
<1>1. ASSUME NEW pending, launch(pending)
      PROVE  /\ Running' \subseteq Running
                  \cup {t \in activeTasks' \ activeTasks : ~ aborted}
             /\ Begun' \subseteq Begun \cup (Running' \ Running)
  BY <1>0, <1>1 DEF launch, Running, Begun
<1>2. CASE addTask
  BY <1>1, <1>2 DEF addTask
<1>3. ASSUME NEW t \in Task, finishTask(t)
      PROVE  /\ Running' \subseteq Running
                  \cup {u \in activeTasks' \ activeTasks : ~ aborted}
             /\ Begun' \subseteq Begun \cup (Running' \ Running)
  BY <1>1, <1>3 DEF finishTask
<1>4. ASSUME NEW t \in Task, executeReturns(t)
      PROVE  Running' \subseteq Running /\ Begun' \subseteq Begun
  BY <1>0, <1>4 DEF executeReturns, Running, Begun
<1>5. CASE body' = body
  BY <1>5 DEF Running, Begun
<1>6. CASE \/ prepareToolCall \/ resolveExecution \/ authorizeToolExecution
           \/ prepareSkippedToolCall \/ dispatchToolCall
           \/ finalizePendingToolResult \/ dispatchToolResult \/ allSettled
           \/ virtualTurn \/ abort \/ UNCHANGED vars
           \/ \E t \in Task : resolveTask(t) \/ graceTimeout(t)
  BY <1>5, <1>6 DEF prepareToolCall, resolveExecution, authorizeToolExecution,
     prepareSkippedToolCall, dispatchToolCall, finalizePendingToolResult,
     dispatchToolResult, allSettled, virtualTurn, abort, resolveTask, graceTimeout,
     vars, batchVars
<1> QED
  BY <1>2, <1>3, <1>4, <1>6 DEF BatchNext, runToolCallBatch

(* A body that begins belongs to a call that has just become active: the   *)
(* bodies of the earlier ones it conflicts with are over, as until the     *)
(* abort a running body belongs to an active call; and it conflicts with   *)
(* no later call that has left the queue.                                  *)
LEMMA OrderInductive ==
  ASSUME BatchInv, SchedulerInv, SchedulerInv', BodyInv, BodyInv', OrderInv,
         [BatchNext]_vars
  PROVE  OrderInv'
<1>1. [Next]_schedulerVars
  BY BatchStepSchedules DEF BatchInv, BatchTypeOK, PreparedToolCallTask
<1>2. LeftHasSettled' /\ EarlierHaveLeft'
  BY <1>1, SchedulerInOrder DEF OrderInv, SchedulerInv
<1>3. /\ Running' \subseteq Running
           \cup {t \in activeTasks' \ activeTasks : ~ aborted}
      /\ Begun' \subseteq Begun \cup (Running' \ Running)
  BY StepBegins
<1>4. /\ added \in Nat /\ added' \in Nat /\ added <= added'
      /\ (1..added) \ queuedTasks \subseteq (1..added') \ queuedTasks'
  <2>1. added \in Nat /\ added' \in Nat
    BY DEF SchedulerInv, SchedulerTypeOK
  <2>2. ASSUME NEW declared \in Declared, add(declared)
        PROVE  /\ added' = added + 1
               /\ queuedTasks' \subseteq queuedTasks \cup {added + 1}
    BY <2>2 DEF add
  <2>3. \/ added' = added + 1 /\ queuedTasks' \subseteq queuedTasks \cup {added + 1}
        \/ added' = added /\ queuedTasks' \subseteq queuedTasks
    BY <1>1, <2>2 DEF Next, settle, finish, schedulerVars
  <2> QED
    BY <2>1, <2>3
<1>5. /\ activeTasks' \subseteq (1..added') \ queuedTasks'
      /\ (1..added) \ queuedTasks \subseteq 1..added
  BY DEF SchedulerInv, SchedulerTypeOK
<1>6. Begun' \subseteq (1..added') \ queuedTasks'
  BY <1>3, <1>4, <1>5 DEF OrderInv, BegunInOrder
<1>7. ASSUME NEW t \in Begun', NEW u \in 1..(t - 1), Conflicting(t, u)'
      PROVE  body'[u] # "running"
  <2>1. t \in (1..added') \ queuedTasks'
    BY <1>6
  <2>2. u \in Task /\ u \in 1..added'
    BY <1>4, <2>1 DEF SchedulerInv, SchedulerTypeOK
  <2>3. u \notin activeTasks' \cup queuedTasks'
    BY <1>2, <1>7, <2>1 DEF EarlierHaveLeft
  <2>4. SUFFICES ASSUME u \in Running' PROVE FALSE
    BY <2>2 DEF Running
  <2>5. u \in Running
    BY <1>3, <2>3, <2>4
  <2>6. CASE t \in Begun
    <3>1. t \in 1..added /\ u \in 1..added
      BY <1>4, <2>6 DEF OrderInv, BegunInOrder
    <3>2. Conflicting(t, u)
      BY <1>1, <1>7, <3>1, ConflictsStay DEF SchedulerInv
    <3> QED
      BY <2>5, <2>6, <3>2 DEF OrderInv, BegunInOrder, Running
  <2>7. CASE t \in Running' \ Running
    <3>1. t # u
      BY <2>5, <2>7
    <3> QED
      BY <1>7, <2>4, <2>7, <3>1 DEF BodyInv
  <2> QED
    BY <1>3, <2>6, <2>7
<1> QED
  BY <1>2, <1>6, <1>7 DEF OrderInv, BegunInOrder, Begun

(* A batch begins with nothing added.                                      *)
LEMMA OrderInit == BatchInit => OrderInv
BY DEF BatchInit, SchedulerInit, OrderInv, LeftHasSettled, EarlierHaveLeft,
   BegunInOrder, Begun

(* The effects of the calls of a response on a file come in provider       *)
(* order, for every batch, though bodies be given up on.                   *)
THEOREM BodiesTakeTurns == BatchSpec => []BodiesRunInOrder
<1>1. SchedulerInv /\ OrderInv => BodiesRunInOrder
  <2> SUFFICES ASSUME SchedulerInv, OrderInv,
                      NEW t \in Task, NEW f \in File, NEW u \in 1..(t - 1),
                      body[t] # "idle", Share(t, u, f)
               PROVE  u \in settledTasks /\ body[u] # "running"
    BY DEF BodiesRunInOrder
  <2>1. t \in Begun /\ t \in (1..added) \ queuedTasks
    BY DEF OrderInv, BegunInOrder, Begun
  <2>2. u \in Task /\ u \in 1..added
    BY <2>1 DEF SchedulerInv, SchedulerTypeOK
  <2>3. \A v \in Task : \A access \in accesses[v] : WellFormed(access)
    BY AccessSetsAssumption DEF SchedulerInv, SchedulerTypeOK
  <2>4. f \in Seq(Segment)
    BY AccessSetsAssumption
  <2>5. conflict(accesses[t], accesses[u]) \/ conflict(accesses[u], accesses[t])
    BY <2>2, <2>3, <2>4, SharedFileConflicts DEF Share
  <2>6. Conflicting(t, u)
    BY <2>5, ConflictSymmetric DEF Conflicting
  <2>7. u \notin activeTasks \cup queuedTasks
    BY <2>1, <2>6 DEF OrderInv, EarlierHaveLeft
  <2> QED
    BY <2>1, <2>2, <2>6, <2>7 DEF OrderInv, LeftHasSettled, BegunInOrder
<1>2. BatchSpec => []BatchInv
  BY BatchInitOK, BatchInductive, PTL DEF BatchSpec
<1>3. BatchInv /\ SchedulerInv /\ SchedulerInv' /\ BodyInv /\ BodyInv' /\ OrderInv
        /\ [BatchNext]_vars => OrderInv'
  BY OrderInductive
<1> QED
  BY <1>1, <1>2, <1>3, BatchKeepsSchedulerInv, BodiesApart, OrderInit, PTL DEF BatchSpec

(* However a batch ends, all its calls have settled; and unless the turn   *)
(* was aborted no tool body is still running.                              *)
THEOREM BatchLeavesNothing == BatchSpec => []NoDetachedWork
<1>1. BatchInv /\ BodyInv => NoDetachedWork
  BY DEF BatchInv, PhaseOK, BodyInv, NoDetachedWork, Over
<1>2. BatchSpec => []BatchInv
  BY BatchInitOK, BatchInductive, PTL DEF BatchSpec
<1> QED
  BY <1>1, <1>2, BodiesApart, PTL

-----------------------------------------------------------------------------
(* What a batch records: calls and results in their order, each result     *)
(* after its call, all of them when the batch returns; a duplicate with    *)
(* the result of its original; and a stop that some result asks for.       *)

Ended == {"unwind", "returned", "threw"}

(* The calls recorded so far are the first ones of the response.           *)
CallsRecorded ==
  IF pc = "add" THEN added + 1
  ELSE IF pc = "virtualCall" THEN drained
  ELSE IF pc = "virtualResult" THEN drained + 1
  ELSE added

IsCall(e)   == e.type = "call"
IsResult(e) == e.type = "result"

Ordered(s) ==
  \A i, j \in 1..Len(s) : i < j /\ s[i].type = s[j].type => s[i].id < s[j].id

CallFirst(s) ==
  \A j \in 1..Len(s) : IsResult(s[j]) => \E i \in 1..(j - 1) : s[i] = Call(s[j].id)

Within(s, calls, results) ==
  \A i \in 1..Len(s) : /\ IsCall(s[i]) => s[i].id <= calls
                       /\ IsResult(s[i]) => s[i].id <= results

HasCalls(s, n)   == \A t \in 1..n : \E i \in 1..Len(s) : s[i] = Call(t)
HasResults(s, n) == \A t \in 1..n : \E i \in 1..Len(s) : IsResult(s[i]) /\ s[i].id = t

PhaseOfRecords ==
  /\ pc \in {"drain", "append", "settle"} => added = NumTasks
  /\ pc \in {"settle", "returned"} => drained = NumTasks

RecordInv ==
  /\ Ordered(transcript) /\ CallFirst(transcript)
  /\ HasResults(transcript, drained)
  /\ pc \notin Ended => /\ Within(transcript, CallsRecorded, drained)
                        /\ HasCalls(transcript, CallsRecorded)
  /\ PhaseOfRecords

(* Nothing recorded or about to be asks for the turn to stop.              *)
Quiet ==
  /\ prepared.result # "skipped" /\ pc # "skip"
  /\ \A t \in Task : outcome[t] # "skipped"
  /\ \A k \in Key : deferred[k] # "skipped"
  /\ finalized \notin {"stop", "skipped"}
  /\ \A i \in 1..Len(transcript) : transcript[i].result \notin {"stop", "skipped"}

(* The batch is quiet until it is told to stop, and the stop is kept.      *)
StopInv ==
  /\ stopTurn \/ Quiet
  /\ pc \in {"virtualCall", "virtualResult"} => ~ stopTurn

(* Only the calls prepared so far have a key.                              *)
KeysSeen ==
  \A t \in Task : keyOf[t] # NoKey =>
    \/ t <= added
    \/ t = current /\ pc \notin {"prepare", "skip", "virtualCall", "virtualResult"}

(* The placeholder is where a duplicate is, and is not published.          *)
Placeholders ==
  /\ prepared.result = "dup" =>
       pc \notin {"prepare", "resolve", "authorize", "skip"} /\ IsDup(current)
  /\ \A t \in Task : outcome[t] = "dup" => IsDup(t)
  /\ \A k \in Key : deferred[k] # "dup"
  /\ finalized # "dup"

(* A duplicate that has been answered has the answer its original          *)
(* published, or the error of a finalization that failed.                  *)
SharesOf(t, r) == IsDup(t) => r \in {deferred[keyOf[t]], "failed"}

AnsweredAt(i) ==
  /\ transcript[i].result # "dup"
  /\ IsResult(transcript[i]) => SharesOf(transcript[i].id, transcript[i].result)

Answered ==
  /\ pc = "append" => SharesOf(draining, finalized)
  /\ \A i \in 1..Len(transcript) : AnsweredAt(i)

DupInv == KeysSeen /\ Placeholders /\ Answered

-----------------------------------------------------------------------------
LEMMA AppendEvent ==
  ASSUME NEW s \in Seq(Event), NEW e \in Event
  PROVE  /\ Append(s, e) \in Seq(Event) /\ Len(Append(s, e)) = Len(s) + 1
         /\ \A i \in 1..Len(s) : Append(s, e)[i] = s[i]
         /\ Append(s, e)[Len(s) + 1] = e
         /\ Len(s) \in Nat /\ 1..(Len(s) + 1) = 1..Len(s) \cup {Len(s) + 1}
<1>1. Len(s) \in Nat OBVIOUS
<1>2. 1..(Len(s) + 1) = 1..Len(s) \cup {Len(s) + 1} BY <1>1
<1> QED BY <1>1, <1>2

(* A call is recorded that comes after all others.                         *)
LEMMA RecordCall ==
  ASSUME NEW s \in Seq(Event), NEW n \in Nat, NEW m \in Nat, n + 1 \in Task,
         Ordered(s), CallFirst(s), Within(s, n, m), HasCalls(s, n), HasResults(s, m)
  PROVE  LET r == Append(s, Call(n + 1))
         IN  /\ Ordered(r) /\ CallFirst(r) /\ Within(r, n + 1, m)
             /\ HasCalls(r, n + 1) /\ HasResults(r, m)
<1> DEFINE e == Call(n + 1)
           r == Append(s, e)
           l == Len(s)
<1>1. e \in Event /\ IsCall(e) /\ ~ IsResult(e) /\ e.id = n + 1 /\ e.type = "call"
  BY DEF Call, Event, IsCall, IsResult
<1>2. /\ Len(r) = l + 1 /\ \A i \in 1..l : r[i] = s[i]
      /\ r[l + 1] = e /\ l \in Nat
  BY <1>1, AppendEvent
<1>3. \A i \in 1..(l + 1) : i \in 1..l \/ i = l + 1 BY <1>2
<1>4. \A i \in 1..l : s[i] \in Event /\ s[i].id \in Nat
  <2>1. ASSUME NEW i \in 1..l PROVE s[i] \in Event /\ s[i].id \in Nat
    <3>1. s[i] \in Event OBVIOUS
    <3>2. s[i].id \in Task BY <3>1 DEF Event
    <3> QED BY <3>1, <3>2
  <2> QED BY <2>1
<1>5. e = Call(n + 1) OBVIOUS
<1> HIDE DEF e, r
<1>6. Ordered(r)
  <2>1. ASSUME NEW i \in 1..(l + 1), NEW j \in 1..(l + 1), i < j, r[i].type = r[j].type
        PROVE  r[i].id < r[j].id
    <3>1. i \in 1..l BY <1>2, <2>1
    <3>2. CASE j \in 1..l BY <1>2, <2>1, <3>1, <3>2 DEF Ordered
    <3>3. CASE j = l + 1
      <4>1. IsCall(s[i]) BY <1>1, <1>2, <2>1, <3>1, <3>3 DEF IsCall
      <4>2. s[i].id <= n BY <3>1, <4>1 DEF Within
      <4> QED BY <1>1, <1>2, <1>4, <3>1, <3>3, <4>2
    <3> QED BY <1>3, <3>2, <3>3
  <2> QED BY <1>2, <2>1 DEF Ordered
<1>7. CallFirst(r)
  <2>1. ASSUME NEW j \in 1..(l + 1), IsResult(r[j])
        PROVE  \E i \in 1..(j - 1) : r[i] = Call(r[j].id)
    <3>1. j \in 1..l /\ r[j] = s[j] BY <1>1, <1>2, <1>3, <2>1
    <3>2. PICK i \in 1..(j - 1) : s[i] = Call(s[j].id) BY <2>1, <3>1 DEF CallFirst
    <3>3. i \in 1..l BY <1>2, <3>1
    <3> QED BY <1>2, <3>1, <3>2, <3>3
  <2> QED BY <1>2, <2>1 DEF CallFirst
<1>8. Within(r, n + 1, m)
  <2>1. ASSUME NEW i \in 1..(l + 1)
        PROVE  (IsCall(r[i]) => r[i].id <= n + 1) /\ (IsResult(r[i]) => r[i].id <= m)
    <3>1. CASE i = l + 1 BY <1>1, <1>2, <3>1
    <3>2. CASE i \in 1..l BY <1>2, <1>4, <3>2 DEF Within
    <3> QED BY <1>3, <3>1, <3>2
  <2> QED BY <1>2, <2>1 DEF Within
<1>9. HasCalls(r, n + 1)
  <2>1. ASSUME NEW t \in 1..(n + 1) PROVE \E i \in 1..(l + 1) : r[i] = Call(t)
    <3>1. CASE t = n + 1
      <4>1. l + 1 \in 1..(l + 1) BY <1>2
      <4> QED BY <1>2, <1>5, <3>1, <4>1
    <3>2. CASE t \in 1..n
      <4>1. PICK i \in 1..l : s[i] = Call(t) BY <3>2 DEF HasCalls
      <4>2. i \in 1..(l + 1) BY <1>2
      <4> QED BY <1>2, <4>1, <4>2
    <3> QED BY <3>1, <3>2
  <2> QED BY <1>2, <2>1 DEF HasCalls
<1>10. HasResults(r, m)
  <2>1. ASSUME NEW t \in 1..m PROVE \E i \in 1..(l + 1) : IsResult(r[i]) /\ r[i].id = t
    <3>1. PICK i \in 1..l : IsResult(s[i]) /\ s[i].id = t BY DEF HasResults
    <3>2. i \in 1..(l + 1) BY <1>2
    <3> QED BY <1>2, <3>1, <3>2
  <2> QED BY <1>2, <2>1 DEF HasResults
<1> QED BY <1>6, <1>7, <1>8, <1>9, <1>10 DEF r, e

(* A result is recorded that comes after all others, its call being there. *)
LEMMA RecordResult ==
  ASSUME NEW s \in Seq(Event), NEW n \in Nat, NEW m \in Nat, NEW x \in Outcome \cup {Nothing},
         m + 1 \in Task, m + 1 <= n,
         Ordered(s), CallFirst(s), Within(s, n, m), HasCalls(s, n), HasResults(s, m)
  PROVE  LET r == Append(s, Result(m + 1, x))
         IN  /\ Ordered(r) /\ CallFirst(r) /\ Within(r, n, m + 1)
             /\ HasCalls(r, n) /\ HasResults(r, m + 1)
<1> DEFINE e == Result(m + 1, x)
           r == Append(s, e)
           l == Len(s)
<1>1. e \in Event /\ ~ IsCall(e) /\ IsResult(e) /\ e.id = m + 1 /\ e.type = "result"
  BY DEF Result, Event, IsCall, IsResult
<1>2. /\ Len(r) = l + 1 /\ \A i \in 1..l : r[i] = s[i]
      /\ r[l + 1] = e /\ l \in Nat
  BY <1>1, AppendEvent
<1>3. \A i \in 1..(l + 1) : i \in 1..l \/ i = l + 1 BY <1>2
<1>4. \A i \in 1..l : s[i] \in Event /\ s[i].id \in Nat
  <2>1. ASSUME NEW i \in 1..l PROVE s[i] \in Event /\ s[i].id \in Nat
    <3>1. s[i] \in Event OBVIOUS
    <3>2. s[i].id \in Task BY <3>1 DEF Event
    <3> QED BY <3>1, <3>2
  <2> QED BY <2>1
<1> HIDE DEF e, r
<1>6. Ordered(r)
  <2>1. ASSUME NEW i \in 1..(l + 1), NEW j \in 1..(l + 1), i < j, r[i].type = r[j].type
        PROVE  r[i].id < r[j].id
    <3>1. i \in 1..l BY <1>2, <2>1
    <3>2. CASE j \in 1..l BY <1>2, <2>1, <3>1, <3>2 DEF Ordered
    <3>3. CASE j = l + 1
      <4>1. IsResult(s[i]) BY <1>1, <1>2, <2>1, <3>1, <3>3 DEF IsResult
      <4>2. s[i].id <= m BY <3>1, <4>1 DEF Within
      <4> QED BY <1>1, <1>2, <1>4, <3>1, <3>3, <4>2
    <3> QED BY <1>3, <3>2, <3>3
  <2> QED BY <1>2, <2>1 DEF Ordered
<1>7. CallFirst(r)
  <2>1. ASSUME NEW j \in 1..(l + 1), IsResult(r[j])
        PROVE  \E i \in 1..(j - 1) : r[i] = Call(r[j].id)
    <3>1. CASE j \in 1..l
      <4>1. r[j] = s[j] BY <1>2, <3>1
      <4>2. PICK i \in 1..(j - 1) : s[i] = Call(s[j].id) BY <2>1, <3>1, <4>1 DEF CallFirst
      <4>3. i \in 1..l BY <1>2, <3>1
      <4> QED BY <1>2, <4>1, <4>2, <4>3
    <3>2. CASE j = l + 1
      <4>1. m + 1 \in 1..n OBVIOUS
      <4>2. PICK i \in 1..l : s[i] = Call(m + 1) BY <4>1 DEF HasCalls
      <4>3. i \in 1..(j - 1) BY <1>2, <3>2
      <4> QED BY <1>1, <1>2, <3>2, <4>2, <4>3
    <3> QED BY <1>3, <3>1, <3>2
  <2> QED BY <1>2, <2>1 DEF CallFirst
<1>8. Within(r, n, m + 1)
  <2>1. ASSUME NEW i \in 1..(l + 1)
        PROVE  (IsCall(r[i]) => r[i].id <= n) /\ (IsResult(r[i]) => r[i].id <= m + 1)
    <3>1. CASE i = l + 1 BY <1>1, <1>2, <3>1
    <3>2. CASE i \in 1..l BY <1>2, <1>4, <3>2 DEF Within
    <3> QED BY <1>3, <3>1, <3>2
  <2> QED BY <1>2, <2>1 DEF Within
<1>9. HasCalls(r, n)
  <2>1. ASSUME NEW t \in 1..n PROVE \E i \in 1..(l + 1) : r[i] = Call(t)
    <3>1. PICK i \in 1..l : s[i] = Call(t) BY DEF HasCalls
    <3>2. i \in 1..(l + 1) BY <1>2
    <3> QED BY <1>2, <3>1, <3>2
  <2> QED BY <1>2, <2>1 DEF HasCalls
<1>10. HasResults(r, m + 1)
  <2>1. ASSUME NEW t \in 1..(m + 1) PROVE \E i \in 1..(l + 1) : IsResult(r[i]) /\ r[i].id = t
    <3>1. CASE t = m + 1
      <4>1. l + 1 \in 1..(l + 1) BY <1>2
      <4> QED BY <1>1, <1>2, <3>1, <4>1
    <3>2. CASE t \in 1..m
      <4>1. PICK i \in 1..l : IsResult(s[i]) /\ s[i].id = t BY <3>2 DEF HasResults
      <4>2. i \in 1..(l + 1) BY <1>2
      <4> QED BY <1>2, <4>1, <4>2
    <3> QED BY <3>1, <3>2
  <2> QED BY <1>2, <2>1 DEF HasResults
<1> QED BY <1>6, <1>7, <1>8, <1>9, <1>10 DEF r, e

-----------------------------------------------------------------------------
(* A step that records nothing keeps what is recorded in order.            *)
LEMMA RecordsStay ==
  ASSUME RecordInv, transcript' = transcript, drained' = drained, PhaseOfRecords',
         pc' \in Ended \/ (pc \notin Ended /\ CallsRecorded' = CallsRecorded)
  PROVE  RecordInv'
<1>1. Ordered(transcript') /\ CallFirst(transcript') /\ HasResults(transcript', drained')
  BY DEF RecordInv
<1>2. pc' \notin Ended => /\ Within(transcript', CallsRecorded', drained')
                          /\ HasCalls(transcript', CallsRecorded')
  BY DEF RecordInv
<1> QED BY <1>1, <1>2 DEF RecordInv

LEMMA RecordInit == BatchInit => RecordInv
<1> SUFFICES ASSUME BatchInit PROVE RecordInv OBVIOUS
<1>1. transcript = <<>> /\ drained = 0 /\ added = 0
  BY DEF BatchInit, SchedulerInit
<1>2. Len(transcript) = 0 BY <1>1
<1>3. 1..Len(transcript) = {} BY <1>2
<1>4. Ordered(transcript) /\ CallFirst(transcript) /\ HasResults(transcript, 0)
  BY <1>3 DEF Ordered, CallFirst, HasResults
<1>5. pc \notin Ended => CallsRecorded = 0
  BY <1>1 DEF BatchInit, CallsRecorded, Ended
<1>6. Within(transcript, 0, 0) /\ HasCalls(transcript, 0)
  BY <1>3 DEF Within, HasCalls
<1>7. PhaseOfRecords
  <2>1. NumTasks = 0 => pc = "returned" BY DEF BatchInit
  <2>2. NumTasks # 0 => pc \in {"virtualCall", "prepare"} BY DEF BatchInit
  <2> QED BY <1>1, <2>1, <2>2 DEF PhaseOfRecords
<1> QED BY <1>1, <1>4, <1>5, <1>6, <1>7 DEF RecordInv

LEMMA RecordInductive == BatchInv /\ RecordInv /\ [BatchNext]_vars => RecordInv'
<1> SUFFICES ASSUME BatchInv, RecordInv, [BatchNext]_vars PROVE RecordInv'
  OBVIOUS
<1>0. /\ added \in Nat /\ drained \in Nat /\ added \in 0..NumTasks /\ drained \in 0..NumTasks
      /\ transcript \in Seq(Event) /\ finalized \in Outcome \cup {Nothing}
  BY DEF BatchInv, BatchTypeOK, SchedulerTypeOK
<1>1. CASE dispatchToolCall
  <2>1. /\ pc = "record" /\ drained = 0 /\ drained' = drained /\ added' = added
        /\ added < NumTasks /\ current = added + 1
    BY <1>1 DEF dispatchToolCall, BatchInv, PhaseOK, Preparing, current, schedulerVars
  <2>2. CASE pc' = "unwind" /\ transcript' = transcript
    BY <2>1, <2>2, RecordsStay DEF PhaseOfRecords, Ended
  <2>3. CASE pc' = "add" /\ transcript' = Append(transcript, Call(current))
    <3>1. CallsRecorded = added /\ pc \notin Ended BY <2>1 DEF CallsRecorded, Ended
    <3>2. CallsRecorded' = added + 1 BY <2>1, <2>3 DEF CallsRecorded
    <3>3. /\ Ordered(transcript) /\ CallFirst(transcript)
          /\ Within(transcript, added, drained) /\ HasCalls(transcript, added)
          /\ HasResults(transcript, drained)
      BY <3>1 DEF RecordInv
    <3>4. added + 1 \in Task BY <1>0, <2>1
    <3>5. /\ Ordered(transcript') /\ CallFirst(transcript')
          /\ Within(transcript', added + 1, drained)
          /\ HasCalls(transcript', added + 1) /\ HasResults(transcript', drained)
      BY <1>0, <2>1, <2>3, <3>3, <3>4, RecordCall
    <3>6. PhaseOfRecords' BY <2>3 DEF PhaseOfRecords
    <3> QED BY <2>1, <3>2, <3>5, <3>6 DEF RecordInv
  <2> QED BY <1>1, <2>2, <2>3 DEF dispatchToolCall
<1>2. CASE dispatchToolResult
  <2>1. /\ pc = "append" /\ added' = added /\ added = NumTasks
        /\ drained < added /\ draining = drained + 1
    BY <1>2 DEF dispatchToolResult, BatchInv, PhaseOK, RecordInv, PhaseOfRecords, draining,
                schedulerVars
  <2>2. CASE pc' = "unwind" /\ transcript' = transcript /\ drained' = drained
    BY <2>1, <2>2, RecordsStay DEF PhaseOfRecords, Ended
  <2>3. CASE /\ transcript' = Append(transcript, Result(draining, finalized))
             /\ drained' = draining
             /\ pc' = IF draining = added THEN "settle" ELSE "drain"
    <3>1. CallsRecorded = added /\ pc \notin Ended BY <2>1 DEF CallsRecorded, Ended
    <3>2. CallsRecorded' = added BY <2>1, <2>3 DEF CallsRecorded
    <3>3. /\ Ordered(transcript) /\ CallFirst(transcript)
          /\ Within(transcript, added, drained) /\ HasCalls(transcript, added)
          /\ HasResults(transcript, drained)
      BY <3>1 DEF RecordInv
    <3>4. drained + 1 \in Task /\ drained + 1 <= added BY <1>0, <2>1
    <3>5. /\ Ordered(transcript') /\ CallFirst(transcript')
          /\ Within(transcript', added, drained + 1)
          /\ HasCalls(transcript', added) /\ HasResults(transcript', drained + 1)
      BY <1>0, <2>1, <2>3, <3>3, <3>4, RecordResult
    <3>6. PhaseOfRecords' BY <2>1, <2>3 DEF PhaseOfRecords
    <3> QED BY <2>1, <2>3, <3>2, <3>5, <3>6 DEF RecordInv
  <2> QED BY <1>2, <2>2, <2>3 DEF dispatchToolResult
<1>3. CASE virtualTurn
  <2>1. /\ pc \in {"virtualCall", "virtualResult"} /\ added' = added
        /\ added = 0 /\ drained < NumTasks /\ draining = drained + 1
    BY <1>3 DEF virtualTurn, BatchInv, PhaseOK, draining, schedulerVars
  <2>2. drained + 1 \in Task BY <1>0, <2>1
  <2>3. CASE /\ pc = "virtualCall" /\ pc' = "virtualResult" /\ drained' = drained
             /\ transcript' = Append(transcript, Call(draining))
    <3>1. CallsRecorded = drained /\ pc \notin Ended BY <2>3 DEF CallsRecorded, Ended
    <3>2. CallsRecorded' = drained + 1 BY <2>3 DEF CallsRecorded
    <3>3. /\ Ordered(transcript) /\ CallFirst(transcript)
          /\ Within(transcript, drained, drained) /\ HasCalls(transcript, drained)
          /\ HasResults(transcript, drained)
      BY <3>1 DEF RecordInv
    <3>5. /\ Ordered(transcript') /\ CallFirst(transcript')
          /\ Within(transcript', drained + 1, drained)
          /\ HasCalls(transcript', drained + 1) /\ HasResults(transcript', drained)
      BY <1>0, <2>1, <2>2, <2>3, <3>3, RecordCall
    <3>6. PhaseOfRecords' BY <2>3 DEF PhaseOfRecords
    <3> QED BY <2>3, <3>2, <3>5, <3>6 DEF RecordInv
  <2>4. CASE /\ pc = "virtualResult" /\ drained' = draining
             /\ transcript' = Append(transcript, Result(draining, "done"))
             /\ pc' = IF draining = NumTasks THEN "returned" ELSE "virtualCall"
    <3>1. CallsRecorded = drained + 1 /\ pc \notin Ended BY <2>4 DEF CallsRecorded, Ended
    <3>2. pc' \notin Ended => CallsRecorded' = drained + 1
      BY <2>1, <2>4 DEF CallsRecorded, Ended
    <3>3. /\ Ordered(transcript) /\ CallFirst(transcript)
          /\ Within(transcript, drained + 1, drained) /\ HasCalls(transcript, drained + 1)
          /\ HasResults(transcript, drained)
      BY <3>1 DEF RecordInv
    <3>4. "done" \in Outcome \cup {Nothing} BY DEF Outcome
    <3>5. /\ Ordered(transcript') /\ CallFirst(transcript')
          /\ Within(transcript', drained + 1, drained + 1)
          /\ HasCalls(transcript', drained + 1) /\ HasResults(transcript', drained + 1)
      <4>1. drained + 1 \in Nat /\ drained + 1 <= drained + 1 BY <1>0
      <4> QED BY <1>0, <2>1, <2>2, <2>4, <3>3, <3>4, <4>1, RecordResult
    <3>6. PhaseOfRecords' BY <2>1, <2>4 DEF PhaseOfRecords
    <3> QED BY <2>1, <2>4, <3>2, <3>5, <3>6 DEF RecordInv
  <2>5. CASE pc' = "threw" /\ transcript' = transcript /\ drained' = drained
    BY <2>1, <2>5, RecordsStay DEF PhaseOfRecords, Ended
  <2> QED BY <1>3, <2>3, <2>4, <2>5 DEF virtualTurn
<1>4. CASE addTask
  <2>1. /\ pc = "add" /\ added' = added + 1 /\ added < NumTasks /\ drained = 0
        /\ transcript' = transcript /\ drained' = drained
    BY <1>4 DEF addTask, add, BatchInv, PhaseOK, Preparing
  <2>2. /\ pc' = "drain" => added' = NumTasks
        /\ pc' \in {"drain", "skip", "prepare"}
    BY <1>4, <2>1 DEF addTask, current
  <2>3. CallsRecorded' = CallsRecorded /\ pc \notin Ended
    BY <2>1, <2>2 DEF CallsRecorded, Ended
  <2>4. PhaseOfRecords' BY <2>2 DEF PhaseOfRecords
  <2> QED BY <2>1, <2>3, <2>4, RecordsStay
<1>5. CASE \/ prepareToolCall \/ resolveExecution \/ authorizeToolExecution
           \/ prepareSkippedToolCall \/ finalizePendingToolResult
  <2>1. /\ transcript' = transcript /\ drained' = drained /\ added' = added
        /\ \/ /\ pc \in {"prepare", "resolve", "authorize", "skip"}
              /\ pc' \in {"record", "resolve", "authorize"}
           \/ pc = "drain" /\ pc' = "append"
    BY <1>5 DEF prepareToolCall, resolveExecution, authorizeToolExecution,
                prepareSkippedToolCall, finalizePendingToolResult, schedulerVars
  <2>2. CallsRecorded' = CallsRecorded /\ pc \notin Ended BY <2>1 DEF CallsRecorded, Ended
  <2>3. PhaseOfRecords' BY <2>1 DEF PhaseOfRecords, RecordInv
  <2> QED BY <2>1, <2>2, <2>3, RecordsStay
<1>6. CASE allSettled
  <2>1. /\ transcript' = transcript /\ drained' = drained /\ added' = added
        /\ pc \in {"settle", "unwind"}
        /\ pc' = IF pc = "settle" THEN "returned" ELSE "threw"
    BY <1>6 DEF allSettled, schedulerVars
  <2>2. PhaseOfRecords' BY <2>1 DEF PhaseOfRecords, RecordInv
  <2>3. pc' \in Ended BY <2>1 DEF Ended
  <2> QED BY <2>1, <2>2, <2>3, RecordsStay
<1>7. CASE \/ abort \/ UNCHANGED vars
           \/ \E t \in Task : \/ resolveTask(t) \/ executeReturns(t)
                              \/ graceTimeout(t) \/ finishTask(t)
  <2>1. transcript' = transcript /\ drained' = drained /\ added' = added /\ pc' = pc
    BY <1>7 DEF abort, vars, batchVars, schedulerVars, resolveTask, executeReturns,
                graceTimeout, finishTask, settle, finish
  <2>2. CallsRecorded' = CallsRecorded BY <2>1 DEF CallsRecorded
  <2>3. PhaseOfRecords' BY <2>1 DEF PhaseOfRecords, RecordInv
  <2> QED BY <2>1, <2>2, <2>3, RecordsStay
<1> QED
  BY <1>1, <1>2, <1>3, <1>4, <1>5, <1>6, <1>7 DEF BatchNext, runToolCallBatch

(* Calls and results are recorded in provider order, each result after its *)
(* call, and a batch that returns has recorded all of both.                *)
THEOREM RecordsArePaired == BatchSpec => []PairedTranscript
<1>1. BatchInv /\ RecordInv => PairedTranscript
  <2> SUFFICES ASSUME BatchInv, RecordInv PROVE PairedTranscript OBVIOUS
  <2>1. DOMAIN transcript = 1..Len(transcript)
    BY DEF BatchInv, BatchTypeOK
  <2>2. pc = "returned" => HasResults(transcript, NumTasks)
    BY DEF RecordInv, PhaseOfRecords
  <2>3. \A i, j \in DOMAIN transcript :
          i < j /\ transcript[i].type = transcript[j].type
            => transcript[i].id < transcript[j].id
    BY <2>1 DEF RecordInv, Ordered
  <2>4. \A j \in DOMAIN transcript :
          transcript[j].type = "result"
            => \E i \in 1..(j - 1) : transcript[i] = Call(transcript[j].id)
    BY <2>1 DEF RecordInv, CallFirst, IsResult
  <2>5. pc = "returned" => \A t \in Task : \E j \in DOMAIN transcript :
          transcript[j].type = "result" /\ transcript[j].id = t
    BY <2>1, <2>2 DEF HasResults, IsResult
  <2> QED BY <2>3, <2>4, <2>5 DEF PairedTranscript
<1> QED
  BY <1>1, BatchInitOK, BatchInductive, RecordInit, RecordInductive, PTL DEF BatchSpec

-----------------------------------------------------------------------------
(* What a scheduler step of a call does to the results and what launch()   *)
(* starts: each result stays, or is the answer of a body, or an abort.     *)
LEMMA LaunchOutcome ==
  ASSUME NEW pending, launch(pending), NEW t \in Task
  PROVE  outcome'[t] \in {pending[t], "aborted"}
BY DEF launch

(* Nothing is in the transcript that was not there or has just been put.   *)
LEMMA AppendedResult ==
  ASSUME transcript \in Seq(Event), NEW e \in Event,
         transcript' = Append(transcript, e), NEW i \in 1..Len(transcript')
  PROVE  \/ i \in 1..Len(transcript) /\ transcript'[i] = transcript[i]
         \/ i = Len(transcript) + 1 /\ transcript'[i] = e
BY AppendEvent

(* The results of the calls that are not being prepared or drained.        *)
LEMMA CallSteps ==
  ASSUME BatchInv, NEW t \in Task,
         resolveTask(t) \/ executeReturns(t) \/ graceTimeout(t) \/ finishTask(t)
  PROVE  /\ UNCHANGED <<mixed, aborted, pc, prepared, keyOf, deferred, transcript,
                        drained, finalized, stopTurn, added>>
         /\ \A u \in Task : outcome'[u] \in {outcome[u], "done", "stop", "aborted"}
<1>1. /\ UNCHANGED <<mixed, aborted, pc, prepared, keyOf, deferred, transcript,
                     drained, finalized, stopTurn, added>>
  BY DEF resolveTask, executeReturns, graceTimeout, finishTask, batchVars, schedulerVars,
         settle, finish
<1>2. outcome \in [Task -> Outcome \cup {Nothing}] BY DEF BatchInv, BatchTypeOK
<1>3. CASE resolveTask(t) BY <1>1, <1>3 DEF resolveTask, batchVars
<1>4. CASE executeReturns(t) BY <1>1, <1>2, <1>4 DEF executeReturns
<1>5. CASE graceTimeout(t) BY <1>1, <1>2, <1>5 DEF graceTimeout
<1>6. CASE finishTask(t) BY <1>1, <1>6, LaunchOutcome DEF finishTask
<1> QED BY <1>1, <1>3, <1>4, <1>5, <1>6

LEMMA AddOutcome ==
  ASSUME BatchInv, addTask
  PROVE  /\ current \in Task
         /\ \A t \in Task : outcome'[t] \in {outcome[t], "aborted"} \/ t = current
         /\ outcome'[current] \in {prepared.result, "aborted"}
<1>1. outcome \in [Task -> Outcome \cup {Nothing}] BY DEF BatchInv, BatchTypeOK
<1>2. current \in Task
  BY DEF addTask, add, BatchInv, BatchTypeOK, SchedulerTypeOK, current
<1>3. \A t \in Task : outcome'[t] \in {[outcome EXCEPT ![current] = prepared.result][t], "aborted"}
  BY LaunchOutcome DEF addTask
<1> QED BY <1>1, <1>2, <1>3

-----------------------------------------------------------------------------
LEMMA StopInit == BatchInit => StopInv
<1> SUFFICES ASSUME BatchInit PROVE StopInv OBVIOUS
<1>1. Len(transcript) = 0 BY DEF BatchInit
<1>2. 1..Len(transcript) = {} BY <1>1
<1>3. Quiet
  BY <1>2 DEF Quiet, BatchInit, NoTask, Resolved, Nothing
<1> QED BY <1>3 DEF Quiet, StopInv, BatchInit

LEMMA StopInductive == BatchInv /\ StopInv /\ [BatchNext]_vars => StopInv'
<1> SUFFICES ASSUME BatchInv, StopInv, [BatchNext]_vars PROVE StopInv'
  OBVIOUS
<1>0. /\ stopTurn \/ Quiet
      /\ pc \in {"virtualCall", "virtualResult"} => ~ stopTurn
      /\ transcript \in Seq(Event) /\ finalized \in Outcome \cup {Nothing}
      /\ added \in 0..NumTasks /\ drained \in 0..NumTasks /\ stopTurn \in BOOLEAN
      /\ outcome \in [Task -> Outcome \cup {Nothing}]
      /\ deferred \in [Key -> Outcome \cup {Nothing}]
      /\ keyOf \in [Task -> Key \cup {NoKey}]
  BY DEF BatchInv, BatchTypeOK, StopInv, Quiet, SchedulerTypeOK
<1>q. /\ stopTurn' \/ Quiet'
      /\ pc' \in {"virtualCall", "virtualResult"} => ~ stopTurn'
      => StopInv'
  BY DEF StopInv, Quiet
<1>1. CASE \/ prepareToolCall \/ resolveExecution \/ authorizeToolExecution
           \/ prepareSkippedToolCall
  <2>1. /\ stopTurn' = stopTurn /\ outcome' = outcome /\ deferred' = deferred
        /\ finalized' = finalized /\ transcript' = transcript
        /\ pc \in {"prepare", "resolve", "authorize", "skip"}
        /\ pc' \in {"record", "resolve", "authorize"}
    BY <1>1 DEF prepareToolCall, resolveExecution, authorizeToolExecution,
                prepareSkippedToolCall
  <2>2. pc # "skip" /\ prepared.result # "skipped" => prepared'.result # "skipped"
    BY <1>1 DEF prepareToolCall, resolveExecution, authorizeToolExecution,
                prepareSkippedToolCall, Resolved, Runnable, Nothing
  <2> QED BY <1>0, <1>q, <2>1, <2>2 DEF Quiet
<1>2. CASE dispatchToolCall
  <2>1. /\ stopTurn' = stopTurn /\ outcome' = outcome /\ deferred' = deferred
        /\ finalized' = finalized /\ prepared' = prepared /\ pc' \in {"add", "unwind"}
    BY <1>2 DEF dispatchToolCall
  <2>2. CASE transcript' = transcript BY <1>0, <1>q, <2>1, <2>2 DEF Quiet
  <2>3. CASE transcript' = Append(transcript, Call(current))
    <3>1. Call(current) \in Event /\ Call(current).result \notin {"stop", "skipped"}
      BY <1>0, <1>2 DEF dispatchToolCall, BatchInv, PhaseOK, Preparing, current, Call, Event, Nothing
    <3>2. Quiet => \A i \in 1..Len(transcript') : transcript'[i].result \notin {"stop", "skipped"}
      BY <1>0, <2>3, <3>1, AppendedResult DEF Quiet
    <3> QED BY <1>0, <1>q, <2>1, <3>2 DEF Quiet
  <2> QED BY <1>2, <2>2, <2>3 DEF dispatchToolCall
<1>3. CASE addTask
  <2>1. /\ deferred' = deferred /\ finalized' = finalized /\ transcript' = transcript
        /\ prepared'.result = "done"
        /\ stopTurn' = (stopTurn \/ prepared.stopBatch)
        /\ pc' \in {"drain", "skip", "prepare"} /\ (pc' = "skip" => stopTurn')
    BY <1>3 DEF addTask, NoTask, Resolved
  <2>2. Quiet => \A t \in Task : outcome'[t] # "skipped"
    BY <1>3, AddOutcome DEF Quiet
  <2>3. stopTurn' \/ Quiet' BY <1>0, <2>1, <2>2 DEF Quiet
  <2> QED BY <1>q, <2>1, <2>3
<1>4. CASE finalizePendingToolResult
  <2> DEFINE t == draining
  <2>1. PICK r \in {outcome[t], "stop"}, hookFails \in BOOLEAN :
          LET final == IF IsDup(t) THEN deferred[keyOf[t]] ELSE r
          IN  /\ deferred' = IF keyOf[t] = NoKey \/ IsDup(t) THEN deferred
                             ELSE [deferred EXCEPT ![keyOf[t]] = final]
              /\ finalized' = IF hookFails THEN "failed" ELSE final
              /\ stopTurn' = (stopTurn \/ Stops(outcome[t]) \/ Stops(finalized'))
    BY <1>4 DEF finalizePendingToolResult
  <2>2. /\ t \in Task /\ pc' = "append" /\ prepared' = prepared /\ outcome' = outcome
        /\ transcript' = transcript
    BY <1>0, <1>4 DEF finalizePendingToolResult, BatchInv, PhaseOK, draining
  <2> DEFINE final == IF IsDup(t) THEN deferred[keyOf[t]] ELSE r
  <2>3. Quiet => final # "skipped"
    BY <1>0, <2>2 DEF Quiet, IsDup
  <2>4. Quiet => finalized' # "skipped" BY <2>1, <2>3
  <2>5. ~ stopTurn' => finalized' # "stop" BY <2>1 DEF Stops
  <2>6. Quiet => \A k \in Key : deferred'[k] # "skipped"
    BY <1>0, <2>1, <2>3 DEF Quiet
  <2>7. stopTurn' \/ Quiet' BY <1>0, <2>1, <2>2, <2>4, <2>5, <2>6 DEF Quiet
  <2> QED BY <1>q, <2>2, <2>7
<1>5. CASE dispatchToolResult
  <2>1. /\ stopTurn' = stopTurn /\ outcome' = outcome /\ deferred' = deferred
        /\ finalized' = Nothing /\ prepared' = prepared
        /\ pc' \in {"settle", "drain", "unwind"}
    BY <1>5 DEF dispatchToolResult
  <2>2. CASE transcript' = transcript BY <1>0, <1>q, <2>1, <2>2 DEF Quiet, Nothing
  <2>3. CASE transcript' = Append(transcript, Result(draining, finalized))
    <3>1. Result(draining, finalized) \in Event /\ Result(draining, finalized).result = finalized
      BY <1>0, <1>5 DEF dispatchToolResult, BatchInv, PhaseOK, draining, Result, Event
    <3>2. Quiet => \A i \in 1..Len(transcript') : transcript'[i].result \notin {"stop", "skipped"}
      BY <1>0, <2>3, <3>1, AppendedResult DEF Quiet
    <3> QED BY <1>0, <1>q, <2>1, <3>2 DEF Quiet, Nothing
  <2> QED BY <1>5, <2>2, <2>3 DEF dispatchToolResult
<1>6. CASE allSettled
  BY <1>0, <1>6, <1>q DEF allSettled, Quiet
<1>7. CASE virtualTurn
  <2>1. /\ outcome' = outcome /\ deferred' = deferred /\ finalized' = finalized
        /\ prepared' = prepared /\ pc' # "skip" /\ ~ stopTurn /\ Quiet
        /\ draining \in Task
    BY <1>0, <1>7 DEF virtualTurn, BatchInv, PhaseOK, draining
  <2>2. Call(draining) \in Event /\ Result(draining, "done") \in Event
    BY <2>1 DEF Call, Result, Event, Outcome
  <2>3. Call(draining).result = Nothing /\ Result(draining, "done").result = "done"
    BY DEF Call, Result
  <2>4. \A i \in 1..Len(transcript') : transcript'[i].result \notin {"stop", "skipped"}
    <3>1. CASE transcript' = transcript BY <2>1, <3>1 DEF Quiet
    <3>2. CASE transcript' = Append(transcript, Call(draining))
      BY <1>0, <2>1, <2>2, <2>3, <3>2, AppendedResult DEF Quiet, Nothing
    <3>3. CASE transcript' = Append(transcript, Result(draining, "done"))
      BY <1>0, <2>1, <2>2, <2>3, <3>3, AppendedResult DEF Quiet
    <3> QED BY <1>7, <3>1, <3>2, <3>3 DEF virtualTurn
  <2>5. Quiet' BY <2>1, <2>4 DEF Quiet
  <2>6. pc' \in {"virtualCall", "virtualResult"} => ~ stopTurn'
    BY <1>7, <2>1 DEF virtualTurn
  <2> QED BY <1>q, <2>5, <2>6
<1>8. ASSUME NEW t \in Task,
             resolveTask(t) \/ executeReturns(t) \/ graceTimeout(t) \/ finishTask(t)
      PROVE  StopInv'
  <2>1. /\ UNCHANGED <<pc, prepared, deferred, transcript, finalized, stopTurn>>
        /\ \A u \in Task : outcome'[u] \in {outcome[u], "done", "stop", "aborted"}
    BY <1>8, CallSteps
  <2> QED BY <1>0, <1>q, <2>1 DEF Quiet
<1>9. CASE abort \/ UNCHANGED vars
  BY <1>0, <1>9, <1>q DEF abort, vars, batchVars, Quiet
<1> QED
  BY <1>1, <1>2, <1>3, <1>4, <1>5, <1>6, <1>7, <1>8, <1>9 DEF BatchNext, runToolCallBatch

(* A turn that a recorded result stops, or whose later calls were skipped, *)
(* is reported as stopped.                                                 *)
THEOREM StopsAreHonoured == BatchSpec => []StopIsHonoured
<1>1. BatchInv /\ StopInv => StopIsHonoured
  BY DEF BatchInv, BatchTypeOK, StopInv, Quiet, StopIsHonoured
<1> QED
  BY <1>1, BatchInitOK, BatchInductive, StopInit, StopInductive, PTL DEF BatchSpec

-----------------------------------------------------------------------------
LEMMA DupInit == BatchInit => DupInv
<1> SUFFICES ASSUME BatchInit PROVE DupInv OBVIOUS
<1>1. Len(transcript) = 0 BY DEF BatchInit
<1>2. 1..Len(transcript) = {} BY <1>1
<1>3. KeysSeen BY DEF KeysSeen, BatchInit
<1>4. Placeholders
  BY DEF Placeholders, BatchInit, NoTask, Resolved, Nothing
<1>5. pc # "append" BY DEF BatchInit
<1>6. Answered BY <1>2, <1>5 DEF Answered
<1> QED BY <1>3, <1>4, <1>6 DEF DupInv

(* What a recorded result says stays true while keys and published results *)
(* stay.                                                                   *)
LEMMA AnsweredStays ==
  ASSUME Answered, keyOf' = keyOf, deferred' = deferred, transcript' = transcript,
         pc' # "append" \/ UNCHANGED <<pc, drained, finalized>>
  PROVE  Answered'
<1>2. pc' = "append" => SharesOf(draining, finalized)'
  BY DEF Answered, draining, SharesOf, IsDup
<1>3. ASSUME NEW i \in 1..Len(transcript')
      PROVE  AnsweredAt(i)'
  BY <1>3 DEF Answered, AnsweredAt, SharesOf, IsDup, IsResult
<1> QED BY <1>2, <1>3 DEF Answered

LEMMA DupInductive ==
  BatchInv /\ RecordInv /\ DupInv /\ [BatchNext]_vars => DupInv'
<1> SUFFICES ASSUME BatchInv, RecordInv, DupInv, [BatchNext]_vars PROVE DupInv'
  OBVIOUS
<1>0. /\ transcript \in Seq(Event) /\ finalized \in Outcome \cup {Nothing}
      /\ added \in 0..NumTasks /\ drained \in 0..NumTasks /\ added \in Nat /\ drained \in Nat
      /\ outcome \in [Task -> Outcome \cup {Nothing}]
      /\ deferred \in [Key -> Outcome \cup {Nothing}]
      /\ keyOf \in [Task -> Key \cup {NoKey}]
      /\ KeysSeen /\ Placeholders /\ Answered
  BY DEF BatchInv, BatchTypeOK, SchedulerTypeOK, DupInv
<1>k. keyOf' = keyOf => \A t : IsDup(t)' <=> IsDup(t)
  BY DEF IsDup
<1>1. CASE prepareToolCall
  <2>1. /\ pc = "prepare" /\ drained = 0 /\ added < NumTasks /\ current \in Task
        /\ outcome' = outcome /\ deferred' = deferred /\ finalized' = finalized
        /\ transcript' = transcript /\ added' = added /\ pc' \in {"record", "resolve"}
    BY <1>0, <1>1 DEF prepareToolCall, BatchInv, PhaseOK, Preparing, current, schedulerVars
  <2>2. \A t \in Task : keyOf[t] # NoKey => t <= added
    BY <1>0, <2>1 DEF KeysSeen
  <2>3. keyOf[current] = NoKey BY <1>0, <2>1, <2>2 DEF current
  <2>4. CASE prepared' = Resolved("done") /\ keyOf' = keyOf
    <3>1. KeysSeen' BY <1>0, <2>1, <2>2, <2>4 DEF KeysSeen
    <3>2. Placeholders' BY <1>0, <1>k, <2>1, <2>4 DEF Placeholders, Resolved
    <3>3. Answered' BY <1>0, <2>1, <2>4, AnsweredStays
    <3> QED BY <3>1, <3>2, <3>3 DEF DupInv
  <2>5. CASE \E k \in Key :
               /\ keyOf' = [keyOf EXCEPT ![current] = k]
               /\ IF \E u \in Task : keyOf[u] = k
                    THEN prepared' = Resolved("dup") /\ pc' = "record"
                    ELSE pc' = "resolve" /\ UNCHANGED prepared
    <3>1. PICK k \in Key :
            /\ keyOf' = [keyOf EXCEPT ![current] = k]
            /\ IF \E u \in Task : keyOf[u] = k
                 THEN prepared' = Resolved("dup") /\ pc' = "record"
                 ELSE pc' = "resolve" /\ UNCHANGED prepared
      BY <2>5
    <3>2. k # NoKey BY KeyAssumption
    <3>3. /\ keyOf'[current] = k
          /\ \A t \in Task : t # current => keyOf'[t] = keyOf[t]
      BY <1>0, <2>1, <3>1
    <3>4. KeysSeen'
      BY <2>1, <2>2, <3>3 DEF KeysSeen, current
    <3>5. \A t \in Task : IsDup(t) => IsDup(t)'
      <4> SUFFICES ASSUME NEW t \in Task, IsDup(t) PROVE IsDup(t)' OBVIOUS
      <4>1. PICK u \in 1..(t - 1) : keyOf[u] = keyOf[t] BY DEF IsDup
      <4>2. u \in Task /\ keyOf[t] # NoKey BY DEF IsDup
      <4>3. u # current /\ t # current BY <2>3, <4>1, <4>2
      <4>4. keyOf'[u] = keyOf'[t] /\ keyOf'[t] # NoKey BY <3>3, <4>1, <4>2, <4>3
      <4> QED BY <4>4 DEF IsDup
    <3>6. prepared'.result = "dup" => pc' = "record" /\ IsDup(current)'
      <4>1. CASE \E u \in Task : keyOf[u] = k
        <5>1. PICK u \in Task : keyOf[u] = k BY <4>1
        <5>2. u <= added BY <2>2, <3>2, <5>1
        <5>3. u \in 1..(current - 1) /\ u # current BY <1>0, <5>2 DEF current
        <5>4. keyOf'[u] = k /\ keyOf'[current] = k BY <3>3, <5>1, <5>3
        <5>5. IsDup(current)' BY <2>1, <3>2, <5>3, <5>4 DEF IsDup, current
        <5> QED BY <3>1, <4>1, <5>5
      <4>2. CASE ~ \E u \in Task : keyOf[u] = k
        BY <1>0, <2>1, <3>1, <4>2 DEF Placeholders
      <4> QED BY <4>1, <4>2
    <3>7. Placeholders' BY <1>0, <2>1, <3>5, <3>6 DEF Placeholders
    <3>8. Answered'
      <4>1. Within(transcript, CallsRecorded, 0) BY <2>1 DEF RecordInv, Ended
      <4>2. ASSUME NEW i \in 1..Len(transcript) PROVE ~ IsResult(transcript[i])
        <5>1. transcript[i] \in Event BY <1>0
        <5>2. transcript[i].id \in Task BY <5>1 DEF Event
        <5> QED BY <4>1, <5>2 DEF Within
      <4> QED BY <1>0, <2>1, <4>2 DEF Answered, AnsweredAt, IsResult
    <3> QED BY <3>4, <3>7, <3>8 DEF DupInv
  <2> QED BY <1>1, <2>4, <2>5 DEF prepareToolCall
<1>2. CASE resolveExecution \/ authorizeToolExecution \/ prepareSkippedToolCall
  <2>1. /\ keyOf' = keyOf /\ outcome' = outcome /\ deferred' = deferred
        /\ finalized' = finalized /\ transcript' = transcript /\ added' = added
        /\ pc \in {"resolve", "authorize", "skip"} /\ pc' \in {"record", "authorize"}
    BY <1>2 DEF resolveExecution, authorizeToolExecution, prepareSkippedToolCall, schedulerVars
  <2>2. prepared'.result # "dup"
    BY <1>0, <1>2 DEF resolveExecution, authorizeToolExecution, prepareSkippedToolCall,
                Resolved, Runnable, Nothing, Placeholders
  <2>3. KeysSeen' BY <1>0, <2>1 DEF KeysSeen, current
  <2>4. Placeholders' BY <1>0, <1>k, <2>1, <2>2 DEF Placeholders
  <2>5. Answered' BY <1>0, <2>1, AnsweredStays
  <2> QED BY <2>3, <2>4, <2>5 DEF DupInv
<1>3. CASE dispatchToolCall
  <2>1. /\ pc = "record" /\ pc' \in {"add", "unwind"} /\ current \in Task
        /\ keyOf' = keyOf /\ outcome' = outcome /\ deferred' = deferred
        /\ finalized' = finalized /\ added' = added /\ prepared' = prepared
    BY <1>0, <1>3 DEF dispatchToolCall, BatchInv, PhaseOK, Preparing, current, schedulerVars
  <2>2. KeysSeen' BY <1>0, <2>1 DEF KeysSeen, current
  <2>3. Placeholders' BY <1>0, <1>k, <2>1 DEF Placeholders, current
  <2>4. CASE transcript' = transcript
    BY <1>0, <2>1, <2>2, <2>3, <2>4, AnsweredStays DEF DupInv
  <2>5. CASE transcript' = Append(transcript, Call(current))
    <3>1. /\ Call(current) \in Event /\ Call(current).result # "dup"
          /\ ~ IsResult(Call(current))
      BY <2>1 DEF Call, Event, Nothing, IsResult
    <3>2. ASSUME NEW i \in 1..Len(transcript')
          PROVE  AnsweredAt(i)'
      <4>1. CASE i \in 1..Len(transcript) /\ transcript'[i] = transcript[i]
        BY <1>0, <2>1, <4>1 DEF Answered, AnsweredAt, SharesOf, IsDup, IsResult
      <4>2. CASE transcript'[i] = Call(current) BY <3>1, <4>2 DEF AnsweredAt, IsResult
      <4> QED BY <1>0, <2>5, <3>1, <4>1, <4>2, AppendedResult
    <3>3. Answered' BY <2>1, <3>2 DEF Answered
    <3> QED BY <2>2, <2>3, <3>3 DEF DupInv
  <2> QED BY <1>3, <2>4, <2>5 DEF dispatchToolCall
<1>4. CASE addTask
  <2>1. /\ pc = "add" /\ pc' \in {"drain", "skip", "prepare"} /\ added' = added + 1
        /\ keyOf' = keyOf /\ deferred' = deferred /\ finalized' = finalized
        /\ transcript' = transcript /\ prepared'.result = "done"
    BY <1>4 DEF addTask, add, NoTask, Resolved
  <2>2. KeysSeen' BY <1>0, <2>1 DEF KeysSeen, current
  <2>3. \A t \in Task : outcome'[t] = "dup" => IsDup(t)'
    BY <1>0, <1>4, <1>k, <2>1, AddOutcome DEF Placeholders
  <2>4. Placeholders' BY <1>0, <2>1, <2>3 DEF Placeholders
  <2>5. Answered' BY <1>0, <2>1, AnsweredStays
  <2> QED BY <2>2, <2>4, <2>5 DEF DupInv
<1>5. CASE finalizePendingToolResult
  <2> DEFINE t == draining
  <2>1. PICK r \in {outcome[t], "stop"}, hookFails \in BOOLEAN :
          LET final == IF IsDup(t) THEN deferred[keyOf[t]] ELSE r
          IN  /\ deferred' = IF keyOf[t] = NoKey \/ IsDup(t) THEN deferred
                             ELSE [deferred EXCEPT ![keyOf[t]] = final]
              /\ finalized' = IF hookFails THEN "failed" ELSE final
    BY <1>5 DEF finalizePendingToolResult
  <2>2. /\ t \in Task /\ pc = "drain" /\ pc' = "append" /\ prepared' = prepared
        /\ outcome' = outcome /\ transcript' = transcript /\ keyOf' = keyOf
        /\ added' = added /\ drained' = drained /\ t = drained + 1
    BY <1>0, <1>5 DEF finalizePendingToolResult, BatchInv, PhaseOK, draining, schedulerVars
  <2> DEFINE final == IF IsDup(t) THEN deferred[keyOf[t]] ELSE r
  <2>3. final # "dup"
    BY <1>0, <2>2 DEF Placeholders, IsDup
  <2>4. finalized' # "dup" BY <2>1, <2>3
  <2>5. \A k \in Key : deferred'[k] # "dup"
    BY <1>0, <2>1, <2>3 DEF Placeholders
  <2>6. KeysSeen' BY <1>0, <2>2 DEF KeysSeen, current
  <2>7. Placeholders' BY <1>0, <1>k, <2>2, <2>4, <2>5 DEF Placeholders, current
  <2>8. draining' = t BY <2>2 DEF draining
  <2>9. IsDup(t) => deferred' = deferred /\ finalized' \in {deferred[keyOf[t]], "failed"}
    BY <2>1
  <2>10. SharesOf(draining, finalized)'
    BY <1>k, <2>2, <2>8, <2>9 DEF SharesOf
  <2>11. ASSUME NEW i \in 1..Len(transcript)
         PROVE  AnsweredAt(i)'
    <3>1. /\ transcript[i].result # "dup"
          /\ IsResult(transcript[i]) => SharesOf(transcript[i].id, transcript[i].result)
      BY <1>0 DEF Answered, AnsweredAt
    <3> DEFINE u == transcript[i].id
    <3>2. ASSUME IsResult(transcript[i]), IsDup(u)
          PROVE  deferred'[keyOf[u]] = deferred[keyOf[u]]
      <4>1. transcript[i] \in Event BY <1>0
      <4>2. u \in Task BY <4>1 DEF Event
      <4>3. Within(transcript, CallsRecorded, drained) BY <2>2 DEF RecordInv, Ended
      <4>4. u <= drained BY <3>2, <4>3 DEF Within
      <4>5. u \in 1..(t - 1) BY <1>0, <2>2, <4>2, <4>4
      <4>6. ~ IsDup(t) /\ keyOf[t] # NoKey => keyOf[t] # keyOf[u]
        BY <4>5 DEF IsDup
      <4>7. keyOf[u] \in Key BY <1>0, <3>2, <4>2 DEF IsDup
      <4> QED BY <1>0, <2>1, <4>6, <4>7
    <3> QED BY <1>k, <2>2, <3>1, <3>2 DEF AnsweredAt, SharesOf, IsResult
  <2>12. Answered' BY <2>2, <2>10, <2>11 DEF Answered
  <2> QED BY <2>6, <2>7, <2>12 DEF DupInv
<1>6. CASE dispatchToolResult
  <2>1. /\ pc = "append" /\ pc' \in {"settle", "drain", "unwind"} /\ prepared' = prepared
        /\ keyOf' = keyOf /\ outcome' = outcome /\ deferred' = deferred
        /\ finalized' = Nothing /\ added' = added /\ draining \in Task
    BY <1>0, <1>6 DEF dispatchToolResult, BatchInv, PhaseOK, draining, schedulerVars
  <2>2. KeysSeen' BY <1>0, <2>1 DEF KeysSeen, current
  <2>3. Placeholders' BY <1>0, <1>k, <2>1 DEF Placeholders, current, Nothing
  <2>4. CASE transcript' = transcript
    BY <1>0, <2>1, <2>2, <2>3, <2>4, AnsweredStays DEF DupInv
  <2>5. CASE transcript' = Append(transcript, Result(draining, finalized))
    <3>1. /\ Result(draining, finalized) \in Event
          /\ Result(draining, finalized).result = finalized
          /\ Result(draining, finalized).id = draining
      BY <1>0, <2>1 DEF Result, Event
    <3>2. finalized # "dup" /\ SharesOf(draining, finalized)
      BY <1>0, <2>1 DEF Placeholders, Answered
    <3>3. ASSUME NEW i \in 1..Len(transcript')
          PROVE  AnsweredAt(i)'
      <4>1. CASE i \in 1..Len(transcript) /\ transcript'[i] = transcript[i]
        BY <1>0, <2>1, <4>1 DEF Answered, AnsweredAt, SharesOf, IsDup, IsResult
      <4>2. CASE transcript'[i] = Result(draining, finalized)
        BY <2>1, <3>1, <3>2, <4>2 DEF AnsweredAt, SharesOf, IsDup
      <4> QED BY <1>0, <2>5, <3>1, <4>1, <4>2, AppendedResult
    <3>4. Answered' BY <2>1, <3>3 DEF Answered
    <3> QED BY <2>2, <2>3, <3>4 DEF DupInv
  <2> QED BY <1>6, <2>4, <2>5 DEF dispatchToolResult
<1>7. CASE allSettled
  <2>1. /\ pc \in {"settle", "unwind"} /\ pc' \in {"returned", "threw"}
        /\ UNCHANGED <<added, prepared, outcome, keyOf, deferred, transcript, finalized>>
    BY <1>7 DEF allSettled, schedulerVars
  <2>2. KeysSeen' BY <1>0, <2>1 DEF KeysSeen, current
  <2>3. Placeholders' BY <1>0, <1>k, <2>1 DEF Placeholders, current
  <2>4. Answered' BY <1>0, <2>1, AnsweredStays
  <2> QED BY <2>2, <2>3, <2>4 DEF DupInv
<1>8. CASE virtualTurn
  <2>1. /\ pc \in {"virtualCall", "virtualResult"} /\ added = 0
        /\ pc' \in {"virtualCall", "virtualResult", "returned", "threw"}
        /\ UNCHANGED <<added, prepared, outcome, keyOf, deferred, finalized>>
        /\ draining \in Task
    BY <1>0, <1>8 DEF virtualTurn, BatchInv, PhaseOK, schedulerVars, draining
  <2>2. \A t \in Task : keyOf[t] = NoKey BY <1>0, <2>1 DEF KeysSeen
  <2>3. KeysSeen' BY <2>1, <2>2 DEF KeysSeen
  <2>4. Placeholders' BY <1>0, <1>k, <2>1 DEF Placeholders, current
  <2>5. CASE transcript' = transcript
    BY <1>0, <2>1, <2>3, <2>4, <2>5, AnsweredStays DEF DupInv
  <2>6. ASSUME NEW e \in {Call(draining), Result(draining, "done")},
               transcript' = Append(transcript, e)
        PROVE  DupInv'
    <3>1. e \in Event /\ e.result # "dup" /\ e.id = draining
      BY <2>1 DEF Call, Result, Event, Nothing, Outcome
    <3>2. ~ IsDup(draining) BY <2>1, <2>2 DEF IsDup
    <3>3. ASSUME NEW i \in 1..Len(transcript')
          PROVE  AnsweredAt(i)'
      <4>1. CASE i \in 1..Len(transcript) /\ transcript'[i] = transcript[i]
        BY <1>0, <2>1, <4>1 DEF Answered, AnsweredAt, SharesOf, IsDup, IsResult
      <4>2. CASE transcript'[i] = e
        BY <2>1, <3>1, <3>2, <4>2 DEF AnsweredAt, SharesOf, IsDup
      <4> QED BY <1>0, <2>6, <3>1, <4>1, <4>2, AppendedResult
    <3>4. Answered' BY <2>1, <3>3 DEF Answered
    <3> QED BY <2>3, <2>4, <3>4 DEF DupInv
  <2> QED BY <1>8, <2>5, <2>6 DEF virtualTurn
<1>9. ASSUME NEW t \in Task,
             resolveTask(t) \/ executeReturns(t) \/ graceTimeout(t) \/ finishTask(t)
      PROVE  DupInv'
  <2>1. /\ UNCHANGED <<pc, prepared, keyOf, deferred, transcript, drained, finalized, added>>
        /\ \A u \in Task : outcome'[u] \in {outcome[u], "done", "stop", "aborted"}
    BY <1>9, CallSteps
  <2>2. KeysSeen' BY <1>0, <2>1 DEF KeysSeen, current
  <2>3. Placeholders' BY <1>0, <1>k, <2>1 DEF Placeholders, current
  <2>4. Answered' BY <1>0, <2>1, AnsweredStays
  <2> QED BY <2>2, <2>3, <2>4 DEF DupInv
<1>10. CASE abort \/ UNCHANGED vars
  <2>1. UNCHANGED <<pc, prepared, keyOf, deferred, transcript, drained, finalized, added, outcome>>
    BY <1>10 DEF abort, vars, batchVars, schedulerVars
  <2>2. KeysSeen' BY <1>0, <2>1 DEF KeysSeen, current
  <2>3. Placeholders' BY <1>0, <1>k, <2>1 DEF Placeholders, current
  <2>4. Answered' BY <1>0, <2>1, AnsweredStays
  <2> QED BY <2>2, <2>3, <2>4 DEF DupInv
<1> QED
  BY <1>1, <1>2, <1>3, <1>4, <1>5, <1>6, <1>7, <1>8, <1>9, <1>10 DEF BatchNext, runToolCallBatch

(* A duplicate is answered with what its original has published, or with an*)
(* error if its own finalization failed; the placeholder is never recorded.*)
THEOREM DuplicatesShare == BatchSpec => []DupSharesResult
<1>1. BatchInv /\ DupInv => DupSharesResult
  <2> SUFFICES ASSUME BatchInv, DupInv PROVE DupSharesResult OBVIOUS
  <2>1. DOMAIN transcript = 1..Len(transcript)
    BY DEF BatchInv, BatchTypeOK
  <2> QED BY <2>1 DEF DupSharesResult, DupInv, Answered, AnsweredAt, SharesOf, IsResult
<1> QED
  BY <1>1, BatchInitOK, BatchInductive, RecordInit, RecordInductive, DupInit, DupInductive, PTL
  DEF BatchSpec
=============================================================================
