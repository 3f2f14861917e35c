--------------------------- MODULE ToolCallBatch ----------------------------
(***************************************************************************)
(* The life of the tool calls of one model response: runToolCallBatch in   *)
(* packages/agent-core/src/loop/tool-call.ts, on top of the scheduler, with *)
(* the hooks TurnFlow installs (agent/turn/index.ts): the deduplicator     *)
(* before and after a call, the permission check before it runs.           *)
(*                                                                         *)
(* The batch is a coroutine.  Between two of its awaits it runs alone, so  *)
(* an action is a stretch of code from one await to the next; pc is where  *)
(* it waits.  The turn may be aborted at every await.                      *)
(***************************************************************************)
EXTENDS ToolScheduler

CONSTANT Key               \* tool name and canonical arguments of a call

VARIABLES mixed,           \* the response mixes AgentSwarm with other calls
          aborted,         \* the turn's AbortSignal
          pc,              \* where runToolCallBatch waits
          prepared,        \* the PreparedToolCallTask of the current call
          outcome,         \* the PendingToolResult of each call
          body,            \* the execute() promise of each call
          keyOf,           \* callKeyByCallId: the calls checkSameStep has seen
          deferred,        \* stepDeferreds
          transcript,      \* tool.call and tool.result events, as recorded
          drained,         \* how many of its results the batch has recorded
          finalized,       \* the result it is about to record
          stopTurn         \* ToolCallBatchResult.stopTurn

batchVars == <<mixed, aborted, pc, prepared, outcome, body, keyOf, deferred,
               transcript, drained, finalized, stopTurn>>
vars == <<schedulerVars, batchVars>>

(* A result keeps what the rest of the batch looks at: "stop" carries      *)
(* stopTurn, "done" is any other answer of a tool, a hook or a check,      *)
(* success or error; "dup" is the placeholder a duplicate carries until it *)
(* is finalized; "failed" replaces a result whose finalization failed.     *)
NoKey    == "nokey"
Nothing  == "nothing"

(* A call without a key is told from every call with one.                  *)
ASSUME KeyAssumption == NoKey \notin Key

Outcome  == {"done", "stop", "aborted", "skipped", "dup", "failed"}
Stops(r) == r = "stop"

(* A PreparedToolCallTask: with its result, or (Nothing) one to run.       *)
Resolved(r) == [result |-> r, declared |-> {}, stopBatch |-> Stops(r)]
Runnable(declared, stopBatch) ==
  [result |-> Nothing, declared |-> declared, stopBatch |-> stopBatch]
NoTask == Resolved("done")

PreparedToolCallTask ==
  [result : Outcome \cup {Nothing}, declared : Declared, stopBatch : BOOLEAN]

Call(t)      == [type |-> "call", id |-> t, result |-> Nothing]
Result(t, r) == [type |-> "result", id |-> t, result |-> r]
Event == [type : {"call", "result"}, id : Task, result : Outcome \cup {Nothing}]

Running == {t \in Task : body[t] = "running"}
Over    == pc \in {"returned", "threw"}

(* The call being prepared, and the one whose result is being drained.     *)
current  == added + 1
draining == drained + 1

(* A call checkSameStep answered with the placeholder.                     *)
IsDup(t) == keyOf[t] # NoKey /\ \E u \in 1..(t - 1) : keyOf[u] = keyOf[t]

BatchInit ==
  /\ SchedulerInit
  /\ mixed \in {m \in BOOLEAN : m => NumTasks > 1}
  /\ pc = IF NumTasks = 0 THEN "returned" ELSE IF mixed THEN "virtualCall" ELSE "prepare"
  /\ aborted = FALSE
  /\ prepared = NoTask
  /\ outcome = [t \in Task |-> Nothing]
  /\ body = [t \in Task |-> "idle"]
  /\ keyOf = [t \in Task |-> NoKey]
  /\ deferred = [k \in Key |-> Nothing]
  /\ transcript = <<>>
  /\ drained = 0
  /\ finalized = Nothing
  /\ stopTurn = FALSE

-----------------------------------------------------------------------------
(* Preparation, in provider order.                                         *)

(* Preflight rejects the call, or the prepareToolExecution hook registers  *)
(* it with the deduplicator and answers a duplicate at once.               *)
prepareToolCall ==
  /\ pc = "prepare"
  /\ \/ /\ prepared' = Resolved("done")
        /\ pc' = "record"
        /\ UNCHANGED keyOf
     \/ \E k \in Key :
          /\ keyOf' = [keyOf EXCEPT ![current] = k]
          /\ IF \E u \in Task : keyOf[u] = k
               THEN prepared' = Resolved("dup") /\ pc' = "record"
               ELSE pc' = "resolve" /\ UNCHANGED prepared
  /\ UNCHANGED <<schedulerVars, mixed, aborted, outcome, body, deferred,
                 transcript, drained, finalized, stopTurn>>

(* resolveExecution() throws, or answers with an error or an execution.    *)
resolveExecution ==
  /\ pc = "resolve"
  /\ \/ prepared' = Resolved("done") /\ pc' = "record"
     \/ aborted /\ prepared' = Resolved("aborted") /\ pc' = "record"
     \/ /\ ~ aborted
        /\ \E declared \in AccessSets, stopBatch \in BOOLEAN :
             prepared' = Runnable(declared, stopBatch)
        /\ pc' = "authorize"
  /\ UNCHANGED <<schedulerVars, mixed, aborted, outcome, body, keyOf, deferred,
                 transcript, drained, finalized, stopTurn>>

(* The permission check blocks the call, answers for it, or lets it run.   *)
authorizeToolExecution ==
  /\ pc = "authorize"
  /\ \/ aborted /\ prepared' = Resolved("aborted")
     \/ /\ ~ aborted
        /\ \/ UNCHANGED prepared
           \/ \E r \in {"done", "stop"} : prepared' = Resolved(r)
  /\ pc' = "record"
  /\ UNCHANGED <<schedulerVars, mixed, aborted, outcome, body, keyOf, deferred,
                 transcript, drained, finalized, stopTurn>>

prepareSkippedToolCall ==
  /\ pc = "skip"
  /\ prepared' = Resolved("skipped")
  /\ pc' = "record"
  /\ UNCHANGED <<schedulerVars, mixed, aborted, outcome, body, keyOf, deferred,
                 transcript, drained, finalized, stopTurn>>

(* Recording tool.call may throw, which ends the batch.                    *)
dispatchToolCall ==
  /\ pc = "record"
  /\ \/ transcript' = Append(transcript, Call(current)) /\ pc' = "add"
     \/ UNCHANGED transcript /\ pc' = "unwind"
  /\ UNCHANGED <<schedulerVars, mixed, aborted, prepared, outcome, body, keyOf,
                 deferred, drained, finalized, stopTurn>>

-----------------------------------------------------------------------------
(* Execution.                                                              *)

(* start() of the calls the scheduler makes active in this step.  pending  *)
(* holds Nothing for a call that is to run; runRunnableToolCall looks at   *)
(* the signal once more before it calls execute().                         *)
launch_unchecked(pending) ==
  LET begun == {t \in activeTasks' \ activeTasks : pending[t] = Nothing}
  IN  /\ outcome' = pending
      /\ body' = [t \in Task |-> IF t \in begun THEN "running" ELSE body[t]]

launch(pending) ==
  LET begun == {t \in activeTasks' \ activeTasks : pending[t] = Nothing}
  IN  /\ outcome' = [t \in Task |-> IF t \in begun /\ aborted THEN "aborted"
                                                           ELSE pending[t]]
      /\ body' = [t \in Task |-> IF t \in begun /\ ~ aborted THEN "running"
                                                          ELSE body[t]]

addTask_dropsSkipped ==
  /\ pc = "add"
  /\ add(prepared.declared)
  /\ launch([outcome EXCEPT ![current] = prepared.result])
  /\ stopTurn' = (stopTurn \/ prepared.stopBatch)
  /\ pc' = IF current = NumTasks \/ stopTurn' THEN "drain" ELSE "prepare"
  /\ prepared' = NoTask
  /\ UNCHANGED <<mixed, aborted, keyOf, deferred, transcript,
                 drained, finalized>>

(* scheduler.add(), and the loop head that follows it.                     *)
addTask ==
  /\ pc = "add"
  /\ add(prepared.declared)
  /\ launch([outcome EXCEPT ![current] = prepared.result])
  /\ stopTurn' = (stopTurn \/ prepared.stopBatch)
  /\ pc' = IF current = NumTasks THEN "drain"
           ELSE IF stopTurn' THEN "skip" ELSE "prepare"
  /\ prepared' = NoTask
  /\ UNCHANGED <<mixed, aborted, keyOf, deferred, transcript,
                 drained, finalized>>

(* The promise of a call that has its result resolves.                     *)
resolveTask(t) ==
  /\ outcome[t] # Nothing
  /\ settle(t)
  /\ UNCHANGED batchVars

(* execute() returns or throws; nobody waits for it once the grace timer   *)
(* has settled its call.                                                   *)
executeReturns(t) ==
  /\ body[t] = "running"
  /\ body' = [body EXCEPT ![t] = "over"]
  /\ \/ /\ settle(t)
        /\ \E r \in {"done", "stop"} \cup (IF aborted THEN {"aborted"} ELSE {}) :
             outcome' = [outcome EXCEPT ![t] = r]
     \/ t \in settledTasks /\ UNCHANGED <<schedulerVars, outcome>>
  /\ UNCHANGED <<mixed, aborted, pc, prepared, keyOf, deferred, transcript,
                 drained, finalized, stopTurn>>

graceTimeout_beforeStart(t) ==
  /\ aborted
  /\ body[t] = "idle"
  /\ settle(t)
  /\ outcome' = [outcome EXCEPT ![t] = "aborted"]
  /\ UNCHANGED <<mixed, aborted, pc, prepared, body, keyOf, deferred, transcript,
                 drained, finalized, stopTurn>>

(* Two seconds after the abort a call whose execute() has not returned is  *)
(* settled without it.                                                     *)
graceTimeout(t) ==
  /\ aborted
  /\ body[t] = "running"
  /\ settle(t)
  /\ outcome' = [outcome EXCEPT ![t] = "aborted"]
  /\ UNCHANGED <<mixed, aborted, pc, prepared, body, keyOf, deferred, transcript,
                 drained, finalized, stopTurn>>

finishTask(t) ==
  /\ finish(t)
  /\ launch(outcome)
  /\ UNCHANGED <<mixed, aborted, pc, prepared, keyOf, deferred, transcript,
                 drained, finalized, stopTurn>>

-----------------------------------------------------------------------------
(* Draining, in provider order.                                            *)

finalizePendingToolResult_placeholder ==
  LET t == draining
  IN  /\ pc = "drain"
      /\ t \in settledTasks
      /\ \E r \in {outcome[t], "stop"}, hookFails \in BOOLEAN :
           LET final == r
           IN  /\ keyOf[t] = NoKey => r = outcome[t]
               /\ final # Nothing
               /\ deferred' = IF keyOf[t] = NoKey \/ IsDup(t) THEN deferred
                              ELSE [deferred EXCEPT ![keyOf[t]] = final]
               /\ finalized' = IF hookFails THEN "failed" ELSE final
               /\ stopTurn' = \/ stopTurn
                              \/ Stops(outcome[t])
                              \/ Stops(finalized')
      /\ pc' = "append"
      /\ UNCHANGED <<schedulerVars, mixed, aborted, prepared, outcome, body, keyOf,
                     transcript, drained>>

finalizePendingToolResult_dropsStop ==
  LET t == draining
  IN  /\ pc = "drain"
      /\ t \in settledTasks
      /\ \E r \in {outcome[t], "stop"}, hookFails \in BOOLEAN :
           LET final == IF IsDup(t) THEN deferred[keyOf[t]] ELSE r
           IN  /\ keyOf[t] = NoKey => r = outcome[t]
               /\ final # Nothing
               /\ deferred' = IF keyOf[t] = NoKey \/ IsDup(t) THEN deferred
                              ELSE [deferred EXCEPT ![keyOf[t]] = final]
               /\ finalized' = IF hookFails THEN "failed" ELSE final
               /\ stopTurn' = \/ stopTurn
                              \/ Stops(outcome[t])
      /\ pc' = "append"
      /\ UNCHANGED <<schedulerVars, mixed, aborted, prepared, outcome, body, keyOf,
                     transcript, drained>>

(* The finalizeToolResult hook: an original publishes its result (the      *)
(* repeat limit may add stopTurn to it), a duplicate waits for it.  What   *)
(* follows in the hook may fail, and the result is then an error.          *)
finalizePendingToolResult ==
  LET t == draining
  IN  /\ pc = "drain"
      /\ t \in settledTasks
      /\ \E r \in {outcome[t], "stop"}, hookFails \in BOOLEAN :
           LET final == IF IsDup(t) THEN deferred[keyOf[t]] ELSE r
           IN  /\ keyOf[t] = NoKey => r = outcome[t]
               /\ final # Nothing
               /\ deferred' = IF keyOf[t] = NoKey \/ IsDup(t) THEN deferred
                              ELSE [deferred EXCEPT ![keyOf[t]] = final]
               /\ finalized' = IF hookFails THEN "failed" ELSE final
               /\ stopTurn' = \/ stopTurn
                              \/ Stops(outcome[t])
                              \/ Stops(finalized')
      /\ pc' = "append"
      /\ UNCHANGED <<schedulerVars, mixed, aborted, prepared, outcome, body, keyOf,
                     transcript, drained>>

dispatchToolResult ==
  /\ pc = "append"
  /\ \/ /\ transcript' = Append(transcript, Result(draining, finalized))
        /\ drained' = draining
        /\ pc' = IF draining = added THEN "settle" ELSE "drain"
     \/ UNCHANGED <<transcript, drained>> /\ pc' = "unwind"
  /\ finalized' = Nothing
  /\ UNCHANGED <<schedulerVars, mixed, aborted, prepared, outcome, body, keyOf,
                 deferred, stopTurn>>

allSettled_skipped ==
  /\ pc \in {"settle", "unwind"}
  /\ pc' = IF pc = "settle" THEN "returned" ELSE "threw"
  /\ UNCHANGED <<schedulerVars, mixed, aborted, prepared, outcome, body, keyOf,
                 deferred, transcript, drained, finalized, stopTurn>>

(* The finally block: Promise.allSettled(pendingResults).                  *)
allSettled ==
  /\ pc \in {"settle", "unwind"}
  /\ settledTasks = 1..added
  /\ pc' = IF pc = "settle" THEN "returned" ELSE "threw"
  /\ UNCHANGED <<schedulerVars, mixed, aborted, prepared, outcome, body, keyOf,
                 deferred, transcript, drained, finalized, stopTurn>>

-----------------------------------------------------------------------------
(* A response that mixes AgentSwarm with other calls: each call is         *)
(* recorded and answered with an error, and none is scheduled.             *)
virtualTurn ==
  /\ \/ /\ pc = "virtualCall"
        /\ transcript' = Append(transcript, Call(draining))
        /\ pc' = "virtualResult"
        /\ UNCHANGED <<drained, stopTurn>>
     \/ /\ pc = "virtualResult"
        /\ transcript' = Append(transcript, Result(draining, "done"))
        /\ drained' = draining
        /\ stopTurn' = (draining = NumTasks)
        /\ pc' = IF draining = NumTasks THEN "returned" ELSE "virtualCall"
     \/ /\ pc \in {"virtualCall", "virtualResult"}
        /\ pc' = "threw"
        /\ UNCHANGED <<transcript, drained, stopTurn>>
  /\ UNCHANGED <<schedulerVars, mixed, aborted, prepared, outcome, body, keyOf,
                 deferred, finalized>>

abort ==
  /\ ~ aborted /\ ~ Over
  /\ aborted' = TRUE
  /\ UNCHANGED <<schedulerVars, mixed, pc, prepared, outcome, body, keyOf, deferred,
                 transcript, drained, finalized, stopTurn>>

-----------------------------------------------------------------------------
runToolCallBatch ==
  \/ prepareToolCall \/ resolveExecution \/ authorizeToolExecution
  \/ prepareSkippedToolCall \/ dispatchToolCall \/ addTask
  \/ finalizePendingToolResult \/ dispatchToolResult \/ allSettled
  \/ virtualTurn

BatchNext ==
  \/ runToolCallBatch
  \/ abort
  \/ \E t \in Task : \/ resolveTask(t) \/ executeReturns(t)
                     \/ graceTimeout(t) \/ finishTask(t)

BatchSpec == BatchInit /\ [][BatchNext]_vars

(* The hooks the batch awaits settle, the last of them because they are    *)
(* given the turn's signal; promises that have settled run their           *)
(* callbacks; a timer fires.  Nothing is assumed of execute(): a tool may  *)
(* ignore the signal and never return.                                     *)
FairBatchSpec ==
  /\ BatchSpec
  /\ WF_vars(runToolCallBatch)
  /\ \A t \in Task : WF_vars(resolveTask(t) \/ graceTimeout(t)) /\ WF_vars(finishTask(t))

-----------------------------------------------------------------------------
BatchTypeOK ==
  /\ SchedulerTypeOK
  /\ mixed \in BOOLEAN /\ aborted \in BOOLEAN /\ stopTurn \in BOOLEAN
  /\ pc \in {"prepare", "resolve", "authorize", "record", "add", "skip", "drain",
             "append", "settle", "unwind", "virtualCall", "virtualResult",
             "returned", "threw"}
  /\ prepared \in PreparedToolCallTask
  /\ outcome \in [Task -> Outcome \cup {Nothing}]
  /\ body \in [Task -> {"idle", "running", "over"}]
  /\ keyOf \in [Task -> Key \cup {NoKey}]
  /\ deferred \in [Key -> Outcome \cup {Nothing}]
  /\ transcript \in Seq(Event)
  /\ drained \in 0..NumTasks
  /\ finalized \in Outcome \cup {Nothing}

(* No tool body changes a file that another body running at the same time  *)
(* may touch, those the grace timer has given up on included.              *)
BodiesProtectFiles ==
  \A t, u \in Running, f \in File :
    t # u /\ MayChange(accesses[t], f) => ~ MayTouch(accesses[u], f)

(* A tool body that has begun has every earlier call of the response that  *)
(* changes a file it may touch, or may touch one it changes, behind it: the*)
(* body of that call is over or will never run.  So the effects on a file  *)
(* come in provider order (tool-scheduler.ts:46-53), however calls queue,  *)
(* settle and are given up.                                                *)
Share(t, u, f) ==
  \/ MayChange(accesses[t], f) /\ MayTouch(accesses[u], f)
  \/ MayChange(accesses[u], f) /\ MayTouch(accesses[t], f)

BodiesRunInOrder ==
  \A t \in Task, f \in File : \A u \in 1..(t - 1) :
    body[t] # "idle" /\ Share(t, u, f) => u \in settledTasks /\ body[u] # "running"

(* The transcript lists the calls in provider order, their results in      *)
(* provider order, each result after its call; and a batch that returns,   *)
(* aborted or not, has recorded both for every call of the response.       *)
PairedTranscript ==
  /\ \A i, j \in DOMAIN transcript :
       i < j /\ transcript[i].type = transcript[j].type
         => transcript[i].id < transcript[j].id
  /\ \A j \in DOMAIN transcript :
       transcript[j].type = "result"
         => \E i \in 1..(j - 1) : transcript[i] = Call(transcript[j].id)
  /\ pc = "returned"
       => \A t \in Task : \E j \in DOMAIN transcript :
            transcript[j].type = "result" /\ transcript[j].id = t

(* A duplicate is answered with what its original has published, or with an*)
(* error if its own finalization failed; the placeholder is never recorded.*)
DupSharesResult ==
  \A i \in DOMAIN transcript :
    LET e == transcript[i]
    IN  /\ e.result # "dup"
        /\ e.type = "result" /\ IsDup(e.id)
             => e.result \in {deferred[keyOf[e.id]], "failed"}

(* The batch leaves no promise unsettled behind, whichever way it ends,    *)
(* and a tool body outlives it only after an abort.                        *)
NoDetachedWork ==
  Over => settledTasks = 1..added /\ (Running # {} => aborted)

(* A turn that some recorded result stops, or whose later calls were       *)
(* skipped, is reported as stopped.                                        *)
StopIsHonoured ==
  pc = "returned" /\ (\E i \in DOMAIN transcript :
                        transcript[i].result \in {"stop", "skipped"})
    => stopTurn

(* An aborted batch ends, even if no tool body ever returns.               *)
AbortEndsBatch == aborted ~> Over
=============================================================================
