--------------------------- MODULE BackgroundTasks ---------------------------
(***************************************************************************)
(* The background tasks of one agent (packages/agent-core/src/agent/       *)
(* background/index.ts, persist.ts): their lifecycle, the record each      *)
(* leaves on disk, and the notice of its end, which reaches the model as a *)
(* steer of the running turn, a turn of its own, or, after a restart, a    *)
(* message appended while the session resumes.                             *)
(*                                                                         *)
(* A worker that fails ends as one that completes does; the status stands  *)
(* for both.  Output is left out: only whether it goes to disk counts.     *)
(***************************************************************************)
EXTENDS Integers, Sequences, FiniteSets, SequencesExt

CONSTANTS Task,
          MaxRunning,  \* background.maxRunningTasks
          Scenarios    \* how often each occasion may arise

None == "none"
Occasion == {"background", "foreground", "detach", "spill", "stop", "taskStop", "timeout",
             "cancel", "turnFails", "prompt", "close", "keepAlive", "crash", "openCall",
             "writeFails", "resumeFails"}

ASSUME BackgroundConstants ==
  /\ None \notin Task
  /\ MaxRunning \in Nat
  /\ Scenarios \subseteq [Occasion -> Nat]

VARIABLES proc,       \* the process: down, resuming, up, or how far its close is
          task,       \* the ManagedTask of each task
          mode,       \* how a task was started, and whether it was detached or spilled
          writes,     \* persistWriteQueue of each task
          disk,       \* the record of each task on disk
          ghosts,     \* the records a resume has loaded
          scheduled,  \* scheduledNotificationKeys
          building,   \* notices whose output snapshot is awaited
          turn,       \* the active turn and the notice that launched it
          orphans,    \* notices that launched a turn cancelled before it began
          steerBuffer,
          log,        \* the notices among the agent's records
          durable,    \* how many of those are on disk
          left        \* the occasions still to come

manager == <<task, mode, writes, disk, ghosts>>
notices == <<scheduled, building>>
turns   == <<turn, orphans, steerBuffer>>
records == <<log, durable>>
vars    == <<proc, manager, notices, turns, records, left>>

Happens(h) == left[h] > 0 /\ left' = [left EXCEPT ![h] = @ - 1]

Fresh  == [t \in Task |-> [at |-> None, status |-> "running", why |-> None, suppressed |-> FALSE]]
NoInfo == [status |-> None, detached |-> FALSE, suppressed |-> FALSE]
Notice(t, status) == [task |-> t, status |-> status]
NoNotice == Notice(None, None)
NoTurn == [at |-> "idle", input |-> NoNotice]

Init ==
  /\ proc = "up" /\ left \in Scenarios
  /\ task = Fresh /\ mode = [t \in Task |-> "new"]
  /\ writes = [t \in Task |-> <<>>]
  /\ disk = [t \in Task |-> NoInfo] /\ ghosts = disk
  /\ scheduled = {} /\ building = {}
  /\ turn = [at |-> "running", input |-> NoNotice] /\ orphans = {} /\ steerBuffer = <<>>
  /\ log = <<>> /\ durable = 0

Up         == proc \notin {"down", "resuming"}
Active(t)  == task[t].at \in {"running", "grace"}
IsDetached(t) == mode[t] \in {"background", "moved"}
IsOnDisk(t)   == disk[t] # NoInfo

(* The notices in the history.  A message appended while a tool call is    *)
(* open waits in deferredMessages and is not delivered yet.                *)
Call   == Notice(None, "call")
Result == Notice(None, "result")
Unanswered(l, i) == l[i] = Call /\ \A k \in i..Len(l) : l[k] # Result
IsOpen(l)    == \E i \in DOMAIN l : Unanswered(l, i)
Delivered(l) == {l[i] : i \in {j \in DOMAIN l : \A k \in 1..j : ~Unanswered(l, k)}}

-----------------------------------------------------------------------------
(* Records.  A queued write is a snapshot, and by says who waits for it.   *)

Persist(w, t, info, by) == [w EXCEPT ![t] = Append(@, [info |-> info, by |-> by])]

toInfo(t, m, e) == [status |-> e.status, detached |-> m \in {"background", "moved"},
                    suppressed |-> e.suppressed]

persistLive(t, m, e, by) == writes' = Persist(writes, t, toInfo(t, m, e), by)

(* Tasks that are not detached have nothing on disk before they are.       *)
registerTask(t, how) ==
  /\ proc = "up" /\ turn.at = "running" /\ mode[t] = "new"
  /\ Happens(how)
  /\ how = "background" =>
       Cardinality({u \in Task : Active(u) /\ mode[u] = "background"}) < MaxRunning
  /\ LET e == [Fresh[t] EXCEPT !.at = "running"]
     IN /\ task' = [task EXCEPT ![t] = e] /\ mode' = [mode EXCEPT ![t] = how]
        /\ IF how = "background" THEN persistLive(t, how, e, None) ELSE UNCHANGED writes
  /\ UNCHANGED <<proc, disk, ghosts, notices, turns, records>>

detach(t) ==
  /\ Up /\ Active(t) /\ ~IsDetached(t) /\ Happens("detach")
  /\ mode' = [mode EXCEPT ![t] = "moved"]
  /\ persistLive(t, "moved", task[t], None)
  /\ UNCHANGED <<proc, task, disk, ghosts, notices, turns, records>>

(* The output of a foreground task outgrows its buffer.                    *)
persistOutput(t) ==
  /\ Up /\ Active(t) /\ mode[t] = "foreground" /\ Happens("spill")
  /\ mode' = [mode EXCEPT ![t] = "spilled"]
  /\ UNCHANGED <<proc, task, writes, disk, ghosts, notices, turns, records>>

-----------------------------------------------------------------------------
(* The race of worker, deadline, stop and signal.                          *)

GivenUp(e, why) == IF e.at = "running" THEN [e EXCEPT !.at = "grace", !.why = why] ELSE e

timeout(t) ==
  /\ Up /\ task[t].at = "running" /\ Happens("timeout")
  /\ task' = [task EXCEPT ![t] = GivenUp(@, "timeout")]
  /\ UNCHANGED <<proc, mode, writes, disk, ghosts, notices, turns, records>>

stop(t) ==
  /\ Up /\ task[t].at = "running" /\ Happens("stop")
  /\ task' = [task EXCEPT ![t] = GivenUp(@, "stop")]
  /\ UNCHANGED <<proc, mode, writes, disk, ghosts, notices, turns, records>>

(* TaskStop suppresses the notice and stops the task once that is written. *)
TaskStop(t) ==
  /\ proc = "up" /\ turn.at = "running" /\ Active(t) /\ Happens("taskStop")
  /\ ~task[t].suppressed
  /\ task' = [task EXCEPT ![t].suppressed = TRUE]
  /\ persistLive(t, mode[t], task'[t], "taskStop")
  /\ UNCHANGED <<proc, mode, disk, ghosts, notices, turns, records>>

finalizeTask_alwaysPersists(t, status) ==
  LET e == [task[t] EXCEPT !.status = status, !.at = "writing"]
  IN /\ task' = [task EXCEPT ![t] = e]
     /\ persistLive(t, mode[t], e, "end")
     /\ UNCHANGED <<proc, mode, disk, ghosts, notices, turns, records, left>>

(* A foreground task that never touched disk leaves nothing there.         *)
finalizeTask(t, status) ==
  LET e == [task[t] EXCEPT !.status = status,
                           !.at = IF mode[t] = "foreground" THEN "over" ELSE "writing"]
  IN /\ task' = [task EXCEPT ![t] = e]
     /\ IF mode[t] = "foreground" THEN UNCHANGED writes ELSE persistLive(t, mode[t], e, "end")
     /\ UNCHANGED <<proc, mode, disk, ghosts, notices, turns, records, left>>

AfterGrace(t) == IF task[t].why = "timeout" THEN "timed_out" ELSE "killed"

workerSettles(t) ==
  /\ Up
  /\ \/ /\ task[t].at = "running" \/ (task[t].at = "grace" /\ task[t].why = "stop")
        /\ finalizeTask(t, "completed")
     \/ /\ task[t].at = "grace"
        /\ finalizeTask(t, AfterGrace(t))

(* Five seconds later the worker is forced to stop.                        *)
graceTimeout(t) ==
  /\ Up /\ task[t].at = "grace"
  /\ finalizeTask(t, AfterGrace(t))

-----------------------------------------------------------------------------
(* Notices.                                                                *)

Undelivered_inThisProcess(n) == n \notin scheduled
Undelivered(n) == n \notin scheduled /\ n \notin Delivered(log)

fireTerminalEffects(t) ==
  LET n == Notice(t, task[t].status)
  IN IF IsDetached(t) /\ ~task[t].suppressed /\ Undelivered(n)
     THEN scheduled' = scheduled \union {n} /\ building' = building \union {n}
     ELSE UNCHANGED notices

(* A write that fails is as good as done for those who wait for it.        *)
writeTask(t) ==
  /\ Up /\ writes[t] # <<>>
  /\ writes' = [writes EXCEPT ![t] = Tail(@)]
  /\ \/ disk' = [disk EXCEPT ![t] = Head(writes[t]).info] /\ UNCHANGED left
     \/ Happens("writeFails") /\ UNCHANGED disk
  /\ CASE Head(writes[t]).by = "end" ->
            task' = [task EXCEPT ![t].at = "over"] /\ fireTerminalEffects(t)
       [] Head(writes[t]).by = "taskStop" ->
            task' = [task EXCEPT ![t] = GivenUp(@, "stop")] /\ UNCHANGED notices
       [] OTHER -> UNCHANGED <<task, notices>>
  /\ UNCHANGED <<proc, mode, ghosts, turns, records>>

steer(n) ==
  /\ Up /\ n \in building /\ building' = building \ {n}
  /\ CASE task[n.task].suppressed -> UNCHANGED <<turn, steerBuffer>>
       [] turn.at = "idle" -> turn' = [at |-> "launched", input |-> n] /\ UNCHANGED steerBuffer
       [] OTHER -> steerBuffer' = Append(steerBuffer, n) /\ UNCHANGED turn
  /\ UNCHANGED <<proc, manager, scheduled, orphans, records, left>>

-----------------------------------------------------------------------------
(* The turns.  A tool call that waits for a foreground task is in the way  *)
(* of the next step.                                                       *)

BetweenSteps == Up /\ turn.at = "running" /\ \A t \in Task : Active(t) => IsDetached(t)

prompt ==
  /\ proc = "up" /\ turn.at = "idle" /\ Happens("prompt")
  /\ turn' = [at |-> "launched", input |-> NoNotice]
  /\ UNCHANGED <<proc, manager, notices, orphans, steerBuffer, records>>

runOneTurn ==
  /\ Up /\ turn.at = "launched"
  /\ turn' = [at |-> "running", input |-> NoNotice]
  /\ log' = IF turn.input = NoNotice THEN log ELSE Append(log, turn.input)
  /\ UNCHANGED <<proc, manager, notices, orphans, steerBuffer, durable, left>>

runCancelledTurn(n) ==
  /\ Up /\ n \in orphans
  /\ orphans' = orphans \ {n} /\ log' = Append(log, n)
  /\ UNCHANGED <<proc, manager, notices, turn, steerBuffer, durable, left>>

flushSteerBuffer ==
  /\ BetweenSteps /\ steerBuffer # <<>>
  /\ log' = log \o steerBuffer /\ steerBuffer' = <<>>
  /\ UNCHANGED <<proc, manager, notices, turn, orphans, durable, left>>

(* shouldContinueAfterStop, its last look at the buffer.                   *)
stopsAnswering ==
  /\ BetweenSteps /\ steerBuffer = <<>>
  /\ turn' = [turn EXCEPT !.at = "ending"]
  /\ UNCHANGED <<proc, manager, notices, orphans, steerBuffer, records, left>>

turnEnds ==
  /\ \/ Up /\ turn.at = "ending" /\ UNCHANGED left
     \/ BetweenSteps /\ Happens("turnFails")
  /\ turn' = NoTurn
  /\ UNCHANGED <<proc, manager, notices, orphans, steerBuffer, records>>

abortTurn ==
  /\ turn' = NoTurn
  /\ orphans' = IF turn.input = NoNotice THEN orphans ELSE orphans \union {turn.input}
  /\ task' = [t \in Task |-> IF IsDetached(t) THEN task[t] ELSE GivenUp(task[t], "stop")]

cancel ==
  /\ proc = "up" /\ turn.at # "idle" /\ Happens("cancel")
  /\ abortTurn
  /\ UNCHANGED <<proc, mode, writes, disk, ghosts, notices, steerBuffer, records>>

-----------------------------------------------------------------------------
(* The end of the process, and the resume of the next.                     *)

close ==
  /\ proc = "up" /\ Happens("close")
  /\ proc' = "cancelling" /\ abortTurn
  /\ UNCHANGED <<mode, writes, disk, ghosts, notices, steerBuffer, records>>

(* The cancelled turn has ended or its eight seconds are over.  The tasks  *)
(* of the list are suppressed in one go, foreground tasks among them.      *)
stopBackgroundTasksOnExit ==
  /\ proc = "cancelling" /\ left["keepAlive"] = 0
  /\ LET listed == {t \in Task : Active(t) /\ ~task[t].suppressed}
         Quiet(t) == [task[t] EXCEPT !.suppressed = TRUE]
     IN /\ task' = [t \in Task |-> IF t \in listed THEN Quiet(t) ELSE task[t]]
        /\ writes' = [t \in Task |-> IF t \in listed
                        THEN Append(writes[t], [info |-> toInfo(t, mode[t], Quiet(t)),
                                                by |-> "close"])
                        ELSE writes[t]]
  /\ proc' = "suppressing"
  /\ UNCHANGED <<mode, disk, ghosts, notices, turns, records, left>>

stopAll ==
  /\ proc = "suppressing"
  /\ \A t \in Task : \A i \in DOMAIN writes[t] : writes[t][i].by # "close"
  /\ task' = [t \in Task |-> GivenUp(task[t], "stop")]
  /\ proc' = "stopping"
  /\ UNCHANGED <<mode, writes, disk, ghosts, notices, turns, records, left>>

(* Nothing but the disk survives, and of the log what was written.         *)
ProcessEnds(l) ==
  /\ proc' = "down"
  /\ task' = Fresh /\ writes' = [t \in Task |-> <<>>]
  /\ scheduled' = {} /\ building' = {}
  /\ turn' = NoTurn /\ orphans' = {} /\ steerBuffer' = <<>>
  /\ log' = l /\ durable' = Len(l)

exit ==
  /\ \/ proc = "cancelling" /\ left["keepAlive"] > 0
     \/ proc = "stopping" /\ \A t \in Task : task[t].at \in {None, "over"}
  /\ \E n \in durable..Len(log) : ProcessEnds(SubSeq(log, 1, n))
  /\ UNCHANGED <<mode, disk, ghosts, left>>

(* A call the crash interrupts has no result in the records.               *)
crash ==
  /\ proc # "down"
  /\ \E n \in durable..Len(log) :
       \/ Happens("crash") /\ ProcessEnds(SubSeq(log, 1, n))
       \/ turn.at = "running" /\ Happens("openCall")
          /\ ProcessEnds(Append(SubSeq(log, 1, n), Call))
  /\ UNCHANGED <<mode, disk, ghosts>>

(* Replay of the records, and loadFromDisk.                                *)
resume ==
  /\ proc = "down"
  /\ proc' = "resuming" /\ ghosts' = disk
  /\ UNCHANGED <<task, mode, writes, disk, notices, turns, records, left>>

markLoadedTasksLost(t) ==
  /\ proc = "resuming" /\ ghosts[t].status = "running"
  /\ ghosts' = [ghosts EXCEPT ![t].status = "lost"]
  /\ \/ /\ disk' = [disk EXCEPT ![t] = ghosts'[t]]
        /\ UNCHANGED <<proc, task, writes, notices, turns, records, left>>
     \/ \* the resume fails
        /\ Happens("resumeFails") /\ ProcessEnds(log) /\ UNCHANGED disk
  /\ UNCHANGED mode

ToRestore_onlyLost ==
  {Notice(t, "lost") : t \in {u \in Task :
     ghosts[u] # NoInfo /\ ghosts[u].status = "lost" /\ ghosts[u].detached /\ ~ghosts[u].suppressed}}

ToRestore_evenSuppressed ==
  {Notice(t, ghosts[t].status) : t \in {u \in Task : ghosts[u] # NoInfo /\ ghosts[u].detached}}

ToRestore ==
  {Notice(t, ghosts[t].status) : t \in {u \in Task :
     ghosts[u] # NoInfo /\ ghosts[u].detached /\ ~ghosts[u].suppressed}}

Reconciled == proc = "resuming" /\ \A t \in Task : ghosts[t].status # "running"

restoreBackgroundTaskNotification(n) ==
  /\ Reconciled /\ building = {} /\ n \in ToRestore /\ Undelivered(n)
  /\ scheduled' = scheduled \union {n} /\ building' = {n}
  /\ UNCHANGED <<proc, manager, turns, records, left>>

restored(n) ==
  /\ proc = "resuming" /\ n \in building
  /\ building' = {} /\ log' = Append(log, n)
  /\ UNCHANGED <<proc, manager, scheduled, turns, durable, left>>

(* The open call is given its result, which lets the deferred notices in.  *)
finishResume ==
  /\ Reconciled /\ building = {} /\ \A n \in ToRestore : ~Undelivered(n)
  /\ proc' = "up"
  /\ log' = IF IsOpen(log) THEN Append(log, Result) ELSE log
  /\ steerBuffer' = <<>>
  /\ UNCHANGED <<manager, notices, turn, orphans, durable, left>>

flush ==
  /\ proc # "down" /\ durable < Len(log) /\ durable' = Len(log)
  /\ UNCHANGED <<proc, manager, notices, turns, log, left>>

Notices == [task : Task, status : {"completed", "killed", "timed_out", "lost"}]

Next ==
  \/ \E t \in Task :
       \/ \E how \in {"background", "foreground"} : registerTask(t, how)
       \/ detach(t) \/ persistOutput(t) \/ timeout(t) \/ stop(t) \/ TaskStop(t)
       \/ workerSettles(t) \/ graceTimeout(t) \/ writeTask(t) \/ markLoadedTasksLost(t)
  \/ \E n \in Notices : \/ steer(n) \/ runCancelledTurn(n)
                        \/ restoreBackgroundTaskNotification(n) \/ restored(n)
  \/ prompt \/ runOneTurn \/ flushSteerBuffer \/ stopsAnswering \/ turnEnds \/ cancel
  \/ close \/ stopBackgroundTasksOnExit \/ stopAll \/ exit \/ crash \/ resume
  \/ finishResume \/ flush

(* Timers fire, writes and reads return, the model answers.  A foreground  *)
(* command always has a deadline; a task in the background need not end.   *)
Fairness ==
  /\ \A t \in Task : /\ WF_vars(graceTimeout(t)) /\ WF_vars(writeTask(t))
                     /\ WF_vars(~IsDetached(t) /\ workerSettles(t))
                     /\ WF_vars(markLoadedTasksLost(t))
  /\ \A n \in Notices : /\ WF_vars(steer(n)) /\ WF_vars(restored(n)) /\ WF_vars(runCancelledTurn(n))
                        /\ WF_vars(restoreBackgroundTaskNotification(n))
  /\ WF_vars(runOneTurn) /\ WF_vars(flushSteerBuffer) /\ WF_vars(turnEnds)
  /\ WF_vars(finishResume)

Spec == Init /\ [][Next]_vars /\ Fairness

-----------------------------------------------------------------------------
(* The notices of a task on their way to the model, and those it has got.   *)
Waiting(t) == Cardinality({n \in building \union orphans : n.task = t})
              + Cardinality({i \in DOMAIN steerBuffer : steerBuffer[i].task = t})
              + (IF turn.input # NoNotice /\ turn.input.task = t THEN 1 ELSE 0)
Told(t) == Cardinality({i \in DOMAIN log : log[i].task = t})

(* The model is told the end of a task at most once, over crashes and      *)
(* restarts too: the record of the end is on disk before the notice is     *)
(* sent, and the notice in the agent's records keeps a resume from sending *)
(* it again, with the same status or another.                              *)
NotToldTwice == \A t \in Task : Told(t) + Waiting(t) <= 1

(* A task whose notice TaskStop or the close of the session has suppressed *)
(* is never told of, not even by a later process that finds its record.    *)
SuppressedIsQuiet ==
  \A t \in Task : disk[t].suppressed => Told(t) = 0

(* A foreground task that was neither detached nor spilled leaves nothing  *)
(* on disk (but for what suppressing its notice writes) and the model is   *)
(* not told of it; nor is it of one that spilled.                          *)
ForegroundLeavesNothing ==
  \A t \in Task :
    /\ mode[t] = "foreground" /\ IsOnDisk(t) => disk[t].suppressed
    /\ mode[t] \in {"foreground", "spilled"} => Told(t) = 0

(* A detached task that ended, with its end on disk and its notice not     *)
(* suppressed, is told of, or its notice is left in the buffer of an idle  *)
(* agent for the next turn, provided that a session that goes down is      *)
(* resumed in the end.                                                     *)
EndIsOnDisk(t) == IsOnDisk(t) /\ disk[t].status # "running" /\ disk[t].detached
                  /\ ~disk[t].suppressed
LeftForNextTurn(t) == turn.at = "idle" /\ \E i \in DOMAIN steerBuffer : steerBuffer[i].task = t

EndIsTold ==
  []<>(proc = "up") => \A t \in Task : EndIsOnDisk(t) ~> Told(t) > 0 \/ LeftForNextTurn(t)
=============================================================================
