---------------------------- MODULE AgentContext ----------------------------
(***************************************************************************)
(* Who changes an agent's conversation, and in what order: the workers of  *)
(* its turns (agent/turn/index.ts with loop/run-turn.ts and turn-step.ts), *)
(* the compaction worker (agent/compaction/full.ts), the methods a client  *)
(* calls (agent/index.ts), and a crash followed by the replay of the       *)
(* records that reached the disk (agent/records).                          *)
(*                                                                         *)
(* Cancelling a turn frees the agent at once; the worker of the cancelled  *)
(* turn goes on until it notices.  A scenario says which of the things the *)
(* terminal client refuses to do while a worker runs, and the server does  *)
(* not refuse, may happen then, and how often things happen.               *)
(***************************************************************************)
EXTENDS ContextMemory

CONSTANTS MaxTurns,        \* bounds on the turns launched,
          MaxSteps,        \*   on the steps of all of them
          MaxNotices,      \*   and on the messages nobody typed
          Scenarios

(* A scenario bounds the tool calls of one step, the compactions begun,    *)
(* the undos and clears, and the crashes.                                  *)
ASSUME ContextConstants ==
  /\ {MaxTurns, MaxSteps, MaxNotices} \subseteq Nat
  /\ Scenarios \subseteq
       [unguarded : SUBSET {"overlap", "compact", "undo", "clear", "remind"},
        calls : Nat, compactions : Nat, edits : Nat, crashes : Nat]

VARIABLES context,         \* the ContextMemory
          records,         \* every record logged
          synced,          \* how many of them the last resume found on the disk
          turn,            \* the worker of each turn
          activeTurn,      \* the turn that holds the agent, 0 for none
          steerBuffer,     \* messages waiting for the turn's next step
          compaction,      \* FullCompaction.compacting
          used             \* the scenario, and counters of what it has let happen

vars == <<context, records, synced, turn, activeTurn, steerBuffer, compaction, used>>

Turn == 1..MaxTurns
Idle == [on |-> FALSE, original |-> <<>>, compactedCount |-> 0]
Worker(at) == [pc |-> at, cancelled |-> FALSE, step |-> 0, calls |-> 0,
               recorded |-> 0, returned |-> 0]

running     == {t \in Turn : turn[t].pc \notin {"unborn", "ended"}}
Unguarded   == used.scenario.unguarded
May(what)   == what \in Unguarded \/ running = {}

MessageRecords(ms) == [i \in DOMAIN ms |-> Record("append_message", ms[i])]
Log(rs) == records' = records \o rs

(* Message numbers count up in the order the messages are appended.        *)
Numbered(role, n) == [i \in 1..n |-> Message(role, used.appended + i)]

Init ==
  /\ context = EmptyContext
  /\ records = <<>> /\ synced = 0
  /\ turn = [t \in Turn |-> Worker("unborn")]
  /\ activeTurn = 0
  /\ steerBuffer = 0
  /\ compaction = Idle
  /\ \E s \in Scenarios :
       used = [scenario |-> s, turns |-> 0, steps |-> 0, notices |-> 0, appended |-> 0,
               compactions |-> 0, edits |-> 0, crashes |-> 0]

-----------------------------------------------------------------------------
(* The client, and the background tasks that report to the agent.          *)

(* A prompt starts a turn if no turn holds the agent.                      *)
launch ==
  /\ activeTurn = 0
  /\ May("overlap")
  /\ compaction.on => "compact" \in Unguarded
  /\ used.turns < MaxTurns
  /\ turn' = [turn EXCEPT ![used.turns + 1] = Worker("launched")]
  /\ activeTurn' = used.turns + 1
  /\ used' = [used EXCEPT !.turns = @ + 1]
  /\ UNCHANGED <<context, records, synced, steerBuffer, compaction>>

(* A message for a busy agent waits for the next step of the turn.         *)
steer ==
  /\ activeTurn # 0
  /\ used.notices < MaxNotices
  /\ steerBuffer' = steerBuffer + 1
  /\ used' = [used EXCEPT !.notices = @ + 1]
  /\ UNCHANGED <<context, records, synced, turn, activeTurn, compaction>>

(* Frees the agent and aborts the signal of the worker, and with it the    *)
(* compaction the worker waits for.                                        *)
cancel ==
  /\ activeTurn # 0
  /\ LET blocked == turn[activeTurn].pc \in {"blocked", "overflowed"}
     IN  /\ turn' = [turn EXCEPT ![activeTurn].cancelled = TRUE,
                                 ![activeTurn].pc = IF blocked THEN "ready" ELSE @]
         /\ compaction' = IF blocked THEN Idle ELSE compaction
  /\ activeTurn' = 0
  /\ UNCHANGED <<context, records, synced, steerBuffer, used>>

(* A reminder that a method of the agent appends whatever it is doing, for *)
(* instance that the user has cancelled the goal.                          *)
remind ==
  /\ May("remind")
  /\ used.notices < MaxNotices
  /\ context' = appendMessage(context, Message("notice", used.appended + 1))
  /\ Log(MessageRecords(Numbered("notice", 1)))
  /\ used' = [used EXCEPT !.notices = @ + 1, !.appended = @ + 1]
  /\ UNCHANGED <<synced, turn, activeTurn, steerBuffer, compaction>>

undoHistory ==
  /\ May("undo") /\ (compaction.on => "compact" \in Unguarded)
  /\ used.edits < used.scenario.edits
  /\ context.history # <<>>
  /\ context' = undo(context)
  /\ Log(<<Record("undo", 1)>>)
  /\ used' = [used EXCEPT !.edits = @ + 1]
  /\ UNCHANGED <<synced, turn, activeTurn, steerBuffer, compaction>>

clearContext ==
  /\ May("clear") /\ (compaction.on => "compact" \in Unguarded)
  /\ used.edits < used.scenario.edits
  /\ context' = EmptyContext
  /\ Log(<<Record("clear", 0)>>)
  /\ used' = [used EXCEPT !.edits = @ + 1]
  /\ UNCHANGED <<synced, turn, activeTurn, steerBuffer, compaction>>

-----------------------------------------------------------------------------
(* The worker of turn t.                                                   *)

end(t) == /\ turn' = [turn EXCEPT ![t].pc = "ended"]
          /\ activeTurn' = IF activeTurn = t THEN 0 ELSE activeTurn

goto(t, pc) == turn' = [turn EXCEPT ![t].pc = pc] /\ UNCHANGED activeTurn

(* runOneTurn appends the prompt without a look at the signal.             *)
appendPrompt(t) ==
  /\ turn[t].pc = "launched"
  /\ context' = appendMessage(context, Message("user", used.appended + 1))
  /\ Log(MessageRecords(Numbered("user", 1)))
  /\ used' = [used EXCEPT !.appended = @ + 1]
  /\ goto(t, "ready")
  /\ UNCHANGED <<synced, steerBuffer, compaction>>

flushSteerBuffer ==
  LET steers == Numbered("notice", steerBuffer)
  IN  /\ context' = appendMessages(context, steers)
      /\ Log(MessageRecords(steers))
      /\ used' = [used EXCEPT !.appended = @ + steerBuffer]
      /\ steerBuffer' = 0

beginCompaction(n) ==
  /\ used.compactions < used.scenario.compactions
  /\ canSplitAfter(context.history, n)
  /\ compaction' = [on |-> TRUE, original |-> context.history, compactedCount |-> n]

(* The beforeStep hook: steered messages first, then a compaction when the *)
(* context is too large, or the one in progress if it is larger still.     *)
beforeStep(t) ==
  /\ turn[t].pc = "ready"
  /\ ~ turn[t].cancelled
  /\ used.steps < MaxSteps
  /\ flushSteerBuffer
  /\ \/ goto(t, "inject") /\ UNCHANGED compaction
     \/ compaction.on /\ goto(t, "blocked") /\ UNCHANGED compaction
  /\ UNCHANGED synced

(* A context that is too large is compacted first; the last message stays. *)
(* The turn waits for it: "blocked", a cancel ends the wait and the         *)
(* compaction; "pending", a compaction queued ahead of the step, it does   *)
(* not.                                                                    *)
autoCompaction(t) ==
  /\ turn[t].pc = "inject"
  /\ ~ compaction.on
  /\ \E n \in 1..(Len(context.history) - 1) : beginCompaction(n)
  /\ used' = [used EXCEPT !.compactions = @ + 1]
  /\ goto(t, "blocked") \/ goto(t, "pending")
  /\ UNCHANGED <<context, records, synced, steerBuffer>>

(* The reminders injected before a step: none, or one.                     *)
Injections == {Numbered("injection", n) : n \in 0..(IF used.notices < MaxNotices THEN 1 ELSE 0)}

(* A turn aborted between its steps, or that may take no more of them.  In *)
(* the middle of beforeStep it looks only after the injections.            *)
stopBeforeStep(t) ==
  /\ turn[t].cancelled \/ used.steps = MaxSteps
  /\ \/ turn[t].pc = "ready" /\ UNCHANGED <<context, records, used>>
     \/ /\ turn[t].pc = "inject"
        /\ \E injects \in Injections :
             /\ context' = appendMessages(context, injects)
             /\ Log(MessageRecords(injects))
             /\ used' = [used EXCEPT !.notices = @ + Len(injects), !.appended = @ + Len(injects)]
  /\ end(t)
  /\ UNCHANGED <<synced, steerBuffer, compaction>>

(* The injections, then, with no await that lets another worker in, the    *)
(* messages of the request are built and the step begins.                  *)
beginStep(t) ==
  /\ turn[t].pc = "inject"
  /\ ~ turn[t].cancelled
  /\ used.steps < MaxSteps
  /\ \E injects \in Injections :
       LET step   == used.steps + 1
           before == appendMessages(context, injects)
       IN  /\ context' = stepBegin(before, step)
           /\ Log(MessageRecords(injects) \o <<Record("step.begin", step)>>
                  \o InterruptedResults(before))
           /\ turn' = [turn EXCEPT ![t].pc = "stream", ![t].step = step, ![t].calls = 0,
                                   ![t].recorded = 0, ![t].returned = 0]
           /\ used' = [used EXCEPT !.steps = step, !.notices = @ + Len(injects),
                                   !.appended = @ + Len(injects)]
  /\ UNCHANGED <<synced, activeTurn, steerBuffer, compaction>>

(* A part of the response arrives; without its open step the turn fails.   *)
contentPart(t) ==
  LET part == Record("content.part", turn[t].step)
  IN  /\ turn[t].pc = "stream"
      /\ Log(<<part>>)
      /\ IF throws(context, part) THEN end(t) ELSE goto(t, "streamed")
      /\ UNCHANGED <<context, synced, steerBuffer, compaction, used>>

(* The request fails, or its signal is aborted; or the context is too large *)
(* and has nothing that could be compacted.                                 *)
requestFails(t) ==
  /\ turn[t].pc \in {"inject", "stream", "streamed"}
  /\ end(t)
  /\ UNCHANGED <<context, records, synced, steerBuffer, compaction, used>>

(* The request is too large: compact, or wait for the compaction that is   *)
(* on, and go on with a new step.  With nothing to compact the turn fails. *)
handleOverflowError(t) ==
  /\ turn[t].pc = "stream"
  /\ ~ turn[t].cancelled
  /\ \/ /\ compaction.on /\ goto(t, "overflowed") /\ UNCHANGED <<compaction, used>>
     \/ /\ ~ compaction.on
        /\ \E n \in 1..(Len(context.history) - 1) : beginCompaction(n)
        /\ used' = [used EXCEPT !.compactions = @ + 1]
        /\ goto(t, "overflowed")
  /\ UNCHANGED <<context, records, synced, steerBuffer>>

(* The response is complete and asks for n tool calls.                     *)
response(t) ==
  /\ turn[t].pc \in {"stream", "streamed"}
  /\ \E n \in 0..used.scenario.calls :
       turn' = [turn EXCEPT ![t].calls = n,
                            ![t].pc = IF n = 0 THEN "seal" ELSE "calls"]
  /\ UNCHANGED <<context, records, synced, activeTurn, steerBuffer, compaction, used>>

(* The batch records each call, and may have started it, before it looks   *)
(* at the next; an error here ends the turn with the results unrecorded.   *)
recordToolCall(t) ==
  LET call == <<turn[t].step, turn[t].recorded + 1>>
      r    == Record("tool.call", call)
  IN  /\ turn[t].pc = "calls"
      /\ Log(<<r>>)
      /\ IF throws(context, r)
           THEN end(t) /\ UNCHANGED context
           ELSE /\ context' = toolCall(context, call)
                /\ turn' = [turn EXCEPT
                      ![t].recorded = @ + 1,
                      ![t].pc = IF call[2] = turn[t].calls THEN "results" ELSE @]
                /\ UNCHANGED activeTurn
      /\ UNCHANGED <<synced, steerBuffer, compaction, used>>

(* A tool appends a message while it runs.                                 *)
toolReminder(t) ==
  /\ turn[t].pc \in {"calls", "results"}
  /\ turn[t].recorded > turn[t].returned
  /\ used.notices < MaxNotices
  /\ context' = appendMessage(context, Message("notice", used.appended + 1))
  /\ Log(MessageRecords(Numbered("notice", 1)))
  /\ used' = [used EXCEPT !.notices = @ + 1, !.appended = @ + 1]
  /\ UNCHANGED <<synced, turn, activeTurn, steerBuffer, compaction>>

(* Results are recorded in order, of a cancelled turn too.                 *)
recordToolResult(t) ==
  LET call == <<turn[t].step, turn[t].returned + 1>>
  IN  /\ turn[t].pc = "results"
      /\ context' = toolResult(context, call)
      /\ Log(<<Record("tool.result", call)>>)
      /\ turn' = [turn EXCEPT ![t].returned = @ + 1,
                              ![t].pc = IF call[2] = turn[t].calls THEN "seal" ELSE @]
      /\ UNCHANGED <<synced, activeTurn, steerBuffer, compaction, used>>

(* A cancelled turn ends with its step unsealed.  Otherwise the turn takes *)
(* another step after tool calls or for steered messages, or it ends.      *)
endStep(t) ==
  /\ turn[t].pc = "seal"
  /\ IF turn[t].cancelled
       THEN end(t) /\ UNCHANGED <<context, records, steerBuffer, used>>
       ELSE LET sealed == stepEnd(context, turn[t].step)
                steers == Numbered("notice", steerBuffer)
                ended  == <<Record("step.end", turn[t].step)>>
            IN  \/ /\ turn[t].calls > 0
                   /\ context' = sealed
                   /\ Log(ended)
                   /\ goto(t, "ready")
                   /\ UNCHANGED <<steerBuffer, used>>
                \/ /\ context' = appendMessages(sealed, steers)
                   /\ Log(ended \o MessageRecords(steers))
                   /\ used' = [used EXCEPT !.appended = @ + steerBuffer]
                   /\ steerBuffer' = 0
                   /\ IF steerBuffer > 0 THEN goto(t, "ready") ELSE end(t)
  /\ UNCHANGED <<synced, compaction>>

-----------------------------------------------------------------------------
(* The compaction worker.                                                  *)

(* A user may ask for a compaction of all but an unsplittable tail.        *)
manualCompaction ==
  /\ May("compact")
  /\ ~ compaction.on
  /\ \E n \in 2..Len(context.history) : beginCompaction(n)
  /\ used' = [used EXCEPT !.compactions = @ + 1]
  /\ UNCHANGED <<context, records, synced, turn, activeTurn, steerBuffer>>

(* The turns that waited for the compaction go on.                         *)
unblock == [t \in Turn |-> [turn[t] EXCEPT
              !.pc = CASE @ \in {"blocked", "pending"} -> "inject"
                     [] @ = "overflowed" -> "ready"
                     [] OTHER -> @]]

SamePrefix_unchecked(h, original) == TRUE

SamePrefix(h, original) ==
  /\ Len(original) <= Len(h)
  /\ \A i \in DOMAIN original : h[i].role = original[i].role /\ h[i].id = original[i].id

(* The summary has arrived.  It replaces what it summarises, unless the    *)
(* history it was made from has changed.                                   *)
compactionDone ==
  /\ compaction.on
  /\ IF SamePrefix(context.history, compaction.original)
       THEN /\ context' = applyCompaction(context, used.compactions, compaction.compactedCount)
            /\ Log(<<Record("apply_compaction",
                            <<used.compactions, compaction.compactedCount>>)>>)
       ELSE UNCHANGED <<context, records>>
  /\ compaction' = Idle
  /\ turn' = unblock
  /\ UNCHANGED <<synced, activeTurn, steerBuffer, used>>

cancelCompaction ==
  /\ compaction.on
  /\ compaction' = Idle
  /\ turn' = unblock
  /\ UNCHANGED <<context, records, synced, activeTurn, steerBuffer, used>>

(* No summary: the turn it blocks fails, and a context that is too large   *)
(* loses the text of a tool result.  Nothing of this is recorded.          *)
compactionFails ==
  /\ compaction.on
  /\ \/ UNCHANGED context
     \/ /\ \E i \in DOMAIN context.history : context.history[i].role \in ToolRoles
        /\ context' = replaceHistory(context)
  /\ compaction' = Idle
  /\ LET failed == {t \in Turn : turn[t].pc \in {"blocked", "overflowed"}}
     IN  /\ turn' = [t \in Turn |-> IF t \in failed THEN [turn[t] EXCEPT !.pc = "ended"]
                                                   ELSE unblock[t]]
         /\ activeTurn' = IF activeTurn \in failed THEN 0 ELSE activeTurn
  /\ UNCHANGED <<records, synced, steerBuffer, used>>

-----------------------------------------------------------------------------
(* Persistence.                                                            *)

(* Records are written behind the program's back.  When the process dies   *)
(* some prefix of them is on the disk, at least what the last resume read; *)
(* the session is resumed from it.                                         *)
crash ==
  /\ used.crashes < used.scenario.crashes
  /\ \E n \in synced..Len(records) :
       LET found   == SubSeq(records, 1, n)
           resumed == replay(found)
       IN  /\ CanReplay(found)
           /\ context' = finishResume(resumed)
           /\ records' = found \o InterruptedResults(resumed)
           /\ synced' = n
  /\ turn' = [t \in Turn |-> IF t \in running THEN Worker("ended") ELSE turn[t]]
  /\ activeTurn' = 0
  /\ steerBuffer' = 0
  /\ compaction' = Idle
  /\ used' = [used EXCEPT !.crashes = @ + 1]

-----------------------------------------------------------------------------
worker(t) ==
  \/ appendPrompt(t) \/ beforeStep(t) \/ autoCompaction(t) \/ stopBeforeStep(t)
  \/ beginStep(t) \/ contentPart(t) \/ requestFails(t) \/ handleOverflowError(t)
  \/ response(t) \/ recordToolCall(t) \/ toolReminder(t) \/ recordToolResult(t)
  \/ endStep(t)

Next ==
  \/ launch \/ steer \/ cancel \/ remind \/ undoHistory \/ clearContext
  \/ \E t \in Turn : worker(t)
  \/ manualCompaction \/ compactionDone \/ cancelCompaction \/ compactionFails
  \/ crash

Spec == Init /\ [][Next]_vars

-----------------------------------------------------------------------------
(* The results that directly follow message i.                             *)
Answered(h, i) ==
  {h[k].id : k \in {k \in (i + 1)..Len(h) : \A j \in (i + 1)..k : h[j].role \in ToolRoles}}

Unanswered(h, i) == IF h[i].role = "assistant" THEN h[i].calls \ Answered(h, i) ELSE {}

(* The class invariant of ContextMemory: results directly follow the call, *)
(* once each; only the last exchange may lack some, and those are exactly  *)
(* the ones pending.                                                       *)
ToolExchangesClosed ==
  LET h == context.history
  IN  /\ \A i, j \in DOMAIN h :
           i # j /\ h[i].role \in ToolRoles /\ h[j].role \in ToolRoles => h[i].id # h[j].id
      /\ \A i \in DOMAIN h :
           h[i].role \in ToolRoles
             => \E j \in 1..(i - 1) : h[i].id \in h[j].calls /\ h[i].id \in Answered(h, j)
      /\ \A i \in DOMAIN h :
           Unanswered(h, i) # {} => i + Cardinality(Answered(h, i)) = Len(h)
      /\ Range(context.pendingToolResultIds) = UNION {Unanswered(h, i) : i \in DOMAIN h}

(* It is kept as long as nobody but the worker of a turn changes the       *)
(* conversation while it runs, and in any case nothing is held back but by *)
(* an open exchange.                                                       *)
Guarded == Unguarded = {}

ExchangesStayClosed ==
  /\ Guarded => ToolExchangesClosed
  /\ context.deferredMessages # <<>> => hasOpenToolExchange(context)

InOrder(messages) ==
  \A i, j \in DOMAIN messages :
    i < j /\ messages[i].role \in UserRoles /\ messages[j].role \in UserRoles
      => messages[i].id < messages[j].id

(* Prompts, reminders and notifications stay in the order they came in,    *)
(* whether a tool exchange held them back or not.                          *)
MessagesInOrder == InOrder(context.history \o context.deferredMessages)

(* The messages of a request are built from a history in which every call  *)
(* has its result and from which nothing is held back, as long as only the *)
(* worker of one turn changes the conversation while it runs.              *)
RequestsAreComplete ==
  [][Guarded /\ used.steps' # used.steps => /\ ~ hasOpenToolExchange(context)
                                            /\ context.deferredMessages = <<>>]_vars

(* Nobody compacts, undoes or clears while a worker runs, and no compaction *)
(* is begun where two workers may run at once.                             *)
Undisturbed ==
  /\ Unguarded \cap {"compact", "undo", "clear"} = {}
  /\ "overlap" \in Unguarded => used.scenario.compactions = 0

Uncut(h) == [i \in DOMAIN h |-> IF h[i].role = "pruned" THEN [h[i] EXCEPT !.role = "tool"] ELSE h[i]]

(* The records of a session can always be replayed.                        *)
RecordsReplay == CanReplay(records)

(* As long as a running turn is left undisturbed, a session can be resumed *)
(* from all its records, none of which throws, and has the conversation it *)
(* would have had, but for tool results whose text was cut, which come     *)
(* back.                                                                   *)
ResumeRestores ==
  Undisturbed =>
    /\ RecordsReplay
    /\ Uncut(finishResume(replay(records)).history) = Uncut(finishResume(context).history)

Kept(m, h) == \E i \in DOMAIN h : h[i].role = m.role /\ h[i].id = m.id

(* The messages that disappear when a summary comes in are among those it  *)
(* was made from.  (A resume may bring an older summary back.)             *)
SummaryCoversWhatItDrops ==
  [][LET old == Range(context.history)
         new == Range(context'.history)
     IN  used'.crashes = used.crashes
         /\ (\E m \in new : m.role = "summary" /\ ~ Kept(m, context.history))
           => \A m \in old : Kept(m, context'.history)
                            \/ Kept(m, SubSeq(compaction.original, 1, compaction.compactedCount))]_vars
=============================================================================
