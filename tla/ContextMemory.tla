--------------------------- MODULE ContextMemory ---------------------------
(***************************************************************************)
(* The conversation an agent sends to its model (ContextMemory in          *)
(* packages/agent-core/src/agent/context/index.ts) as a value, each of its *)
(* methods as an operator on that value, and the replay of the records the *)
(* methods leave behind (agent/records/index.ts).                          *)
(*                                                                         *)
(* A message is the same object for as long as it is in the history: role  *)
(* and id are its identity, calls are filled in while its step is open.    *)
(***************************************************************************)
EXTENDS Naturals, FiniteSets, Sequences, SequencesExt

(* Roles.  Messages of the role "user" are told apart by their origin: a   *)
(* real prompt, a reminder that undo keeps ("injection"), any other        *)
(* ("notice").  "pruned" is a tool result whose text was cut.              *)
UserRoles == {"user", "notice", "injection"}
ToolRoles == {"tool", "pruned"}

Message(role, id) == [role |-> role, id |-> id, calls |-> {}]

(* A tool call is named by its step and its place in it.                   *)
StepOf(call) == call[1]

EmptyContext == [history |-> <<>>, openSteps |-> {}, pendingToolResultIds |-> <<>>,
                 deferredMessages |-> <<>>]

hasOpenToolExchange(c) == c.pendingToolResultIds # <<>>

flushDeferred_reversed(c) ==
  IF hasOpenToolExchange(c) THEN c
  ELSE [c EXCEPT !.history = @ \o Reverse(c.deferredMessages), !.deferredMessages = <<>>]

flushDeferred(c) ==
  IF hasOpenToolExchange(c) THEN c
  ELSE [c EXCEPT !.history = @ \o c.deferredMessages, !.deferredMessages = <<>>]

appendMessages_undeferred(c, ms) == [c EXCEPT !.history = @ \o ms]

(* Messages appended one after the other, or held back.                    *)
appendMessages(c, ms) ==
  IF hasOpenToolExchange(c)
    THEN [c EXCEPT !.deferredMessages = @ \o ms]
    ELSE [c EXCEPT !.history = @ \o ms]

appendMessage(c, m) == appendMessages(c, <<m>>)

toolResult_duplicated(c, call) ==
  flushDeferred([c EXCEPT !.history = Append(@, Message("tool", call)),
                          !.pendingToolResultIds = RemoveFirst(@, call)])

toolResult(c, call) ==
  IF call \notin Range(c.pendingToolResultIds) THEN c
  ELSE flushDeferred([c EXCEPT !.history = Append(@, Message("tool", call)),
                               !.pendingToolResultIds = RemoveFirst(@, call)])

(* Every call still waiting is answered with an "interrupted" result.      *)
closePendingToolResults(c) ==
  IF ~ hasOpenToolExchange(c) THEN c ELSE
  flushDeferred(
    [c EXCEPT !.history = @ \o [i \in DOMAIN c.pendingToolResultIds |->
                                  Message("tool", c.pendingToolResultIds[i])],
              !.pendingToolResultIds = <<>>])

finishResume_leavesPending(c) == [c EXCEPT !.openSteps = {}]

finishResume(c) == closePendingToolResults([c EXCEPT !.openSteps = {}])

stepBegin(c, step) ==
  LET closed == closePendingToolResults(c)
  IN  [closed EXCEPT !.history = Append(@, Message("assistant", step)),
                     !.openSteps = @ \cup {step}]

stepEnd(c, step) == flushDeferred([c EXCEPT !.openSteps = @ \ {step}])

(* A call joins the message of its step.                                   *)
WithCall(h, call) ==
  [i \in DOMAIN h |-> IF h[i].role = "assistant" /\ h[i].id = StepOf(call)
                        THEN [h[i] EXCEPT !.calls = @ \cup {call}] ELSE h[i]]

toolCall(c, call) == [c EXCEPT !.history = WithCall(@, call),
                               !.pendingToolResultIds = Append(@, call)]

(* The messages of h at the positions I, in their order.                   *)
Selection(h, I) ==
  LET chosen[n \in 0..Len(h)] ==
        IF n = 0 THEN <<>>
        ELSE IF n \in I THEN Append(chosen[n - 1], h[n]) ELSE chosen[n - 1]
  IN  chosen[Len(h)]

(* Undo of one prompt: everything from the last real prompt on, or after   *)
(* the last summary, except the injected reminders.                        *)
undo(c) ==
  LET h    == c.history
      stop == SelectLastInSeq(h, LAMBDA m : m.role \in {"user", "summary"})
      keep == IF stop > 0 /\ h[stop].role = "user" THEN stop - 1 ELSE stop
  IN  IF h = <<>> THEN c
      ELSE [EmptyContext EXCEPT
              !.history = Selection(h, {i \in DOMAIN h : i <= keep \/ h[i].role = "injection"})]

applyCompaction(c, summary, compactedCount) ==
  flushDeferred([c EXCEPT
     !.history = <<Message("summary", summary)>> \o
                 SubSeq(@, compactedCount + 1, Len(@)),
     !.openSteps = {}])

(* hardPrune cuts the first tool result, replaceHistory installs the rest. *)
replaceHistory(c) ==
  LET first == SelectInSeq(c.history, LAMBDA m : m.role \in ToolRoles)
  IN  [EmptyContext EXCEPT !.history = [c.history EXCEPT ![first].role = "pruned"]]

-----------------------------------------------------------------------------
(* Compaction may replace the first n messages.                            *)

EndsOpen(h, n) ==
  LET owner == SelectLastInSubSeq(h, 1, n, LAMBDA m : m.role \notin ToolRoles)
  IN  /\ h[n].role \in ToolRoles
      /\ owner > 0
      /\ h[owner].role = "assistant"
      /\ Cardinality(h[owner].calls) > n - owner

canSplitAfter_endsOpen(h, n) ==
  /\ n \in DOMAIN h
  /\ h[n].role \notin UserRoles
  /\ ~ (h[n].role = "assistant" /\ h[n].calls # {})
  /\ ~ (n < Len(h) /\ h[n + 1].role \in ToolRoles)

canSplitAfter(h, n) ==
  /\ n \in DOMAIN h
  /\ h[n].role \notin UserRoles
  /\ ~ (h[n].role = "assistant" /\ h[n].calls # {})
  /\ ~ (n < Len(h) /\ h[n + 1].role \in ToolRoles)
  /\ ~ EndsOpen(h, n)

-----------------------------------------------------------------------------
(* Records: each method that changes the context logs one before it does.  *)

Record(type, arg) == [type |-> type, arg |-> arg]

(* A streamed part or a tool call of a step that is not open is an error,  *)
(* raised after the record has been logged.                                *)
throws(c, r) ==
  \/ r.type = "content.part" /\ r.arg \notin c.openSteps
  \/ r.type = "tool.call" /\ StepOf(r.arg) \notin c.openSteps

restoreAgentRecord(c, r) ==
  IF throws(c, r) THEN c ELSE
  CASE r.type = "append_message"   -> appendMessage(c, r.arg)
    [] r.type = "step.begin"       -> stepBegin(c, r.arg)
    [] r.type = "content.part"     -> c
    [] r.type = "tool.call"        -> toolCall(c, r.arg)
    [] r.type = "tool.result"      -> toolResult(c, r.arg)
    [] r.type = "step.end"         -> stepEnd(c, r.arg)
    [] r.type = "undo"             -> undo(c)
    [] r.type = "clear"            -> EmptyContext
    [] r.type = "apply_compaction" -> applyCompaction(c, r.arg[1], r.arg[2])

(* The contexts a replay passes through.                                   *)
Replay(records) ==
  LET rebuilt[k \in 0..Len(records)] ==
        IF k = 0 THEN EmptyContext
        ELSE restoreAgentRecord(rebuilt[k - 1], records[k])
  IN  rebuilt

replay(records) == Replay(records)[Len(records)]

(* The replay gives up at the first record that throws.                    *)
CanReplay(records) ==
  LET rebuilt == Replay(records)
  IN  \A k \in DOMAIN records : ~ throws(rebuilt[k - 1], records[k])

(* What closing the open exchange logs.                                    *)
InterruptedResults(c) ==
  [i \in DOMAIN c.pendingToolResultIds |->
     Record("tool.result", c.pendingToolResultIds[i])]
=============================================================================
