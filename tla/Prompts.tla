------------------------------- MODULE Prompts -------------------------------
(***************************************************************************)
(* The prompts of one session: the service that queues them for the main   *)
(* agent (packages/agent-core/src/services/prompt/promptService.ts) and    *)
(* the agent's turns (agent/turn/index.ts), which know nothing of prompts. *)
(* Calls and events between the two travel through timers (rpc/client.ts). *)
(*                                                                         *)
(* A prompt and a turn are the number they are submitted or launched as.   *)
(* A completed prompt leaves active in the step that completes it, so a    *)
(* record has no flag for that.                                            *)
(***************************************************************************)
EXTENDS Integers, Sequences, FiniteSets, SequencesExt, FiniteSetsExt

CONSTANTS Prompt,      \* 1..n
          Scenarios    \* how often each occasion may arise

None == 0
Occasion == {"submit", "override", "setterFails", "promptFails", "abort", "earlyAbort",
             "stop", "cancelFails", "steer", "earlySteer", "steerFails", "goal", "other"}

ASSUME PromptConstants ==
  /\ IsFiniteSet(Prompt) /\ Prompt = 1..Cardinality(Prompt)
  /\ Scenarios \subseteq [Occasion -> Nat]

VARIABLES active,      \* _active: the prompt the session is busy with
          rec,         \* turnId (0: unknown) and the aborted flag of each prompt
          queued,      \* _queued
          stage,       \* how far the starting of each prompt is
          calls,       \* calls on their way to the agent
          replies,     \* cancel calls that have been answered
          events,      \* turn events on their way to the service
          turns,       \* the turns of the agent, in order
          activeTurn,  \* the first turn of the worker that holds the agent, or 0
          ends,        \* how often a prompt was reported as ended, and how last
          left         \* the occasions still to come

service == <<active, rec, queued, stage>>
wire    == <<calls, replies, events>>
agent   == <<turns, activeTurn>>
vars    == <<service, wire, agent, ends, left>>

Happens(h) == left[h] > 0 /\ left' = [left EXCEPT ![h] = @ - 1]

Init ==
  /\ active = None /\ queued = <<>> /\ calls = <<>> /\ replies = {}
  /\ left \in Scenarios
  /\ rec = [p \in Prompt |-> [turn |-> 0, aborted |-> FALSE,
                               override |-> p > left["submit"] - left["override"]]]
  /\ stage = [p \in Prompt |-> [at |-> "new", direct |-> TRUE]]
  /\ events = <<>> /\ turns = <<>> /\ activeTurn = 0
  /\ ends = [p \in Prompt |-> [times |-> 0, how |-> "open"]]

Report(p, how) == [ends EXCEPT ![p] = [times |-> @.times + 1, how |-> how]]
Stage(p, at)   == [stage EXCEPT ![p].at = at]

-----------------------------------------------------------------------------
(* The service.                                                            *)

Unfinished_onceStarted(a) == a # None /\ ~rec[a].aborted /\ rec[a].turn # 0
Unfinished(a) == a # None /\ ~rec[a].aborted

Call(op, p) == [op |-> op, of |-> p, turn |-> IF op = "cancel" /\ p # None THEN rec[p].turn ELSE 0]

(* Controls that differ from the session's are set before p is made        *)
(* active; a is the active prompt until then.                              *)
_startPrompt(p, direct, a, s) ==
  /\ active' = IF rec[p].override THEN a ELSE p
  /\ stage' = [s EXCEPT ![p] = [at |-> IF rec[p].override THEN "applying" ELSE "prompting",
                                direct |-> direct]]
  /\ calls' = IF rec[p].override THEN calls ELSE Append(calls, Call("prompt", p))

_startNextQueued_newest(a, s) ==
  IF Unfinished(a) \/ queued = <<>>
  THEN active' = a /\ stage' = s /\ UNCHANGED <<queued, calls>>
  ELSE queued' = Front(queued) /\ _startPrompt(Last(queued), FALSE, a, s)

_startNextQueued(a, s) ==
  IF Unfinished(a) \/ queued = <<>>
  THEN active' = a /\ stage' = s /\ UNCHANGED <<queued, calls>>
  ELSE queued' = Tail(queued) /\ _startPrompt(Head(queued), FALSE, a, s)

submit(p) ==
  /\ stage[p].at = "new" /\ \A q \in 1..p - 1 : stage[q].at # "new"
  /\ Happens("submit")
  /\ IF Unfinished(active)
     THEN /\ queued' = Append(queued, p) /\ stage' = Stage(p, "queued")
          /\ UNCHANGED <<active, calls>>
     ELSE _startPrompt(p, TRUE, active, stage) /\ UNCHANGED queued
  /\ UNCHANGED <<rec, replies, events, agent, ends>>

setActive(p) ==
  /\ stage[p].at = "applying"
  /\ active' = p /\ stage' = Stage(p, "prompting")
  /\ calls' = Append(calls, Call("prompt", p))
  /\ UNCHANGED <<rec, queued, replies, events, agent, ends, left>>

(* A start that fails is answered with the error if a request waits for it.*)
startFails(p, a) ==
  IF stage[p].direct
  THEN active' = a /\ stage' = Stage(p, "refused") /\ UNCHANGED <<queued, calls>>
  ELSE _startNextQueued(a, Stage(p, "lost"))

setterFails(p) ==
  /\ stage[p].at = "applying" /\ Happens("setterFails")
  /\ startFails(p, active)
  /\ UNCHANGED <<rec, replies, events, agent, ends>>

promptFailed_keepsActive(p) ==
  /\ stage[p].at = "failed"
  /\ startFails(p, active)
  /\ UNCHANGED <<rec, replies, events, agent, ends, left>>

promptFailed(p) ==
  /\ stage[p].at = "failed"
  /\ startFails(p, IF active = p THEN None ELSE active)
  /\ UNCHANGED <<rec, replies, events, agent, ends, left>>

(* abort of the active prompt marks it before the call.                    *)
abort(p) ==
  /\ active = p /\ ~rec[p].aborted
  /\ Happens(IF rec[p].turn = 0 THEN "earlyAbort" ELSE "abort")
  /\ rec' = [rec EXCEPT ![p].aborted = TRUE]
  /\ calls' = Append(calls, Call("cancel", p))
  /\ UNCHANGED <<active, queued, stage, replies, events, agent, ends>>

abortQueued(i) ==
  /\ Happens("abort")
  /\ queued' = RemoveAt(queued, i)
  /\ stage' = Stage(queued[i], "aborted") /\ ends' = Report(queued[i], "aborted")
  /\ UNCHANGED <<active, rec, wire, agent>>

(* With no prompt to abort, whatever runs is cancelled.                    *)
abortBySession ==
  /\ ~Unfinished(active) /\ Happens("stop")
  /\ calls' = Append(calls, Call("cancel", None))
  /\ UNCHANGED <<service, replies, events, agent, ends>>

cancelReturns_ifActive(c) ==
  /\ replies' = replies \ {c}
  /\ ends' = IF c.done /\ active = c.of THEN Report(c.of, "aborted") ELSE ends
  /\ rec' = IF c.done THEN rec ELSE [rec EXCEPT ![c.of].aborted = FALSE]
  /\ UNCHANGED <<active, queued, stage, calls, events, agent, left>>

cancelReturns(c) ==
  /\ replies' = replies \ {c}
  /\ ends' = IF c.done THEN Report(c.of, "aborted") ELSE ends
  /\ rec' = IF c.done THEN rec ELSE [rec EXCEPT ![c.of].aborted = FALSE]
  /\ UNCHANGED <<active, queued, stage, calls, events, agent, left>>

steer(i) ==
  /\ Unfinished(active)
  /\ Happens(IF rec[active].turn = 0 THEN "earlySteer" ELSE "steer")
  /\ queued' = RemoveAt(queued, i)
  /\ stage' = Stage(queued[i], "steering")
  /\ calls' = Append(calls, Call("steer", queued[i]))
  /\ UNCHANGED <<active, rec, replies, events, agent, ends>>

_restoreSteeredQueueItems(p) ==
  /\ stage[p].at = "notSteered"
  /\ queued' = <<p>> \o queued /\ stage' = Stage(p, "queued")
  /\ UNCHANGED <<active, rec, wire, agent, ends, left>>

onTurnStarted(e) ==
  /\ rec' = IF rec[active].turn = 0 THEN [rec EXCEPT ![active].turn = e.turn] ELSE rec
  /\ UNCHANGED <<active, queued, stage, calls, ends>>

onTurnEnded_always(e) ==
  IF e.turn # rec[active].turn
  THEN UNCHANGED <<service, calls, ends>>
  ELSE /\ ends' = Report(active, IF e.reason = "cancelled" THEN "aborted" ELSE "completed")
       /\ rec' = [rec EXCEPT ![active].aborted = @ \/ e.reason = "cancelled"]
       /\ _startNextQueued(None, stage)

onTurnEnded(e) ==
  IF e.turn # rec[active].turn
  THEN UNCHANGED <<service, calls, ends>>
  ELSE /\ ends' = IF rec[active].aborted THEN ends
                  ELSE Report(active, IF e.reason = "cancelled" THEN "aborted" ELSE "completed")
       /\ rec' = [rec EXCEPT ![active].aborted = @ \/ e.reason = "cancelled"]
       /\ _startNextQueued(None, stage)

_handleBusEvent ==
  /\ events # <<>>
  /\ events' = Tail(events)
  /\ IF active = None THEN UNCHANGED <<service, calls, ends>>
     ELSE IF Head(events).reason = "started" THEN onTurnStarted(Head(events))
     ELSE onTurnEnded(Head(events))
  /\ UNCHANGED <<replies, agent, left>>

-----------------------------------------------------------------------------
(* The agent.                                                              *)

(* A turn for prompt p, or for nobody: a free agent starts it, a busy one  *)
(* answers with an error event that the service does not look at.          *)
launch(p) ==
  IF activeTurn # 0 THEN UNCHANGED agent
  ELSE /\ turns' = Append(turns, [of |-> p, worker |-> Len(turns) + 1,
                                  at |-> "launched", aborted |-> FALSE])
       /\ activeTurn' = Len(turns) + 1

(* A call arrives.  A prompt's is not over then: the session's metadata is *)
(* written to its file before the agent gets the prompt.                   *)
Arrives(op) == calls # <<>> /\ Head(calls).op = op /\ calls' = Tail(calls)

promptArrives ==
  /\ Arrives("prompt") /\ stage' = Stage(Head(calls).of, "writing")
  /\ UNCHANGED <<active, rec, queued, replies, events, agent, ends, left>>

prompt(p) ==
  /\ stage[p].at = "writing"
  /\ \/ launch(p) /\ stage' = Stage(p, "sent") /\ UNCHANGED left
     \/ Happens("promptFails") /\ stage' = Stage(p, "failed") /\ UNCHANGED agent
  /\ UNCHANGED <<active, rec, queued, wire, ends>>

steerArrives ==
  /\ Arrives("steer")
  /\ LET p == Head(calls).of
     IN  \/ launch(None) /\ stage' = Stage(p, "steered") /\ UNCHANGED left
         \/ Happens("steerFails") /\ stage' = Stage(p, "notSteered") /\ UNCHANGED agent
  /\ UNCHANGED <<active, rec, queued, replies, events, ends>>

(* A cron job or the end of a background task wakes a free agent.          *)
notify ==
  /\ activeTurn = 0 /\ Happens("other")
  /\ launch(None)
  /\ UNCHANGED <<service, wire, ends>>

abortTurn ==
  /\ turns' = [t \in DOMAIN turns |-> [turns[t] EXCEPT !.aborted = @ \/ turns[t].worker = activeTurn]]
  /\ activeTurn' = 0

(* A cancel for another turn than the last one is ignored.                 *)
cancel ==
  /\ Arrives("cancel")
  /\ LET c == Head(calls)
     IN  \/ /\ IF c.turn \in {0, Len(turns)} THEN abortTurn ELSE UNCHANGED agent
            /\ replies' = IF c.of = None THEN replies ELSE replies \cup {[of |-> c.of, done |-> TRUE]}
            /\ UNCHANGED left
         \/ /\ Happens("cancelFails") /\ c.of # None
            /\ replies' = replies \cup {[of |-> c.of, done |-> FALSE]}
            /\ UNCHANGED agent
  /\ UNCHANGED <<service, events, ends>>

turnStarted(t) ==
  /\ turns[t].at = "launched"
  /\ turns' = [turns EXCEPT ![t].at = "running"]
  /\ events' = Append(events, [turn |-> t, reason |-> "started"])
  /\ UNCHANGED <<service, calls, replies, activeTurn, ends, left>>

(* The worker lets go of the agent, if it still holds it, or goes on with  *)
(* another turn towards the goal.                                          *)
turnEnded(t, reason) ==
  /\ turns[t].at = "running"
  /\ reason = "cancelled" => turns[t].aborted
  /\ events' = Append(events, [turn |-> t, reason |-> reason])
  /\ \/ /\ turns' = [turns EXCEPT ![t].at = "ended"]
        /\ activeTurn' = IF activeTurn = turns[t].worker THEN 0 ELSE activeTurn
        /\ UNCHANGED left
     \/ /\ reason = "completed" /\ Happens("goal")
        /\ turns' = Append([turns EXCEPT ![t].at = "ended"],
                           [turns[t] EXCEPT !.of = None, !.at = "launched"])
        /\ UNCHANGED activeTurn
  /\ UNCHANGED <<service, calls, replies, ends>>

-----------------------------------------------------------------------------
Calls == \/ promptArrives \/ steerArrives \/ cancel
         \/ \E p \in Prompt : setActive(p) \/ promptFailed(p) \/ prompt(p) \/ _restoreSteeredQueueItems(p)
         \/ \E c \in replies : cancelReturns(c)

Turns == \E t \in DOMAIN turns : turnStarted(t) \/ \E r \in {"completed", "cancelled"} : turnEnded(t, r)

User == \/ \E p \in Prompt : submit(p) \/ abort(p)
        \/ \E i \in DOMAIN queued : abortQueued(i) \/ steer(i)
        \/ abortBySession

Next == \/ User \/ Calls \/ Turns \/ _handleBusEvent \/ notify
        \/ \E p \in Prompt : setterFails(p)

(* Timers fire, file writes and setters return, turns end.                 *)
Fairness == WF_vars(Calls) /\ WF_vars(Turns) /\ WF_vars(_handleBusEvent)

Spec == Init /\ [][Next]_vars /\ Fairness

-----------------------------------------------------------------------------
Ran(p) == \E t \in DOMAIN turns : turns[t].of = p /\ turns[t].at # "launched"

(* However abort, the end of the turn and a failing cancel meet, one       *)
(* prompt.completed or prompt.aborted is published at most                 *)
(* (promptService.ts:503-518 and 820-866).                                  *)
EndsAtMostOnce == \A p \in Prompt : ends[p].times <= 1

(* A prompt reported as completed is one whose turn has run                *)
(* (prompt.ts:40-51, promptService.ts:820-866)                              *)
CompletedPromptsRan == \A p \in Prompt : ends[p].how = "completed" => Ran(p)

(* No prompt stays the active one for ever, whichever of its calls fail or *)
(* are aborted, so that the session takes prompts again; as long as the    *)
(* agent is free, or busy with a prompt, when the prompt reaches it        *)
(* (promptService.ts:452-463 and 820-866).                                 *)
SessionIsFreed == \A p \in Prompt : active = p ~> active # p

(* The queue as a client sees it.                                          *)
status == [p \in Prompt |->
  IF active = p THEN IF rec[p].aborted THEN "stopping" ELSE "running"
  ELSE CASE stage[p].at = "new" -> "new"
         [] stage[p].at = "applying" -> IF stage[p].direct THEN "new" ELSE "taken"
         [] stage[p].at = "queued" -> "waiting"
         [] stage[p].at \in {"steering", "notSteered"} -> "taken"
         [] OTHER -> "over"]

Queue == INSTANCE PromptQueue WITH Prompt <- Prompt, status <- status, waiting <- queued

(* Prompts wait in their order, and one runs at a time: the promise of     *)
(* PromptQueue (prompt.ts:48-51).                                          *)
KeepsQueue == Queue!Spec

(* A prompt that is over has been reported as ended, has joined a turn, or *)
(* the request that brought it has been answered with an error; or the     *)
(* answer of its cancel will report it.                                    *)
CancelIsUnderWay(p) ==
  \/ \E i \in DOMAIN calls : calls[i].op = "cancel" /\ calls[i].of = p
  \/ \E c \in replies : c.of = p

EndsAreTold ==
  \A p \in Prompt : status[p] = "over" =>
    ends[p].times > 0 \/ stage[p].at \in {"refused", "steered"} \/ CancelIsUnderWay(p)

(* If no call of the service fails, no prompt is dropped in silence,       *)
(* however turns end and aborts, steers and further prompts come           *)
(* (promptService.ts:503-540 and 820-866).                                 *)
NoCallFails == left["setterFails"] = 0 /\ left["promptFails"] = 0 /\ left["cancelFails"] = 0

EachIsTold == NoCallFails => []EndsAreTold
=============================================================================
