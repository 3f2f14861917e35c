---------------------------- MODULE PromptsProofs ----------------------------
(***************************************************************************)
(* That a prompt is reported as ended once at most, for any number of      *)
(* prompts and any occasions, those included in which the service keeps no *)
(* other promise.  EndsAtMostOnce is not inductive: that a cancel call may *)
(* still report the end of its prompt is in Inv as the calls and answers   *)
(* under way, and that an ended prompt is not started again as its stage.  *)
(* That the service keeps the promise of PromptQueue, step by step         *)
(* (QueueIsKept), that no prompt is dropped in silence (NoneIsDropped),    *)
(* and that one reported as completed has had a turn of its own            *)
(* (CompletedHaveRun): each in the scenarios that its hypothesis names, as *)
(* the code does not keep these three in all.                              *)
(***************************************************************************)
EXTENDS Prompts, TLAPS, SequenceTheorems, FiniteSetTheorems

USE DEF None

LEMMA NoneIsNoPrompt == None \notin Prompt
<1>1. Cardinality(Prompt) \in Nat BY PromptConstants, FS_CardinalityType
<1> QED BY <1>1, PromptConstants

USE NoneIsNoPrompt

Waits  == {"new", "queued", "applying", "steering", "notSteered"}
Begun  == {"prompting", "writing", "sent", "failed"}
Stages == Waits \cup Begun \cup {"refused", "lost", "aborted", "steered"}

CallSet == [op : {"prompt", "cancel", "steer"}, of : {None} \cup Prompt, turn : Nat]
TurnSet == [of : {None} \cup Prompt, worker : Nat, aborted : BOOLEAN,
            at : {"launched", "running", "ended"}]

Types ==
  /\ active \in {None} \cup Prompt
  /\ rec \in [Prompt -> [turn : Nat, aborted : BOOLEAN, override : BOOLEAN]]
  /\ queued \in Seq(Prompt)
  /\ stage \in [Prompt -> [at : Stages, direct : BOOLEAN]]
  /\ calls \in Seq(CallSet)
  /\ replies \subseteq [of : Prompt, done : BOOLEAN]
  /\ events \in Seq([turn : Nat, reason : {"started", "completed", "cancelled"}])
  /\ ends \in [Prompt -> [times : Nat, how : {"open", "completed", "aborted"}]]
  /\ turns \in Seq(TurnSet)

QueuedOnce ==
  /\ \A i \in 1..Len(queued) : stage[queued[i]].at = "queued"
  /\ \A i, j \in 1..Len(queued) : queued[i] = queued[j] => i = j

(* Each call on its way belongs to a prompt that waits for it.             *)
CallsOnce ==
  /\ \A i \in 1..Len(calls) :
       /\ calls[i].op = "prompt" => calls[i].of # None /\ stage[calls[i].of].at = "prompting"
       /\ calls[i].op = "steer"  => calls[i].of # None /\ stage[calls[i].of].at = "steering"
  /\ \A i, j \in 1..Len(calls) :
       calls[i].op = calls[j].op /\ calls[i].of = calls[j].of /\ calls[i].of # None => i = j

(* A prompt whose cancel is under way is marked and not reported yet.      *)
Pending(p) == rec[p].aborted /\ ends[p].times = 0 /\ stage[p].at \notin Waits

CancelOnce ==
  /\ \A i \in 1..Len(calls) : calls[i].op = "cancel" /\ calls[i].of # None => Pending(calls[i].of)
  /\ \A c \in replies : Pending(c.of)
  /\ \A c, d \in replies : c.of = d.of => c = d
  /\ \A i \in 1..Len(calls), c \in replies : ~(calls[i].op = "cancel" /\ calls[i].of = c.of)

ActiveHasBegun ==
  active # None => /\ stage[active].at \in Begun
                   /\ ends[active].times > 0 => rec[active].aborted

ReportedOnce ==
  \A p \in Prompt : ends[p].times \in {0, 1} /\ (ends[p].times = 1 => stage[p].at \notin Waits)

Inv == Types /\ QueuedOnce /\ CallsOnce /\ CancelOnce /\ ActiveHasBegun /\ ReportedOnce

-----------------------------------------------------------------------------
LEMMA RemoveAtProperties ==
  ASSUME NEW S, NEW s \in Seq(S), NEW i \in 1..Len(s)
  PROVE  /\ RemoveAt(s, i) \in Seq(S)
         /\ Len(RemoveAt(s, i)) = Len(s) - 1
         /\ \A j \in 1..Len(s) - 1 : RemoveAt(s, i)[j] = s[IF j < i THEN j ELSE j + 1]
<1> DEFINE a == SubSeq(s, 1, i - 1)
           b == SubSeq(s, i + 1, Len(s))
<1>1. a \in Seq(S) /\ Len(a) = i - 1 /\ \A j \in 1..i - 1 : a[j] = s[j]
  OBVIOUS
<1>2. b \in Seq(S) /\ Len(b) = Len(s) - i /\ \A j \in 1..Len(s) - i : b[j] = s[i + j]
  OBVIOUS
<1> HIDE DEF a, b
<1>3. /\ a \o b \in Seq(S) /\ Len(a \o b) = Len(s) - 1
      /\ \A j \in 1..Len(s) - 1 : (a \o b)[j] = IF j <= Len(a) THEN a[j] ELSE b[j - Len(a)]
  <2>1. /\ a \o b \in Seq(S) /\ Len(a \o b) = Len(a) + Len(b)
        /\ \A j \in 1..Len(a) + Len(b) : (a \o b)[j] = IF j <= Len(a) THEN a[j] ELSE b[j - Len(a)]
    BY <1>1, <1>2, ConcatProperties, Zenon
  <2>2. Len(a) + Len(b) = Len(s) - 1
    BY <1>1, <1>2
  <2> QED
    BY <2>1, <2>2
<1>4. ASSUME NEW j \in 1..Len(s) - 1
      PROVE  (a \o b)[j] = s[IF j < i THEN j ELSE j + 1]
  <2>1. CASE j < i
    BY <2>1, <1>1, <1>3
  <2>2. CASE ~(j < i)
    <3>1. j - Len(a) \in 1..Len(s) - i
      BY <2>2, <1>1
    <3>2. b[j - Len(a)] = s[i + (j - Len(a))]
      BY <3>1, <1>2
    <3>3. i + (j - Len(a)) = j + 1
      BY <1>1
    <3> QED
      BY <2>2, <3>2, <3>3, <1>1, <1>3
  <2> QED
    BY <2>1, <2>2
<1> QED
  BY <1>3, <1>4 DEF RemoveAt, a, b

LEMMA InitInv == Init => Inv
<1> SUFFICES ASSUME Init PROVE Inv
  OBVIOUS
<1>2. rec \in [Prompt -> [turn : Nat, aborted : BOOLEAN, override : BOOLEAN]]
  BY DEF Init
<1>3. /\ stage \in [Prompt -> [at : Stages, direct : BOOLEAN]]
      /\ ends \in [Prompt -> [times : Nat, how : {"open", "completed", "aborted"}]]
  BY DEF Init, Stages, Waits, Begun
<1>4. queued \in Seq(Prompt) /\ queued = <<>> /\ calls = <<>> /\ events = <<>>
  BY DEF Init
<1>5. Types
  BY <1>2, <1>3, <1>4 DEF Init, Types
<1> QED
  BY <1>3, <1>4, <1>5 DEF Init, Inv, QueuedOnce, CallsOnce, CancelOnce, ActiveHasBegun, ReportedOnce

(* The calls after one more is sent.                                       *)
LEMMA CallSent ==
  ASSUME Types, NEW op \in {"prompt", "cancel", "steer"}, NEW p \in {None} \cup Prompt
  PROVE  /\ Call(op, p) \in CallSet
         /\ Call(op, p).op = op /\ Call(op, p).of = p
         /\ Append(calls, Call(op, p)) \in Seq(CallSet)
         /\ Len(Append(calls, Call(op, p))) = Len(calls) + 1
         /\ \A i \in 1..Len(calls) : Append(calls, Call(op, p))[i] = calls[i]
         /\ Append(calls, Call(op, p))[Len(calls) + 1] = Call(op, p)
<1>1. Call(op, p) \in CallSet /\ Call(op, p).op = op /\ Call(op, p).of = p
  BY DEF Call, Types, CallSet
<1> QED
  BY <1>1, AppendProperties DEF Types

LEMMA WhoIsCalled ==
  ASSUME Types
  PROVE  /\ \A i \in 1..Len(calls) : calls[i].of \in {None} \cup Prompt
         /\ \A c \in replies : c.of \in Prompt
<1>1. \A i \in 1..Len(calls) : calls[i] \in CallSet
  BY DEF Types
<1> QED
  BY <1>1 DEF Types, CallSet

(* What a step may do to stages, marks and reports while a prompt starts.  *)
Passes(a, s) ==
  /\ a \in {None} \cup Prompt
  /\ s \in [Prompt -> [at : Stages, direct : BOOLEAN]]
  /\ rec' \in [Prompt -> [turn : Nat, aborted : BOOLEAN, override : BOOLEAN]]
  /\ ends' \in [Prompt -> [times : Nat, how : {"open", "completed", "aborted"}]]
  /\ events' \in Seq([turn : Nat, reason : {"started", "completed", "cancelled"}])
  /\ turns' \in Seq(TurnSet)
  /\ replies' = replies
  /\ \A p \in Prompt : Pending(p) => rec'[p].aborted /\ ends'[p].times = 0 /\ s[p].at \notin Waits
  /\ \A p \in Prompt : /\ ends'[p].times \in {0, 1}
                       /\ ends'[p].times = 1 => s[p].at \notin Waits
  /\ a # None => s[a].at \in Begun /\ (ends'[a].times > 0 => rec'[a].aborted)
  /\ \A p \in Prompt : stage[p].at \in {"queued", "prompting", "steering"} => s[p] = stage[p]

(* Starting a prompt that has not begun keeps the invariant.               *)
LEMMA PromptStarts ==
  ASSUME Inv, NEW p \in Prompt, NEW direct \in BOOLEAN, NEW a, NEW s,
         Passes(a, s), s[p].at \in {"new", "queued", "applying"},
         stage[p].at \notin {"prompting", "steering"},
         queued' \in Seq(Prompt),
         \A i \in 1..Len(queued') : queued'[i] # p /\ s[queued'[i]].at = "queued",
         \A i, j \in 1..Len(queued') : queued'[i] = queued'[j] => i = j,
         _startPrompt(p, direct, a, s)
  PROVE  Inv'
<1> DEFINE at == IF rec[p].override THEN "applying" ELSE "prompting"
<1>1. /\ active' = IF rec[p].override THEN a ELSE p
      /\ stage' = [s EXCEPT ![p] = [at |-> at, direct |-> direct]]
      /\ calls' = IF rec[p].override THEN calls ELSE Append(calls, Call("prompt", p))
  BY DEF _startPrompt
<1>2. Types /\ rec[p].override \in BOOLEAN
  BY DEF Inv, Types
<1>3. /\ s[p].at \in Waits /\ ends'[p].times = 0 /\ ~Pending(p)
  BY DEF Passes, Waits
<1>4. /\ stage' \in [Prompt -> [at : Stages, direct : BOOLEAN]]
      /\ stage'[p].at = at
      /\ \A q \in Prompt : q # p => stage'[q] = s[q]
  BY <1>1 DEF Passes, Stages, Waits, Begun
<1> HIDE DEF at
<1>8. /\ \A i \in 1..Len(calls) : calls[i].of \in {None} \cup Prompt
      /\ \A c \in replies : c.of \in Prompt
  BY <1>2, WhoIsCalled
<1>9. \A q \in Prompt : stage[q].at \in {"prompting", "steering"} => stage'[q] = stage[q]
  BY <1>4 DEF Passes
<1>10. \A q \in Prompt : Pending(q) => Pending(q)'
  BY <1>3, <1>4 DEF Passes, Pending
<1>11. \A i \in 1..Len(calls) :
         /\ calls[i].op = "prompt" => calls[i].of # None /\ stage'[calls[i].of].at = "prompting"
         /\ calls[i].op = "steer"  => calls[i].of # None /\ stage'[calls[i].of].at = "steering"
  BY <1>8, <1>9 DEF Inv, CallsOnce
<1>12. replies' = replies
  BY DEF Passes
<1>5. at \in {"applying", "prompting"}
  BY DEF at
<1>6. CASE rec[p].override
  <2>1. active' = a /\ calls' = calls /\ at = "applying"
    BY <1>1, <1>6 DEF at
  <2>2. Types'
    BY <1>2, <1>4, <2>1 DEF Types, Passes
  <2>3. QueuedOnce'
    BY <1>4 DEF QueuedOnce
  <2>4. CallsOnce'
    BY <1>11, <2>1 DEF Inv, CallsOnce
  <2>5. CancelOnce'
    BY <1>8, <1>10, <1>12, <2>1 DEF Inv, CancelOnce
  <2>6. ActiveHasBegun'
    BY <1>3, <1>4, <2>1 DEF Passes, ActiveHasBegun, Begun, Waits
  <2>7. ReportedOnce'
    BY <1>3, <1>4 DEF Passes, ReportedOnce
  <2> QED
    BY <2>2, <2>3, <2>4, <2>5, <2>6, <2>7 DEF Inv
<1>7. CASE ~rec[p].override
  <2> DEFINE c == Call("prompt", p)
  <2>1. active' = p /\ calls' = Append(calls, c) /\ at = "prompting"
    BY <1>1, <1>7 DEF at
  <2>2. /\ c \in CallSet /\ c.op = "prompt" /\ c.of = p
        /\ Append(calls, c) \in Seq(CallSet)
        /\ Len(Append(calls, c)) = Len(calls) + 1
        /\ \A i \in 1..Len(calls) : Append(calls, c)[i] = calls[i]
        /\ Append(calls, c)[Len(calls) + 1] = c
    BY <1>2, CallSent
  <2> HIDE DEF c
  <2>3. Types'
    BY <1>2, <1>4, <2>1, <2>2 DEF Types, Passes
  <2>4. QueuedOnce'
    BY <1>4 DEF QueuedOnce
  <2>5. CallsOnce'
    <3>1. \A i \in 1..Len(calls) : calls[i].op = "prompt" => calls[i].of # p
      BY DEF Inv, CallsOnce
    <3>2. ASSUME NEW i \in 1..Len(calls')
          PROVE  \/ i \in 1..Len(calls) /\ calls'[i] = calls[i]
                 \/ i = Len(calls) + 1 /\ calls'[i] = c
      <4>1. Len(calls) \in Nat /\ Len(calls') = Len(calls) + 1
        BY <1>2, <2>1, <2>2 DEF Types
      <4>2. i \in 1..Len(calls) \/ i = Len(calls) + 1
        BY <4>1
      <4> QED
        BY <2>1, <2>2, <4>2
    <3>4. p # None
      OBVIOUS
    <3>5. \A i \in 1..Len(calls') :
            /\ calls'[i].op = "prompt" => calls'[i].of # None /\ stage'[calls'[i].of].at = "prompting"
            /\ calls'[i].op = "steer"  => calls'[i].of # None /\ stage'[calls'[i].of].at = "steering"
      BY <1>4, <1>11, <2>1, <2>2, <3>2, <3>4
    <3>6. \A i, j \in 1..Len(calls') :
            calls'[i].op = calls'[j].op /\ calls'[i].of = calls'[j].of /\ calls'[i].of # None => i = j
      <4> TAKE i, j \in 1..Len(calls')
      <4>1. CASE i \in 1..Len(calls) /\ calls'[i] = calls[i] /\ j \in 1..Len(calls) /\ calls'[j] = calls[j]
        BY <4>1 DEF Inv, CallsOnce
      <4>2. CASE (i = Len(calls) + 1 /\ calls'[i] = c) \/ (j = Len(calls) + 1 /\ calls'[j] = c)
        BY <2>2, <3>1, <3>2, <4>2
      <4> QED
        BY <3>2, <4>1, <4>2
    <3> QED
      BY <3>5, <3>6 DEF CallsOnce
  <2>6. CancelOnce'
    <3>1. \A i \in 1..Len(calls') :
            calls'[i].op = "cancel" => i \in 1..Len(calls) /\ calls'[i] = calls[i]
      BY <1>2, <2>1, <2>2 DEF Types
    <3> QED
      BY <1>8, <1>10, <1>12, <3>1 DEF Inv, CancelOnce
  <2>7. ActiveHasBegun'
    BY <1>3, <1>4, <2>1 DEF ActiveHasBegun, Begun
  <2>8. ReportedOnce'
    BY <1>3, <1>4 DEF Passes, ReportedOnce
  <2> QED
    BY <2>3, <2>4, <2>5, <2>6, <2>7, <2>8 DEF Inv
<1> QED
  BY <1>2, <1>6, <1>7

(* The next prompt of the queue, or none.                                  *)
LEMMA NextStarts ==
  ASSUME Inv, NEW a, NEW s, Passes(a, s), _startNextQueued(a, s)
  PROVE  Inv'
<1>1. Types /\ QueuedOnce /\ CallsOnce /\ CancelOnce
  BY DEF Inv
<1>2. CASE Unfinished(a) \/ queued = <<>>
  <2>1. active' = a /\ stage' = s /\ UNCHANGED <<queued, calls>>
    BY <1>2 DEF _startNextQueued
  <2>2. Types'
    BY <1>1, <2>1 DEF Types, Passes
  <2>3. QueuedOnce'
    <3>1. \A i \in 1..Len(queued) : queued[i] \in Prompt
      BY <1>1 DEF Types
    <3>2. \A q \in Prompt : stage[q].at = "queued" => s[q] = stage[q]
      BY DEF Passes
    <3> QED
      BY <1>1, <2>1, <3>1, <3>2 DEF QueuedOnce
  <2>4. CallsOnce'
    <3>1. \A q \in Prompt : stage[q].at \in {"prompting", "steering"} => s[q] = stage[q]
      BY DEF Passes
    <3> QED
      BY <1>1, <2>1, <3>1, WhoIsCalled DEF CallsOnce
  <2>5. CancelOnce'
    <3>1. \A q \in Prompt : Pending(q) => Pending(q)'
      BY <2>1 DEF Passes, Pending
    <3> QED
      BY <1>1, <2>1, <3>1, WhoIsCalled DEF CancelOnce, Passes
  <2>6. ActiveHasBegun' /\ ReportedOnce'
    BY <2>1 DEF Passes, ActiveHasBegun, ReportedOnce
  <2> QED
    BY <2>2, <2>3, <2>4, <2>5, <2>6 DEF Inv
<1>3. CASE ~(Unfinished(a) \/ queued = <<>>)
  <2>1. queued # <<>> /\ queued' = Tail(queued) /\ _startPrompt(Head(queued), FALSE, a, s)
    BY <1>3 DEF _startNextQueued
  <2>2. /\ Head(queued) \in Prompt /\ Head(queued) = queued[1] /\ 1 \in 1..Len(queued)
        /\ Tail(queued) \in Seq(Prompt)
        /\ \A i \in 1..Len(Tail(queued)) : i + 1 \in 1..Len(queued) /\ Tail(queued)[i] = queued[i + 1]
    BY <1>1, <2>1 DEF Types
  <2>3. stage[Head(queued)].at = "queued" /\ s[Head(queued)].at = "queued"
    BY <1>1, <2>2 DEF QueuedOnce, Passes
  <2>4. ASSUME NEW i \in 1..Len(queued')
        PROVE  queued'[i] # Head(queued) /\ s[queued'[i]].at = "queued"
    <3>1. i \in Nat /\ i + 1 # 1 /\ i + 1 \in 1..Len(queued) /\ queued'[i] = queued[i + 1]
      BY <2>1, <2>2
    <3>2. queued[i + 1] # queued[1] /\ stage[queued[i + 1]].at = "queued"
      BY <1>1, <2>2, <3>1 DEF QueuedOnce
    <3>3. queued[i + 1] \in Prompt
      BY <1>1, <3>1 DEF Types
    <3> QED
      BY <2>2, <3>1, <3>2, <3>3 DEF Passes
  <2>5. \A i, j \in 1..Len(queued') : queued'[i] = queued'[j] => i = j
    BY <1>1, <2>1, <2>2 DEF QueuedOnce
  <2> QED
    BY <2>1, <2>2, <2>3, <2>4, <2>5, PromptStarts
<1> QED
  BY <1>2, <1>3

(* A step that leaves the service, the calls and the reports alone.        *)
LEMMA AgentSteps ==
  ASSUME Inv, UNCHANGED <<service, calls, replies, ends>>,
         events' \in Seq([turn : Nat, reason : {"started", "completed", "cancelled"}]),
         turns' \in Seq(TurnSet)
  PROVE  Inv'
BY DEF Inv, Types, QueuedOnce, CallsOnce, CancelOnce, Pending, ActiveHasBegun, ReportedOnce,
       service

(* Inv says that whatever passes now may pass.                             *)
LEMMA NowPasses ==
  ASSUME Inv, UNCHANGED <<rec, ends, events, replies, turns>>
  PROVE  Passes(active, stage)
BY DEF Inv, Types, Passes, CancelOnce, Pending, ActiveHasBegun, ReportedOnce

(* What setting the stage of one prompt changes.                           *)
LEMMA StageIs ==
  ASSUME Types, NEW p \in Prompt, NEW at \in Stages
  PROVE  /\ Stage(p, at) \in [Prompt -> [at : Stages, direct : BOOLEAN]]
         /\ Stage(p, at)[p].at = at
         /\ \A q \in Prompt : q # p => Stage(p, at)[q] = stage[q]
BY DEF Types, Stage

(* A prompt whose stage is none of those below, or a step that keeps it in *)
(* its place, disturbs nothing else.                                       *)
LEMMA StageMoves ==
  ASSUME Inv, NEW p \in Prompt, NEW at \in Stages, stage' = Stage(p, at),
         UNCHANGED <<rec, queued, calls, replies, ends>>,
         active' \in {None, active}, Types',
         stage[p].at \notin {"queued", "prompting", "steering"},
         at \in Waits => stage[p].at \in Waits,
         active' = p => at \in Begun
  PROVE  Inv'
<1>1. Types /\ QueuedOnce /\ CallsOnce /\ CancelOnce /\ ActiveHasBegun /\ ReportedOnce
  BY DEF Inv
<1>2. stage'[p].at = at /\ \A q \in Prompt : q # p => stage'[q] = stage[q]
  BY <1>1, StageIs
<1>3. \A i \in 1..Len(queued) : queued[i] \in Prompt /\ queued[i] # p
  BY <1>1 DEF Types, QueuedOnce
<1>4. QueuedOnce'
  BY <1>1, <1>2, <1>3 DEF QueuedOnce
<1>5. CallsOnce'
  BY <1>1, <1>2, WhoIsCalled DEF CallsOnce
<1>6. \A q \in Prompt : Pending(q) => Pending(q)'
  BY <1>2 DEF Pending
<1>7. CancelOnce'
  BY <1>1, <1>6, WhoIsCalled DEF CancelOnce
<1>8. ActiveHasBegun'
  BY <1>1, <1>2 DEF ActiveHasBegun, Types
<1>9. ReportedOnce'
  BY <1>1, <1>2 DEF ReportedOnce
<1> QED
  BY <1>4, <1>5, <1>7, <1>8, <1>9 DEF Inv

(* What marking or unmarking a prompt changes.                             *)
LEMMA RecMarked ==
  ASSUME Types, NEW p \in Prompt, NEW b \in BOOLEAN, rec' = [rec EXCEPT ![p].aborted = b]
  PROVE  /\ rec' \in [Prompt -> [turn : Nat, aborted : BOOLEAN, override : BOOLEAN]]
         /\ rec'[p].aborted = b /\ \A q \in Prompt : q # p => rec'[q] = rec[q]
<1>1. rec[p] \in [turn : Nat, aborted : BOOLEAN, override : BOOLEAN] /\ DOMAIN rec = Prompt
  BY DEF Types
<1>2. rec' = [rec EXCEPT ![p] = [rec[p] EXCEPT !.aborted = b]]
  OBVIOUS
<1>3. /\ [rec[p] EXCEPT !.aborted = b] \in [turn : Nat, aborted : BOOLEAN, override : BOOLEAN]
      /\ [rec[p] EXCEPT !.aborted = b].aborted = b
  BY <1>1
<1> QED
  BY <1>2, <1>3 DEF Types

(* What reporting the end of a prompt changes.                             *)
LEMMA ReportIs ==
  ASSUME Types, NEW p \in Prompt, NEW how \in {"completed", "aborted"}
  PROVE  /\ Report(p, how) \in [Prompt -> [times : Nat, how : {"open", "completed", "aborted"}]]
         /\ Report(p, how)[p].times = ends[p].times + 1
         /\ \A q \in Prompt : q # p => Report(p, how)[q] = ends[q]
BY DEF Types, Report

LEMMA CallsAfterSending ==
  ASSUME Types, NEW op \in {"prompt", "cancel", "steer"}, NEW p \in {None} \cup Prompt,
         calls' = Append(calls, Call(op, p))
  PROVE  /\ calls' \in Seq(CallSet) /\ Len(calls) \in Nat
         /\ \A i \in 1..Len(calls') :
              \/ i \in 1..Len(calls) /\ calls'[i] = calls[i]
              \/ i = Len(calls) + 1 /\ calls'[i].op = op /\ calls'[i].of = p
<1> DEFINE c == Call(op, p)
<1>1. /\ c.op = op /\ c.of = p /\ calls' \in Seq(CallSet) /\ Len(calls') = Len(calls) + 1
      /\ \A i \in 1..Len(calls) : calls'[i] = calls[i]
      /\ calls'[Len(calls) + 1] = c
  BY CallSent
<1>2. Len(calls) \in Nat
  BY DEF Types
<1> HIDE DEF c
<1>3. \A i \in 1..Len(calls') : i \in 1..Len(calls) \/ i = Len(calls) + 1
  BY <1>1, <1>2
<1> QED
  BY <1>1, <1>2, <1>3

LEMMA CallsAfterArrival ==
  ASSUME Types, calls # <<>>, calls' = Tail(calls)
  PROVE  /\ calls' \in Seq(CallSet)
         /\ 1 \in 1..Len(calls) /\ Head(calls) = calls[1] /\ Head(calls) \in CallSet
         /\ \A i \in 1..Len(calls') : i \in Nat /\ i + 1 \in 1..Len(calls) /\ calls'[i] = calls[i + 1]
BY DEF Types

LEMMA LaunchTypes ==
  ASSUME Types, NEW p \in {None} \cup Prompt, launch(p)
  PROVE  turns' \in Seq(TurnSet)
<1>1. CASE activeTurn # 0
  BY <1>1 DEF launch, agent, Types
<1>2. CASE activeTurn = 0
  <2> DEFINE t == [of |-> p, worker |-> Len(turns) + 1, at |-> "launched", aborted |-> FALSE]
  <2>1. t \in TurnSet
    BY DEF Types, TurnSet
  <2>2. turns' = Append(turns, t)
    BY <1>2 DEF launch
  <2> QED
    BY <2>1, <2>2, AppendProperties DEF Types
<1> QED
  BY <1>1, <1>2

LEMMA SubmitInv ==
  ASSUME Inv, NEW p \in Prompt, submit(p)
  PROVE  Inv'
<1>1. /\ Types /\ QueuedOnce /\ CallsOnce /\ CancelOnce /\ ActiveHasBegun /\ ReportedOnce
      /\ stage[p].at = "new"
      /\ UNCHANGED <<rec, ends, events, replies, turns>>
  BY DEF Inv, submit, agent
<1>2. \A i \in 1..Len(queued) : queued[i] \in Prompt /\ queued[i] # p
  BY <1>1 DEF Types, QueuedOnce
<1>3. CASE Unfinished(active)
  <2>1. /\ queued' = Append(queued, p) /\ stage' = Stage(p, "queued")
        /\ active' = active /\ calls' = calls
    BY <1>3 DEF submit
  <2>2. /\ stage' \in [Prompt -> [at : Stages, direct : BOOLEAN]]
        /\ stage'[p].at = "queued" /\ \A q \in Prompt : q # p => stage'[q] = stage[q]
    BY <1>1, <2>1, StageIs DEF Stages, Waits
  <2>3. Types'
    BY <1>1, <2>1, <2>2, AppendProperties DEF Types
  <2>4. /\ Len(queued) \in Nat /\ Len(queued') = Len(queued) + 1 /\ queued'[Len(queued) + 1] = p
        /\ \A i \in 1..Len(queued) : queued'[i] = queued[i]
    BY <1>1, <2>1, AppendProperties DEF Types
  <2>5. ASSUME NEW i \in 1..Len(queued')
        PROVE  i \in 1..Len(queued) \/ i = Len(queued) + 1
    BY <2>4
  <2>6. \A i \in 1..Len(queued') : stage'[queued'[i]].at = "queued"
    BY <1>1, <1>2, <2>2, <2>4, <2>5 DEF QueuedOnce
  <2>7. \A i, j \in 1..Len(queued') : queued'[i] = queued'[j] => i = j
    BY <1>1, <1>2, <2>4, <2>5 DEF QueuedOnce
  <2>8. CallsOnce'
    BY <1>1, <2>1, <2>2, WhoIsCalled DEF CallsOnce
  <2>9. CancelOnce'
    <3>1. \A q \in Prompt : Pending(q) => Pending(q)'
      BY <1>1, <2>2 DEF Pending, Waits
    <3> QED
      BY <1>1, <2>1, <3>1, WhoIsCalled DEF CancelOnce
  <2>10. ActiveHasBegun'
    BY <1>1, <2>1, <2>2 DEF ActiveHasBegun, Begun, Types
  <2>11. ReportedOnce'
    BY <1>1, <2>2 DEF ReportedOnce, Waits
  <2> QED
    BY <2>3, <2>6, <2>7, <2>8, <2>9, <2>10, <2>11 DEF Inv, QueuedOnce
<1>4. CASE ~Unfinished(active)
  <2>1. _startPrompt(p, TRUE, active, stage) /\ queued' = queued
    BY <1>4 DEF submit
  <2>2. Passes(active, stage)
    BY <1>1, NowPasses
  <2>3. queued' \in Seq(Prompt)
    BY <1>1, <2>1 DEF Types
  <2>4. /\ \A i \in 1..Len(queued') : queued'[i] # p /\ stage[queued'[i]].at = "queued"
        /\ \A i, j \in 1..Len(queued') : queued'[i] = queued'[j] => i = j
    BY <1>1, <1>2, <2>1 DEF QueuedOnce
  <2> QED
    BY <1>1, <2>1, <2>2, <2>3, <2>4, PromptStarts
<1> QED
  BY <1>3, <1>4

LEMMA SetActiveInv ==
  ASSUME Inv, NEW p \in Prompt, setActive(p)
  PROVE  Inv'
<1>1. /\ Types /\ QueuedOnce /\ CallsOnce /\ CancelOnce /\ ReportedOnce
      /\ stage[p].at = "applying" /\ active' = p /\ stage' = Stage(p, "prompting")
      /\ calls' = Append(calls, Call("prompt", p))
      /\ UNCHANGED <<rec, queued, replies, ends, events, turns>>
  BY DEF Inv, setActive, agent
<1>2. /\ stage' \in [Prompt -> [at : Stages, direct : BOOLEAN]]
      /\ stage'[p].at = "prompting" /\ \A q \in Prompt : q # p => stage'[q] = stage[q]
  BY <1>1, StageIs DEF Stages, Begun
<1>3. /\ calls' \in Seq(CallSet) /\ Len(calls) \in Nat
      /\ \A i \in 1..Len(calls') :
           \/ i \in 1..Len(calls) /\ calls'[i] = calls[i]
           \/ i = Len(calls) + 1 /\ calls'[i].op = "prompt" /\ calls'[i].of = p
  BY <1>1, CallsAfterSending
<1>4. Types'
  BY <1>1, <1>2, <1>3 DEF Types
<1>5. QueuedOnce'
  <2>1. \A i \in 1..Len(queued) : queued[i] \in Prompt /\ queued[i] # p
    BY <1>1 DEF Types, QueuedOnce
  <2> QED
    BY <1>1, <1>2, <2>1 DEF QueuedOnce
<1>6. CallsOnce'
  <2>1. \A i \in 1..Len(calls) :
          /\ calls[i].op = "prompt" => calls[i].of # None /\ calls[i].of # p /\ stage'[calls[i].of].at = "prompting"
          /\ calls[i].op = "steer"  => calls[i].of # None /\ stage'[calls[i].of].at = "steering"
    BY <1>1, <1>2, WhoIsCalled DEF CallsOnce
  <2>2. \A i \in 1..Len(calls') :
          /\ calls'[i].op = "prompt" => calls'[i].of # None /\ stage'[calls'[i].of].at = "prompting"
          /\ calls'[i].op = "steer"  => calls'[i].of # None /\ stage'[calls'[i].of].at = "steering"
    BY <1>2, <1>3, <2>1
  <2>3. \A i, j \in 1..Len(calls') :
          calls'[i].op = calls'[j].op /\ calls'[i].of = calls'[j].of /\ calls'[i].of # None => i = j
    BY <1>1, <1>3, <2>1 DEF CallsOnce
  <2> QED
    BY <2>2, <2>3 DEF CallsOnce
<1>7. CancelOnce'
  <2>1. \A q \in Prompt : Pending(q) => Pending(q)'
    BY <1>1, <1>2 DEF Pending, Waits
  <2>2. \A i \in 1..Len(calls') : calls'[i].op = "cancel" => i \in 1..Len(calls) /\ calls'[i] = calls[i]
    BY <1>3
  <2> QED
    BY <1>1, <2>1, <2>2, WhoIsCalled DEF CancelOnce
<1>8. ActiveHasBegun' /\ ReportedOnce'
  BY <1>1, <1>2 DEF ActiveHasBegun, ReportedOnce, Waits, Begun
<1> QED
  BY <1>4, <1>5, <1>6, <1>7, <1>8 DEF Inv

(* Both ways in which the start of a prompt fails.                         *)
LEMMA StartFailsInv ==
  ASSUME Inv, NEW p \in Prompt, NEW a \in {None, active}, a # p,
         stage[p].at \in {"applying", "failed"},
         UNCHANGED <<rec, ends, events, replies, turns>>,
         startFails(p, a)
  PROVE  Inv'
<1>1. Types /\ Passes(active, stage)
  BY NowPasses DEF Inv
<1>2. CASE stage[p].direct
  <2>1. active' = a /\ stage' = Stage(p, "refused") /\ UNCHANGED <<queued, calls>>
    BY <1>2 DEF startFails
  <2>2. Types'
    BY <1>1, <2>1, StageIs DEF Types, Stages
  <2> QED
    BY <2>1, <2>2, StageMoves DEF Stages, Waits
<1>3. CASE ~stage[p].direct
  <2>1. _startNextQueued(a, Stage(p, "lost"))
    BY <1>3 DEF startFails
  <2>2. Passes(a, Stage(p, "lost"))
    <3>1. /\ Stage(p, "lost") \in [Prompt -> [at : Stages, direct : BOOLEAN]]
          /\ Stage(p, "lost")[p].at = "lost"
          /\ \A q \in Prompt : q # p => Stage(p, "lost")[q] = stage[q]
      BY <1>1, StageIs DEF Stages
    <3> QED
      BY <1>1, <3>1 DEF Passes, Waits
  <2> QED
    BY <2>1, <2>2, NextStarts
<1> QED
  BY <1>2, <1>3

LEMMA AbortInv ==
  ASSUME Inv, NEW p \in Prompt, abort(p)
  PROVE  Inv'
<1>1. /\ Types /\ QueuedOnce /\ CallsOnce /\ CancelOnce /\ ReportedOnce /\ ActiveHasBegun
      /\ active = p /\ ~rec[p].aborted
      /\ rec' = [rec EXCEPT ![p].aborted = TRUE]
      /\ calls' = Append(calls, Call("cancel", p))
      /\ UNCHANGED <<active, queued, stage, replies, ends, events, turns>>
  BY DEF Inv, abort, agent
<1>2. ends[p].times = 0 /\ stage[p].at \notin Waits
  BY <1>1 DEF ActiveHasBegun, Types, Begun, Waits
<1>3. /\ calls' \in Seq(CallSet) /\ Len(calls) \in Nat
      /\ \A i \in 1..Len(calls') :
           \/ i \in 1..Len(calls) /\ calls'[i] = calls[i]
           \/ i = Len(calls) + 1 /\ calls'[i].op = "cancel" /\ calls'[i].of = p
  BY <1>1, CallsAfterSending
<1>4. /\ rec' \in [Prompt -> [turn : Nat, aborted : BOOLEAN, override : BOOLEAN]]
      /\ rec'[p].aborted /\ \A q \in Prompt : q # p => rec'[q] = rec[q]
  BY <1>1, RecMarked
<1>5. Types' /\ QueuedOnce'
  BY <1>1, <1>3, <1>4 DEF Types, QueuedOnce
<1>6. /\ \A i \in 1..Len(calls) : calls[i].op = "cancel" => calls[i].of # p
      /\ \A c \in replies : c.of # p
  BY <1>1 DEF CancelOnce, Pending
<1>7. CallsOnce'
  <2>1. \A i \in 1..Len(calls') :
          /\ calls'[i].op = "prompt" => calls'[i].of # None /\ stage[calls'[i].of].at = "prompting"
          /\ calls'[i].op = "steer"  => calls'[i].of # None /\ stage[calls'[i].of].at = "steering"
    BY <1>1, <1>3 DEF CallsOnce
  <2>2. \A i, j \in 1..Len(calls') :
          calls'[i].op = calls'[j].op /\ calls'[i].of = calls'[j].of /\ calls'[i].of # None => i = j
    BY <1>1, <1>3, <1>6 DEF CallsOnce
  <2> QED
    BY <1>1, <2>1, <2>2 DEF CallsOnce
<1>8. CancelOnce'
  <2>1. Pending(p)' /\ \A q \in Prompt : Pending(q) => Pending(q)'
    BY <1>1, <1>2, <1>4 DEF Pending
  <2>2. /\ \A i \in 1..Len(calls) : calls[i].of \in {None} \cup Prompt
        /\ \A c \in replies : c.of \in Prompt
    BY <1>1, WhoIsCalled
  <2>3. (\A i \in 1..Len(calls) : calls[i].op = "cancel" /\ calls[i].of # None => Pending(calls[i].of))'
    BY <1>1, <1>3, <2>1, <2>2 DEF CancelOnce
  <2>4. \A c \in replies : Pending(c.of)'
    BY <1>1, <2>1, <2>2 DEF CancelOnce
  <2>5. \A i \in 1..Len(calls'), c \in replies : ~(calls'[i].op = "cancel" /\ calls'[i].of = c.of)
    BY <1>1, <1>3, <1>6 DEF CancelOnce
  <2> QED
    BY <1>1, <2>3, <2>4, <2>5 DEF CancelOnce
<1>9. ActiveHasBegun' /\ ReportedOnce'
  BY <1>1, <1>4 DEF ActiveHasBegun, ReportedOnce
<1> QED
  BY <1>5, <1>7, <1>8, <1>9 DEF Inv

(* The queue without the prompt at i, which is given another stage.        *)
LEMMA Withdrawn ==
  ASSUME Inv, NEW i \in 1..Len(queued), NEW at \in Stages,
         queued' = RemoveAt(queued, i), stage' = Stage(queued[i], at)
  PROVE  /\ queued[i] \in Prompt /\ stage[queued[i]].at = "queued" /\ ends[queued[i]].times = 0
         /\ stage' \in [Prompt -> [at : Stages, direct : BOOLEAN]] /\ stage'[queued[i]].at = at
         /\ \A q \in Prompt : q # queued[i] => stage'[q] = stage[q]
         /\ queued' \in Seq(Prompt)
         /\ QueuedOnce'
<1>1. Types /\ QueuedOnce /\ ReportedOnce /\ Len(queued) \in Nat
      /\ \A j \in 1..Len(queued) : queued[j] \in Prompt
  BY DEF Inv, Types
<1>2. queued[i] \in Prompt /\ stage[queued[i]].at = "queued" /\ ends[queued[i]].times = 0
  BY <1>1 DEF QueuedOnce, ReportedOnce, Waits
<1>3. /\ stage' \in [Prompt -> [at : Stages, direct : BOOLEAN]] /\ stage'[queued[i]].at = at
      /\ \A q \in Prompt : q # queued[i] => stage'[q] = stage[q]
  BY <1>1, <1>2, StageIs
<1>4. /\ queued' \in Seq(Prompt) /\ Len(queued') = Len(queued) - 1
      /\ \A j \in 1..Len(queued) - 1 : queued'[j] = queued[IF j < i THEN j ELSE j + 1]
  BY <1>1, RemoveAtProperties DEF Types
<1>5. ASSUME NEW j \in 1..Len(queued')
      PROVE  \E k \in 1..Len(queued) : k # i /\ queued'[j] = queued[k] /\ k = (IF j < i THEN j ELSE j + 1)
  BY <1>1, <1>4
<1>6. \A j \in 1..Len(queued') : stage'[queued'[j]].at = "queued"
  BY <1>1, <1>3, <1>5 DEF QueuedOnce
<1>7. ASSUME NEW j \in 1..Len(queued'), NEW k \in 1..Len(queued'), queued'[j] = queued'[k]
      PROVE  j = k
  <2>1. (IF j < i THEN j ELSE j + 1) = (IF k < i THEN k ELSE k + 1)
    BY <1>1, <1>5, <1>7 DEF QueuedOnce
  <2> QED
    BY <2>1, <1>1
<1> QED
  BY <1>2, <1>3, <1>4, <1>6, <1>7 DEF QueuedOnce

LEMMA AbortQueuedInv ==
  ASSUME Inv, NEW i \in 1..Len(queued), abortQueued(i)
  PROVE  Inv'
<1> DEFINE p == queued[i]
<1>1. /\ Types /\ QueuedOnce /\ CallsOnce /\ CancelOnce /\ ReportedOnce /\ ActiveHasBegun
      /\ queued' = RemoveAt(queued, i)
      /\ stage' = Stage(p, "aborted") /\ ends' = Report(p, "aborted")
      /\ UNCHANGED <<active, rec, calls, replies, events, turns>>
  BY DEF Inv, abortQueued, wire, agent
<1>2. /\ p \in Prompt /\ stage[p].at = "queued" /\ ends[p].times = 0
      /\ stage' \in [Prompt -> [at : Stages, direct : BOOLEAN]] /\ stage'[p].at = "aborted"
      /\ \A q \in Prompt : q # p => stage'[q] = stage[q]
      /\ queued' \in Seq(Prompt) /\ QueuedOnce'
  BY <1>1, Withdrawn DEF Stages
<1> HIDE DEF p
<1>3. /\ ends' \in [Prompt -> [times : Nat, how : {"open", "completed", "aborted"}]]
      /\ ends'[p].times = 1 /\ \A q \in Prompt : q # p => ends'[q] = ends[q]
  BY <1>1, <1>2, ReportIs
<1>4. Types'
  BY <1>1, <1>2, <1>3 DEF Types
<1>5. /\ \A j \in 1..Len(calls) : calls[j].of \in {None} \cup Prompt
      /\ \A c \in replies : c.of \in Prompt
  BY <1>1, WhoIsCalled
<1>6. CallsOnce'
  BY <1>1, <1>2, <1>5 DEF CallsOnce
<1>7. CancelOnce'
  <2>1. \A q \in Prompt : Pending(q) => Pending(q)'
    BY <1>1, <1>2, <1>3 DEF Pending, Waits
  <2> QED
    BY <1>1, <1>5, <2>1 DEF CancelOnce
<1>8. ActiveHasBegun'
  BY <1>1, <1>2, <1>3 DEF ActiveHasBegun, Begun, Types
<1>9. ReportedOnce'
  BY <1>1, <1>2, <1>3 DEF ReportedOnce, Waits
<1> QED
  BY <1>2, <1>4, <1>6, <1>7, <1>8, <1>9 DEF Inv

LEMMA AbortBySessionInv ==
  ASSUME Inv, abortBySession
  PROVE  Inv'
<1>1. /\ Types /\ QueuedOnce /\ CallsOnce /\ CancelOnce /\ ReportedOnce /\ ActiveHasBegun
      /\ calls' = Append(calls, Call("cancel", None))
      /\ UNCHANGED <<active, rec, queued, stage, replies, ends, events, turns>>
  BY DEF Inv, abortBySession, service, agent
<1>2. /\ calls' \in Seq(CallSet) /\ Len(calls) \in Nat
      /\ \A i \in 1..Len(calls') :
           \/ i \in 1..Len(calls) /\ calls'[i] = calls[i]
           \/ i = Len(calls) + 1 /\ calls'[i].op = "cancel" /\ calls'[i].of = None
  BY <1>1, CallsAfterSending
<1>3. Types' /\ QueuedOnce' /\ ActiveHasBegun' /\ ReportedOnce'
  BY <1>1, <1>2 DEF Types, QueuedOnce, ActiveHasBegun, ReportedOnce
<1>4. CallsOnce'
  BY <1>1, <1>2 DEF CallsOnce
<1>5. CancelOnce'
  <2>1. \A q \in Prompt : Pending(q) => Pending(q)'
    BY <1>1 DEF Pending
  <2> QED
    BY <1>1, <1>2, <2>1, WhoIsCalled DEF CancelOnce
<1> QED
  BY <1>3, <1>4, <1>5 DEF Inv

LEMMA CancelReturnsInv ==
  ASSUME Inv, NEW c \in replies, cancelReturns(c)
  PROVE  Inv'
<1>1. /\ Types /\ QueuedOnce /\ CallsOnce /\ CancelOnce /\ ReportedOnce /\ ActiveHasBegun
      /\ replies' = replies \ {c}
      /\ ends' = IF c.done THEN Report(c.of, "aborted") ELSE ends
      /\ rec' = IF c.done THEN rec ELSE [rec EXCEPT ![c.of].aborted = FALSE]
      /\ UNCHANGED <<active, queued, stage, calls, events, turns>>
  BY DEF Inv, cancelReturns, agent
<1>2. /\ \A i \in 1..Len(calls) : calls[i].of \in {None} \cup Prompt
      /\ \A d \in replies : d.of \in Prompt
  BY <1>1, WhoIsCalled
<1>3. /\ rec[c.of].aborted /\ ends[c.of].times = 0 /\ stage[c.of].at \notin Waits
  BY <1>1 DEF CancelOnce, Pending
<1>4. /\ ends' \in [Prompt -> [times : Nat, how : {"open", "completed", "aborted"}]]
      /\ ends'[c.of].times \in {0, 1}
      /\ ends'[c.of].times = 1 => rec'[c.of].aborted
      /\ \A q \in Prompt : q # c.of => ends'[q] = ends[q]
  <2>1. CASE c.done
    BY <1>1, <1>2, <1>3, <2>1, ReportIs
  <2>2. CASE ~c.done
    BY <1>1, <1>3, <2>2 DEF Types
  <2> QED
    BY <2>1, <2>2
<1>5. /\ rec' \in [Prompt -> [turn : Nat, aborted : BOOLEAN, override : BOOLEAN]]
      /\ \A q \in Prompt : q # c.of => rec'[q] = rec[q]
  <2>1. CASE c.done
    BY <1>1, <2>1 DEF Types
  <2>2. CASE ~c.done
    BY <1>1, <1>2, <2>2, RecMarked
  <2> QED
    BY <2>1, <2>2
<1>6. Types'
  BY <1>1, <1>4, <1>5 DEF Types
<1>7. QueuedOnce' /\ CallsOnce'
  BY <1>1 DEF QueuedOnce, CallsOnce
<1>8. CancelOnce'
  <2>1. \A q \in Prompt : Pending(q) /\ q # c.of => Pending(q)'
    BY <1>1, <1>4, <1>5 DEF Pending
  <2>2. /\ \A d \in replies' : d \in replies /\ d.of # c.of
        /\ \A i \in 1..Len(calls) : ~(calls[i].op = "cancel" /\ calls[i].of = c.of)
    BY <1>1 DEF CancelOnce
  <2> QED
    BY <1>1, <1>2, <2>1, <2>2 DEF CancelOnce
<1>9. ActiveHasBegun'
  <2>1. CASE active = c.of
    <3>1. ends'[c.of].times > 0 => ends'[c.of].times = 1
      BY <1>4
    <3> QED
      BY <1>1, <1>4, <2>1, <3>1 DEF ActiveHasBegun
  <2>2. CASE active # c.of
    BY <1>1, <1>4, <1>5, <2>2 DEF ActiveHasBegun, Types
  <2> QED
    BY <2>1, <2>2
<1>10. ReportedOnce'
  BY <1>1, <1>3, <1>4 DEF ReportedOnce
<1> QED
  BY <1>6, <1>7, <1>8, <1>9, <1>10 DEF Inv

LEMMA SteerInv ==
  ASSUME Inv, NEW i \in 1..Len(queued), steer(i)
  PROVE  Inv'
<1> DEFINE p == queued[i]
<1>1. /\ Types /\ QueuedOnce /\ CallsOnce /\ CancelOnce /\ ReportedOnce /\ ActiveHasBegun
      /\ queued' = RemoveAt(queued, i)
      /\ stage' = Stage(p, "steering")
      /\ calls' = Append(calls, Call("steer", p))
      /\ UNCHANGED <<active, rec, replies, events, ends, turns>>
  BY DEF Inv, steer, agent
<1>2. /\ p \in Prompt /\ stage[p].at = "queued"
      /\ stage' \in [Prompt -> [at : Stages, direct : BOOLEAN]] /\ stage'[p].at = "steering"
      /\ \A q \in Prompt : q # p => stage'[q] = stage[q]
      /\ queued' \in Seq(Prompt) /\ QueuedOnce'
  BY <1>1, Withdrawn DEF Stages, Waits
<1> HIDE DEF p
<1>3. /\ calls' \in Seq(CallSet) /\ Len(calls) \in Nat
      /\ \A j \in 1..Len(calls') :
           \/ j \in 1..Len(calls) /\ calls'[j] = calls[j]
           \/ j = Len(calls) + 1 /\ calls'[j].op = "steer" /\ calls'[j].of = p
  BY <1>1, <1>2, CallsAfterSending
<1>4. Types'
  BY <1>1, <1>2, <1>3 DEF Types
<1>5. /\ \A j \in 1..Len(calls) : calls[j].of \in {None} \cup Prompt
      /\ \A c \in replies : c.of \in Prompt
  BY <1>1, WhoIsCalled
<1>6. CallsOnce'
  <2>1. \A j \in 1..Len(calls) :
          /\ calls[j].op = "prompt" => calls[j].of # None /\ stage'[calls[j].of].at = "prompting"
          /\ calls[j].op = "steer"  => calls[j].of # None /\ calls[j].of # p /\ stage'[calls[j].of].at = "steering"
    BY <1>1, <1>2, <1>5 DEF CallsOnce
  <2>2. \A j \in 1..Len(calls') :
          /\ calls'[j].op = "prompt" => calls'[j].of # None /\ stage'[calls'[j].of].at = "prompting"
          /\ calls'[j].op = "steer"  => calls'[j].of # None /\ stage'[calls'[j].of].at = "steering"
    BY <1>2, <1>3, <2>1
  <2>3. \A j, k \in 1..Len(calls') :
          calls'[j].op = calls'[k].op /\ calls'[j].of = calls'[k].of /\ calls'[j].of # None => j = k
    BY <1>1, <1>3, <2>1 DEF CallsOnce
  <2> QED
    BY <2>2, <2>3 DEF CallsOnce
<1>7. CancelOnce'
  <2>1. \A q \in Prompt : Pending(q) => Pending(q)'
    BY <1>1, <1>2 DEF Pending, Waits
  <2>2. \A j \in 1..Len(calls') : calls'[j].op = "cancel" => j \in 1..Len(calls) /\ calls'[j] = calls[j]
    BY <1>3
  <2> QED
    BY <1>1, <1>5, <2>1, <2>2 DEF CancelOnce
<1>8. ActiveHasBegun'
  BY <1>1, <1>2 DEF ActiveHasBegun, Begun, Types
<1>9. ReportedOnce'
  BY <1>1, <1>2 DEF ReportedOnce, Waits
<1> QED
  BY <1>2, <1>4, <1>6, <1>7, <1>8, <1>9 DEF Inv

LEMMA RestoreInv ==
  ASSUME Inv, NEW p \in Prompt, _restoreSteeredQueueItems(p)
  PROVE  Inv'
<1>1. /\ Types /\ QueuedOnce /\ CallsOnce /\ CancelOnce /\ ReportedOnce /\ ActiveHasBegun
      /\ stage[p].at = "notSteered" /\ queued' = <<p>> \o queued /\ stage' = Stage(p, "queued")
      /\ UNCHANGED <<active, rec, calls, replies, events, ends, turns>>
  BY DEF Inv, _restoreSteeredQueueItems, wire, agent
<1>2. /\ stage' \in [Prompt -> [at : Stages, direct : BOOLEAN]] /\ stage'[p].at = "queued"
      /\ \A q \in Prompt : q # p => stage'[q] = stage[q]
  BY <1>1, StageIs DEF Stages, Waits
<1>3. /\ queued' \in Seq(Prompt) /\ Len(queued) \in Nat /\ Len(queued') = Len(queued) + 1
      /\ queued'[1] = p
      /\ \A i \in 1..Len(queued') : i = 1 \/ (i - 1 \in 1..Len(queued) /\ queued'[i] = queued[i - 1])
  <2>1. <<p>> \in Seq(Prompt) /\ Len(<<p>>) = 1 /\ <<p>>[1] = p /\ Len(queued) \in Nat /\ queued \in Seq(Prompt)
    BY <1>1 DEF Types
  <2>2. /\ <<p>> \o queued \in Seq(Prompt) /\ Len(<<p>> \o queued) = Len(<<p>>) + Len(queued)
        /\ \A i \in 1..Len(<<p>>) + Len(queued) :
             (<<p>> \o queued)[i] = IF i <= Len(<<p>>) THEN <<p>>[i] ELSE queued[i - Len(<<p>>)]
    BY <2>1, ConcatProperties, Zenon
  <2> QED
    BY <1>1, <2>1, <2>2
<1>4. QueuedOnce'
  <2>1. \A i \in 1..Len(queued) : queued[i] \in Prompt /\ queued[i] # p
    BY <1>1 DEF Types, QueuedOnce
  <2>2. \A i \in 1..Len(queued') : stage'[queued'[i]].at = "queued"
    BY <1>1, <1>2, <1>3, <2>1 DEF QueuedOnce
  <2>3. \A i, j \in 1..Len(queued') : queued'[i] = queued'[j] => i = j
    <3> TAKE i, j \in 1..Len(queued')
    <3>1. CASE i = 1 \/ j = 1
      BY <1>3, <2>1, <3>1
    <3>2. CASE i # 1 /\ j # 1
      <4>1. queued[i - 1] = queued[j - 1] => i - 1 = j - 1
        BY <1>1, <1>3, <3>2 DEF QueuedOnce
      <4> QED
        BY <1>3, <3>2, <4>1
    <3> QED
      BY <3>1, <3>2
  <2> QED
    BY <2>2, <2>3 DEF QueuedOnce
<1>5. /\ \A j \in 1..Len(calls) : calls[j].of \in {None} \cup Prompt
      /\ \A c \in replies : c.of \in Prompt
  BY <1>1, WhoIsCalled
<1>6. CallsOnce'
  BY <1>1, <1>2, <1>5 DEF CallsOnce
<1>7. CancelOnce'
  <2>1. \A q \in Prompt : Pending(q) => Pending(q)'
    BY <1>1, <1>2 DEF Pending, Waits
  <2> QED
    BY <1>1, <1>5, <2>1 DEF CancelOnce
<1>8. ActiveHasBegun' /\ ReportedOnce'
  BY <1>1, <1>2 DEF ActiveHasBegun, Begun, Types, ReportedOnce, Waits
<1> QED
  BY <1>1, <1>2, <1>3, <1>4, <1>6, <1>7, <1>8 DEF Inv, Types

LEMMA BusEventInv ==
  ASSUME Inv, _handleBusEvent
  PROVE  Inv'
<1> DEFINE e == Head(events)
<1>1. /\ Types /\ QueuedOnce /\ CallsOnce /\ CancelOnce /\ ReportedOnce /\ ActiveHasBegun
      /\ UNCHANGED <<replies, turns>>
  BY DEF Inv, _handleBusEvent, agent
<1>2. /\ events' \in Seq([turn : Nat, reason : {"started", "completed", "cancelled"}])
      /\ e.turn \in Nat
  <2> DEFINE E == [turn : Nat, reason : {"started", "completed", "cancelled"}]
  <2>1. events # <<>> /\ events' = Tail(events) /\ events \in Seq(E)
    BY <1>1 DEF Types, _handleBusEvent
  <2> SUFFICES Tail(events) \in Seq(E) /\ Head(events) \in E
    BY <2>1
  <2> HIDE DEF E
  <2> QED
    BY <2>1
<1>3. CASE UNCHANGED <<service, calls, ends>>
  BY <1>1, <1>2, <1>3, AgentSteps DEF Types
<1>4. CASE active # None /\ onTurnStarted(e)
  <2>1. /\ rec' = rec \/ rec' = [rec EXCEPT ![active].turn = e.turn]
        /\ active \in Prompt
        /\ UNCHANGED <<active, queued, stage, calls, ends>>
    BY <1>1, <1>4 DEF onTurnStarted, Types
  <2>2. /\ rec' \in [Prompt -> [turn : Nat, aborted : BOOLEAN, override : BOOLEAN]]
        /\ \A p \in Prompt : rec'[p].aborted = rec[p].aborted
    <3> DEFINE r == [rec[active] EXCEPT !.turn = e.turn]
    <3>1. rec[active] \in [turn : Nat, aborted : BOOLEAN, override : BOOLEAN]
      BY <1>1, <2>1 DEF Types
    <3>2. r \in [turn : Nat, aborted : BOOLEAN, override : BOOLEAN] /\ r.aborted = rec[active].aborted
      BY <1>2, <3>1
    <3>3. rec' = rec \/ rec' = [rec EXCEPT ![active] = r]
      BY <2>1
    <3> HIDE DEF r
    <3>4. rec \in [Prompt -> [turn : Nat, aborted : BOOLEAN, override : BOOLEAN]]
      BY <1>1 DEF Types
    <3>5. CASE rec' = rec
      BY <3>4, <3>5
    <3>6. CASE rec' = [rec EXCEPT ![active] = r]
      <4>1. rec' \in [Prompt -> [turn : Nat, aborted : BOOLEAN, override : BOOLEAN]]
        BY <3>2, <3>4, <3>6
      <4>2. rec'[active] = r /\ \A p \in Prompt : p # active => rec'[p] = rec[p]
        BY <2>1, <3>4, <3>6
      <4> QED
        BY <3>2, <4>1, <4>2
    <3> QED
      BY <3>3, <3>5, <3>6
  <2>3. Types' /\ QueuedOnce' /\ CallsOnce' /\ ReportedOnce' /\ ActiveHasBegun'
    BY <1>1, <1>2, <2>1, <2>2 DEF Types, QueuedOnce, CallsOnce, ReportedOnce, ActiveHasBegun
  <2>4. CancelOnce'
    <3>1. \A q \in Prompt : Pending(q) => Pending(q)'
      BY <2>1, <2>2 DEF Pending
    <3> QED
      BY <1>1, <2>1, <3>1, WhoIsCalled DEF CancelOnce
  <2> QED
    BY <2>3, <2>4 DEF Inv
<1>5. CASE active # None /\ e.turn = rec[active].turn /\ onTurnEnded(e)
  <2> DEFINE how == IF e.reason = "cancelled" THEN "aborted" ELSE "completed"
             b   == rec[active].aborted \/ e.reason = "cancelled"
  <2>1. /\ active \in Prompt
        /\ ends' = IF rec[active].aborted THEN ends ELSE Report(active, how)
        /\ rec' = [rec EXCEPT ![active].aborted = b]
        /\ _startNextQueued(None, stage)
    BY <1>1, <1>5 DEF onTurnEnded, Types
  <2>2. how \in {"completed", "aborted"} /\ b \in BOOLEAN /\ (rec[active].aborted => b)
    BY <1>1, <2>1 DEF Types
  <2> HIDE DEF how, b
  <2>3. /\ rec' \in [Prompt -> [turn : Nat, aborted : BOOLEAN, override : BOOLEAN]]
        /\ rec[active].aborted => rec'[active].aborted
        /\ \A q \in Prompt : q # active => rec'[q] = rec[q]
    BY <1>1, <2>1, <2>2, RecMarked
  <2>4. stage[active].at \in Begun /\ (~rec[active].aborted => ends[active].times = 0)
    BY <1>1, <1>5, <2>1 DEF ActiveHasBegun, Types
  <2>5. /\ ends' \in [Prompt -> [times : Nat, how : {"open", "completed", "aborted"}]]
        /\ rec[active].aborted => ends' = ends
        /\ ends'[active].times \in {0, 1}
        /\ \A q \in Prompt : q # active => ends'[q] = ends[q]
    <3>1. CASE rec[active].aborted
      BY <1>1, <2>1, <3>1 DEF Types, ReportedOnce
    <3>2. CASE ~rec[active].aborted
      BY <1>1, <2>1, <2>2, <2>4, <3>2, ReportIs
    <3> QED
      BY <3>1, <3>2
  <2>6. \A p \in Prompt : Pending(p) => rec'[p].aborted /\ ends'[p].times = 0 /\ stage[p].at \notin Waits
    BY <2>3, <2>5 DEF Pending
  <2>7. \A p \in Prompt : /\ ends'[p].times \in {0, 1}
                          /\ ends'[p].times = 1 => stage[p].at \notin Waits
    BY <1>1, <2>4, <2>5 DEF ReportedOnce, Waits, Begun
  <2>8. Passes(None, stage)
    BY <1>1, <1>2, <2>3, <2>5, <2>6, <2>7 DEF Passes, Types
  <2> QED
    BY <2>1, <2>8, NextStarts
<1> QED
  BY <1>3, <1>4, <1>5 DEF _handleBusEvent, onTurnEnded

(* The first call arrives and gives its prompt, if it is one that starts   *)
(* or steers, its next stage.                                              *)
LEMMA FirstArrives ==
  ASSUME Inv, NEW at \in Stages, calls # <<>>, calls' = Tail(calls), NEW p \in Prompt, p = Head(calls).of,
         stage' = Stage(p, at), turns' \in Seq(TurnSet),
         UNCHANGED <<active, rec, queued, replies, events, ends>>,
         \/ Head(calls).op = "prompt" /\ at = "writing"
         \/ Head(calls).op = "steer" /\ at \in {"steered", "notSteered"}
  PROVE  Inv'
<1>1. /\ Types /\ QueuedOnce /\ CallsOnce /\ CancelOnce /\ ReportedOnce /\ ActiveHasBegun
  BY DEF Inv
<1>2. /\ calls' \in Seq(CallSet)
      /\ 1 \in 1..Len(calls) /\ Head(calls) = calls[1]
      /\ \A i \in 1..Len(calls') : i \in Nat /\ i + 1 \in 1..Len(calls) /\ calls'[i] = calls[i + 1]
  BY <1>1, CallsAfterArrival
<1>3. /\ stage' \in [Prompt -> [at : Stages, direct : BOOLEAN]] /\ stage'[p].at = at
      /\ \A q \in Prompt : q # p => stage'[q] = stage[q]
  BY <1>1, StageIs
<1>4. \/ calls[1].op = "prompt" /\ stage[p].at = "prompting" /\ at = "writing"
      \/ calls[1].op = "steer" /\ stage[p].at = "steering" /\ at \in {"steered", "notSteered"}
  BY <1>1, <1>2 DEF CallsOnce
<1>5. Types'
  BY <1>1, <1>2, <1>3 DEF Types
<1>6. QueuedOnce'
  <2>1. \A i \in 1..Len(queued) : queued[i] \in Prompt /\ queued[i] # p
    BY <1>1, <1>4 DEF Types, QueuedOnce
  <2> QED
    BY <1>1, <1>3, <2>1 DEF QueuedOnce
<1>7. /\ \A i \in 1..Len(calls) : calls[i].of \in {None} \cup Prompt
      /\ \A c \in replies : c.of \in Prompt
  BY <1>1, WhoIsCalled
<1>8. CallsOnce'
  <2>1. \A i \in 1..Len(calls) : i # 1 /\ calls[i].op \in {"prompt", "steer"} => calls[i].of # p
    <3> TAKE i \in 1..Len(calls)
    <3>1. CASE calls[i].op = calls[1].op
      BY <1>1, <1>2, <3>1 DEF CallsOnce
    <3>2. CASE calls[i].op # calls[1].op
      BY <1>1, <1>4, <3>2 DEF CallsOnce
    <3> QED
      BY <3>1, <3>2
  <2>2. \A i \in 1..Len(calls) :
          /\ i # 1 /\ calls[i].op = "prompt" => calls[i].of # None /\ stage'[calls[i].of].at = "prompting"
          /\ i # 1 /\ calls[i].op = "steer"  => calls[i].of # None /\ stage'[calls[i].of].at = "steering"
    BY <1>1, <1>3, <1>7, <2>1 DEF CallsOnce
  <2>3. \A i \in 1..Len(calls') :
          /\ calls'[i].op = "prompt" => calls'[i].of # None /\ stage'[calls'[i].of].at = "prompting"
          /\ calls'[i].op = "steer"  => calls'[i].of # None /\ stage'[calls'[i].of].at = "steering"
    <3> TAKE i \in 1..Len(calls')
    <3>1. i + 1 # 1 /\ i + 1 \in 1..Len(calls) /\ calls'[i] = calls[i + 1]
      BY <1>2
    <3> QED
      BY <2>2, <3>1
  <2>4. \A i, j \in 1..Len(calls') :
          calls'[i].op = calls'[j].op /\ calls'[i].of = calls'[j].of /\ calls'[i].of # None => i = j
    <3> TAKE i, j \in 1..Len(calls')
    <3>1. /\ calls[i + 1].op = calls[j + 1].op /\ calls[i + 1].of = calls[j + 1].of /\ calls[i + 1].of # None
          => i + 1 = j + 1
      BY <1>1, <1>2 DEF CallsOnce
    <3> QED
      BY <1>2, <3>1
  <2> QED
    BY <2>3, <2>4 DEF CallsOnce
<1>9. CancelOnce'
  <2>1. \A q \in Prompt : Pending(q) => Pending(q)'
    <3>1. ~Pending(p) \/ at \notin Waits
      BY <1>4 DEF Pending, Waits
    <3> QED
      BY <1>3, <3>1 DEF Pending
  <2> QED
    BY <1>1, <1>2, <1>7, <2>1 DEF CancelOnce
<1>10. ActiveHasBegun'
  BY <1>1, <1>3, <1>4 DEF ActiveHasBegun, Begun, Types
<1>11. ReportedOnce'
  BY <1>1, <1>3, <1>4 DEF ReportedOnce, Waits
<1> QED
  BY <1>5, <1>6, <1>8, <1>9, <1>10, <1>11 DEF Inv

LEMMA CancelArrives ==
  ASSUME Inv, cancel
  PROVE  Inv'
<1> DEFINE c == Head(calls)
<1>1. /\ Types /\ QueuedOnce /\ CallsOnce /\ CancelOnce /\ ReportedOnce /\ ActiveHasBegun
      /\ calls # <<>> /\ c.op = "cancel" /\ calls' = Tail(calls)
      /\ UNCHANGED <<active, rec, queued, stage, events, ends>>
  BY DEF Inv, cancel, Arrives, service
<1>2. /\ calls' \in Seq(CallSet)
      /\ 1 \in 1..Len(calls) /\ c = calls[1] /\ c \in CallSet
      /\ \A i \in 1..Len(calls') : i \in Nat /\ i + 1 \in 1..Len(calls) /\ calls'[i] = calls[i + 1]
  BY <1>1, CallsAfterArrival
<1>3. turns' \in Seq(TurnSet)
  <2>1. CASE turns' = turns
    BY <1>1, <2>1 DEF Types
  <2>2. CASE abortTurn
    <3>1. turns \in Seq(TurnSet)
      BY <1>1 DEF Types
    <3>2. turns' = [t \in 1..Len(turns) |-> [turns[t] EXCEPT !.aborted = @ \/ turns[t].worker = activeTurn]]
      BY <2>2, <3>1 DEF abortTurn
    <3>3. \A t \in 1..Len(turns) : [turns[t] EXCEPT !.aborted = @ \/ turns[t].worker = activeTurn] \in TurnSet
      <4> TAKE t \in 1..Len(turns)
      <4> DEFINE b == turns[t].aborted \/ turns[t].worker = activeTurn
      <4>1. turns[t] \in TurnSet /\ b \in BOOLEAN
        BY <3>1
      <4> HIDE DEF b
      <4>2. [turns[t] EXCEPT !.aborted = b] \in TurnSet
        BY <4>1 DEF TurnSet
      <4> QED
        BY <4>2 DEF b
    <3> QED
      BY <3>1, <3>2, <3>3
  <2> QED
    BY <2>1, <2>2 DEF cancel, agent
<1>4. replies' = replies \/ \E done \in BOOLEAN : c.of # None /\ replies' = replies \cup {[of |-> c.of, done |-> done]}
  BY DEF cancel
<1> HIDE DEF c
<1>5. c.of # None => c.of \in Prompt
  BY <1>2 DEF CallSet
<1>6. Types'
  BY <1>1, <1>2, <1>3, <1>4, <1>5 DEF Types
<1>7. QueuedOnce' /\ ActiveHasBegun' /\ ReportedOnce'
  BY <1>1 DEF QueuedOnce, ActiveHasBegun, ReportedOnce
<1>8. CallsOnce'
  <2>1. \A i \in 1..Len(calls') :
          /\ calls'[i].op = "prompt" => calls'[i].of # None /\ stage[calls'[i].of].at = "prompting"
          /\ calls'[i].op = "steer"  => calls'[i].of # None /\ stage[calls'[i].of].at = "steering"
    BY <1>1, <1>2 DEF CallsOnce
  <2>2. \A i, j \in 1..Len(calls') :
          calls'[i].op = calls'[j].op /\ calls'[i].of = calls'[j].of /\ calls'[i].of # None => i = j
    <3> TAKE i, j \in 1..Len(calls')
    <3>1. /\ calls[i + 1].op = calls[j + 1].op /\ calls[i + 1].of = calls[j + 1].of /\ calls[i + 1].of # None
          => i + 1 = j + 1
      BY <1>1, <1>2 DEF CallsOnce
    <3> QED
      BY <1>2, <3>1
  <2> QED
    BY <1>1, <2>1, <2>2 DEF CallsOnce
<1>9. CancelOnce'
  <2>1. \A q \in Prompt : Pending(q) => Pending(q)'
    BY <1>1 DEF Pending
  <2>2. /\ \A i \in 1..Len(calls) : calls[i].of \in {None} \cup Prompt
        /\ \A d \in replies : d.of \in Prompt
    BY <1>1, WhoIsCalled
  <2>3. (\A i \in 1..Len(calls) : calls[i].op = "cancel" /\ calls[i].of # None => Pending(calls[i].of))'
    BY <1>1, <1>2, <2>1, <2>2 DEF CancelOnce
  <2>4. \A i \in 1..Len(calls') : calls'[i].op = "cancel" /\ c.of # None => calls'[i].of # c.of
    <3> TAKE i \in 1..Len(calls')
    <3>1. i + 1 # 1 /\ i + 1 \in 1..Len(calls) /\ calls'[i] = calls[i + 1]
      BY <1>2
    <3> QED
      BY <1>1, <1>2, <3>1 DEF CallsOnce
  <2>5. c.of # None => Pending(c.of) /\ \A d \in replies : d.of # c.of
    BY <1>1, <1>2 DEF CancelOnce
  <2>6. \A d \in replies' : d \in replies \/ (c.of # None /\ d.of = c.of /\ d \notin replies)
    BY <1>4, <2>5
  <2>7. \A d \in replies' : Pending(d.of)'
    BY <1>1, <1>5, <2>1, <2>2, <2>5, <2>6 DEF CancelOnce
  <2>8. \A d, f \in replies' : d.of = f.of => d = f
    BY <1>1, <1>4, <2>5 DEF CancelOnce
  <2>9. \A i \in 1..Len(calls'), d \in replies' : ~(calls'[i].op = "cancel" /\ calls'[i].of = d.of)
    BY <1>1, <1>2, <2>4, <2>6 DEF CancelOnce
  <2> QED
    BY <2>3, <2>7, <2>8, <2>9 DEF CancelOnce
<1> QED
  BY <1>6, <1>7, <1>8, <1>9 DEF Inv

LEMMA ArrivesInv ==
  ASSUME Inv, promptArrives \/ steerArrives
  PROVE  Inv'
<1> DEFINE p == Head(calls).of
<1>1. Types /\ calls # <<>> /\ calls' = Tail(calls) /\ Head(calls).op \in {"prompt", "steer"}
  BY DEF Inv, promptArrives, steerArrives, Arrives
<1>2. p \in Prompt
  <2>1. 1 \in 1..Len(calls) /\ Head(calls) = calls[1] /\ calls[1] \in CallSet
    BY <1>1, CallsAfterArrival
  <2>2. calls[1].of # None
    BY <1>1, <2>1 DEF Inv, CallsOnce
  <2> QED
    BY <2>1, <2>2 DEF CallSet
<1>3. CASE promptArrives
  BY <1>1, <1>2, <1>3, FirstArrives DEF promptArrives, Arrives, agent, Stages, Begun, Types
<1>4. CASE steerArrives
  <2>1. PICK at \in {"steered", "notSteered"} : stage' = Stage(p, at) /\ (launch(None) \/ UNCHANGED agent)
    BY <1>4 DEF steerArrives
  <2>2. turns' \in Seq(TurnSet)
    BY <1>1, <2>1, LaunchTypes DEF agent, Types
  <2> QED
    BY <1>1, <1>2, <1>4, <2>1, <2>2, FirstArrives DEF steerArrives, Arrives, Stages, Waits
<1> QED
  BY <1>3, <1>4

LEMMA PromptInv ==
  ASSUME Inv, NEW p \in Prompt, prompt(p)
  PROVE  Inv'
<1>1. stage[p].at = "writing" /\ UNCHANGED <<active, rec, queued, calls, replies, events, ends>>
  BY DEF prompt, wire
<1>2. PICK at \in {"sent", "failed"} : stage' = Stage(p, at) /\ (launch(p) \/ UNCHANGED agent)
  BY DEF prompt
<1>3. turns' \in Seq(TurnSet)
  BY <1>2, LaunchTypes DEF agent, Inv, Types
<1>4. Types'
  BY <1>1, <1>2, <1>3, StageIs DEF Inv, Types, Stages, Begun
<1> QED
  BY <1>1, <1>2, <1>4, StageMoves DEF Stages, Waits, Begun

LEMMA TurnIs ==
  ASSUME Types, NEW t \in DOMAIN turns, NEW at \in {"running", "ended"}
  PROVE  /\ [turns EXCEPT ![t].at = at] \in Seq(TurnSet)
         /\ [turns[t] EXCEPT !.of = None, !.at = "launched"] \in TurnSet
<1>1. turns \in Seq(TurnSet) /\ turns[t] \in TurnSet /\ t \in 1..Len(turns)
  BY DEF Types
<1>2. [turns[t] EXCEPT !.of = None, !.at = "launched"] \in TurnSet
  BY <1>1 DEF TurnSet
<1>3. [turns[t] EXCEPT !.at = at] \in TurnSet
  BY <1>1 DEF TurnSet
<1>4. [turns EXCEPT ![t].at = at] = [turns EXCEPT ![t] = [turns[t] EXCEPT !.at = at]]
  OBVIOUS
<1> QED
  BY <1>1, <1>2, <1>3, <1>4

LEMMA TurnsInv ==
  ASSUME Inv, Turns \/ notify
  PROVE  Inv'
<1>1. UNCHANGED <<service, calls, replies, ends>>
  BY DEF Turns, turnStarted, turnEnded, notify, wire
<1>2. Types
  BY DEF Inv
<1>3. ASSUME notify PROVE Inv'
  <2>1. events' = events /\ turns' \in Seq(TurnSet)
    BY <1>2, <1>3, LaunchTypes DEF notify, wire
  <2> QED
    BY <1>1, <1>2, <2>1, AgentSteps DEF Types
<1>4. ASSUME NEW t \in DOMAIN turns, NEW r \in {"started", "completed", "cancelled"},
             events' = Append(events, [turn |-> t, reason |-> r])
      PROVE  events' \in Seq([turn : Nat, reason : {"started", "completed", "cancelled"}])
  <2>1. t \in Nat
    BY <1>2 DEF Types
  <2> QED
    BY <1>2, <1>4, <2>1, AppendProperties DEF Types
<1>5. ASSUME NEW t \in DOMAIN turns, turnStarted(t) PROVE Inv'
  <2>1. turns' \in Seq(TurnSet)
    BY <1>2, <1>5, TurnIs DEF turnStarted
  <2> QED
    BY <1>1, <1>4, <1>5, <2>1, AgentSteps DEF turnStarted
<1>6. ASSUME NEW t \in DOMAIN turns, NEW r \in {"completed", "cancelled"}, turnEnded(t, r) PROVE Inv'
  <2> DEFINE after == [turns EXCEPT ![t].at = "ended"]
             next  == [turns[t] EXCEPT !.of = None, !.at = "launched"]
  <2>1. after \in Seq(TurnSet) /\ next \in TurnSet
    BY <1>2, TurnIs
  <2>2. turns' = after \/ turns' = Append(after, next)
    BY <1>6 DEF turnEnded
  <2> HIDE DEF after, next
  <2>3. turns' \in Seq(TurnSet)
    BY <2>1, <2>2, AppendProperties
  <2> QED
    BY <1>1, <1>4, <1>6, <2>3, AgentSteps DEF turnEnded
<1> QED
  BY <1>3, <1>5, <1>6 DEF Turns

LEMMA StepInv == Inv /\ [Next]_vars => Inv'
<1> SUFFICES ASSUME Inv, [Next]_vars PROVE Inv'
  OBVIOUS
<1>1. CASE User
  <2>1. DOMAIN queued = 1..Len(queued)
    BY DEF Inv, Types
  <2> QED
    BY <1>1, <2>1, SubmitInv, AbortInv, AbortQueuedInv, SteerInv, AbortBySessionInv DEF User
<1>2. CASE Calls
  <2>1. ASSUME NEW p \in Prompt, promptFailed(p) PROVE Inv'
    <3>1. (IF active = p THEN None ELSE active) \in {None, active} \ {p}
      OBVIOUS
    <3> QED
      BY <2>1, <3>1, StartFailsInv DEF promptFailed, agent
  <2> QED
    BY <1>2, <2>1, SetActiveInv, PromptInv, RestoreInv, CancelReturnsInv, ArrivesInv, CancelArrives DEF Calls
<1>3. CASE \E p \in Prompt : setterFails(p)
  <2>1. PICK p \in Prompt : setterFails(p)
    BY <1>3
  <2>2. active # p
    BY <2>1 DEF setterFails, Inv, ActiveHasBegun, Begun
  <2> QED
    BY <2>1, <2>2, StartFailsInv DEF setterFails, agent
<1>4. CASE _handleBusEvent
  BY <1>4, BusEventInv
<1>5. CASE Turns \/ notify
  BY <1>5, TurnsInv
<1>6. CASE UNCHANGED vars
  BY <1>6, AgentSteps DEF vars, wire, agent, Inv, Types
<1> QED
  BY <1>1, <1>2, <1>3, <1>4, <1>5, <1>6 DEF Next

(* A prompt is reported as ended once at most, for any number of prompts   *)
(* and whatever occasions arise.                                           *)
THEOREM EndsOnce == Spec => []EndsAtMostOnce
<1>1. Inv => EndsAtMostOnce
  BY DEF Inv, ReportedOnce, EndsAtMostOnce
<1> QED
  BY <1>1, InitInv, StepInv, PTL DEF Spec
-----------------------------------------------------------------------------
(* Nothing holds a prompt back on its way to the agent and fails there.    *)
Straight(s) == s["override"] = 0 /\ s["promptFails"] = 0 /\ s["steerFails"] = 0

Aside == {"applying", "failed", "notSteered"}

(* Prompts are submitted in their order, and those to come are as left     *)
(* says.                                                                   *)
InTheirOrder ==
  \E k \in Nat : \A p \in Prompt : /\ stage[p].at = "new" <=> p > k
                                   /\ rec[p].override => p > k + left["submit"]

QueueInv ==
  /\ left \in [Occasion -> Nat] /\ Straight(left)
  /\ InTheirOrder
  /\ \A p \in Prompt : /\ stage[p].at \notin Aside
                       /\ stage[p].at \in {"new", "queued"} => ~rec[p].aborted
  /\ active = None => queued = <<>>

-----------------------------------------------------------------------------
LEMMA StatusIs ==
  ASSUME NEW p \in Prompt, stage[p].at \notin Aside
  PROVE  /\ active = p /\ rec[p].aborted => status[p] = "stopping"
         /\ active = p /\ ~rec[p].aborted => status[p] = "running"
         /\ active # p /\ stage[p].at = "new" => status[p] = "new"
         /\ active # p /\ stage[p].at = "queued" => status[p] = "waiting"
         /\ active # p /\ stage[p].at = "steering" => status[p] = "taken"
         /\ active # p /\ stage[p].at \notin {"new", "queued", "steering"} => status[p] = "over"
<1>1. /\ active = p /\ rec[p].aborted => status[p] = "stopping"
      /\ active = p /\ ~rec[p].aborted => status[p] = "running"
  BY Zenon DEF status
<1>2. ASSUME active # p PROVE status[p] =
        CASE stage[p].at = "new" -> "new"
          [] stage[p].at = "applying" -> IF stage[p].direct THEN "new" ELSE "taken"
          [] stage[p].at = "queued" -> "waiting"
          [] stage[p].at \in {"steering", "notSteered"} -> "taken"
          [] OTHER -> "over"
  BY <1>2 DEF status
<1>3. stage[p].at \notin {"applying", "notSteered"} BY DEF Aside
<1>4. active # p /\ stage[p].at = "new" => status[p] = "new" BY <1>2
<1>5. active # p /\ stage[p].at = "queued" => status[p] = "waiting" BY <1>2
<1>6. active # p /\ stage[p].at = "steering" => status[p] = "taken" BY <1>2
<1>7. active # p /\ stage[p].at \notin {"new", "queued", "steering"} => status[p] = "over"
  BY <1>2, <1>3
<1> QED BY <1>1, <1>4, <1>5, <1>6, <1>7

LEMMA StatusWillBe ==
  ASSUME NEW p \in Prompt, stage'[p].at \notin Aside
  PROVE  /\ active' = p /\ rec'[p].aborted => status'[p] = "stopping"
         /\ active' = p /\ ~rec'[p].aborted => status'[p] = "running"
         /\ active' # p /\ stage'[p].at = "new" => status'[p] = "new"
         /\ active' # p /\ stage'[p].at = "queued" => status'[p] = "waiting"
         /\ active' # p /\ stage'[p].at = "steering" => status'[p] = "taken"
         /\ active' # p /\ stage'[p].at \notin {"new", "queued", "steering"} => status'[p] = "over"
<1>1. /\ active' = p /\ rec'[p].aborted => status'[p] = "stopping"
      /\ active' = p /\ ~rec'[p].aborted => status'[p] = "running"
  BY Zenon DEF status
<1>2. ASSUME active' # p PROVE status'[p] =
        CASE stage'[p].at = "new" -> "new"
          [] stage'[p].at = "applying" -> IF stage'[p].direct THEN "new" ELSE "taken"
          [] stage'[p].at = "queued" -> "waiting"
          [] stage'[p].at \in {"steering", "notSteered"} -> "taken"
          [] OTHER -> "over"
  BY <1>2 DEF status
<1>3. stage'[p].at \notin {"applying", "notSteered"} BY DEF Aside
<1>4. active' # p /\ stage'[p].at = "new" => status'[p] = "new" BY <1>2
<1>5. active' # p /\ stage'[p].at = "queued" => status'[p] = "waiting" BY <1>2
<1>6. active' # p /\ stage'[p].at = "steering" => status'[p] = "taken" BY <1>2
<1>7. active' # p /\ stage'[p].at \notin {"new", "queued", "steering"} => status'[p] = "over"
  BY <1>2, <1>3
<1> QED BY <1>1, <1>4, <1>5, <1>6, <1>7

(* Only the active prompt runs or is being stopped.                        *)
LEMMA OnlyActiveRuns ==
  ASSUME QueueInv, NEW p \in Prompt, active # p
  PROVE  status[p] \notin {"running", "stopping"}
<1>1. stage[p].at \notin Aside BY DEF QueueInv
<1> QED BY <1>1, StatusIs

LEMMA StatusStays ==
  ASSUME \A p \in Prompt : status'[p] = status[p]
  PROVE  status' = status
<1>1. status = [p \in Prompt |-> status[p]] BY DEF status
<1>2. status' = [p \in Prompt |-> status'[p]] BY DEF status
<1> QED BY <1>1, <1>2

LEMMA StatusBecomes ==
  ASSUME NEW p \in Prompt, NEW x, status'[p] = x,
         \A q \in Prompt : q # p => status'[q] = status[q]
  PROVE  Queue!Becomes(p, x)
<1>1. status = [q \in Prompt |-> status[q]] BY DEF status
<1>2. status' = [q \in Prompt |-> status'[q]] BY DEF status
<1> QED BY <1>1, <1>2 DEF Queue!Becomes

LEMMA OccasionSpent ==
  ASSUME left \in [Occasion -> Nat], NEW h \in Occasion, Happens(h)
  PROVE  /\ left' \in [Occasion -> Nat] /\ left[h] > 0 /\ left'[h] = left[h] - 1
         /\ \A g \in Occasion : g # h => left'[g] = left[g]
         /\ \A g \in Occasion : left[g] = 0 => left'[g] = 0
<1>1. left' = [left EXCEPT ![h] = left[h] - 1] /\ left[h] > 0 BY DEF Happens
<1> QED BY <1>1

(* Only submit changes who has been submitted.                             *)
LEMMA OrderGoesOn ==
  ASSUME left \in [Occasion -> Nat], InTheirOrder,
         left' = left \/ \E h \in Occasion \ {"submit"} : Happens(h),
         \A p \in Prompt : /\ stage'[p].at = "new" <=> stage[p].at = "new"
                           /\ rec'[p].override = rec[p].override
  PROVE  /\ left' \in [Occasion -> Nat] /\ InTheirOrder'
         /\ \A g \in Occasion : left[g] = 0 => left'[g] = 0
<1>1. "submit" \in Occasion BY DEF Occasion
<1>2. /\ left' \in [Occasion -> Nat] /\ left'["submit"] = left["submit"]
      /\ \A g \in Occasion : left[g] = 0 => left'[g] = 0
  BY <1>1, OccasionSpent
<1>3. PICK k \in Nat : \A p \in Prompt : /\ stage[p].at = "new" <=> p > k
                                         /\ rec[p].override => p > k + left["submit"]
  BY DEF InTheirOrder
<1>4. InTheirOrder' BY <1>2, <1>3 DEF InTheirOrder
<1> QED BY <1>2, <1>4

(* A prompt is the next one when it is submitted.                          *)
LEMMA OrderOfSubmit ==
  ASSUME left \in [Occasion -> Nat], InTheirOrder, NEW p \in Prompt, submit(p), Types
  PROVE  /\ left' \in [Occasion -> Nat] /\ ~rec[p].override /\ rec' = rec
         /\ \A g \in Occasion : left[g] = 0 => left'[g] = 0
         /\ stage'[p].at # "new" /\ (\A q \in Prompt : q # p => stage'[q] = stage[q])
              => InTheirOrder'
<1>1. rec' = rec /\ stage[p].at = "new" /\ Happens("submit") BY DEF submit
<1>2. "submit" \in Occasion BY DEF Occasion
<1>3. /\ left' \in [Occasion -> Nat]
      /\ left["submit"] > 0 /\ left'["submit"] = left["submit"] - 1
      /\ \A g \in Occasion : left[g] = 0 => left'[g] = 0
  BY <1>1, <1>2, OccasionSpent
<1>4. Prompt = 1..Cardinality(Prompt) /\ Cardinality(Prompt) \in Nat
  BY PromptConstants, FS_CardinalityType
<1>5. PICK k \in Nat : \A q \in Prompt : /\ stage[q].at = "new" <=> q > k
                                         /\ rec[q].override => q > k + left["submit"]
  BY DEF InTheirOrder
<1>6. p = k + 1
  <2>1. p \in Nat /\ p > k BY <1>1, <1>4, <1>5
  <2>2. \A q \in 1..p - 1 : q \in Prompt /\ q <= k BY <1>4, <1>5 DEF submit
  <2>3. p - 1 # 0 => p - 1 <= k BY <2>1, <2>2
  <2> QED BY <2>1, <2>3
<1>7. ~rec[p].override BY <1>2, <1>3, <1>5, <1>6
<1>8. ASSUME stage'[p].at # "new", \A q \in Prompt : q # p => stage'[q] = stage[q]
      PROVE  InTheirOrder'
  <2>1. ASSUME NEW q \in Prompt
        PROVE  /\ stage'[q].at = "new" <=> q > k + 1
               /\ rec'[q].override => q > (k + 1) + left'["submit"]
    <3>1. q \in Nat /\ left["submit"] \in Nat BY <1>2, <1>4
    <3>2. stage'[q].at = "new" <=> q > k + 1 BY <1>5, <1>6, <1>8, <3>1
    <3>3. (k + 1) + left'["submit"] = k + left["submit"] BY <1>3, <3>1
    <3> QED BY <1>1, <1>5, <3>2, <3>3
  <2>2. k + 1 \in Nat OBVIOUS
  <2> QED BY <2>1, <2>2 DEF InTheirOrder
<1> QED BY <1>1, <1>3, <1>7, <1>8

(* A prompt that has been submitted has no controls of its own.            *)
LEMMA NoOverride ==
  ASSUME left \in [Occasion -> Nat], InTheirOrder, NEW p \in Prompt, stage[p].at # "new"
  PROVE  ~rec[p].override
<1>1. PICK k \in Nat : \A q \in Prompt : /\ stage[q].at = "new" <=> q > k
                                         /\ rec[q].override => q > k + left["submit"]
  BY DEF InTheirOrder
<1>2. left["submit"] \in Nat BY DEF Occasion
<1>3. p \in Nat
  <2>1. Cardinality(Prompt) \in Nat BY PromptConstants, FS_CardinalityType
  <2> QED BY <2>1, PromptConstants
<1>4. ~(p > k) BY <1>1
<1> QED BY <1>1, <1>2, <1>3, <1>4

LEMMA OrderAtFirst ==
  ASSUME Init, left["override"] = 0
  PROVE  /\ left \in [Occasion -> Nat] /\ InTheirOrder
         /\ \A p \in Prompt : stage[p].at = "new" /\ ~rec[p].aborted
<1>1. left \in [Occasion -> Nat] BY PromptConstants DEF Init
<1>2. left["submit"] \in Nat BY <1>1 DEF Occasion
<1>3. Prompt = 1..Cardinality(Prompt) /\ Cardinality(Prompt) \in Nat
  BY PromptConstants, FS_CardinalityType
<1>4. ASSUME NEW p \in Prompt
      PROVE  /\ stage[p].at = "new" /\ ~rec[p].aborted /\ p > 0
             /\ rec[p].override => p > left["submit"] - left["override"]
  <2>1. rec[p].override => p > left["submit"] - left["override"] BY DEF Init
  <2>2. stage[p].at = "new" /\ ~rec[p].aborted BY DEF Init
  <2>3. p > 0 BY <1>3
  <2> QED BY <2>1, <2>2, <2>3
<1>5. \A p \in Prompt : /\ stage[p].at = "new" <=> p > 0
                        /\ rec[p].override => p > 0 + left["submit"]
  BY <1>2, <1>4
<1> QED BY <1>1, <1>4, <1>5 DEF InTheirOrder

(* What a step that submits no prompt has to keep.                         *)
LEMMA QueueGoesOn ==
  ASSUME QueueInv,
         left' = left \/ \E h \in Occasion \ {"submit"} : Happens(h),
         \A p \in Prompt : /\ stage'[p].at = "new" <=> stage[p].at = "new"
                           /\ rec'[p].override = rec[p].override
                           /\ stage'[p].at \notin Aside
                           /\ stage'[p].at \in {"new", "queued"} => ~rec'[p].aborted,
         active' = None => queued' = <<>>
  PROVE  QueueInv'
<1>1. {"override", "promptFails", "steerFails"} \subseteq Occasion BY DEF Occasion
<1>2. left \in [Occasion -> Nat] /\ InTheirOrder BY DEF QueueInv
<1>3. /\ left' \in [Occasion -> Nat] /\ InTheirOrder'
      /\ \A g \in Occasion : left[g] = 0 => left'[g] = 0
  BY <1>2, OrderGoesOn
<1> QED BY <1>1, <1>3 DEF QueueInv, Straight

(* A step that moves one prompt to a stage which leaves its status.        *)
LEMMA StageWithinStatus ==
  ASSUME Inv, QueueInv, NEW p \in Prompt, NEW at \in Stages, stage' = Stage(p, at),
         left' = left \/ \E h \in Occasion \ {"submit"} : Happens(h),
         UNCHANGED <<active, rec, queued>>,
         stage[p].at \notin {"new", "queued", "steering"},
         at \notin {"new", "queued", "steering"}, at \notin Aside
  PROVE  QueueInv' /\ status' = status
<1>1. Types BY DEF Inv
<1>2. stage'[p].at = at /\ \A q \in Prompt : q # p => stage'[q] = stage[q] BY <1>1, StageIs
<1>3. \A q \in Prompt : stage[q].at \notin Aside /\ stage'[q].at \notin Aside
  BY <1>2 DEF QueueInv
<1>4. \A q \in Prompt : status'[q] = status[q]
  <2> TAKE q \in Prompt
  <2>1. CASE q = p BY <2>1, <1>2, <1>3, StatusIs, StatusWillBe
  <2>2. CASE q # p BY <2>2, <1>2, <1>3 DEF status
  <2> QED BY <2>1, <2>2
<1>5. \A q \in Prompt : /\ stage'[q].at = "new" <=> stage[q].at = "new"
                        /\ rec'[q].override = rec[q].override
                        /\ stage'[q].at \in {"new", "queued"} => ~rec'[q].aborted
  <2> TAKE q \in Prompt
  <2>1. CASE q = p BY <2>1, <1>2
  <2>2. CASE q # p BY <2>2, <1>2 DEF QueueInv
  <2> QED BY <2>1, <2>2
<1>6. active' = None => queued' = <<>> BY DEF QueueInv
<1>7. QueueInv' BY <1>3, <1>5, <1>6, QueueGoesOn
<1> QED BY <1>4, <1>7, StatusStays

(* A step of which the queue knows nothing.                                *)
LEMMA QueueUntouched ==
  ASSUME QueueInv, UNCHANGED <<active, rec, queued, stage>>,
         left' = left \/ \E h \in Occasion \ {"submit"} : Happens(h)
  PROVE  QueueInv' /\ UNCHANGED Queue!vars
<1>1. status' = status BY DEF status
<1>2. QueueInv' BY QueueGoesOn DEF QueueInv
<1> QED BY <1>1, <1>2 DEF Queue!vars

-----------------------------------------------------------------------------
(* A prompt that starts at once: nobody runs, and none waits but behind    *)
(* one that is being stopped.                                              *)
LEMMA SubmitKeeps ==
  ASSUME Inv, QueueInv, NEW p \in Prompt, submit(p)
  PROVE  QueueInv' /\ Queue!Next
<1>1. /\ Types /\ ActiveHasBegun /\ active \in {None} \cup Prompt
      /\ rec' = rec /\ stage[p].at = "new" /\ Happens("submit")
  BY DEF Inv, Types, submit
<1>2. left \in [Occasion -> Nat] /\ InTheirOrder BY DEF QueueInv
<1>3. /\ left' \in [Occasion -> Nat] /\ ~rec[p].override
      /\ \A g \in Occasion : left[g] = 0 => left'[g] = 0
  BY <1>1, <1>2, OrderOfSubmit
<1>4. Straight(left')
  <2>1. {"override", "promptFails", "steerFails"} \subseteq Occasion BY DEF Occasion
  <2> QED BY <1>3, <2>1 DEF QueueInv, Straight
<1>7. ~rec[p].override /\ ~rec[p].aborted BY <1>1, <1>3 DEF QueueInv
<1>8. ASSUME NEW at \in Stages \ Aside, at # "new", stage'[p].at = at,
             at = "queued" => ~rec[p].aborted,
             \A q \in Prompt : q # p => stage'[q] = stage[q],
             active' = None => queued' = <<>>
      PROVE  QueueInv'
  <2>1. InTheirOrder' BY <1>1, <1>2, <1>8, OrderOfSubmit
  <2>2. \A q \in Prompt : /\ stage'[q].at \notin Aside
                          /\ stage'[q].at \in {"new", "queued"} => ~rec'[q].aborted
    BY <1>1, <1>8 DEF QueueInv
  <2> QED BY <1>3, <1>4, <1>8, <2>1, <2>2 DEF QueueInv
<1>9. active # p BY <1>1 DEF ActiveHasBegun, Begun
<1>10. \A q \in Prompt : stage[q].at \notin Aside BY DEF QueueInv
<1>11. status[p] = "new" BY <1>1, <1>9, <1>10, StatusIs
<1>12. CASE Unfinished(active)
  <2>1. /\ queued' = Append(queued, p) /\ stage' = Stage(p, "queued") /\ active' = active
        /\ active # None /\ ~rec[active].aborted /\ active \in Prompt
    BY <1>1, <1>12 DEF submit, Unfinished
  <2>2. "queued" \in Stages /\ "queued" \notin Aside BY DEF Stages, Waits, Aside
  <2>3. stage'[p].at = "queued" /\ \A q \in Prompt : q # p => stage'[q] = stage[q]
    BY <1>1, <2>1, <2>2, StageIs
  <2>4. QueueInv' BY <1>7, <1>8, <2>1, <2>2, <2>3
  <2>5. status[active] = "running" BY <1>10, <2>1, StatusIs
  <2>6. status'[p] = "waiting" BY <1>9, <2>1, <2>2, <2>3, StatusWillBe
  <2>7. \A q \in Prompt : q # p => status'[q] = status[q] BY <1>1, <2>1, <2>3 DEF status
  <2>8. Queue!Becomes(p, "waiting") BY <2>6, <2>7, StatusBecomes
  <2>9. Queue!Wait(p) BY <1>11, <2>1, <2>5, <2>8 DEF Queue!Wait, Queue!NoneIs
  <2> QED BY <2>4, <2>9 DEF Queue!Next
<1>13. CASE ~Unfinished(active)
  <2>1. /\ queued' = queued /\ active' = p
        /\ stage' = [stage EXCEPT ![p] = [at |-> "prompting", direct |-> TRUE]]
    BY <1>7, <1>13 DEF submit, _startPrompt
  <2>2. "prompting" \in Stages /\ "prompting" \notin Aside BY DEF Stages, Begun, Aside
  <2>3. stage'[p].at = "prompting" /\ \A q \in Prompt : q # p => stage'[q] = stage[q]
    BY <1>1, <2>1 DEF Types
  <2>4. QueueInv' BY <1>8, <2>1, <2>2, <2>3
  <2>5. active # None => active \in Prompt /\ rec[active].aborted BY <1>1, <1>13 DEF Unfinished
  <2>6. active # None => status[active] = "stopping" BY <1>10, <2>5, StatusIs
  <2>7. queued = <<>> \/ ~Queue!NoneIs("stopping")
    BY <2>5, <2>6 DEF QueueInv, Queue!NoneIs
  <2>8. Queue!NoneIs("running") BY <2>6, OnlyActiveRuns DEF Queue!NoneIs
  <2>9. ASSUME NEW q \in Prompt
        PROVE  status'[q] = IF q = p THEN "running"
                            ELSE IF status[q] = "stopping" THEN "over" ELSE status[q]
    <3>1. CASE q = p BY <1>1, <1>7, <2>1, <2>2, <2>3, <3>1, StatusWillBe
    <3>2. CASE q # p /\ q = active
      <4>1. status[q] = "stopping" BY <2>6, <3>2
      <4>2. stage'[q].at \in Begun BY <1>1, <2>3, <3>2 DEF ActiveHasBegun
      <4>3. status'[q] = "over"
        <5>1. stage'[q].at \notin Aside BY <1>10, <2>3, <3>2
        <5>2. stage'[q].at \notin {"new", "queued", "steering"} BY <4>2 DEF Begun
        <5> QED BY <2>1, <3>2, <5>1, <5>2, StatusWillBe
      <4> QED BY <3>2, <4>1, <4>3
    <3>3. CASE q # p /\ q # active
      <4>1. status'[q] = status[q] BY <2>1, <2>3, <3>3 DEF status
      <4>2. status[q] # "stopping" BY <3>3, OnlyActiveRuns
      <4> QED BY <3>3, <4>1, <4>2
    <3> QED BY <3>1, <3>2, <3>3
  <2>10. status' = [q \in Prompt |-> IF q = p THEN "running"
                                    ELSE IF status[q] = "stopping" THEN "over" ELSE status[q]]
    <3>1. status' = [q \in Prompt |-> status'[q]] BY DEF status
    <3> QED BY <2>9, <3>1
  <2>11. Queue!Runs(p) BY <2>8, <2>10 DEF Queue!Runs
  <2>12. Queue!Start(p) BY <1>11, <2>1, <2>7, <2>11 DEF Queue!Start
  <2> QED BY <2>4, <2>12 DEF Queue!Next
<1> QED BY <1>12, <1>13

LEMMA AbortKeeps ==
  ASSUME Inv, QueueInv, NEW p \in Prompt, abort(p)
  PROVE  QueueInv' /\ Queue!Next
<1>1. /\ Types /\ ActiveHasBegun /\ active = p /\ ~rec[p].aborted
      /\ rec' = [rec EXCEPT ![p].aborted = TRUE] /\ UNCHANGED <<active, queued, stage>>
      /\ \E h \in Occasion \ {"submit"} : Happens(h)
  BY DEF Inv, abort, Occasion
<1>2. /\ rec'[p].aborted /\ rec'[p].override = rec[p].override
      /\ \A q \in Prompt : q # p => rec'[q] = rec[q]
  BY <1>1 DEF Types
<1>3. \A q \in Prompt : stage[q].at \notin Aside BY DEF QueueInv
<1>4. stage[p].at \notin {"new", "queued"} BY <1>1 DEF ActiveHasBegun, Begun
<1>5. \A q \in Prompt : /\ rec'[q].override = rec[q].override
                        /\ stage'[q].at \in {"new", "queued"} => ~rec'[q].aborted
  BY <1>1, <1>2, <1>4 DEF QueueInv
<1>6. QueueInv' BY <1>1, <1>3, <1>5, QueueGoesOn DEF QueueInv
<1>7. status[p] = "running" /\ status'[p] = "stopping"
  BY <1>1, <1>2, <1>3, StatusIs, StatusWillBe
<1>8. \A q \in Prompt : q # p => status'[q] = status[q] BY <1>1, <1>2 DEF status
<1>9. Queue!Becomes(p, "stopping") BY <1>7, <1>8, StatusBecomes
<1>10. Queue!Stop(p) BY <1>1, <1>7, <1>9 DEF Queue!Stop
<1> QED BY <1>6, <1>10 DEF Queue!Next

(* A prompt leaves the queue from wherever it is.                          *)
LEMMA WithdrawKeeps ==
  ASSUME Inv, QueueInv, NEW i \in 1..Len(queued), NEW at \in {"aborted", "steering"},
         queued' = RemoveAt(queued, i), stage' = Stage(queued[i], at),
         UNCHANGED <<active, rec>>,
         \E h \in Occasion \ {"submit"} : Happens(h)
  PROVE  QueueInv' /\ Queue!Next
<1> DEFINE p == queued[i]
<1>1. /\ Types /\ QueuedOnce /\ ActiveHasBegun BY DEF Inv
<1>2. p \in Prompt /\ stage[p].at = "queued" BY <1>1 DEF Types, QueuedOnce
<1>3. at \in Stages /\ at \notin Aside /\ at \notin {"new", "queued"}
  BY DEF Stages, Waits, Aside
<1> HIDE DEF p
<1>4. stage'[p].at = at /\ \A q \in Prompt : q # p => stage'[q] = stage[q]
  BY <1>1, <1>2, <1>3, StageIs DEF p
<1>5. active # p BY <1>1, <1>2 DEF ActiveHasBegun, Begun
<1>6. queued # <<>> BY <1>1 DEF Types
<1>7. \A q \in Prompt : /\ stage'[q].at = "new" <=> stage[q].at = "new"
                        /\ stage'[q].at \notin Aside
                        /\ stage'[q].at \in {"new", "queued"} => ~rec'[q].aborted
  BY <1>2, <1>3, <1>4 DEF QueueInv
<1>8. QueueInv' BY <1>6, <1>7, QueueGoesOn DEF QueueInv
<1>9. \A q \in Prompt : stage[q].at \notin Aside BY DEF QueueInv
<1>10. status[p] = "waiting" BY <1>2, <1>5, <1>9, StatusIs
<1>11. status'[p] = IF at = "steering" THEN "taken" ELSE "over"
  <2>1. stage'[p].at \notin Aside /\ active' # p BY <1>2, <1>5, <1>7
  <2>2. CASE at = "steering" BY <1>2, <1>4, <2>1, <2>2, StatusWillBe
  <2>3. CASE at = "aborted" BY <1>2, <1>4, <2>1, <2>3, StatusWillBe
  <2> QED BY <2>2, <2>3
<1>12. \A q \in Prompt : q # p => status'[q] = status[q] BY <1>4 DEF status
<1>13. Queue!Becomes(p, "taken") \/ Queue!Becomes(p, "over")
  BY <1>2, <1>11, <1>12, StatusBecomes
<1>14. \E j \in DOMAIN queued : queued[j] = p /\ queued' = RemoveAt(queued, j)
  BY <1>1 DEF p, Types
<1>15. Queue!Withdraw(p)
  BY <1>10, <1>13, <1>14 DEF Queue!Withdraw, Queue!RemoveAt, RemoveAt
<1> QED BY <1>2, <1>8, <1>15 DEF Queue!Next

(* A cancel that failed lets its prompt run on, if it is still the active  *)
(* one.                                                                    *)
LEMMA CancelReturnsKeeps ==
  ASSUME Inv, QueueInv, NEW c \in replies, cancelReturns(c)
  PROVE  QueueInv' /\ [Queue!Next]_(Queue!vars)
<1>1. /\ Types /\ CancelOnce /\ UNCHANGED <<active, queued, stage, left>>
      /\ rec' = IF c.done THEN rec ELSE [rec EXCEPT ![c.of].aborted = FALSE]
  BY DEF Inv, cancelReturns
<1>2. c.of \in Prompt /\ rec[c.of].aborted BY <1>1, WhoIsCalled DEF CancelOnce, Pending
<1>3. CASE c.done
  BY <1>1, <1>3, QueueUntouched
<1>4. CASE ~c.done
  <2>1. rec' = [rec EXCEPT ![c.of].aborted = FALSE] BY <1>1, <1>4
  <2>2. /\ ~rec'[c.of].aborted /\ rec'[c.of].override = rec[c.of].override
        /\ \A q \in Prompt : q # c.of => rec'[q] = rec[q]
    BY <1>1, <1>2, <2>1 DEF Types
  <2>3. \A q \in Prompt : stage[q].at \notin Aside BY DEF QueueInv
  <2>4. \A q \in Prompt : /\ rec'[q].override = rec[q].override
                          /\ stage'[q].at \in {"new", "queued"} => ~rec'[q].aborted
    BY <1>1, <2>2 DEF QueueInv
  <2>5. QueueInv' BY <1>1, <2>3, <2>4, QueueGoesOn DEF QueueInv
  <2>6. \A q \in Prompt : q # c.of => status'[q] = status[q] BY <1>1, <2>2 DEF status
  <2>7. CASE active = c.of
    <3>1. status[c.of] = "stopping" /\ status'[c.of] = "running"
      BY <1>1, <1>2, <2>2, <2>3, <2>7, StatusIs, StatusWillBe
    <3>2. Queue!Becomes(c.of, "running") BY <1>2, <2>6, <3>1, StatusBecomes
    <3>3. Queue!StopFails(c.of) BY <1>1, <3>1, <3>2 DEF Queue!StopFails
    <3> QED BY <1>2, <2>5, <3>3 DEF Queue!Next
  <2>8. CASE active # c.of
    <3>1. status'[c.of] = status[c.of] BY <1>1, <1>2, <2>8 DEF status
    <3>2. status' = status BY <2>6, <3>1, StatusStays
    <3> QED BY <1>1, <2>5, <3>2 DEF Queue!vars
  <2> QED BY <2>7, <2>8
<1> QED BY <1>3, <1>4

(* What the agent does with a call.                                        *)
LEMMA CallsKeep ==
  ASSUME Inv, QueueInv, Calls
  PROVE  QueueInv' /\ [Queue!Next]_(Queue!vars)
<1>1. Types /\ CallsOnce /\ ActiveHasBegun BY DEF Inv
<1>2. \A p \in Prompt : stage[p].at \notin {"applying", "failed", "notSteered"}
  BY DEF QueueInv, Aside
<1>3. ~\E p \in Prompt : setActive(p) \/ promptFailed(p) \/ _restoreSteeredQueueItems(p)
  BY <1>2 DEF setActive, promptFailed, _restoreSteeredQueueItems
<1>4. CASE promptArrives
  <2> DEFINE p == Head(calls).of
  <2>1. /\ calls # <<>> /\ calls' = Tail(calls) /\ calls[1].op = "prompt" /\ Head(calls) = calls[1]
        /\ 1 \in 1..Len(calls)
    BY <1>1, <1>4, CallsAfterArrival DEF promptArrives, Arrives
  <2>2. p \in Prompt /\ stage[p].at = "prompting"
    BY <1>1, <2>1, WhoIsCalled DEF CallsOnce
  <2>3. "writing" \in Stages /\ "writing" \notin Aside BY DEF Stages, Begun, Aside
  <2>4. stage' = Stage(p, "writing") /\ UNCHANGED <<active, rec, queued, left>>
    BY <1>4 DEF promptArrives
  <2> HIDE DEF p
  <2>5. QueueInv' /\ status' = status BY <2>2, <2>3, <2>4, StageWithinStatus
  <2> QED BY <2>4, <2>5 DEF Queue!vars
<1>5. CASE \E p \in Prompt : prompt(p)
  <2>1. PICK p \in Prompt : prompt(p) BY <1>5
  <2>2. left["promptFails"] = 0 BY DEF QueueInv, Straight
  <2>3. /\ stage[p].at = "writing" /\ stage' = Stage(p, "sent")
        /\ UNCHANGED <<active, rec, queued, left>>
    BY <2>1, <2>2 DEF prompt, Happens
  <2>4. "sent" \in Stages /\ "sent" \notin Aside BY DEF Stages, Begun, Aside
  <2>5. QueueInv' /\ status' = status BY <2>3, <2>4, StageWithinStatus
  <2> QED BY <2>3, <2>5 DEF Queue!vars
<1>6. CASE steerArrives
  <2> DEFINE p == Head(calls).of
  <2>1. /\ calls # <<>> /\ calls' = Tail(calls) /\ calls[1].op = "steer" /\ Head(calls) = calls[1]
        /\ 1 \in 1..Len(calls)
    BY <1>1, <1>6, CallsAfterArrival DEF steerArrives, Arrives
  <2>2. p \in Prompt /\ stage[p].at = "steering"
    BY <1>1, <2>1, WhoIsCalled DEF CallsOnce
  <2>3. left["steerFails"] = 0 BY DEF QueueInv, Straight
  <2>4. stage' = Stage(p, "steered") /\ UNCHANGED <<active, rec, queued, left>>
    BY <1>6, <2>3 DEF steerArrives, Happens
  <2>5. "steered" \in Stages /\ "steered" \notin Aside BY DEF Stages, Aside
  <2> HIDE DEF p
  <2>6. stage'[p].at = "steered" /\ \A q \in Prompt : q # p => stage'[q] = stage[q]
    BY <1>1, <2>2, <2>4, <2>5, StageIs
  <2>7. \A q \in Prompt : /\ stage'[q].at = "new" <=> stage[q].at = "new"
                          /\ stage'[q].at \notin Aside
                          /\ stage'[q].at \in {"new", "queued"} => ~rec'[q].aborted
    BY <2>2, <2>4, <2>5, <2>6 DEF QueueInv
  <2>8. QueueInv' BY <2>4, <2>7, QueueGoesOn DEF QueueInv
  <2>9. active # p BY <1>1, <2>2 DEF ActiveHasBegun, Begun
  <2>10. status[p] = "taken" /\ status'[p] = "over"
    <3>1. stage[p].at \notin Aside /\ stage'[p].at \notin Aside BY <2>2, <2>7 DEF QueueInv
    <3>2. status[p] = "taken" BY <2>2, <2>9, <3>1, StatusIs
    <3>3. active' # p BY <2>4, <2>9
    <3> QED BY <2>2, <2>6, <3>1, <3>2, <3>3, StatusWillBe
  <2>11. \A q \in Prompt : q # p => status'[q] = status[q] BY <2>4, <2>6 DEF status
  <2>12. Queue!Becomes(p, "over") BY <2>2, <2>10, <2>11, StatusBecomes
  <2>13. Queue!End(p) BY <2>4, <2>10, <2>12 DEF Queue!End
  <2> QED BY <2>2, <2>8, <2>13 DEF Queue!Next
<1>7. CASE cancel
  <2>1. /\ UNCHANGED <<active, rec, queued, stage>>
        /\ left' = left \/ Happens("cancelFails")
    BY <1>7 DEF cancel, service
  <2>2. "cancelFails" \in Occasion \ {"submit"} BY DEF Occasion
  <2> QED BY <2>1, <2>2, QueueUntouched
<1>8. CASE \E c \in replies : cancelReturns(c) BY <1>8, CancelReturnsKeeps
<1> QED BY <1>3, <1>4, <1>5, <1>6, <1>7, <1>8 DEF Calls

(* The end of a turn ends the active prompt, and the one that has waited   *)
(* longest is next.                                                        *)
LEMMA BusEventKeeps ==
  ASSUME Inv, QueueInv, _handleBusEvent
  PROVE  QueueInv' /\ [Queue!Next]_(Queue!vars)
<1>1. /\ Types /\ QueuedOnce /\ ActiveHasBegun /\ left' = left
      /\ \A q \in Prompt : stage[q].at \notin Aside
  BY DEF Inv, _handleBusEvent, QueueInv
<1> DEFINE e == Head(events)
           p == active
<1>2. CASE active = None
  BY <1>1, <1>2, QueueUntouched DEF _handleBusEvent, service
<1>3. CASE active # None /\ e.reason = "started"
  <2>1. onTurnStarted(e) BY <1>3 DEF _handleBusEvent
  <2>2. UNCHANGED <<active, queued, stage>> BY <2>1 DEF onTurnStarted
  <2>3. active \in Prompt BY <1>1, <1>3 DEF Types
  <2>4. \A q \in Prompt : rec'[q].aborted = rec[q].aborted /\ rec'[q].override = rec[q].override
    BY <1>1, <2>1, <2>3 DEF onTurnStarted, Types
  <2>5. QueueInv' BY <1>1, <2>2, <2>4, QueueGoesOn DEF QueueInv
  <2>6. status' = status BY <2>2, <2>4, StatusStays DEF status
  <2> QED BY <2>2, <2>5, <2>6 DEF Queue!vars
<1>4. CASE active # None /\ e.reason # "started"
  <2>1. onTurnEnded(e) BY <1>4 DEF _handleBusEvent
  <2>2. CASE e.turn # rec[active].turn
    BY <1>1, <2>1, <2>2, QueueUntouched DEF onTurnEnded, service
  <2>3. CASE e.turn = rec[active].turn
    <3>1. /\ p \in Prompt /\ stage[p].at \in Begun
      BY <1>1, <1>4 DEF Types, ActiveHasBegun
    <3>2. /\ \E b \in BOOLEAN : rec' = [rec EXCEPT ![p].aborted = b]
          /\ _startNextQueued(None, stage)
      <4>1. /\ rec' = [rec EXCEPT ![p].aborted = rec[p].aborted \/ e.reason = "cancelled"]
            /\ _startNextQueued(None, stage)
        BY <2>1, <2>3 DEF onTurnEnded
      <4>2. rec[p].aborted \in BOOLEAN BY <1>1, <3>1 DEF Types
      <4> HIDE DEF e
      <4> QED BY <4>1, <4>2
    <3> HIDE DEF p, e
    <3>3. /\ rec'[p].override = rec[p].override
          /\ \A q \in Prompt : q # p => rec'[q] = rec[q]
      BY <1>1, <3>1, <3>2 DEF Types
    <3>4. stage[p].at \notin Waits BY <3>1 DEF Begun, Waits
    <3>5. status[p] \in {"running", "stopping"}
      BY <1>1, <3>1, StatusIs DEF p
    <3>6. \A q \in Prompt : q # p => status[q] \notin {"running", "stopping"}
      BY OnlyActiveRuns DEF p
    <3>7. CASE queued = <<>>
      <4>1. active' = None /\ stage' = stage /\ queued' = queued
        BY <3>2, <3>7 DEF _startNextQueued
      <4>2. \A q \in Prompt : /\ rec'[q].override = rec[q].override
                              /\ stage'[q].at \in {"new", "queued"} => ~rec'[q].aborted
        BY <3>3, <3>4, <4>1 DEF QueueInv, Waits
      <4>3. QueueInv' BY <1>1, <3>7, <4>1, <4>2, QueueGoesOn
      <4>4. status'[p] = "over"
        <5>1. stage'[p].at \notin {"new", "queued", "steering"} BY <3>4, <4>1 DEF Waits
        <5>2. active' # p /\ stage'[p].at \notin Aside BY <1>1, <3>1, <4>1
        <5> QED BY <3>1, <5>1, <5>2, StatusWillBe
      <4>5. \A q \in Prompt : q # p => status'[q] = status[q]
        BY <3>3, <4>1 DEF status, p
      <4>6. Queue!Becomes(p, "over") BY <3>1, <4>4, <4>5, StatusBecomes
      <4>7. Queue!End(p) BY <3>5, <4>1, <4>6 DEF Queue!End
      <4> QED BY <3>1, <4>3, <4>7 DEF Queue!Next
    <3>8. CASE queued # <<>>
      <4> DEFINE h == Head(queued)
      <4>1. h \in Prompt /\ stage[h].at = "queued"
        BY <1>1, <3>8 DEF Types, QueuedOnce
      <4>2. h # p /\ ~rec[h].aborted BY <3>4, <4>1 DEF Waits, QueueInv
      <4>3. ~rec[h].override BY <4>1, NoOverride DEF QueueInv
      <4>4. /\ queued' = Tail(queued) /\ active' = h
            /\ stage' = [stage EXCEPT ![h] = [at |-> "prompting", direct |-> FALSE]]
        BY <3>2, <3>8, <4>3 DEF _startNextQueued, _startPrompt, Unfinished
      <4> HIDE DEF h
      <4>5. stage'[h].at = "prompting" /\ \A q \in Prompt : q # h => stage'[q] = stage[q]
        BY <1>1, <4>1, <4>4 DEF Types
      <4>6. "prompting" \notin Aside \cup {"new", "queued", "steering"} BY DEF Aside
      <4>7. \A q \in Prompt : /\ stage'[q].at = "new" <=> stage[q].at = "new"
                              /\ rec'[q].override = rec[q].override
                              /\ stage'[q].at \notin Aside
                              /\ stage'[q].at \in {"new", "queued"} => ~rec'[q].aborted
        <5> TAKE q \in Prompt
        <5>1. CASE q = h BY <3>3, <4>1, <4>2, <4>5, <4>6, <5>1
        <5>2. CASE q = p BY <1>1, <3>1, <3>3, <3>4, <4>2, <4>5, <5>2 DEF Waits
        <5>3. CASE q # h /\ q # p BY <1>1, <3>3, <4>5, <5>3 DEF QueueInv
        <5> QED BY <5>1, <5>2, <5>3
      <4>8. QueueInv' BY <1>1, <4>1, <4>4, <4>7, QueueGoesOn
      <4>9. status'[h] = "running"
        BY <3>3, <4>1, <4>2, <4>4, <4>7, StatusWillBe
      <4>10. status'[p] = "over"
        <5>1. stage'[p].at \notin {"new", "queued", "steering"}
          BY <3>1, <3>4, <4>2, <4>5 DEF Waits
        <5> QED BY <3>1, <4>2, <4>4, <4>7, <5>1, StatusWillBe
      <4>11. \A q \in Prompt : q # p /\ q # h => status'[q] = status[q]
        BY <3>3, <4>4, <4>5 DEF status, p
      <4>12. status' = [status EXCEPT ![p] = "over", ![h] = "running"]
        <5>1. status = [q \in Prompt |-> status[q]] BY DEF status
        <5>2. status' = [q \in Prompt |-> status'[q]] BY DEF status
        <5> QED BY <3>1, <4>1, <4>2, <4>9, <4>10, <4>11, <5>1, <5>2
      <4>13. Queue!End(p)
        BY <3>5, <3>6, <3>8, <4>4, <4>12 DEF Queue!End, h
      <4> QED BY <3>1, <4>8, <4>13 DEF Queue!Next
    <3> QED BY <3>7, <3>8
  <2> QED BY <2>2, <2>3
<1> QED BY <1>2, <1>3, <1>4

LEMMA QueueStep ==
  Inv /\ QueueInv /\ [Next]_vars => QueueInv' /\ [Queue!Next]_(Queue!vars)
<1> SUFFICES ASSUME Inv, QueueInv, [Next]_vars
             PROVE  QueueInv' /\ [Queue!Next]_(Queue!vars)
  OBVIOUS
<1>1. DOMAIN queued = 1..Len(queued) BY DEF Inv, Types
<1>2. {"stop", "other", "goal", "abort", "steer", "earlySteer"} \subseteq Occasion \ {"submit"}
  BY DEF Occasion
<1>3. CASE User
  <2>1. ASSUME NEW i \in 1..Len(queued), abortQueued(i)
        PROVE  QueueInv' /\ Queue!Next
    BY <2>1, <1>2, WithdrawKeeps DEF abortQueued
  <2>2. ASSUME NEW i \in 1..Len(queued), steer(i)
        PROVE  QueueInv' /\ Queue!Next
    BY <2>2, <1>2, WithdrawKeeps DEF steer
  <2>3. CASE abortBySession
    BY <2>3, <1>2, QueueUntouched DEF abortBySession, service
  <2> QED BY <1>1, <1>3, <2>1, <2>2, <2>3, SubmitKeeps, AbortKeeps DEF User
<1>4. CASE Calls BY <1>4, CallsKeep
<1>5. CASE Turns
  BY <1>2, <1>5, QueueUntouched DEF Turns, turnStarted, turnEnded, service
<1>6. CASE _handleBusEvent BY <1>6, BusEventKeeps
<1>7. CASE notify BY <1>2, <1>7, QueueUntouched DEF notify, service
<1>8. CASE \E p \in Prompt : setterFails(p) BY <1>8 DEF setterFails, QueueInv, Aside
<1>9. CASE UNCHANGED vars BY <1>9, QueueUntouched DEF vars, service
<1> QED BY <1>3, <1>4, <1>5, <1>6, <1>7, <1>8, <1>9 DEF Next

LEMMA QueueInit == Init /\ Straight(left) => QueueInv /\ Queue!Init
<1> SUFFICES ASSUME Init, Straight(left) PROVE QueueInv /\ Queue!Init
  OBVIOUS
<1>1. /\ left \in [Occasion -> Nat] /\ InTheirOrder
      /\ \A p \in Prompt : stage[p].at = "new" /\ ~rec[p].aborted
  BY OrderAtFirst DEF Straight
<1>6. QueueInv BY <1>1 DEF QueueInv, Aside, Init
<1>7. \A p \in Prompt : status[p] = "new" BY <1>1, <1>6, StatusIs DEF Init, QueueInv
<1>8. status = [p \in Prompt |-> "new"]
  <2>1. status = [p \in Prompt |-> status[p]] BY DEF status
  <2> QED BY <1>7, <2>1
<1> QED BY <1>6, <1>8 DEF Queue!Init, Init

(* The service keeps the promise of PromptQueue, for any number of         *)
(* prompts, aborts, steers, cancels that fail and turns of others, as long *)
(* as a prompt that has left the queue reaches the agent without its       *)
(* controls being set first and without an error.                          *)
THEOREM QueueIsKept == Spec /\ Straight(left) => KeepsQueue
<1> QED BY QueueInit, QueueStep, InitInv, StepInv, PTL DEF Spec, KeepsQueue, Queue!Spec

-----------------------------------------------------------------------------
(* No prompt is dropped in silence.                                        *)

Known(p) ==
  ends[p].times > 0 \/ stage[p].at \in {"refused", "steered"} \/ CancelIsUnderWay(p)

(* A prompt that neither waits nor runs is known to have ended, and a      *)
(* cancel that has been answered was granted.                              *)
ToldInv ==
  /\ left \in [Occasion -> Nat] /\ NoCallFails
  /\ \A c \in replies : c.done
  /\ \A p \in Prompt :
       stage[p].at \in {"new", "queued", "steering"} \/ (active = p /\ ~rec[p].aborted) \/ Known(p)

LEMMA NoCallWillFail ==
  ASSUME left \in [Occasion -> Nat], NoCallFails,
         left' = left \/ \E h \in Occasion : Happens(h)
  PROVE  left' \in [Occasion -> Nat] /\ NoCallFails'
<1>1. {"setterFails", "promptFails", "cancelFails"} \subseteq Occasion BY DEF Occasion
<1>2. left' \in [Occasion -> Nat] /\ \A g \in Occasion : left[g] = 0 => left'[g] = 0
  BY OccasionSpent
<1> QED BY <1>1, <1>2 DEF NoCallFails

(* A cancel stays under way while other calls come and arrive.             *)
LEMMA CancelStays ==
  ASSUME Types, NEW p \in Prompt, CancelIsUnderWay(p), replies \subseteq replies',
         \/ calls' = calls
         \/ \E op \in {"prompt", "cancel", "steer"}, q \in {None} \cup Prompt :
              calls' = Append(calls, Call(op, q))
         \/ calls # <<>> /\ calls' = Tail(calls) /\ ~(Head(calls).op = "cancel" /\ Head(calls).of = p)
  PROVE  CancelIsUnderWay(p)'
<1>1. CASE \E c \in replies : c.of = p BY <1>1 DEF CancelIsUnderWay
<1>2. CASE \E i \in DOMAIN calls : calls[i].op = "cancel" /\ calls[i].of = p
  <2>1. PICK i \in 1..Len(calls) : calls[i].op = "cancel" /\ calls[i].of = p
    BY <1>2 DEF Types
  <2>2. CASE calls' = calls BY <1>2, <2>2 DEF CancelIsUnderWay
  <2>3. CASE \E op \in {"prompt", "cancel", "steer"}, q \in {None} \cup Prompt :
               calls' = Append(calls, Call(op, q))
    <3>1. calls'[i] = calls[i] /\ Len(calls') = Len(calls) + 1 /\ calls' \in Seq(CallSet)
      BY <2>3, CallSent
    <3>2. i \in DOMAIN calls' BY <3>1 DEF Types
    <3> QED BY <2>1, <3>1, <3>2 DEF CancelIsUnderWay
  <2>4. CASE calls # <<>> /\ calls' = Tail(calls)
             /\ ~(Head(calls).op = "cancel" /\ Head(calls).of = p)
    <3>1. i # 1 BY <2>1, <2>4
    <3>2. i - 1 \in DOMAIN calls' /\ calls'[i - 1] = calls[i] BY <2>4, <3>1 DEF Types
    <3> QED BY <2>1, <3>2 DEF CancelIsUnderWay
  <2> QED BY <2>2, <2>3, <2>4
<1> QED BY <1>1, <1>2 DEF CancelIsUnderWay

(* A step that reports nothing: what is said of a prompt it starts, takes  *)
(* out of the queue or moves on is enough.                                 *)
LEMMA OthersStayTold ==
  ASSUME Inv, ToldInv, NEW p \in {None} \cup Prompt, UNCHANGED <<ends, replies>>,
         left' = left \/ \E h \in Occasion : Happens(h),
         \/ calls' = calls
         \/ \E op \in {"prompt", "cancel", "steer"}, q \in {None} \cup Prompt :
              calls' = Append(calls, Call(op, q))
         \/ calls # <<>> /\ calls' = Tail(calls) /\ Head(calls).op # "cancel",
         \A q \in Prompt : q # p => stage'[q] = stage[q] /\ rec'[q].aborted = rec[q].aborted,
         active' = active \/ (active' = p /\ (active # None => rec[active].aborted)),
         p \in Prompt =>
           \/ stage'[p].at \in {"new", "queued", "steering"}
           \/ active' = p /\ ~rec'[p].aborted
           \/ Known(p)'
  PROVE  ToldInv'
<1>1. Types BY DEF Inv
<1>2. left' \in [Occasion -> Nat] /\ NoCallFails' BY NoCallWillFail DEF ToldInv
<1>3. \A c \in replies' : c.done BY DEF ToldInv
<1>4. ASSUME NEW q \in Prompt, q # p
      PROVE  \/ stage'[q].at \in {"new", "queued", "steering"}
             \/ active' = q /\ ~rec'[q].aborted
             \/ Known(q)'
  <2>1. CancelIsUnderWay(q) => CancelIsUnderWay(q)' BY <1>1, CancelStays
  <2>2. Known(q) => Known(q)' BY <1>4, <2>1 DEF Known
  <2>3. active = q /\ ~rec[q].aborted => active' = q BY <1>4
  <2> QED BY <1>4, <2>2, <2>3 DEF ToldInv
<1> QED BY <1>2, <1>3, <1>4 DEF ToldInv

LEMMA UntouchedStaysTold ==
  ASSUME Inv, ToldInv, UNCHANGED <<ends, replies, active, stage, rec>>,
         left' = left \/ \E h \in Occasion : Happens(h),
         \/ calls' = calls
         \/ \E op \in {"prompt", "cancel", "steer"}, q \in {None} \cup Prompt :
              calls' = Append(calls, Call(op, q))
  PROVE  ToldInv'
<1>1. \A p \in Prompt : p # None OBVIOUS
<1> QED BY <1>1, OthersStayTold

LEMMA UserIsTold ==
  ASSUME Inv, QueueInv, ToldInv, User PROVE ToldInv'
<1>1. Types /\ QueuedOnce /\ ActiveHasBegun BY DEF Inv
<1>2. {"submit", "abort", "earlyAbort", "stop", "steer", "earlySteer"} \subseteq Occasion
  BY DEF Occasion
<1>3. DOMAIN queued = 1..Len(queued) BY <1>1 DEF Types
<1>4. ASSUME NEW p \in Prompt, submit(p) PROVE ToldInv'
  <2>1. stage[p].at = "new" /\ Happens("submit") /\ UNCHANGED <<rec, replies, ends>>
    BY <1>4 DEF submit
  <2>2. ~rec[p].override /\ ~rec[p].aborted
    BY <1>1, <1>4, <2>1, OrderOfSubmit DEF QueueInv, ToldInv
  <2>3. CASE Unfinished(active)
    <3>1. stage' = Stage(p, "queued") /\ UNCHANGED <<active, calls>> BY <1>4, <2>3 DEF submit
    <3>2. stage'[p].at = "queued" /\ \A q \in Prompt : q # p => stage'[q] = stage[q]
      BY <1>1, <3>1, StageIs DEF Stages, Waits
    <3> QED BY <1>2, <2>1, <3>1, <3>2, OthersStayTold
  <2>4. CASE ~Unfinished(active)
    <3>1. /\ active' = p /\ calls' = Append(calls, Call("prompt", p))
          /\ stage' = [stage EXCEPT ![p] = [at |-> "prompting", direct |-> TRUE]]
      BY <1>4, <2>2, <2>4 DEF submit, _startPrompt
    <3>2. \A q \in Prompt : q # p => stage'[q] = stage[q] BY <1>1, <3>1 DEF Types
    <3>3. active # None => rec[active].aborted BY <2>4 DEF Unfinished
    <3> QED BY <1>2, <2>1, <2>2, <3>1, <3>2, <3>3, OthersStayTold
  <2> QED BY <2>3, <2>4
<1>5. ASSUME NEW p \in Prompt, abort(p) PROVE ToldInv'
  <2>1. /\ rec' = [rec EXCEPT ![p].aborted = TRUE] /\ calls' = Append(calls, Call("cancel", p))
        /\ UNCHANGED <<active, stage, replies, ends>> /\ \E h \in Occasion : Happens(h)
    BY <1>2, <1>5 DEF abort
  <2>2. \A q \in Prompt : q # p => rec'[q] = rec[q] BY <1>1, <2>1, RecMarked
  <2>3. Len(calls) + 1 \in DOMAIN calls' /\ calls'[Len(calls) + 1] = Call("cancel", p)
    <3>1. Len(calls') = Len(calls) + 1 /\ calls' \in Seq(CallSet) /\ Len(calls) \in Nat
      BY <1>1, <2>1, CallSent DEF Types
    <3> QED BY <1>1, <2>1, <3>1, CallSent
  <2>4. Known(p)' BY <2>3 DEF Known, CancelIsUnderWay, Call
  <2> QED BY <2>1, <2>2, <2>4, OthersStayTold
<1>6. ASSUME NEW i \in 1..Len(queued), abortQueued(i) PROVE ToldInv'
  <2>1. PICK p \in Prompt : p = queued[i] BY <1>1 DEF Types
  <2>2. /\ stage' = Stage(p, "aborted") /\ ends' = Report(p, "aborted")
        /\ UNCHANGED <<active, rec, calls, replies>> /\ Happens("abort")
    BY <1>6, <2>1 DEF abortQueued, wire
  <2>3. \A q \in Prompt : q # p => stage'[q] = stage[q]
    BY <1>1, <2>1, <2>2, StageIs DEF Stages
  <2>4. /\ ends'[p].times = ends[p].times + 1 /\ ends[p].times \in Nat
        /\ \A q \in Prompt : q # p => ends'[q] = ends[q]
    BY <1>1, <2>1, <2>2, ReportIs DEF Types
  <2>5. Known(p)' BY <2>4 DEF Known
  <2>6. ASSUME NEW q \in Prompt, q # p, Known(q) PROVE Known(q)'
    BY <2>2, <2>3, <2>4, <2>6 DEF Known, CancelIsUnderWay
  <2>7. left' \in [Occasion -> Nat] /\ NoCallFails'
    BY <1>2, <2>2, NoCallWillFail DEF ToldInv
  <2> QED BY <2>2, <2>3, <2>5, <2>6, <2>7 DEF ToldInv
<1>7. ASSUME NEW i \in 1..Len(queued), steer(i) PROVE ToldInv'
  <2>1. PICK p \in Prompt : p = queued[i] BY <1>1 DEF Types
  <2>2. /\ stage' = Stage(p, "steering") /\ calls' = Append(calls, Call("steer", p))
        /\ UNCHANGED <<active, rec, replies, ends>> /\ \E h \in Occasion : Happens(h)
    BY <1>2, <1>7, <2>1 DEF steer
  <2>3. stage'[p].at = "steering" /\ \A q \in Prompt : q # p => stage'[q] = stage[q]
    BY <1>1, <2>1, <2>2, StageIs DEF Stages, Waits
  <2> QED BY <2>1, <2>2, <2>3, OthersStayTold
<1>8. CASE abortBySession
  BY <1>2, <1>8, UntouchedStaysTold DEF abortBySession, service
<1> QED BY <1>3, <1>4, <1>5, <1>6, <1>7, <1>8 DEF User

LEMMA CallsAreTold ==
  ASSUME Inv, QueueInv, ToldInv, Calls PROVE ToldInv'
<1>1. Types /\ CallsOnce /\ ActiveHasBegun /\ CancelOnce BY DEF Inv
<1>2. \A p \in Prompt : stage[p].at \notin {"applying", "failed", "notSteered"}
  BY DEF QueueInv, Aside
<1>3. ~\E p \in Prompt : setActive(p) \/ promptFailed(p) \/ _restoreSteeredQueueItems(p)
  BY <1>2 DEF setActive, promptFailed, _restoreSteeredQueueItems
<1>4. ASSUME NEW p \in Prompt, NEW at \in Stages, stage' = Stage(p, at),
             stage[p].at \in {"prompting", "writing"}, at \notin {"new", "queued", "steering"},
             UNCHANGED <<active, rec, replies, ends, left>>,
             calls' = calls \/ (calls # <<>> /\ calls' = Tail(calls) /\ Head(calls).op # "cancel")
      PROVE  ToldInv'
  <2>1. stage'[p].at = at /\ \A q \in Prompt : q # p => stage'[q] = stage[q]
    BY <1>1, <1>4, StageIs
  <2>2. CancelIsUnderWay(p) => CancelIsUnderWay(p)' BY <1>1, <1>4, CancelStays
  <2>3. Known(p) => Known(p)' BY <1>4, <2>2 DEF Known
  <2>4. (active' = p /\ ~rec'[p].aborted) \/ Known(p)' BY <1>4, <2>3 DEF ToldInv
  <2> QED BY <1>4, <2>1, <2>4, OthersStayTold
<1>5. CASE promptArrives
  <2> DEFINE p == Head(calls).of
  <2>1. /\ calls # <<>> /\ calls' = Tail(calls) /\ calls[1].op = "prompt" /\ Head(calls) = calls[1]
        /\ 1 \in 1..Len(calls)
    BY <1>1, <1>5, CallsAfterArrival DEF promptArrives, Arrives
  <2>2. p \in Prompt /\ stage[p].at = "prompting"
    BY <1>1, <2>1, WhoIsCalled DEF CallsOnce
  <2>3. stage' = Stage(p, "writing") /\ UNCHANGED <<active, rec, replies, ends, left>>
    BY <1>5 DEF promptArrives
  <2>4. Head(calls).op # "cancel" BY <2>1
  <2> HIDE DEF p
  <2> QED BY <1>4, <2>1, <2>2, <2>3, <2>4 DEF Stages, Begun
<1>6. ASSUME NEW p \in Prompt, prompt(p) PROVE ToldInv'
  <2>1. left["promptFails"] = 0 BY DEF QueueInv, Straight
  <2>2. /\ stage[p].at = "writing" /\ stage' = Stage(p, "sent")
        /\ UNCHANGED <<active, rec, calls, replies, ends, left>>
    BY <1>6, <2>1 DEF prompt, Happens, wire
  <2> QED BY <1>4, <2>2 DEF Stages, Begun
<1>7. CASE steerArrives
  <2>1. /\ calls # <<>> /\ calls' = Tail(calls) /\ calls[1].op = "steer" /\ Head(calls) = calls[1]
        /\ 1 \in 1..Len(calls)
    BY <1>1, <1>7, CallsAfterArrival DEF steerArrives, Arrives
  <2>2. PICK p \in Prompt : p = Head(calls).of /\ stage[p].at = "steering"
    BY <1>1, <2>1, WhoIsCalled DEF CallsOnce
  <2>3. left["steerFails"] = 0 BY DEF QueueInv, Straight
  <2>4. stage' = Stage(p, "steered") /\ UNCHANGED <<active, rec, replies, ends, left>>
    BY <1>7, <2>2, <2>3 DEF steerArrives, Happens
  <2>5. Head(calls).op # "cancel" BY <2>1
  <2>6. stage'[p].at = "steered" /\ \A q \in Prompt : q # p => stage'[q] = stage[q]
    BY <1>1, <2>2, <2>4, StageIs DEF Stages
  <2>7. Known(p)' BY <2>6 DEF Known
  <2> QED BY <2>1, <2>2, <2>4, <2>5, <2>6, <2>7, OthersStayTold
<1>8. CASE cancel
  <2> DEFINE c == Head(calls)
  <2>1. /\ calls # <<>> /\ calls' = Tail(calls) /\ c.op = "cancel"
        /\ UNCHANGED <<active, rec, stage, ends>>
    BY <1>8 DEF cancel, Arrives, service
  <2>2. left["cancelFails"] = 0 BY DEF ToldInv, NoCallFails
  <2>3. /\ left' = left
        /\ replies' = IF c.of = None THEN replies ELSE replies \cup {[of |-> c.of, done |-> TRUE]}
    BY <1>8, <2>2 DEF cancel, Happens
  <2> HIDE DEF c
  <2>4. replies \subseteq replies' /\ \A r \in replies' : r.done BY <2>3 DEF ToldInv
  <2>5. ASSUME NEW q \in Prompt, CancelIsUnderWay(q) PROVE CancelIsUnderWay(q)'
    <3>1. CASE c.of = q
      <4>1. [of |-> q, done |-> TRUE] \in replies' BY <2>3, <3>1
      <4> QED BY <4>1 DEF CancelIsUnderWay
    <3>2. CASE c.of # q BY <1>1, <2>1, <2>4, <2>5, <3>2, CancelStays DEF c
    <3> QED BY <3>1, <3>2
  <2>6. \A q \in Prompt : Known(q) => Known(q)' BY <2>1, <2>5 DEF Known
  <2>7. left' \in [Occasion -> Nat] /\ NoCallFails' BY <2>3, NoCallWillFail DEF ToldInv
  <2> QED BY <2>1, <2>4, <2>6, <2>7 DEF ToldInv
<1>9. ASSUME NEW c \in replies, cancelReturns(c) PROVE ToldInv'
  <2>1. /\ replies' = replies \ {c} /\ ends' = Report(c.of, "aborted") /\ rec' = rec
        /\ UNCHANGED <<active, stage, calls, left>>
    BY <1>9 DEF cancelReturns, ToldInv
  <2>2. c.of \in Prompt BY <1>1, WhoIsCalled
  <2>3. /\ ends'[c.of].times = ends[c.of].times + 1 /\ ends[c.of].times \in Nat
        /\ \A q \in Prompt : q # c.of => ends'[q] = ends[q]
    BY <1>1, <2>1, <2>2, ReportIs DEF Types
  <2>4. Known(c.of)' BY <2>3 DEF Known
  <2>5. ASSUME NEW q \in Prompt, q # c.of, Known(q) PROVE Known(q)'
    <3>1. CancelIsUnderWay(q) => CancelIsUnderWay(q)' BY <2>1, <2>5 DEF CancelIsUnderWay
    <3> QED BY <2>1, <2>3, <2>5, <3>1 DEF Known
  <2>6. left' \in [Occasion -> Nat] /\ NoCallFails' BY <2>1, NoCallWillFail DEF ToldInv
  <2> QED BY <2>1, <2>2, <2>4, <2>5, <2>6 DEF ToldInv
<1> QED BY <1>3, <1>5, <1>6, <1>7, <1>8, <1>9 DEF Calls

LEMMA BusEventIsTold ==
  ASSUME Inv, QueueInv, ToldInv, _handleBusEvent PROVE ToldInv'
<1>1. Types /\ QueuedOnce /\ ActiveHasBegun BY DEF Inv
<1>2. UNCHANGED <<replies, left>> BY DEF _handleBusEvent
<1> DEFINE e == Head(events)
<1>3. CASE active = None
  BY <1>2, <1>3, UntouchedStaysTold DEF _handleBusEvent, service
<1>4. CASE active # None /\ e.reason = "started"
  <2>1. onTurnStarted(e) BY <1>4 DEF _handleBusEvent
  <2>2. active \in Prompt BY <1>1, <1>4 DEF Types
  <2>3. \A q \in Prompt : rec'[q].aborted = rec[q].aborted
    BY <1>1, <2>1, <2>2 DEF onTurnStarted, Types
  <2>4. UNCHANGED <<active, stage, calls, ends>> BY <2>1 DEF onTurnStarted
  <2> HIDE DEF e
  <2> QED BY <1>2, <2>3, <2>4, OthersStayTold
<1>5. CASE active # None /\ e.reason # "started"
  <2>1. onTurnEnded(e) BY <1>5 DEF _handleBusEvent
  <2>2. CASE e.turn # rec[active].turn
    BY <1>2, <2>1, <2>2, UntouchedStaysTold DEF onTurnEnded, service
  <2>3. CASE e.turn = rec[active].turn
    <3>1. PICK p \in Prompt : p = active BY <1>1, <1>5 DEF Types
    <3>2. /\ rec' = [rec EXCEPT ![p].aborted = rec[p].aborted \/ e.reason = "cancelled"]
          /\ _startNextQueued(None, stage)
          /\ ends' = IF rec[p].aborted THEN ends
                     ELSE Report(p, IF e.reason = "cancelled" THEN "aborted" ELSE "completed")
      BY <2>1, <2>3, <3>1 DEF onTurnEnded
    <3>3. PICK how \in {"completed", "aborted"} :
            ends' = IF rec[p].aborted THEN ends ELSE Report(p, how)
      BY <3>2
    <3> HIDE DEF e
    <3>4. \A q \in Prompt : q # p => rec'[q] = rec[q] BY <1>1, <3>1, <3>2 DEF Types
    <3>5. /\ rec[p].aborted => ends' = ends
          /\ ~rec[p].aborted => ends'[p].times > 0
          /\ \A q \in Prompt : q # p => ends'[q] = ends[q]
      <4>1. CASE rec[p].aborted BY <3>3, <4>1
      <4>2. CASE ~rec[p].aborted
        <5>1. /\ ends'[p].times = ends[p].times + 1 /\ ends[p].times \in Nat
              /\ \A q \in Prompt : q # p => ends'[q] = ends[q]
          BY <1>1, <3>1, <3>3, <4>2, ReportIs DEF Types
        <5> QED BY <4>2, <5>1
      <4> QED BY <4>1, <4>2
    <3>6. stage[p].at \in Begun BY <1>1, <1>5, <3>1 DEF ActiveHasBegun
    <3>7. ASSUME NEW h \in {None} \cup Prompt, h # p, active' = h, h = None => stage' = stage,
                 h # None => /\ stage'[h].at = "prompting" /\ ~rec[h].aborted
                             /\ \A q \in Prompt : q # h => stage'[q] = stage[q],
                 \/ calls' = calls
                 \/ \E op \in {"prompt", "cancel", "steer"}, q \in {None} \cup Prompt :
                      calls' = Append(calls, Call(op, q))
          PROVE  ToldInv'
      <4>1. \A q \in Prompt : CancelIsUnderWay(q) => CancelIsUnderWay(q)'
        BY <1>1, <1>2, <3>7, CancelStays
      <4>2. ASSUME NEW q \in Prompt, q # h, q # p, Known(q) PROVE Known(q)'
        BY <3>5, <3>7, <4>1, <4>2 DEF Known
      <4>3. Known(p)'
        <5>1. CASE ~rec[p].aborted BY <3>5, <5>1 DEF Known
        <5>2. CASE rec[p].aborted
          <6>1. Known(p)
            BY <3>1, <3>6, <5>2 DEF ToldInv, Begun
          <6>2. stage'[p] = stage[p] BY <3>1, <3>7
          <6> QED BY <3>1, <3>5, <4>1, <5>2, <6>1, <6>2 DEF Known
        <5> QED BY <5>1, <5>2
      <4>4. ASSUME NEW q \in Prompt, q # h, q # p
            PROVE  stage'[q].at \in {"new", "queued", "steering"} \/ Known(q)'
        BY <3>1, <3>7, <4>2, <4>4 DEF ToldInv
      <4>5. h # None => ~rec'[h].aborted BY <3>4, <3>7
      <4>6. left' \in [Occasion -> Nat] /\ NoCallFails' BY <1>2, NoCallWillFail DEF ToldInv
      <4> QED BY <1>2, <3>7, <4>3, <4>4, <4>5, <4>6 DEF ToldInv
    <3>8. CASE queued = <<>>
      <4>1. active' = None /\ stage' = stage /\ calls' = calls
        BY <3>2, <3>8 DEF _startNextQueued
      <4> QED BY <3>1, <3>7, <4>1
    <3>9. CASE queued # <<>>
      <4> DEFINE h == Head(queued)
      <4>1. h \in Prompt /\ stage[h].at = "queued"
        BY <1>1, <3>9 DEF Types, QueuedOnce
      <4>2. h # p /\ ~rec[h].aborted BY <3>6, <4>1 DEF Begun, QueueInv
      <4>3. ~rec[h].override BY <4>1, NoOverride DEF QueueInv
      <4>4. /\ active' = h /\ calls' = Append(calls, Call("prompt", h))
            /\ stage' = [stage EXCEPT ![h] = [at |-> "prompting", direct |-> FALSE]]
        BY <3>2, <3>9, <4>3 DEF _startNextQueued, _startPrompt, Unfinished
      <4> HIDE DEF h
      <4>5. stage'[h].at = "prompting" /\ \A q \in Prompt : q # h => stage'[q] = stage[q]
        BY <1>1, <4>1, <4>4 DEF Types
      <4> QED BY <3>7, <4>1, <4>2, <4>4, <4>5
    <3> QED BY <3>8, <3>9
  <2> QED BY <2>2, <2>3
<1> QED BY <1>3, <1>4, <1>5

LEMMA ToldStep == Inv /\ QueueInv /\ ToldInv /\ [Next]_vars => ToldInv'
<1> SUFFICES ASSUME Inv, QueueInv, ToldInv, [Next]_vars PROVE ToldInv'
  OBVIOUS
<1>1. {"other", "goal"} \subseteq Occasion BY DEF Occasion
<1>2. CASE Turns
  BY <1>1, <1>2, UntouchedStaysTold DEF Turns, turnStarted, turnEnded, service
<1>3. CASE notify BY <1>1, <1>3, UntouchedStaysTold DEF notify, service, wire
<1>4. CASE \E p \in Prompt : setterFails(p) BY <1>4 DEF setterFails, QueueInv, Aside
<1>5. CASE UNCHANGED vars BY <1>5, UntouchedStaysTold DEF vars, service, wire
<1> QED BY <1>2, <1>3, <1>4, <1>5, UserIsTold, CallsAreTold, BusEventIsTold DEF Next

LEMMA ToldInit == Init /\ Straight(left) /\ NoCallFails => ToldInv
<1> SUFFICES ASSUME Init, Straight(left), NoCallFails PROVE ToldInv
  OBVIOUS
<1>1. left \in [Occasion -> Nat] /\ \A p \in Prompt : stage[p].at = "new"
  BY OrderAtFirst DEF Straight
<1> QED BY <1>1 DEF ToldInv, Init

(* No prompt is dropped in silence, for any number of prompts, aborts,     *)
(* stops, steers, goals and turns of others, as long as no call fails and  *)
(* none has its controls set first.                                        *)
THEOREM NoneIsDropped == Spec /\ Straight(left) => EachIsTold
<1>1. Inv /\ QueueInv /\ ToldInv => EndsAreTold
  <2> SUFFICES ASSUME Inv, QueueInv, ToldInv, NEW p \in Prompt, status[p] = "over"
               PROVE  ends[p].times > 0 \/ stage[p].at \in {"refused", "steered"}
                      \/ CancelIsUnderWay(p)
    BY DEF EndsAreTold
  <2>1. stage[p].at \notin Aside BY DEF QueueInv
  <2>2. active # p \/ status[p] \in {"stopping", "running"} BY <2>1, StatusIs
  <2>3. active # p /\ stage[p].at \notin {"new", "queued", "steering"} BY <2>1, <2>2, StatusIs
  <2> QED BY <2>3 DEF ToldInv, Known
<1> QED BY <1>1, ToldInit, ToldStep, QueueInit, QueueStep, InitInv, StepInv, PTL
        DEF Spec, EachIsTold

-----------------------------------------------------------------------------
(* Every turn is a prompt's, and no prompt is given up before its turn is  *)
(* known.                                                                  *)
Plain(s) == \A h \in {"override", "earlyAbort", "steer", "earlySteer", "goal", "other"} : s[h] = 0

(* The service waits for the turn of p.                                    *)
Awaited(p) == active = p /\ rec[p].turn = 0

PromptRun(p) ==
  /\ stage[p].at \notin {"applying", "steering", "notSteered"}
  /\ rec[p].turn # 0 => /\ stage[p].at = "sent" /\ rec[p].turn \in 1..Len(turns)
                        /\ turns[rec[p].turn].of = p /\ turns[rec[p].turn].at # "launched"
  /\ rec[p].aborted \/ ends[p].how = "completed" => rec[p].turn # 0
  /\ stage[p].at \in {"prompting", "writing"} => Awaited(p)

TurnRun(t) ==
  /\ turns[t].of \in Prompt /\ stage[turns[t].of].at = "sent"
  /\ turns[t].at = "launched" => Awaited(turns[t].of)

EventRun(i) ==
  /\ events[i].turn \in 1..Len(turns) /\ turns[events[i].turn].at # "launched"
  /\ events[i].reason = "started" => Awaited(turns[events[i].turn].of)

(* One turn is about to start, or one start is about to be seen.           *)
OneAhead ==
  /\ \A t, u \in 1..Len(turns) : turns[t].at = "launched" /\ turns[u].at = "launched" => t = u
  /\ \A i, j \in 1..Len(events) :
       events[i].reason = "started" /\ events[j].reason = "started" => i = j
  /\ \A t \in 1..Len(turns), i \in 1..Len(events) :
       ~(turns[t].at = "launched" /\ events[i].reason = "started")

RunInv ==
  /\ left \in [Occasion -> Nat] /\ Plain(left) /\ InTheirOrder
  /\ \A p \in Prompt : PromptRun(p)
  /\ \A t \in 1..Len(turns) : TurnRun(t)
  /\ \A i \in 1..Len(events) : EventRun(i)
  /\ OneAhead

(* Nothing that was started for a prompt is still to be seen.              *)
NothingAhead ==
  /\ \A t \in 1..Len(turns) : turns[t].at # "launched"
  /\ \A i \in 1..Len(events) : events[i].reason # "started"

LEMMA AheadIsAwaited ==
  ASSUME RunInv, \A p \in Prompt : ~Awaited(p)
  PROVE  /\ NothingAhead
         /\ \A p \in Prompt : stage[p].at \notin {"prompting", "writing"}
<1>1. \A t \in 1..Len(turns) : turns[t].at # "launched" BY DEF RunInv, TurnRun
<1>2. \A i \in 1..Len(events) : events[i].reason # "started" BY DEF RunInv, EventRun, TurnRun
<1>3. \A p \in Prompt : stage[p].at \notin {"prompting", "writing"} BY DEF RunInv, PromptRun
<1> QED BY <1>1, <1>2, <1>3 DEF NothingAhead

LEMMA PlainStays ==
  ASSUME Plain(left), \A g \in Occasion : left[g] = 0 => left'[g] = 0
  PROVE  Plain(left')
<1>1. {"override", "earlyAbort", "steer", "earlySteer", "goal", "other"} \subseteq Occasion
  BY DEF Occasion
<1> QED BY <1>1 DEF Plain

(* The events that are left when one has been handled, or none.            *)
LEMMA EventsAfter ==
  ASSUME Types, events' = events \/ (events # <<>> /\ events' = Tail(events))
  PROVE  \E d \in {0, 1} : \A i \in 1..Len(events') :
            i + d \in 1..Len(events) /\ events'[i] = events[i + d]
<1>1. CASE events' = events BY <1>1 DEF Types
<1>2. CASE events # <<>> /\ events' = Tail(events) BY <1>2 DEF Types
<1> QED BY <1>1, <1>2

(* A step of the service that keeps what is awaited, or has nothing ahead. *)
LEMMA ServiceRuns ==
  ASSUME Inv, RunInv,
         left' \in [Occasion -> Nat], Plain(left'), InTheirOrder', turns' = turns,
         events' = events \/ (events # <<>> /\ events' = Tail(events)),
         \A p \in Prompt : PromptRun(p)',
         \A p \in Prompt : stage[p].at = "sent" => stage'[p].at = "sent",
         \/ \A p \in Prompt : Awaited(p) => Awaited(p)'
         \/ NothingAhead
         \/ NothingAhead'
  PROVE  RunInv'
<1>1. Types BY DEF Inv
<1>2. PICK d \in {0, 1} : \A i \in 1..Len(events') :
         i + d \in 1..Len(events) /\ events'[i] = events[i + d]
  BY <1>1, EventsAfter
<1>3. Len(turns') = Len(turns) /\ \A t \in 1..Len(turns) : turns'[t] = turns[t] OBVIOUS
<1>4. \A t \in 1..Len(turns') : TurnRun(t)'
  <2> TAKE t \in 1..Len(turns')
  <2>1. TurnRun(t) BY <1>3 DEF RunInv
  <2> QED BY <1>3, <2>1 DEF TurnRun, NothingAhead
<1>5. \A i \in 1..Len(events') : EventRun(i)'
  <2> TAKE i \in 1..Len(events')
  <2>1. EventRun(i + d) /\ events'[i] = events[i + d] /\ i + d \in 1..Len(events)
    BY <1>2 DEF RunInv
  <2>2. turns[events[i + d].turn].of \in Prompt BY <2>1 DEF EventRun, RunInv, TurnRun
  <2> QED BY <1>3, <2>1, <2>2 DEF EventRun, NothingAhead
<1>6. OneAhead'
  <2>1. OneAhead /\ Len(events) \in Nat BY <1>1 DEF RunInv, Types
  <2>2. ASSUME NEW i \in 1..Len(events'), NEW j \in 1..Len(events'),
               events'[i].reason = "started", events'[j].reason = "started"
        PROVE  i = j
    <3>1. i + d = j + d BY <1>2, <2>1, <2>2 DEF OneAhead
    <3>2. i \in Int /\ j \in Int /\ d \in Int OBVIOUS
    <3> QED BY <3>1, <3>2
  <2>3. \A t \in 1..Len(turns), i \in 1..Len(events') :
          ~(turns[t].at = "launched" /\ events'[i].reason = "started")
    BY <1>2, <2>1 DEF OneAhead
  <2>4. \A t, u \in 1..Len(turns) : turns[t].at = "launched" /\ turns[u].at = "launched" => t = u
    BY <2>1 DEF OneAhead
  <2> QED BY <1>3, <2>2, <2>3, <2>4 DEF OneAhead
<1> QED BY <1>4, <1>5, <1>6 DEF RunInv

(* A prompt that starts when nothing is ahead is the one that is awaited.  *)
LEMMA StartIsAwaited ==
  ASSUME Inv, RunInv, NEW p \in Prompt, stage[p].at \in {"new", "queued"},
         \A q \in Prompt : stage[q].at \notin {"prompting", "writing"},
         active' = p, stage'[p].at = "prompting",
         \A q \in Prompt : q # p => \/ stage'[q] = stage[q]
                                    \/ stage[q].at \notin {"sent"} /\ stage'[q].at \in {"lost"},
         turns' = turns,
         \A q \in Prompt : /\ rec'[q].turn = rec[q].turn
                           /\ rec'[q].aborted => rec[q].aborted \/ rec[q].turn # 0
                           /\ ends'[q].how = "completed" => ends[q].how = "completed" \/ rec[q].turn # 0
  PROVE  /\ \A q \in Prompt : PromptRun(q)'
         /\ \A q \in Prompt : stage[q].at = "sent" => stage'[q].at = "sent"
<1>1. \A q \in Prompt : stage[q].at = "sent" => q # p /\ stage'[q].at = "sent"
  <2> TAKE q \in Prompt
  <2>1. CASE stage'[q] = stage[q] BY <2>1
  <2> QED BY <2>1
<1>2. \A q \in Prompt : PromptRun(q)'
  <2> TAKE q \in Prompt
  <2>1. PromptRun(q) BY DEF RunInv
  <2>2. CASE q = p
    <3>1. rec[q].turn = 0 BY <2>1, <2>2 DEF PromptRun
    <3>2. Awaited(q)' BY <2>2, <3>1 DEF Awaited
    <3> QED BY <2>1, <2>2, <3>1, <3>2 DEF PromptRun
  <2>3. CASE q # p
    <3>1. stage'[q].at \notin {"applying", "steering", "notSteered", "prompting", "writing"}
      BY <2>1, <2>3 DEF PromptRun
    <3>2. rec[q].turn # 0 => stage'[q].at = "sent" BY <1>1, <2>1 DEF PromptRun
    <3> QED BY <2>1, <3>1, <3>2 DEF PromptRun
  <2> QED BY <2>2, <2>3
<1> QED BY <1>1, <1>2

LEMMA NotAhead ==
  ASSUME RunInv, NEW p \in Prompt, stage[p].at \notin {"prompting", "writing", "sent"},
         active \in {None, p}
  PROVE  /\ NothingAhead
         /\ \A q \in Prompt : stage[q].at \notin {"prompting", "writing"}
<1>1. \A q \in Prompt : Awaited(q) => q = p BY DEF Awaited
<1>2. \A t \in 1..Len(turns) : turns[t].at # "launched" BY <1>1 DEF RunInv, TurnRun
<1>3. \A i \in 1..Len(events) : events[i].reason # "started"
  <2> TAKE i \in 1..Len(events)
  <2>1. EventRun(i) /\ TurnRun(events[i].turn) BY DEF RunInv, EventRun
  <2> QED BY <1>1, <2>1 DEF EventRun, TurnRun
<1>4. \A q \in Prompt : stage[q].at \notin {"prompting", "writing"} BY <1>1 DEF RunInv, PromptRun
<1> QED BY <1>2, <1>3, <1>4 DEF NothingAhead

(* A prompt goes from one stage to another while no turn of it is known.   *)
LEMMA StageRuns ==
  ASSUME Inv, RunInv, NEW p \in Prompt, NEW at \in Stages, stage' = Stage(p, at),
         at \notin {"applying", "steering", "notSteered", "prompting"},
         stage[p].at # "sent", at = "writing" => stage[p].at = "prompting",
         UNCHANGED <<rec, turns>>,
         \A q \in Prompt : /\ ends'[q].how = "completed" => ends[q].how = "completed"
                           /\ stage[q].at \in {"prompting", "writing"} => active' = active
  PROVE  /\ \A q \in Prompt : PromptRun(q)'
         /\ \A q \in Prompt : stage[q].at = "sent" => stage'[q].at = "sent"
<1>1. stage'[p].at = at /\ \A q \in Prompt : q # p => stage'[q] = stage[q]
  BY StageIs DEF Inv
<1>2. \A q \in Prompt : stage[q].at = "sent" => q # p /\ stage'[q].at = "sent" BY <1>1
<1>3. \A q \in Prompt : PromptRun(q)'
  <2> TAKE q \in Prompt
  <2>1. PromptRun(q) BY DEF RunInv
  <2>2. stage'[q].at \notin {"applying", "steering", "notSteered"} BY <1>1, <2>1 DEF PromptRun
  <2>3. stage'[q].at \in {"prompting", "writing"} => stage[q].at \in {"prompting", "writing"}
    BY <1>1
  <2>4. stage'[q].at \in {"prompting", "writing"} => Awaited(q)'
    BY <2>1, <2>3 DEF PromptRun, Awaited
  <2> QED BY <1>2, <2>1, <2>2, <2>4 DEF PromptRun
<1> QED BY <1>2, <1>3

LEMMA SubmitRuns ==
  ASSUME Inv, RunInv, NEW p \in Prompt, submit(p)
  PROVE  RunInv'
<1>1. /\ Types /\ left \in [Occasion -> Nat] /\ Plain(left) /\ InTheirOrder
      /\ UNCHANGED <<rec, turns, events, ends>> /\ stage[p].at = "new"
  BY DEF Inv, RunInv, submit, agent
<1>2. left' \in [Occasion -> Nat] /\ Plain(left') /\ ~rec[p].override
  BY <1>1, OrderOfSubmit, PlainStays
<1>3. CASE Unfinished(active)
  <2>1. stage' = Stage(p, "queued") /\ active' = active BY <1>3 DEF submit
  <2>2. "queued" \in Stages BY DEF Stages, Waits
  <2>3. stage'[p].at = "queued" /\ \A q \in Prompt : q # p => stage'[q] = stage[q]
    BY <1>1, <2>1, <2>2, StageIs
  <2>4. InTheirOrder' BY <1>1, <2>3, OrderOfSubmit
  <2>5. /\ \A q \in Prompt : PromptRun(q)'
        /\ \A q \in Prompt : stage[q].at = "sent" => stage'[q].at = "sent"
    BY <1>1, <2>1, <2>2, StageRuns
  <2>6. \A q \in Prompt : Awaited(q) => Awaited(q)' BY <1>1, <2>1 DEF Awaited
  <2> QED BY <1>1, <1>2, <2>4, <2>5, <2>6, ServiceRuns
<1>4. CASE ~Unfinished(active)
  <2>1. active' = p /\ stage' = [stage EXCEPT ![p] = [at |-> "prompting", direct |-> TRUE]]
    BY <1>2, <1>4 DEF submit, _startPrompt
  <2>2. stage'[p].at = "prompting" /\ \A q \in Prompt : q # p => stage'[q] = stage[q]
    BY <1>1, <2>1 DEF Types
  <2>3. InTheirOrder' BY <1>1, <2>2, OrderOfSubmit
  <2>4. \A q \in Prompt : ~Awaited(q)
    BY <1>4 DEF Awaited, Unfinished, RunInv, PromptRun
  <2>5. NothingAhead /\ \A q \in Prompt : stage[q].at \notin {"prompting", "writing"}
    BY <2>4, AheadIsAwaited
  <2>6. /\ \A q \in Prompt : PromptRun(q)'
        /\ \A q \in Prompt : stage[q].at = "sent" => stage'[q].at = "sent"
    BY <1>1, <2>1, <2>2, <2>5, StartIsAwaited
  <2> QED BY <1>1, <1>2, <2>3, <2>5, <2>6, ServiceRuns
<1> QED BY <1>3, <1>4

(* Marks are set and taken back while the turn is known.                   *)
LEMMA MarkRuns ==
  ASSUME Inv, RunInv, NEW p \in Prompt, NEW b \in BOOLEAN,
         rec' = [rec EXCEPT ![p].aborted = b], b => rec[p].turn # 0,
         UNCHANGED <<active, stage, turns, events>>,
         left' = left \/ \E h \in Occasion \ {"submit"} : Happens(h),
         \A q \in Prompt : ends'[q].how = "completed" => ends[q].how = "completed"
  PROVE  RunInv'
<1>1. /\ Types /\ left \in [Occasion -> Nat] /\ Plain(left) /\ InTheirOrder
  BY DEF Inv, RunInv
<1>2. /\ rec'[p].aborted = b /\ rec'[p].turn = rec[p].turn /\ rec'[p].override = rec[p].override
      /\ \A q \in Prompt : q # p => rec'[q] = rec[q]
  BY <1>1 DEF Types
<1>3. \A q \in Prompt : /\ rec'[q].override = rec[q].override /\ rec'[q].turn = rec[q].turn
                        /\ rec'[q].aborted => rec[q].aborted \/ rec[q].turn # 0
  BY <1>2
<1>4. left' \in [Occasion -> Nat] /\ InTheirOrder' /\ Plain(left')
  BY <1>1, <1>3, OrderGoesOn, PlainStays
<1>5. \A q \in Prompt : PromptRun(q)'
  <2> TAKE q \in Prompt
  <2>1. PromptRun(q) BY DEF RunInv
  <2>2. Awaited(q) => Awaited(q)' BY <1>3 DEF Awaited
  <2> QED BY <1>3, <2>1, <2>2 DEF PromptRun
<1>6. \A q \in Prompt : Awaited(q) => Awaited(q)' BY <1>3 DEF Awaited
<1> QED BY <1>4, <1>5, <1>6, ServiceRuns

(* A step that the service and its prompts do not see.                     *)
LEMMA RunsOn ==
  ASSUME Inv, RunInv, UNCHANGED <<active, rec, stage, turns, ends>>,
         events' = events \/ (events # <<>> /\ events' = Tail(events)),
         left' = left \/ \E h \in Occasion \ {"submit"} : Happens(h)
  PROVE  RunInv'
<1>1. left \in [Occasion -> Nat] /\ Plain(left) /\ InTheirOrder BY DEF RunInv
<1>2. left' \in [Occasion -> Nat] /\ InTheirOrder' /\ Plain(left')
  BY <1>1, OrderGoesOn, PlainStays
<1>3. \A q \in Prompt : PromptRun(q)' BY DEF RunInv, PromptRun, Awaited
<1>4. \A q \in Prompt : Awaited(q) => Awaited(q)' BY DEF Awaited
<1> QED BY <1>2, <1>3, <1>4, ServiceRuns

LEMMA AbortRuns ==
  ASSUME Inv, RunInv, (\E p \in Prompt : abort(p)) \/ (\E c \in replies : cancelReturns(c))
  PROVE  RunInv'
<1>1. Types BY DEF Inv
<1>2. ASSUME NEW p \in Prompt, abort(p) PROVE RunInv'
  <2>1. {"abort", "earlyAbort"} \subseteq Occasion \ {"submit"} BY DEF Occasion
  <2>2. left["earlyAbort"] = 0 BY DEF RunInv, Plain
  <2>3. rec[p].turn # 0 BY <1>2, <2>2 DEF abort, Happens
  <2> QED BY <1>2, <2>1, <2>3, MarkRuns DEF abort, agent
<1>3. ASSUME NEW c \in replies, cancelReturns(c) PROVE RunInv'
  <2>1. c.of \in Prompt /\ c.done \in BOOLEAN BY <1>1 DEF Types
  <2>2. CASE ~c.done
    BY <1>3, <2>1, <2>2, MarkRuns DEF cancelReturns, agent
  <2>3. CASE c.done
    <3>1. /\ UNCHANGED <<active, rec, stage, turns, events, left>>
          /\ ends' = [ends EXCEPT ![c.of] = [times |-> ends[c.of].times + 1, how |-> "aborted"]]
      BY <1>3, <2>3 DEF cancelReturns, agent, Report
    <3>2. \A q \in Prompt : ends'[q].how = "completed" => ends[q].how = "completed"
      BY <1>1, <2>1, <3>1 DEF Types
    <3>3. left \in [Occasion -> Nat] /\ Plain(left) /\ InTheirOrder BY DEF RunInv
    <3>4. InTheirOrder' BY <3>1, <3>3 DEF InTheirOrder
    <3>5. \A q \in Prompt : PromptRun(q)' BY <3>1, <3>2 DEF RunInv, PromptRun, Awaited
    <3>6. \A q \in Prompt : Awaited(q) => Awaited(q)' BY <3>1 DEF Awaited
    <3> QED BY <3>1, <3>3, <3>4, <3>5, <3>6, ServiceRuns
  <2> QED BY <2>1, <2>2, <2>3
<1> QED BY <1>2, <1>3

LEMMA AbortQueuedRuns ==
  ASSUME Inv, RunInv, NEW i \in 1..Len(queued), abortQueued(i)
  PROVE  RunInv'
<1> DEFINE p == queued[i]
<1>1. /\ Types /\ p \in Prompt /\ stage[p].at = "queued"
      /\ left \in [Occasion -> Nat] /\ Plain(left) /\ InTheirOrder
  BY DEF Inv, Types, QueuedOnce, RunInv
<1>2. /\ stage' = Stage(p, "aborted") /\ UNCHANGED <<active, rec, turns, events>>
      /\ ends' = [ends EXCEPT ![p] = [times |-> ends[p].times + 1, how |-> "aborted"]]
      /\ Happens("abort")
  BY DEF abortQueued, wire, agent, Report
<1>3. "aborted" \in Stages /\ "abort" \in Occasion \ {"submit"} BY DEF Stages, Occasion
<1> HIDE DEF p
<1>4. \A q \in Prompt : ends'[q].how = "completed" => ends[q].how = "completed"
  BY <1>1, <1>2 DEF Types
<1>5. /\ \A q \in Prompt : PromptRun(q)'
      /\ \A q \in Prompt : stage[q].at = "sent" => stage'[q].at = "sent"
  BY <1>1, <1>2, <1>3, <1>4, StageRuns
<1>6. stage'[p].at = "aborted" /\ \A q \in Prompt : q # p => stage'[q] = stage[q]
  BY <1>1, <1>2, <1>3, StageIs
<1>7. left' \in [Occasion -> Nat] /\ InTheirOrder' /\ Plain(left')
  BY <1>1, <1>2, <1>3, <1>6, OrderGoesOn, PlainStays
<1>8. \A q \in Prompt : Awaited(q) => Awaited(q)' BY <1>2 DEF Awaited
<1> QED BY <1>2, <1>5, <1>7, <1>8, ServiceRuns

LEMMA PromptFailedRuns ==
  ASSUME Inv, RunInv, NEW p \in Prompt, promptFailed(p)
  PROVE  RunInv'
<1> DEFINE a == IF active = p THEN None ELSE active
<1>1. /\ Types /\ QueuedOnce /\ stage[p].at = "failed" /\ startFails(p, a)
      /\ UNCHANGED <<rec, turns, events, ends, left>>
      /\ left \in [Occasion -> Nat] /\ Plain(left) /\ InTheirOrder
  BY DEF Inv, RunInv, promptFailed, agent
<1>2. {"refused", "lost"} \subseteq Stages BY DEF Stages
<1>3. a = active \/ (a = None /\ active = p) OBVIOUS
<1>4. a = None => NothingAhead /\ \A q \in Prompt : stage[q].at \notin {"prompting", "writing"}
  BY <1>1, <1>3, NotAhead
<1> HIDE DEF a
<1>5. ASSUME NEW at \in {"refused", "lost"}, active' = a, stage' = Stage(p, at)
      PROVE  RunInv'
  <2>1. \A q \in Prompt : stage[q].at \in {"prompting", "writing"} => active' = active
    BY <1>3, <1>4, <1>5
  <2>2. /\ \A q \in Prompt : PromptRun(q)'
        /\ \A q \in Prompt : stage[q].at = "sent" => stage'[q].at = "sent"
    BY <1>1, <1>2, <1>5, <2>1, StageRuns
  <2>3. stage'[p].at = at /\ \A q \in Prompt : q # p => stage'[q] = stage[q]
    BY <1>1, <1>2, <1>5, StageIs
  <2>4. InTheirOrder' BY <1>1, <2>3, OrderGoesOn
  <2>5. NothingAhead \/ \A q \in Prompt : Awaited(q) => Awaited(q)'
    BY <1>1, <1>3, <1>4, <1>5 DEF Awaited
  <2> QED BY <1>1, <2>2, <2>4, <2>5, ServiceRuns
<1>6. CASE stage[p].direct BY <1>1, <1>5, <1>6 DEF startFails
<1>7. CASE ~stage[p].direct /\ (Unfinished(a) \/ queued = <<>>)
  BY <1>1, <1>5, <1>7 DEF startFails, _startNextQueued
<1>8. CASE ~stage[p].direct /\ ~Unfinished(a) /\ queued # <<>>
  <2> DEFINE h == Head(queued)
  <2>1. h \in Prompt /\ stage[h].at = "queued" BY <1>1, <1>8 DEF Types, QueuedOnce
  <2>2. ~rec[h].override BY <1>1, <2>1, NoOverride
  <2>3. active' = h /\ stage' = [Stage(p, "lost") EXCEPT ![h] = [at |-> "prompting", direct |-> FALSE]]
    BY <1>1, <1>8, <2>2 DEF startFails, _startNextQueued, _startPrompt
  <2> HIDE DEF h
  <2>4. /\ Stage(p, "lost")[p].at = "lost"
        /\ \A q \in Prompt : q # p => Stage(p, "lost")[q] = stage[q]
        /\ Stage(p, "lost") \in [Prompt -> [at : Stages, direct : BOOLEAN]]
    BY <1>1, <1>2, StageIs
  <2>5. h # p BY <1>1, <2>1
  <2>6. /\ stage'[h].at = "prompting" /\ stage'[p].at = "lost"
        /\ \A q \in Prompt : q # h /\ q # p => stage'[q] = stage[q]
    BY <2>1, <2>3, <2>4, <2>5
  <2>7. NothingAhead /\ \A q \in Prompt : stage[q].at \notin {"prompting", "writing"}
    <3>1. CASE a = None BY <1>4, <3>1
    <3>2. CASE a # None
      <4>1. a = active /\ rec[active].aborted /\ active \in Prompt
        BY <1>1, <1>3, <1>8, <3>2 DEF Unfinished, Types
      <4>2. \A q \in Prompt : ~Awaited(q) BY <4>1 DEF Awaited, RunInv, PromptRun
      <4> QED BY <4>2, AheadIsAwaited
    <3> QED BY <3>1, <3>2
  <2>8. \A q \in Prompt : q # h => \/ stage'[q] = stage[q]
                                   \/ stage[q].at \notin {"sent"} /\ stage'[q].at \in {"lost"}
    BY <1>1, <2>6
  <2>9. /\ \A q \in Prompt : PromptRun(q)'
        /\ \A q \in Prompt : stage[q].at = "sent" => stage'[q].at = "sent"
    BY <1>1, <2>1, <2>3, <2>6, <2>7, <2>8, StartIsAwaited
  <2>10. \A q \in Prompt : stage'[q].at = "new" <=> stage[q].at = "new"
    BY <1>1, <2>1, <2>6
  <2>11. InTheirOrder' BY <1>1, <2>10, OrderGoesOn
  <2> QED BY <1>1, <2>7, <2>9, <2>11, ServiceRuns
<1> QED BY <1>6, <1>7, <1>8

(* The agent gets the prompt, and launches a turn of it if it is free.     *)
LEMMA PromptRuns ==
  ASSUME Inv, RunInv, promptArrives \/ \E p \in Prompt : prompt(p)
  PROVE  RunInv'
<1>1. /\ Types /\ CallsOnce /\ left \in [Occasion -> Nat] /\ Plain(left) /\ InTheirOrder
  BY DEF Inv, RunInv
<1>2. {"writing", "failed", "sent"} \subseteq Stages BY DEF Stages, Begun
<1>3. ASSUME NEW p \in Prompt, NEW at \in {"writing", "failed"}, stage' = Stage(p, at),
             stage[p].at = IF at = "writing" THEN "prompting" ELSE "writing",
             UNCHANGED <<active, rec, turns, events, ends>>,
             left' = left \/ Happens("promptFails")
      PROVE  RunInv'
  <2>1. "promptFails" \in Occasion \ {"submit"} BY DEF Occasion
  <2>2. /\ \A q \in Prompt : PromptRun(q)'
        /\ \A q \in Prompt : stage[q].at = "sent" => stage'[q].at = "sent"
    BY <1>2, <1>3, StageRuns
  <2>3. stage'[p].at = at /\ \A q \in Prompt : q # p => stage'[q] = stage[q]
    BY <1>1, <1>2, <1>3, StageIs
  <2>4. left' \in [Occasion -> Nat] /\ InTheirOrder' /\ Plain(left')
    BY <1>1, <1>3, <2>1, <2>3, OrderGoesOn, PlainStays
  <2>5. \A q \in Prompt : Awaited(q) => Awaited(q)' BY <1>3 DEF Awaited
  <2> QED BY <1>3, <2>2, <2>4, <2>5, ServiceRuns
<1>4. CASE promptArrives
  <2>1. /\ calls # <<>> /\ calls' = Tail(calls) /\ Head(calls).op = "prompt"
    BY <1>4 DEF promptArrives, Arrives
  <2>2. Head(calls).of \in Prompt /\ stage[Head(calls).of].at = "prompting"
    BY <1>1, <2>1, CallsAfterArrival, WhoIsCalled DEF CallsOnce
  <2> QED BY <1>3, <1>4, <2>2 DEF promptArrives, agent
<1>5. ASSUME NEW p \in Prompt, prompt(p) PROVE RunInv'
  <2>1. CASE stage' = Stage(p, "failed") /\ Happens("promptFails") /\ UNCHANGED agent
    BY <1>3, <1>5, <2>1 DEF prompt, wire, agent
  <2>2. CASE launch(p) /\ stage' = Stage(p, "sent") /\ left' = left
    <3>1. stage[p].at = "writing" /\ UNCHANGED <<active, rec, events, ends>>
      BY <1>5 DEF prompt, wire
    <3>2. stage'[p].at = "sent" /\ \A q \in Prompt : q # p => stage'[q] = stage[q]
      BY <1>1, <1>2, <2>2, StageIs
    <3>3. InTheirOrder' BY <1>1, <2>2, <3>1, <3>2, OrderGoesOn
    <3>4. Awaited(p) /\ PromptRun(p) BY <3>1 DEF RunInv, PromptRun
    <3>5. \A q \in Prompt : Awaited(q)' <=> q = p BY <3>1, <3>4 DEF Awaited
    <3>6. NothingAhead
      <4>1. \A t \in 1..Len(turns) : turns[t].of # p BY <3>1 DEF RunInv, TurnRun
      <4>2. \A q \in Prompt : Awaited(q) => q = p BY <3>4 DEF Awaited
      <4>3. \A t \in 1..Len(turns) : turns[t].at # "launched"
        BY <4>1, <4>2 DEF RunInv, TurnRun
      <4>4. \A i \in 1..Len(events) : events[i].reason # "started"
        BY <4>1, <4>2 DEF RunInv, TurnRun, EventRun
      <4> QED BY <4>3, <4>4 DEF NothingAhead
    <3>7. Len(turns) \in Nat BY <1>1 DEF Types
    <3>8. /\ Len(turns') >= Len(turns) /\ Len(turns') <= Len(turns) + 1
          /\ \A t \in 1..Len(turns) : turns'[t] = turns[t]
          /\ \A t \in 1..Len(turns') : t \in 1..Len(turns) \/ (t = Len(turns) + 1 /\ turns'[t].of = p)
      <4>1. CASE activeTurn # 0 BY <2>2, <4>1, <3>7 DEF launch, agent
      <4>2. CASE activeTurn = 0
        <5> DEFINE new == [of |-> p, worker |-> Len(turns) + 1, at |-> "launched", aborted |-> FALSE]
        <5>1. turns' = Append(turns, new) BY <2>2, <4>2 DEF launch
        <5>2. new \in TurnSet /\ new.of = p BY <3>7 DEF TurnSet
        <5> HIDE DEF new
        <5>3. /\ Len(turns') = Len(turns) + 1 /\ turns'[Len(turns) + 1] = new
              /\ \A t \in 1..Len(turns) : turns'[t] = turns[t]
          BY <1>1, <5>1, <5>2, AppendProperties DEF Types
        <5> QED BY <3>7, <5>2, <5>3
      <4> QED BY <4>1, <4>2
    <3>9. \A q \in Prompt : PromptRun(q)'
      <4> TAKE q \in Prompt
      <4>1. PromptRun(q) BY DEF RunInv
      <4>2. CASE q = p BY <3>1, <3>2, <3>4, <3>5, <4>1, <4>2 DEF PromptRun, Awaited
      <4>3. CASE q # p
        <5>1. stage'[q] = stage[q] /\ ~Awaited(q) BY <3>2, <3>4, <4>3 DEF Awaited
        <5>2. rec[q].turn \in 1..Len(turns) =>
                rec[q].turn \in 1..Len(turns') /\ turns'[rec[q].turn] = turns[rec[q].turn]
          BY <3>7, <3>8
        <5> QED BY <3>1, <4>1, <5>1, <5>2 DEF PromptRun
      <4> QED BY <4>2, <4>3
    <3>10. \A q \in Prompt : stage[q].at = "sent" => stage'[q].at = "sent" BY <3>1, <3>2
    <3>11. \A t \in 1..Len(turns') : TurnRun(t)'
      <4> TAKE t \in 1..Len(turns')
      <4>1. CASE t \in 1..Len(turns)
        <5>1. TurnRun(t) /\ turns'[t] = turns[t] /\ turns[t].at # "launched"
          BY <3>6, <3>8, <4>1 DEF RunInv, NothingAhead
        <5> QED BY <3>10, <5>1 DEF TurnRun
      <4>2. CASE t \notin 1..Len(turns)
        BY <3>2, <3>5, <3>8, <4>2 DEF TurnRun
      <4> QED BY <4>1, <4>2
    <3>12. \A i \in 1..Len(events') : EventRun(i)'
      <4> TAKE i \in 1..Len(events')
      <4>1. EventRun(i) /\ events' = events /\ events[i].reason # "started"
        BY <3>1, <3>6 DEF RunInv, NothingAhead
      <4> QED BY <3>7, <3>8, <4>1 DEF EventRun
    <3>13. OneAhead'
      <4>1. \A t \in 1..Len(turns') : turns'[t].at = "launched" => t = Len(turns) + 1
        BY <3>6, <3>8 DEF NothingAhead
      <4>2. \A i \in 1..Len(events') : events'[i].reason # "started"
        BY <3>1, <3>6 DEF NothingAhead
      <4> QED BY <4>1, <4>2 DEF OneAhead
    <3> QED BY <1>1, <2>2, <3>3, <3>9, <3>11, <3>12, <3>13 DEF RunInv
  <2> QED BY <1>5, <2>1, <2>2 DEF prompt
<1> QED BY <1>4, <1>5

(* Turns go on, and an event of one is sent.                               *)
LEMMA TurnsRun ==
  ASSUME Inv, RunInv, UNCHANGED <<active, rec, stage, ends>>,
         left' = left \/ \E h \in Occasion \ {"submit"} : Happens(h),
         Len(turns') = Len(turns),
         \A t \in 1..Len(turns) : /\ turns'[t].of = turns[t].of
                                  /\ turns'[t].at = "launched" => turns[t].at = "launched",
         \/ events' = events
         \/ \E t \in 1..Len(turns), r \in {"started", "completed", "cancelled"} :
              /\ events' = Append(events, [turn |-> t, reason |-> r])
              /\ turns'[t].at # "launched"
              /\ r = "started" => turns[t].at = "launched"
  PROVE  RunInv'
<1>1. /\ Types /\ left \in [Occasion -> Nat] /\ Plain(left) /\ InTheirOrder
      /\ Len(turns) \in Nat /\ Len(events) \in Nat
  BY DEF Inv, RunInv, Types
<1>2. left' \in [Occasion -> Nat] /\ InTheirOrder' /\ Plain(left')
  BY <1>1, OrderGoesOn, PlainStays
<1>3. \A q \in Prompt : Awaited(q)' <=> Awaited(q) BY DEF Awaited
<1>4. \A q \in Prompt : PromptRun(q)'
  <2> TAKE q \in Prompt
  <2>1. PromptRun(q) BY DEF RunInv
  <2> QED BY <1>3, <2>1 DEF PromptRun
<1>5. \A t \in 1..Len(turns') : TurnRun(t)'
  <2> TAKE t \in 1..Len(turns')
  <2>1. TurnRun(t) BY DEF RunInv
  <2> QED BY <1>3, <2>1 DEF TurnRun
<1>6. ASSUME NEW i \in 1..Len(events)
      PROVE  /\ events[i].turn \in 1..Len(turns') /\ turns'[events[i].turn].at # "launched"
             /\ events[i].reason = "started" =>
                  active' = turns'[events[i].turn].of /\ rec'[active'].turn = 0
  <2>1. EventRun(i) /\ TurnRun(events[i].turn) BY DEF RunInv, EventRun
  <2> QED BY <2>1 DEF EventRun, TurnRun, Awaited
<1>7. OneAhead BY DEF RunInv
<1>8. CASE events' = events
  <2>1. \A i \in 1..Len(events') : EventRun(i)' BY <1>6, <1>8 DEF EventRun, Awaited
  <2>2. OneAhead' BY <1>7, <1>8 DEF OneAhead
  <2> QED BY <1>2, <1>4, <1>5, <2>1, <2>2 DEF RunInv
<1>9. ASSUME NEW t \in 1..Len(turns), NEW r \in {"started", "completed", "cancelled"},
             events' = Append(events, [turn |-> t, reason |-> r]),
             turns'[t].at # "launched", r = "started" => turns[t].at = "launched"
      PROVE  RunInv'
  <2>1. t \in Nat BY <1>1
  <2>2. /\ Len(events') = Len(events) + 1 /\ events'[Len(events) + 1] = [turn |-> t, reason |-> r]
        /\ \A i \in 1..Len(events) : events'[i] = events[i]
    BY <1>1, <1>9, <2>1 DEF Types
  <2>3. \A i \in 1..Len(events') : i \in 1..Len(events) \/ i = Len(events) + 1
    BY <1>1, <2>2
  <2>4. r = "started" => active' = turns'[t].of /\ rec'[active'].turn = 0
    BY <1>9 DEF RunInv, TurnRun, Awaited
  <2>5. \A i \in 1..Len(events') : EventRun(i)'
    <3> TAKE i \in 1..Len(events')
    <3>1. CASE i \in 1..Len(events) BY <1>6, <2>2, <3>1 DEF EventRun, Awaited
    <3>2. CASE i = Len(events) + 1 BY <1>9, <2>2, <2>4, <3>2 DEF EventRun, Awaited
    <3> QED BY <2>3, <3>1, <3>2
  <2>6. OneAhead'
    <3>1. CASE r # "started"
      <4>1. \A i \in 1..Len(events') : events'[i].reason = "started" =>
               i \in 1..Len(events) /\ events'[i] = events[i]
        BY <2>2, <2>3, <3>1
      <4> QED BY <1>7, <4>1 DEF OneAhead
    <3>2. CASE r = "started"
      <4>1. \A i \in 1..Len(events) : events[i].reason # "started" BY <1>7, <1>9, <3>2 DEF OneAhead
      <4>2. \A i \in 1..Len(events') : events'[i].reason = "started" => i = Len(events) + 1
        BY <2>2, <2>3, <4>1
      <4>3. \A u \in 1..Len(turns') : turns'[u].at # "launched"
        BY <1>7, <1>9, <3>2 DEF OneAhead
      <4> QED BY <4>2, <4>3 DEF OneAhead
    <3> QED BY <3>1, <3>2
  <2> QED BY <1>2, <1>4, <1>5, <2>5, <2>6 DEF RunInv
<1> QED BY <1>8, <1>9

LEMMA AgentRuns ==
  ASSUME Inv, RunInv, Turns \/ cancel
  PROVE  RunInv'
<1>1. /\ Types /\ Len(turns) \in Nat /\ DOMAIN turns = 1..Len(turns)
      /\ \A t \in 1..Len(turns) : turns[t] \in TurnSet
  BY DEF Inv, Types
<1>2. ASSUME NEW t \in 1..Len(turns), NEW at \in {"running", "ended"},
             turns' = [turns EXCEPT ![t].at = at]
      PROVE  /\ Len(turns') = Len(turns) /\ turns'[t].at = at
             /\ \A u \in 1..Len(turns) : /\ turns'[u].of = turns[u].of
                                         /\ turns'[u].at = "launched" => turns[u].at = "launched"
  <2>1. turns' = [turns EXCEPT ![t] = [turns[t] EXCEPT !.at = at]] BY <1>2
  <2>2. turns[t] \in TurnSet BY <1>1
  <2>3. [turns[t] EXCEPT !.at = at].at = at /\ [turns[t] EXCEPT !.at = at].of = turns[t].of
    BY <2>2 DEF TurnSet
  <2> QED BY <1>1, <2>1, <2>3 DEF Types
<1>3. ASSUME NEW t \in 1..Len(turns), turnStarted(t) PROVE RunInv'
  <2>1. /\ turns[t].at = "launched" /\ turns' = [turns EXCEPT ![t].at = "running"]
        /\ events' = Append(events, [turn |-> t, reason |-> "started"])
        /\ UNCHANGED <<active, rec, stage, ends, left>>
    BY <1>3 DEF turnStarted, service
  <2> QED BY <1>2, <2>1, TurnsRun
<1>4. ASSUME NEW t \in 1..Len(turns), NEW r \in {"completed", "cancelled"}, turnEnded(t, r)
      PROVE  RunInv'
  <2>1. left["goal"] = 0 BY DEF RunInv, Plain
  <2>2. /\ turns' = [turns EXCEPT ![t].at = "ended"]
        /\ events' = Append(events, [turn |-> t, reason |-> r])
        /\ UNCHANGED <<active, rec, stage, ends, left>>
    BY <1>4, <2>1 DEF turnEnded, service, Happens
  <2> QED BY <1>2, <2>2, TurnsRun
<1>5. CASE cancel
  <2>1. /\ turns' = turns \/ abortTurn
        /\ UNCHANGED <<active, rec, stage, ends, events>>
        /\ left' = left \/ Happens("cancelFails")
    BY <1>5 DEF cancel, service, agent
  <2>2. "cancelFails" \in Occasion \ {"submit"} BY DEF Occasion
  <2>3. /\ Len(turns') = Len(turns)
        /\ \A t \in 1..Len(turns) : turns'[t].of = turns[t].of /\ turns'[t].at = turns[t].at
    <3>1. CASE turns' = turns BY <3>1
    <3>2. CASE abortTurn
      <4>1. turns' = [t \in 1..Len(turns) |->
                        [turns[t] EXCEPT !.aborted = turns[t].aborted \/ turns[t].worker = activeTurn]]
        BY <1>1, <3>2 DEF abortTurn
      <4>2. \A t \in 1..Len(turns) : turns'[t].of = turns[t].of /\ turns'[t].at = turns[t].at
        BY <1>1, <4>1 DEF TurnSet
      <4>3. Len(turns') = Len(turns) BY <1>1, <4>1
      <4> QED BY <4>2, <4>3
    <3> QED BY <2>1, <3>1, <3>2
  <2> QED BY <2>1, <2>2, <2>3, TurnsRun
<1> QED BY <1>1, <1>3, <1>4, <1>5 DEF Turns

(* The first start that is seen is of the prompt that is awaited.          *)
LEMMA StartedRuns ==
  ASSUME Inv, RunInv, events # <<>>, events' = Tail(events), Head(events).reason = "started",
         active # None, onTurnStarted(Head(events)), UNCHANGED <<turns, left>>
  PROVE  RunInv'
<1> DEFINE e == events[1]
<1>1. /\ Types /\ left \in [Occasion -> Nat] /\ Plain(left) /\ InTheirOrder /\ OneAhead
      /\ active \in Prompt /\ 1 \in 1..Len(events) /\ Head(events) = e
      /\ Len(events) \in Nat /\ Len(events') = Len(events) - 1
      /\ \A i \in 1..Len(events') : i + 1 \in 1..Len(events) /\ events'[i] = events[i + 1]
  BY DEF Inv, RunInv, Types
<1>2. /\ e.turn \in 1..Len(turns) /\ turns[e.turn].at # "launched" /\ e.reason = "started"
      /\ turns[e.turn].of = active /\ rec[active].turn = 0 /\ stage[active].at = "sent"
  <2>1. EventRun(1) /\ e.turn \in 1..Len(turns) BY <1>1 DEF RunInv, EventRun
  <2>2. TurnRun(e.turn) BY <2>1 DEF RunInv
  <2> QED BY <1>1, <2>1, <2>2 DEF EventRun, TurnRun, Awaited
<1>3. /\ rec' = [rec EXCEPT ![active].turn = e.turn]
      /\ UNCHANGED <<active, stage, ends>>
  BY <1>1, <1>2 DEF onTurnStarted
<1>4. NothingAhead'
  <2>1. ASSUME NEW i \in 1..Len(events'), events'[i].reason = "started" PROVE FALSE
    <3>1. i + 1 = 1 BY <1>1, <1>2, <2>1 DEF OneAhead
    <3> QED BY <3>1
  <2>2. \A t \in 1..Len(turns) : turns[t].at # "launched" BY <1>1, <1>2 DEF OneAhead
  <2> QED BY <2>1, <2>2 DEF NothingAhead
<1>5. /\ rec'[active].turn = e.turn /\ rec'[active].override = rec[active].override
      /\ \A q \in Prompt : q # active => rec'[q] = rec[q]
  BY <1>1, <1>3 DEF Types
<1> HIDE DEF e
<1>6. \A q \in Prompt : PromptRun(q)'
  <2> TAKE q \in Prompt
  <2>1. PromptRun(q) BY DEF RunInv
  <2>2. CASE q = active
    <3>1. e.turn # 0 BY <1>2
    <3> QED BY <1>2, <1>3, <1>5, <2>2, <3>1 DEF PromptRun
  <2>3. CASE q # active BY <1>3, <1>5, <2>1, <2>3 DEF PromptRun, Awaited
  <2> QED BY <2>2, <2>3
<1>7. \A q \in Prompt : /\ stage'[q].at = "new" <=> stage[q].at = "new"
                        /\ rec'[q].override = rec[q].override
  BY <1>3, <1>5
<1>8. InTheirOrder' BY <1>1, <1>7, OrderGoesOn
<1> QED BY <1>1, <1>3, <1>4, <1>6, <1>8, ServiceRuns

(* The end that the active prompt waits for is of the turn known as its.   *)
LEMMA EndedRuns ==
  ASSUME Inv, RunInv, events # <<>>, events' = Tail(events),
         active # None, onTurnEnded(Head(events)), UNCHANGED <<turns, left>>
  PROVE  RunInv'
<1> DEFINE e == Head(events)
           p == active
<1>1. /\ Types /\ QueuedOnce /\ left \in [Occasion -> Nat] /\ Plain(left) /\ InTheirOrder
      /\ p \in Prompt /\ EventRun(1) /\ e = events[1]
  BY DEF Inv, RunInv, Types
<1>2. CASE e.turn # rec[p].turn
  BY <1>2, RunsOn DEF onTurnEnded, service
<1>3. CASE e.turn = rec[p].turn
  <2>1. /\ ends' = ends \/ ends' = Report(p, "aborted") \/ ends' = Report(p, "completed")
        /\ rec' = [rec EXCEPT ![p].aborted = rec[p].aborted \/ e.reason = "cancelled"]
        /\ _startNextQueued(None, stage)
    BY <1>3 DEF onTurnEnded
  <2>2. rec[p].turn # 0 BY <1>1, <1>3 DEF EventRun
  <2> HIDE DEF p, e
  <2>3. \A q \in Prompt : ~Awaited(q) BY <2>2 DEF Awaited, p
  <2>4. NothingAhead /\ \A q \in Prompt : stage[q].at \notin {"prompting", "writing"}
    BY <2>3, AheadIsAwaited
  <2>5. /\ rec'[p].turn = rec[p].turn /\ rec'[p].override = rec[p].override
        /\ \A q \in Prompt : q # p => rec'[q] = rec[q]
    BY <1>1, <2>1 DEF Types
  <2>6. \A q \in Prompt : q # p => ends'[q] = ends[q] BY <1>1, <2>1, ReportIs
  <2>7. \A q \in Prompt :
          /\ rec'[q].turn = rec[q].turn /\ rec'[q].override = rec[q].override
          /\ rec'[q].aborted => rec[q].aborted \/ rec[q].turn # 0
          /\ ends'[q].how = "completed" => ends[q].how = "completed" \/ rec[q].turn # 0
    BY <2>2, <2>5, <2>6
  <2>8. CASE queued = <<>>
    <3>1. active' = None /\ stage' = stage BY <2>1, <2>8 DEF _startNextQueued
    <3>2. InTheirOrder' BY <1>1, <2>7, <3>1, OrderGoesOn
    <3>3. \A q \in Prompt : PromptRun(q)'
      <4> TAKE q \in Prompt
      <4>1. PromptRun(q) BY DEF RunInv
      <4> QED BY <2>4, <2>7, <3>1, <4>1 DEF PromptRun
    <3> QED BY <1>1, <2>4, <3>1, <3>2, <3>3, ServiceRuns
  <2>9. CASE queued # <<>>
    <3> DEFINE h == Head(queued)
    <3>1. h \in Prompt /\ stage[h].at = "queued" BY <1>1, <2>9 DEF Types, QueuedOnce
    <3>2. ~rec[h].override BY <1>1, <3>1, NoOverride
    <3>3. active' = h /\ stage' = [stage EXCEPT ![h] = [at |-> "prompting", direct |-> FALSE]]
      BY <2>1, <2>9, <3>2 DEF _startNextQueued, _startPrompt, Unfinished
    <3> HIDE DEF h
    <3>4. stage'[h].at = "prompting" /\ \A q \in Prompt : q # h => stage'[q] = stage[q]
      BY <1>1, <3>1, <3>3 DEF Types
    <3>5. /\ \A q \in Prompt : PromptRun(q)'
          /\ \A q \in Prompt : stage[q].at = "sent" => stage'[q].at = "sent"
      BY <2>4, <2>7, <3>1, <3>3, <3>4, StartIsAwaited
    <3>6. \A q \in Prompt : stage'[q].at = "new" <=> stage[q].at = "new" BY <3>1, <3>4
    <3>7. InTheirOrder' BY <1>1, <2>7, <3>6, OrderGoesOn
    <3> QED BY <1>1, <2>4, <3>5, <3>7, ServiceRuns
  <2> QED BY <2>8, <2>9
<1> QED BY <1>2, <1>3

LEMMA RunStep ==
  Inv /\ RunInv /\ [Next]_vars => RunInv'
<1> SUFFICES ASSUME Inv, RunInv, [Next]_vars PROVE RunInv'
  OBVIOUS
<1>1. /\ Types /\ CallsOnce /\ DOMAIN queued = 1..Len(queued)
      /\ \A h \in {"steer", "earlySteer", "other"} : left[h] = 0
      /\ \A p \in Prompt : stage[p].at \notin {"applying", "steering", "notSteered"}
  BY DEF Inv, Types, RunInv, Plain, PromptRun
<1>2. CASE User
  <2>1. \A i \in 1..Len(queued) : ~steer(i) BY <1>1 DEF steer, Happens
  <2>2. "stop" \in Occasion \ {"submit"} BY DEF Occasion
  <2>3. CASE abortBySession BY <2>2, <2>3, RunsOn DEF abortBySession, service, agent
  <2> QED BY <1>1, <1>2, <2>1, <2>3, SubmitRuns, AbortRuns, AbortQueuedRuns DEF User
<1>3. CASE Calls
  <2>1. \A p \in Prompt : ~setActive(p) /\ ~_restoreSteeredQueueItems(p)
    BY <1>1 DEF setActive, _restoreSteeredQueueItems
  <2>2. ~steerArrives
    <3> SUFFICES ASSUME steerArrives PROVE FALSE OBVIOUS
    <3>1. calls # <<>> /\ calls' = Tail(calls) /\ Head(calls).op = "steer"
      BY DEF steerArrives, Arrives
    <3>2. Head(calls).of \in Prompt /\ stage[Head(calls).of].at = "steering"
      BY <1>1, <3>1, CallsAfterArrival, WhoIsCalled DEF CallsOnce
    <3> QED BY <1>1, <3>2
  <2> QED BY <1>3, <2>1, <2>2, PromptRuns, PromptFailedRuns, AbortRuns, AgentRuns DEF Calls
<1>4. CASE Turns BY <1>4, AgentRuns
<1>5. CASE _handleBusEvent
  <2>1. events # <<>> /\ events' = Tail(events) /\ UNCHANGED <<turns, left>>
    BY <1>5 DEF _handleBusEvent, agent
  <2>2. CASE active = None BY <1>5, <2>1, <2>2, RunsOn DEF _handleBusEvent, service
  <2>3. CASE active # None BY <1>5, <2>1, <2>3, StartedRuns, EndedRuns DEF _handleBusEvent
  <2> QED BY <2>2, <2>3
<1>6. CASE notify BY <1>1, <1>6 DEF notify, Happens
<1>7. CASE \E p \in Prompt : setterFails(p) BY <1>1, <1>7 DEF setterFails
<1>8. CASE UNCHANGED vars BY <1>8, RunsOn DEF vars, service, wire, agent
<1> QED BY <1>2, <1>3, <1>4, <1>5, <1>6, <1>7, <1>8 DEF Next

LEMMA RunInit == Init /\ Plain(left) => RunInv
<1> SUFFICES ASSUME Init, Plain(left) PROVE RunInv
  OBVIOUS
<1>1. /\ left \in [Occasion -> Nat] /\ InTheirOrder
      /\ \A p \in Prompt : stage[p].at = "new" /\ ~rec[p].aborted
  BY OrderAtFirst DEF Plain
<1>2. \A p \in Prompt : rec[p].turn = 0 /\ ends[p].how = "open" BY DEF Init
<1>3. \A p \in Prompt : PromptRun(p) BY <1>1, <1>2 DEF PromptRun
<1>4. turns = <<>> /\ events = <<>> BY DEF Init
<1> QED BY <1>1, <1>3, <1>4 DEF RunInv, OneAhead

(* A prompt that is reported as completed has had a turn of its own, for   *)
(* any number of prompts, aborts, stops and failing calls, as long as all  *)
(* turns are prompts', none is given up before its turn is known and none  *)
(* has its controls set first.                                             *)
THEOREM CompletedHaveRun == Spec /\ Plain(left) => []CompletedPromptsRan
<1>1. Inv /\ RunInv => CompletedPromptsRan
  <2> SUFFICES ASSUME Inv, RunInv, NEW p \in Prompt, ends[p].how = "completed" PROVE Ran(p)
    BY DEF CompletedPromptsRan
  <2>1. PromptRun(p) /\ DOMAIN turns = 1..Len(turns) BY DEF Inv, Types, RunInv
  <2>2. rec[p].turn \in DOMAIN turns /\ turns[rec[p].turn].of = p
        /\ turns[rec[p].turn].at # "launched"
    BY <2>1 DEF PromptRun
  <2> QED BY <2>2 DEF Ran
<1> QED BY <1>1, InitInv, StepInv, RunInit, RunStep, PTL DEF Spec

=============================================================================
