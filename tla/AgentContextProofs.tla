------------------------- MODULE AgentContextProofs -------------------------
(***************************************************************************)
(* Proofs about AgentContext, for every scenario, every number of turns,   *)
(* steps and messages: messages stay in their order; a summary covers what *)
(* it drops; a replay of the records rebuilds the conversation; tool       *)
(* exchanges stay closed.                                                  *)
(***************************************************************************)
EXTENDS AgentContext, FiniteSetTheorems, WellFoundedInduction, TLAPS

CallId == Nat \X Nat

UserMsg == [role : UserRoles, id : Nat, calls : {{}}]

Msg == [role  : UserRoles \cup ToolRoles \cup {"assistant", "summary"},
        id    : Nat \cup CallId,
        calls : SUBSET CallId]

Contexts == [history : Seq(Msg), openSteps : SUBSET Nat,
             pendingToolResultIds : Seq(CallId), deferredMessages : Seq(UserMsg)]

Records ==
       [type : {"append_message"}, arg : UserMsg]
  \cup [type : {"step.begin", "content.part", "step.end"}, arg : Nat]
  \cup [type : {"tool.call", "tool.result"}, arg : CallId]
  \cup [type : {"undo", "clear"}, arg : Nat]
  \cup [type : {"apply_compaction"}, arg : Nat \X Nat]

-----------------------------------------------------------------------------
(* Numbers.                                                                *)

LEMMA LeastElement ==
  ASSUME NEW S, S \subseteq Nat, S # {}
  PROVE  Min(S) \in S /\ \A n \in S : Min(S) =< n
<1> DEFINE R == OpToRel(<, Nat)
<1>1. IsWellFoundedOn(R, Nat) BY NatLessThanWellFounded
<1> HIDE DEF R
<1>2. PICK m \in S : \A n \in S : ~ (<<n, m>> \in R) BY <1>1, WFMin
<1>3. \A n \in S : <<n, m>> \in R <=> n < m BY DEF R, OpToRel
<1>4. \A n \in S : m =< n
  <2> TAKE n \in S
  <2>1. ~ (n < m) BY <1>2, <1>3
  <2>2. m \in Nat /\ n \in Nat OBVIOUS
  <2> QED BY <2>1, <2>2
<1> QED BY <1>4 DEF Min

(* The greatest of a set of numbers that has a bound.                      *)
LEMMA Greatest ==
  ASSUME NEW S, S \subseteq Nat, S # {}, NEW b \in Nat, \A n \in S : n =< b
  PROVE  Max(S) \in S /\ \A n \in S : n =< Max(S)
<1> DEFINE U == {c \in Nat : \A n \in S : n =< c}
<1>1. PICK m \in U : \A c \in U : m =< c
  <2>1. U \subseteq Nat /\ b \in U OBVIOUS
  <2> HIDE DEF U
  <2> QED BY <2>1, LeastElement
<1>2. m \in Nat /\ \A n \in S : n =< m OBVIOUS
<1>3. m \in S
  <2>1. SUFFICES ASSUME m \notin S PROVE FALSE OBVIOUS
  <2>2. \A n \in S : n \in Nat /\ n =< m /\ n # m BY <1>2, <2>1
  <2>3. PICK x \in S : TRUE OBVIOUS
  <2>4. m - 1 \in Nat /\ m - 1 < m BY <1>2, <2>2, <2>3
  <2>5. \A n \in S : n =< m - 1 BY <1>2, <2>2
  <2>6. m - 1 \in U BY <2>4, <2>5
  <2> HIDE DEF U
  <2>7. m =< m - 1 BY <1>1, <2>6
  <2> QED BY <1>2, <2>4, <2>7
<1> QED BY <1>2, <1>3 DEF Max

(* A function on 0..n may be defined by its value at 0 and the step from   *)
(* each number to the next.                                                *)
Definable(n, S, a, step) ==
  \E g \in [0..n -> S] : g[0] = a /\ \A i \in 1..n : g[i] = step[i][g[i - 1]]

LEMMA Recursion ==
  ASSUME NEW n \in Nat, NEW S, NEW a \in S, NEW step \in [1..n -> [S -> S]]
  PROVE  Definable(n, S, a, step)
<1> DEFINE Upto(k, g) == g \in [0..k -> S] /\ g[0] = a
                         /\ \A i \in 1..k : g[i] = step[i][g[i - 1]]
           T == {k \in 0..n : ~ \E g : Upto(k, g)}
<1>1. SUFFICES ASSUME T # {} PROVE FALSE
  <2>1. n \in 0..n OBVIOUS
  <2>2. n \notin T OBVIOUS
  <2>3. \E g : Upto(n, g) BY <2>1, <2>2
  <2> QED BY <2>3 DEF Definable
<1>2. PICK m \in T : \A k \in T : m =< k
  <2>1. T \subseteq Nat OBVIOUS
  <2> HIDE DEF T
  <2>2. Min(T) \in T /\ \A k \in T : Min(T) =< k BY <1>1, <2>1, LeastElement
  <2> QED BY <2>2
<1>3. m \in 0..n /\ ~ \E g : Upto(m, g) OBVIOUS
<1>4. CASE m = 0
  <2> DEFINE g == [i \in 0..0 |-> a]
  <2>1. Upto(0, g) OBVIOUS
  <2> QED BY <1>3, <1>4, <2>1
<1>5. CASE m # 0
  <2> DEFINE k == m - 1
  <2>1. k \in 0..n /\ k + 1 = m /\ k < m /\ m \in 1..n BY <1>3, <1>5
  <2>2. k \notin T
    <3>1. ASSUME k \in T PROVE FALSE
      <4>1. m =< k BY <1>2, <3>1
      <4> QED BY <1>3, <2>1, <4>1
    <3> QED BY <3>1
  <2>3. PICK g : Upto(k, g) BY <2>1, <2>2
  <2> HIDE DEF k
  <2>4. g \in [0..k -> S] /\ g[0] = a /\ \A i \in 1..k : g[i] = step[i][g[i - 1]] BY <2>3
  <2> DEFINE e == [i \in 0..m |-> IF i = m THEN step[m][g[k]] ELSE g[i]]
  <2>5. k \in 0..k /\ g[k] \in S BY <2>1, <2>4
  <2>6. step[m] \in [S -> S] BY <2>1
  <2>7. step[m][g[k]] \in S BY <2>5, <2>6
  <2>8. \A i \in 0..m : i # m => i \in 0..k BY <1>3, <2>1
  <2>9. e \in [0..m -> S] BY <2>4, <2>7, <2>8
  <2>10. e[0] = a BY <1>3, <1>5, <2>4
  <2>11. ASSUME NEW i \in 1..m PROVE e[i] = step[i][e[i - 1]]
    <3>1. i \in 0..m /\ i - 1 \in 0..m /\ i - 1 # m BY <1>3
    <3>2. e[i - 1] = g[i - 1] BY <3>1
    <3>3. CASE i = m
      <4>1. i - 1 = k BY <2>1, <3>3
      <4> QED BY <3>1, <3>2, <3>3, <4>1
    <3>4. CASE i # m
      <4>1. i \in 1..k BY <1>3, <2>1, <3>4
      <4> QED BY <2>4, <3>1, <3>2, <3>4, <4>1
    <3> QED BY <3>3, <3>4
  <2>12. Upto(m, e)
    <3> HIDE DEF e
    <3> QED BY <2>9, <2>10, <2>11
  <2> QED BY <1>3, <2>12
<1> QED BY <1>4, <1>5

-----------------------------------------------------------------------------
(* Contexts, and what the methods make of them.                            *)

LEMMA ContextFields ==
  ASSUME NEW c \in Contexts
  PROVE  /\ c.history \in Seq(Msg) /\ c.openSteps \in SUBSET Nat
         /\ c.pendingToolResultIds \in Seq(CallId) /\ c.deferredMessages \in Seq(UserMsg)
         /\ c = [history |-> c.history, openSteps |-> c.openSteps,
                 pendingToolResultIds |-> c.pendingToolResultIds,
                 deferredMessages |-> c.deferredMessages]
BY DEF Contexts

LEMMA MakeContext ==
  ASSUME NEW h \in Seq(Msg), NEW o \in SUBSET Nat, NEW p \in Seq(CallId), NEW d \in Seq(UserMsg)
  PROVE  [history |-> h, openSteps |-> o, pendingToolResultIds |-> p,
          deferredMessages |-> d] \in Contexts
BY DEF Contexts

LEMMA EmptyIsContext == EmptyContext \in Contexts
BY DEF EmptyContext, Contexts

LEMMA UserMessages == UserMsg \subseteq Msg
BY DEF UserMsg, Msg

LEMMA UserSequences ==
  ASSUME NEW s \in Seq(UserMsg)
  PROVE  s \in Seq(Msg)
<1>1. \A i \in 1..Len(s) : s[i] \in Msg BY UserMessages
<1> QED BY <1>1

LEMMA AppendTyped ==
  ASSUME NEW c \in Contexts, NEW ms \in Seq(UserMsg)
  PROVE  appendMessages(c, ms) \in Contexts
<1>1. ms \in Seq(Msg) BY UserSequences
<1>2. c.history \o ms \in Seq(Msg) /\ c.deferredMessages \o ms \in Seq(UserMsg)
  BY <1>1, ContextFields
<1> QED BY <1>2 DEF appendMessages, Contexts

LEMMA FlushTyped ==
  ASSUME NEW c \in Contexts
  PROVE  flushDeferred(c) \in Contexts
<1>1. c.deferredMessages \in Seq(Msg) BY UserSequences, ContextFields
<1>2. c.history \o c.deferredMessages \in Seq(Msg) /\ <<>> \in Seq(UserMsg)
  BY <1>1, ContextFields
<1> QED BY <1>2 DEF flushDeferred, Contexts

LEMMA RemoveTyped ==
  ASSUME NEW S, NEW s \in Seq(S), NEW e
  PROVE  /\ RemoveFirst(s, e) \in Seq(S)
         /\ e \in Range(s) => \E i \in 1..Len(s) :
                 /\ s[i] = e
                 /\ \A j \in 1..(i - 1) : s[j] # e
                 /\ RemoveFirst(s, e) = SubSeq(s, 1, i - 1) \o SubSeq(s, i + 1, Len(s))
<1> DEFINE I == {i \in 1..Len(s) : s[i] = e}
           i == Min(I)
<1>1. CASE I = {}
  <2>1. RemoveFirst(s, e) = s BY <1>1 DEF RemoveFirst
  <2>2. e \notin Range(s) BY <1>1 DEF Range
  <2> QED BY <2>1, <2>2
<1>2. CASE I # {}
  <2>1. i \in I /\ \A n \in I : i =< n
    <3>1. I \subseteq Nat OBVIOUS
    <3> HIDE DEF I
    <3> QED BY <1>2, <3>1, LeastElement
  <2>2. i \in 1..Len(s) /\ s[i] = e BY <2>1
  <2>3. RemoveFirst(s, e) = SubSeq(s, 1, i - 1) \o SubSeq(s, i + 1, Len(s))
    BY <1>2 DEF RemoveFirst, RemoveAt, SelectInSeq
  <2> HIDE DEF i
  <2>4. \A j \in 1..(i - 1) : s[j] # e
    <3> TAKE j \in 1..(i - 1)
    <3>1. j \in 1..Len(s) /\ ~ (i =< j) BY <2>2
    <3> QED BY <2>1, <3>1
  <2> HIDE DEF I
  <2>5. SubSeq(s, 1, i - 1) \in Seq(S) /\ SubSeq(s, i + 1, Len(s)) \in Seq(S)
    <3>1. i - 1 \in 0..Len(s) /\ i \in Nat /\ i + 1 \in 1..(Len(s) + 1) BY <2>2
    <3> QED BY <2>2, <3>1
  <2>6. RemoveFirst(s, e) \in Seq(S)
    <3> HIDE DEF i
    <3> QED BY <2>3, <2>5
  <2> QED BY <2>2, <2>3, <2>4, <2>6
<1> QED BY <1>1, <1>2

LEMMA ToolMessages ==
  ASSUME NEW call \in CallId
  PROVE  Message("tool", call) \in Msg
BY DEF Message, Msg, ToolRoles

LEMMA ToolResultTyped ==
  ASSUME NEW c \in Contexts, NEW call \in CallId
  PROVE  toolResult(c, call) \in Contexts
<1>1. Append(c.history, Message("tool", call)) \in Seq(Msg)
  BY ToolMessages, ContextFields
<1>2. RemoveFirst(c.pendingToolResultIds, call) \in Seq(CallId) BY RemoveTyped, ContextFields
<1>3. [c EXCEPT !.history = Append(@, Message("tool", call)),
                !.pendingToolResultIds = RemoveFirst(@, call)] \in Contexts
  BY <1>1, <1>2 DEF Contexts
<1> QED BY <1>3, FlushTyped DEF toolResult

(* The results that close the exchange of c.                               *)
Closings(c) == [i \in DOMAIN c.pendingToolResultIds |->
                  Message("tool", c.pendingToolResultIds[i])]

LEMMA ClosingsTyped ==
  ASSUME NEW c \in Contexts
  PROVE  /\ Closings(c) \in Seq(Msg)
         /\ Len(Closings(c)) = Len(c.pendingToolResultIds)
         /\ \A i \in 1..Len(Closings(c)) :
              Closings(c)[i] = Message("tool", c.pendingToolResultIds[i])
<1> DEFINE p == c.pendingToolResultIds
<1>1. p \in Seq(CallId) BY ContextFields
<1> HIDE DEF p
<1>2. DOMAIN p = 1..Len(p) /\ \A i \in 1..Len(p) : Message("tool", p[i]) \in Msg
  <2>1. \A i \in 1..Len(p) : p[i] \in CallId BY <1>1
  <2> QED BY <1>1, <2>1, ToolMessages
<1>3. Closings(c) = [i \in 1..Len(p) |-> Message("tool", p[i])] BY <1>2 DEF Closings, p
<1> QED BY <1>1, <1>2, <1>3 DEF p

LEMMA CloseTyped ==
  ASSUME NEW c \in Contexts
  PROVE  closePendingToolResults(c) \in Contexts
<1>1. c.history \o Closings(c) \in Seq(Msg) /\ <<>> \in Seq(CallId)
  BY ClosingsTyped, ContextFields
<1>2. [c EXCEPT !.history = @ \o Closings(c), !.pendingToolResultIds = <<>>] \in Contexts
  BY <1>1 DEF Contexts
<1>3. flushDeferred([c EXCEPT !.history = @ \o Closings(c),
                              !.pendingToolResultIds = <<>>]) \in Contexts
  BY <1>2, FlushTyped
<1> QED BY <1>3 DEF closePendingToolResults, Closings

LEMMA FinishTyped ==
  ASSUME NEW c \in Contexts
  PROVE  finishResume(c) \in Contexts
<1>1. [c EXCEPT !.openSteps = {}] \in Contexts BY DEF Contexts
<1> QED BY <1>1, CloseTyped DEF finishResume

LEMMA BeginTyped ==
  ASSUME NEW c \in Contexts, NEW s \in Nat
  PROVE  stepBegin(c, s) \in Contexts
<1> DEFINE closed == closePendingToolResults(c)
<1>1. closed \in Contexts BY CloseTyped
<1>2. Message("assistant", s) \in Msg BY DEF Message, Msg
<1>3. stepBegin(c, s) = [closed EXCEPT !.history = Append(@, Message("assistant", s)),
                                       !.openSteps = @ \cup {s}]
  BY DEF stepBegin
<1> HIDE DEF closed
<1>4. Append(closed.history, Message("assistant", s)) \in Seq(Msg)
      /\ closed.openSteps \cup {s} \in SUBSET Nat
  BY <1>1, <1>2, ContextFields
<1> QED BY <1>1, <1>3, <1>4 DEF Contexts

LEMMA EndTyped ==
  ASSUME NEW c \in Contexts, NEW s \in Nat
  PROVE  stepEnd(c, s) \in Contexts
<1>1. [c EXCEPT !.openSteps = @ \ {s}] \in Contexts BY DEF Contexts
<1> QED BY <1>1, FlushTyped DEF stepEnd

LEMMA WithCallTyped ==
  ASSUME NEW h \in Seq(Msg), NEW call \in CallId
  PROVE  WithCall(h, call) \in Seq(Msg) /\ Len(WithCall(h, call)) = Len(h)
<1>1. \A i \in 1..Len(h) : h[i] \in Msg OBVIOUS
<1>2. \A m \in Msg : [m EXCEPT !.calls = @ \cup {call}] \in Msg BY DEF Msg
<1>3. \A i \in 1..Len(h) : [h[i] EXCEPT !.calls = @ \cup {call}] \in Msg BY <1>1, <1>2
<1>4. DOMAIN h = 1..Len(h) OBVIOUS
<1> QED BY <1>1, <1>3, <1>4 DEF WithCall

LEMMA CallTyped ==
  ASSUME NEW c \in Contexts, NEW call \in CallId
  PROVE  toolCall(c, call) \in Contexts
<1>1. WithCall(c.history, call) \in Seq(Msg) BY WithCallTyped, ContextFields
<1>2. Append(c.pendingToolResultIds, call) \in Seq(CallId) BY ContextFields
<1> QED BY <1>1, <1>2 DEF toolCall, Contexts

LEMMA CompactedTyped ==
  ASSUME NEW c \in Contexts, NEW s \in Nat, NEW n \in Nat
  PROVE  /\ <<Message("summary", s)>> \o SubSeq(c.history, n + 1, Len(c.history)) \in Seq(Msg)
         /\ applyCompaction(c, s, n) \in Contexts
<1>1. Message("summary", s) \in Msg BY DEF Message, Msg
<1>2. SubSeq(c.history, n + 1, Len(c.history)) \in Seq(Msg) BY ContextFields
<1> DEFINE rest == SubSeq(c.history, n + 1, Len(c.history))
<1> HIDE DEF rest
<1>3. <<Message("summary", s)>> \o rest \in Seq(Msg) BY <1>1, <1>2 DEF rest
<1>4. [c EXCEPT !.history = <<Message("summary", s)>> \o rest, !.openSteps = {}] \in Contexts
  BY <1>3 DEF Contexts
<1>5. applyCompaction(c, s, n)
        = flushDeferred([c EXCEPT !.history = <<Message("summary", s)>> \o rest,
                                  !.openSteps = {}])
  BY DEF applyCompaction, rest
<1> QED BY <1>3, <1>4, <1>5, FlushTyped DEF rest

-----------------------------------------------------------------------------
(* Undo.                                                                   *)

Chooses(h, I, f) ==
  /\ f \in [0..Len(h) -> Seq(Msg)]
  /\ f[0] = <<>>
  /\ \A n \in 1..Len(h) : f[n] = IF n \in I THEN Append(f[n - 1], h[n]) ELSE f[n - 1]

LEMMA SelectionExists ==
  ASSUME NEW h \in Seq(Msg), NEW I
  PROVE  \E f : Chooses(h, I, f) /\ Selection(h, I) = f[Len(h)]
<1> DEFINE len == Len(h)
           M == Seq(Msg)
           Step(n, s) == IF n \in I THEN Append(s, h[n]) ELSE s
           Sums(f) == f = [n \in 0..len |-> IF n = 0 THEN <<>> ELSE Step(n, f[n - 1])]
           f == CHOOSE g : Sums(g)
<1>1. len \in Nat OBVIOUS
<1>2. \A n \in 1..len, s \in M : Step(n, s) \in M
  <2>1. \A n \in 1..len : h[n] \in Msg OBVIOUS
  <2> QED BY <2>1
<1>3. Selection(h, I) = f[len] BY DEF Selection
<1> SUFFICES f \in [0..len -> M] /\ f[0] = <<>> /\ \A n \in 1..len : f[n] = Step(n, f[n - 1])
  BY <1>3 DEF Chooses
<1>4. <<>> \in M OBVIOUS
<1> HIDE DEF len, M, Step
<1>5. PICK g \in [0..len -> M] : Sums(g)
  <2> DEFINE step == [n \in 1..len |-> [s \in M |-> Step(n, s)]]
             nil == <<>>
  <2>1. step \in [1..len -> [M -> M]] BY <1>2
  <2>2. \A n \in 1..len, s \in M : step[n][s] = Step(n, s) OBVIOUS
  <2>3. nil \in M BY <1>4
  <2> HIDE DEF step, Sums, nil
  <2>4. Definable(len, M, nil, step) BY <1>1, <2>1, <2>3, Recursion
  <2>5. PICK g \in [0..len -> M] : g[0] = nil /\ \A n \in 1..len : g[n] = step[n][g[n - 1]]
    BY <2>4 DEF Definable
  <2>6. ASSUME NEW n \in 0..len PROVE g[n] = IF n = 0 THEN nil ELSE Step(n, g[n - 1])
    <3>1. CASE n = 0 BY <2>5, <3>1
    <3>2. CASE n # 0
      <4>1. n \in 1..len /\ n - 1 \in 0..len BY <1>1, <3>2
      <4>2. g[n - 1] \in M BY <4>1
      <4> QED BY <2>2, <2>5, <3>2, <4>1, <4>2
    <3> QED BY <3>1, <3>2
  <2>7. g = [n \in 0..len |-> IF n = 0 THEN nil ELSE Step(n, g[n - 1])] BY <2>6
  <2>8. Sums(g) BY <2>7 DEF Sums, nil
  <2> QED BY <2>8
<1>6. Sums(f)
  <2> HIDE DEF Sums
  <2> QED BY <1>5
<1> HIDE DEF f
<1>7. DOMAIN f = 0..len BY <1>6
<1>8. \A n \in 0..len : f[n] = IF n = 0 THEN <<>> ELSE Step(n, f[n - 1]) BY <1>6
<1>9. f = [n \in 0..len |-> f[n]] BY <1>6, <1>7
<1> HIDE DEF Sums
<1>10. f[0] = <<>> /\ \A n \in 1..len : f[n] = Step(n, f[n - 1])
  <2>1. 0 \in 0..len /\ \A n \in 1..len : n \in 0..len /\ n # 0 BY <1>1
  <2> QED BY <1>8, <2>1
<1>11. \A n \in 0..len : f[n] \in M
  <2> DEFINE T == {n \in 0..len : f[n] \notin M}
  <2>1. SUFFICES ASSUME T # {} PROVE FALSE OBVIOUS
  <2>2. PICK n \in T : \A k \in T : n =< k
    <3>1. T \subseteq Nat OBVIOUS
    <3> HIDE DEF T
    <3>2. Min(T) \in T /\ \A k \in T : Min(T) =< k BY <2>1, <3>1, LeastElement
    <3> QED BY <3>2
  <2>3. n \in 0..len /\ f[n] \notin M OBVIOUS
  <2>4. n # 0 BY <1>4, <1>10, <2>3
  <2>5. n \in 1..len /\ n - 1 \in 0..len /\ ~ (n =< n - 1) BY <1>1, <2>3, <2>4
  <2>6. n - 1 \notin T
    <3> HIDE DEF T
    <3> QED BY <2>2, <2>5
  <2>7. f[n - 1] \in M BY <2>5, <2>6
  <2> HIDE DEF T
  <2> QED BY <1>2, <1>10, <2>3, <2>5, <2>7
<1> QED BY <1>9, <1>10, <1>11

(* The positions undo keeps.                                               *)
Spared(h) ==
  LET stop == SelectLastInSeq(h, LAMBDA m : m.role \in {"user", "summary"})
      keep == IF stop > 0 /\ h[stop].role = "user" THEN stop - 1 ELSE stop
  IN  {i \in DOMAIN h : i <= keep \/ h[i].role = "injection"}

Undone(h) == Selection(h, Spared(h))

LEMMA UndoShape ==
  ASSUME NEW c
  PROVE  undo(c) = IF c.history = <<>> THEN c
                   ELSE [EmptyContext EXCEPT !.history = Undone(c.history)]
BY DEF undo, Undone, Spared

LEMMA UndoTyped ==
  ASSUME NEW c \in Contexts
  PROVE  undo(c) \in Contexts /\ Undone(c.history) \in Seq(Msg)
<1> DEFINE h == c.history
<1>1. h \in Seq(Msg) BY ContextFields
<1> HIDE DEF h
<1>2. PICK f : Chooses(h, Spared(h), f) /\ Undone(h) = f[Len(h)]
  BY <1>1, SelectionExists DEF Undone
<1>3. Len(h) \in 0..Len(h) BY <1>1
<1>4. Undone(h) \in Seq(Msg) BY <1>2, <1>3 DEF Chooses
<1>5. [EmptyContext EXCEPT !.history = Undone(h)] \in Contexts
  BY <1>4, EmptyIsContext DEF Contexts
<1> QED BY <1>4, <1>5, UndoShape DEF h

-----------------------------------------------------------------------------
(* Replay.                                                                 *)

LEMMA RecordKinds ==
  ASSUME NEW r \in Records
  PROVE  \/ r.type = "append_message" /\ r.arg \in UserMsg
         \/ r.type \in {"step.begin", "content.part", "step.end"} /\ r.arg \in Nat
         \/ r.type \in {"tool.call", "tool.result"} /\ r.arg \in CallId
         \/ r.type \in {"undo", "clear"}
         \/ r.type = "apply_compaction" /\ r.arg \in Nat \X Nat
BY DEF Records

LEMMA RestoreTyped ==
  ASSUME NEW c \in Contexts, NEW r \in Records
  PROVE  restoreAgentRecord(c, r) \in Contexts
<1>1. CASE r.type = "append_message" /\ r.arg \in UserMsg
  <2>1. <<r.arg>> \in Seq(UserMsg) BY <1>1
  <2>2. appendMessages(c, <<r.arg>>) \in Contexts BY <2>1, AppendTyped
  <2> QED BY <1>1, <2>2 DEF restoreAgentRecord, appendMessage
<1>2. CASE r.type \in {"step.begin", "content.part", "step.end"} /\ r.arg \in Nat
  <2>1. stepBegin(c, r.arg) \in Contexts /\ stepEnd(c, r.arg) \in Contexts
    BY <1>2, BeginTyped, EndTyped
  <2> QED BY <1>2, <2>1 DEF restoreAgentRecord
<1>3. CASE r.type \in {"tool.call", "tool.result"} /\ r.arg \in CallId
  <2>1. toolCall(c, r.arg) \in Contexts /\ toolResult(c, r.arg) \in Contexts
    BY <1>3, CallTyped, ToolResultTyped
  <2> QED BY <1>3, <2>1 DEF restoreAgentRecord
<1>4. CASE r.type \in {"undo", "clear"}
  BY <1>4, UndoTyped, EmptyIsContext DEF restoreAgentRecord
<1>5. CASE r.type = "apply_compaction" /\ r.arg \in Nat \X Nat
  <2>1. r.arg[1] \in Nat /\ r.arg[2] \in Nat BY <1>5
  <2>2. applyCompaction(c, r.arg[1], r.arg[2]) \in Contexts BY <2>1, CompactedTyped
  <2> QED BY <1>5, <2>2 DEF restoreAgentRecord
<1> QED BY <1>1, <1>2, <1>3, <1>4, <1>5, RecordKinds

LEMMA ReplayEquation ==
  ASSUME NEW rs \in Seq(Records)
  PROVE  /\ Replay(rs) \in [0..Len(rs) -> Contexts]
         /\ Replay(rs)[0] = EmptyContext
         /\ \A k \in 1..Len(rs) : Replay(rs)[k] = restoreAgentRecord(Replay(rs)[k - 1], rs[k])
<1> DEFINE len == Len(rs)
           C == Contexts
           Step(n, c) == restoreAgentRecord(c, rs[n])
           Sums(f) == f = [n \in 0..len |-> IF n = 0 THEN EmptyContext ELSE Step(n, f[n - 1])]
           f == Replay(rs)
<1>1. len \in Nat OBVIOUS
<1>2. \A n \in 1..len, c \in C : Step(n, c) \in C
  <2>1. \A n \in 1..len : rs[n] \in Records OBVIOUS
  <2> QED BY <2>1, RestoreTyped
<1>3. f = CHOOSE g : Sums(g) BY DEF Replay
<1> SUFFICES /\ f \in [0..len -> C] /\ f[0] = EmptyContext
             /\ \A n \in 1..len : f[n] = Step(n, f[n - 1])
  OBVIOUS
<1>4. EmptyContext \in C BY EmptyIsContext
<1> HIDE DEF len, C, Step, f
<1>5. PICK g \in [0..len -> C] : Sums(g)
  <2> DEFINE step == [n \in 1..len |-> [c \in C |-> Step(n, c)]]
  <2>1. step \in [1..len -> [C -> C]] BY <1>2
  <2>2. \A n \in 1..len, c \in C : step[n][c] = Step(n, c) OBVIOUS
  <2> HIDE DEF step, Sums
  <2>4. Definable(len, C, EmptyContext, step) BY <1>1, <1>4, <2>1, Recursion
  <2>5. PICK g \in [0..len -> C] : g[0] = EmptyContext
                                   /\ \A n \in 1..len : g[n] = step[n][g[n - 1]]
    BY <2>4 DEF Definable
  <2>6. ASSUME NEW n \in 0..len PROVE g[n] = IF n = 0 THEN EmptyContext ELSE Step(n, g[n - 1])
    <3>1. CASE n = 0 BY <2>5, <3>1
    <3>2. CASE n # 0
      <4>1. n \in 1..len /\ n - 1 \in 0..len BY <1>1, <3>2
      <4>2. g[n - 1] \in C BY <4>1
      <4> QED BY <2>2, <2>5, <3>2, <4>1, <4>2
    <3> QED BY <3>1, <3>2
  <2>7. g = [n \in 0..len |-> IF n = 0 THEN EmptyContext ELSE Step(n, g[n - 1])] BY <2>6
  <2>8. Sums(g) BY <2>7 DEF Sums
  <2> QED BY <2>8
<1>6. Sums(f)
  <2> HIDE DEF Sums
  <2>1. Sums(CHOOSE h : Sums(h)) BY <1>5
  <2> QED BY <1>3, <2>1
<1>7. DOMAIN f = 0..len BY <1>6
<1>8. \A n \in 0..len : f[n] = IF n = 0 THEN EmptyContext ELSE Step(n, f[n - 1]) BY <1>6
<1>9. f = [n \in 0..len |-> f[n]] BY <1>6, <1>7
<1> HIDE DEF Sums
<1>10. f[0] = EmptyContext /\ \A n \in 1..len : f[n] = Step(n, f[n - 1])
  <2>1. 0 \in 0..len /\ \A n \in 1..len : n \in 0..len /\ n # 0 BY <1>1
  <2> QED BY <1>8, <2>1
<1>11. \A n \in 0..len : f[n] \in C
  <2> DEFINE T == {n \in 0..len : f[n] \notin C}
  <2>1. SUFFICES ASSUME T # {} PROVE FALSE OBVIOUS
  <2>2. PICK n \in T : \A k \in T : n =< k
    <3>1. T \subseteq Nat OBVIOUS
    <3> HIDE DEF T
    <3>2. Min(T) \in T /\ \A k \in T : Min(T) =< k BY <2>1, <3>1, LeastElement
    <3> QED BY <3>2
  <2>3. n \in 0..len /\ f[n] \notin C OBVIOUS
  <2>4. n # 0 BY <1>4, <1>10, <2>3
  <2>5. n \in 1..len /\ n - 1 \in 0..len /\ ~ (n =< n - 1) BY <1>1, <2>3, <2>4
  <2>6. n - 1 \notin T
    <3> HIDE DEF T
    <3> QED BY <2>2, <2>5
  <2>7. f[n - 1] \in C BY <2>5, <2>6
  <2> HIDE DEF T
  <2> QED BY <1>2, <1>10, <2>3, <2>5, <2>7
<1> QED BY <1>9, <1>10, <1>11

LEMMA ReplayExtends ==
  ASSUME NEW rs \in Seq(Records), NEW qs \in Seq(Records), Len(rs) =< Len(qs),
         \A k \in 1..Len(rs) : qs[k] = rs[k]
  PROVE  \A k \in 0..Len(rs) : Replay(qs)[k] = Replay(rs)[k]
<1> DEFINE len == Len(rs)
           f == Replay(rs)
           g == Replay(qs)
           T == {k \in 0..len : g[k] # f[k]}
<1>1. len \in Nat OBVIOUS
<1>2. f[0] = EmptyContext /\ \A k \in 1..len : f[k] = restoreAgentRecord(f[k - 1], rs[k])
  BY ReplayEquation
<1>3. g[0] = EmptyContext /\ \A k \in 1..len : g[k] = restoreAgentRecord(g[k - 1], rs[k])
  BY ReplayEquation
<1> SUFFICES \A k \in 0..len : g[k] = f[k] OBVIOUS
<1> HIDE DEF f, g, len
<1>4. SUFFICES ASSUME T # {} PROVE FALSE OBVIOUS
<1>5. PICK n \in T : \A k \in T : n =< k
  <2>1. T \subseteq Nat OBVIOUS
  <2> HIDE DEF T
  <2>2. Min(T) \in T /\ \A k \in T : Min(T) =< k BY <1>4, <2>1, LeastElement
  <2> QED BY <2>2
<1>6. n \in 0..len /\ g[n] # f[n] OBVIOUS
<1>7. n \in 1..len /\ n - 1 \in 0..len /\ ~ (n =< n - 1) BY <1>1, <1>2, <1>3, <1>6
<1>8. n - 1 \notin T
  <2> HIDE DEF T
  <2> QED BY <1>5, <1>7
<1>9. g[n - 1] = f[n - 1] BY <1>7, <1>8
<1> HIDE DEF T
<1> QED BY <1>2, <1>3, <1>6, <1>7, <1>9

(* The contexts a replay passes through.                                   *)
Passes(rs) == {Replay(rs)[k] : k \in 0..Len(rs)}

LEMMA ReplayTyped ==
  ASSUME NEW rs \in Seq(Records)
  PROVE  replay(rs) \in Contexts /\ replay(rs) \in Passes(rs) /\ Passes(rs) \subseteq Contexts
<1>1. Len(rs) \in 0..Len(rs) OBVIOUS
<1>2. Replay(rs) \in [0..Len(rs) -> Contexts] BY ReplayEquation
<1> QED BY <1>1, <1>2 DEF replay, Passes

LEMMA NothingToReplay == replay(<<>>) = EmptyContext /\ Passes(<<>>) = {EmptyContext}
<1>1. <<>> \in Seq(Records) /\ Len(<<>>) = 0 OBVIOUS
<1>2. Replay(<<>>)[0] = EmptyContext BY <1>1, ReplayEquation
<1>3. 0..0 = {0} OBVIOUS
<1> QED BY <1>1, <1>2, <1>3 DEF replay, Passes

(* A prefix of the records.                                                *)
LEMMA PassesPrefix ==
  ASSUME NEW rs \in Seq(Records), NEW n \in 0..Len(rs)
  PROVE  /\ SubSeq(rs, 1, n) \in Seq(Records) /\ Len(SubSeq(rs, 1, n)) = n
         /\ Passes(SubSeq(rs, 1, n)) \subseteq Passes(rs)
         /\ replay(SubSeq(rs, 1, n)) \in Passes(rs)
<1> DEFINE qs == SubSeq(rs, 1, n)
<1>1. qs \in Seq(Records) /\ Len(qs) = n /\ n =< Len(rs) /\ \A k \in 1..Len(qs) : rs[k] = qs[k]
  OBVIOUS
<1>2. Len(rs) \in Nat OBVIOUS
<1> HIDE DEF qs
<1>3. \A k \in 0..n : Replay(rs)[k] = Replay(qs)[k] BY <1>1, ReplayExtends
<1>4. \A k \in 0..n : k \in 0..Len(rs) BY <1>1, <1>2
<1>5. Passes(qs) \subseteq Passes(rs) BY <1>1, <1>3, <1>4 DEF Passes
<1> QED BY <1>1, <1>5, ReplayTyped DEF qs

(* More records take the replay through the sets they lead to.             *)
LEMMA ReplayWithin ==
  ASSUME NEW rs \in Seq(Records), NEW qs \in Seq(Records), NEW G,
         replay(rs) \in G[0],
         \A i \in 1..Len(qs) : \A c \in G[i - 1] :
            c \in Contexts => restoreAgentRecord(c, qs[i]) \in G[i]
  PROVE  /\ \A k \in 0..Len(rs) : Replay(rs \o qs)[k] = Replay(rs)[k]
         /\ \A i \in 0..Len(qs) : /\ Replay(rs \o qs)[Len(rs) + i] \in G[i]
                                  /\ Replay(rs \o qs)[Len(rs) + i] \in Contexts
<1> DEFINE all == rs \o qs
           a == Len(rs)
           b == Len(qs)
           f == Replay(all)
           T == {i \in 0..b : f[a + i] \notin G[i]}
<1>1. /\ a \in Nat /\ b \in Nat /\ Len(all) = a + b /\ all \in Seq(Records)
      /\ \A k \in 1..a : all[k] = rs[k]
      /\ \A i \in 1..b : all[a + i] = qs[i]
  OBVIOUS
<1>2. f \in [0..Len(all) -> Contexts]
      /\ \A k \in 1..Len(all) : f[k] = restoreAgentRecord(f[k - 1], all[k])
  <2> HIDE DEF all
  <2> QED BY <1>1, ReplayEquation
<1>3. \A k \in 0..a : f[k] = Replay(rs)[k]
  <2> HIDE DEF all
  <2>1. Len(rs) =< Len(all) BY <1>1
  <2> QED BY <1>1, <2>1, ReplayExtends
<1>4. f[a] \in G[0]
  <2>1. a \in 0..a BY <1>1
  <2> QED BY <1>3, <2>1 DEF replay
<1> HIDE DEF all
<1>5. \A i \in 1..b : \A c \in G[i - 1] : c \in Contexts => restoreAgentRecord(c, qs[i]) \in G[i]
  OBVIOUS
<1> HIDE DEF f, a, b
<1>6. \A i \in 0..b : f[a + i] \in G[i]
  <2>1. SUFFICES ASSUME T # {} PROVE FALSE OBVIOUS
  <2>2. PICK i \in T : \A k \in T : i =< k
    <3>1. T \subseteq Nat OBVIOUS
    <3> HIDE DEF T
    <3>2. Min(T) \in T /\ \A k \in T : Min(T) =< k BY <2>1, <3>1, LeastElement
    <3> QED BY <3>2
  <2>3. i \in 0..b /\ f[a + i] \notin G[i] OBVIOUS
  <2>4. i # 0
    <3>1. a + 0 = a BY <1>1
    <3> QED BY <1>4, <2>3, <3>1
  <2>5. i \in 1..b /\ i - 1 \in 0..b /\ ~ (i =< i - 1) /\ a + i \in 1..Len(all)
        /\ (a + i) - 1 = a + (i - 1) /\ a + (i - 1) \in 0..Len(all)
    BY <1>1, <2>3, <2>4
  <2>6. i - 1 \notin T
    <3> HIDE DEF T
    <3> QED BY <2>2, <2>5
  <2>7. f[a + (i - 1)] \in G[i - 1] BY <2>5, <2>6
  <2> HIDE DEF T
  <2>8. f[a + i] = restoreAgentRecord(f[(a + i) - 1], all[a + i]) BY <1>2, <2>5
  <2>9. f[a + i] = restoreAgentRecord(f[a + (i - 1)], qs[i]) BY <1>1, <2>5, <2>8
  <2>10. f[a + (i - 1)] \in Contexts BY <1>2, <2>5
  <2> QED BY <1>5, <2>3, <2>5, <2>7, <2>9, <2>10
<1>7. \A i \in 0..b : a + i \in 0..Len(all) BY <1>1
<1>8. \A i \in 0..b : f[a + i] \in Contexts BY <1>2, <1>7
<1> QED BY <1>3, <1>6, <1>8 DEF f, a, b, all

LEMMA ReplayGoesOn ==
  ASSUME NEW rs \in Seq(Records), NEW qs \in Seq(Records), NEW G,
         replay(rs) \in G[0],
         \A i \in 1..Len(qs) : \A c \in G[i - 1] :
            c \in Contexts => restoreAgentRecord(c, qs[i]) \in G[i]
  PROVE  /\ replay(rs \o qs) \in G[Len(qs)]
         /\ \A c \in Passes(rs \o qs) : c \in Passes(rs) \/ \E i \in 1..Len(qs) : c \in G[i]
<1> DEFINE all == rs \o qs
           a == Len(rs)
           b == Len(qs)
           f == Replay(all)
<1>1. a \in Nat /\ b \in Nat /\ Len(all) = a + b OBVIOUS
<1>2. /\ \A k \in 0..a : f[k] = Replay(rs)[k]
      /\ \A i \in 0..b : f[a + i] \in G[i]
  BY ReplayWithin
<1>3. Passes(all) = {f[k] : k \in 0..Len(all)} /\ Passes(rs) = {Replay(rs)[k] : k \in 0..a}
  BY DEF Passes
<1>4. replay(all) = f[Len(all)] BY DEF replay
<1> HIDE DEF f, a, b, all
<1>5. f[Len(all)] \in G[b]
  <2>1. b \in 0..b BY <1>1
  <2> QED BY <1>1, <1>2, <2>1
<1>6. \A k \in 0..Len(all) : k \in 0..a \/ k - a \in 1..b BY <1>1
<1>7. ASSUME NEW c \in Passes(all) PROVE c \in Passes(rs) \/ \E i \in 1..b : c \in G[i]
  <2>1. PICK k \in 0..Len(all) : c = f[k] BY <1>3
  <2>2. CASE k \in 0..a BY <1>2, <1>3, <2>1, <2>2
  <2>3. CASE k - a \in 1..b
    <3>1. k - a \in 0..b /\ a + (k - a) = k BY <1>1, <2>3
    <3>2. f[k] \in G[k - a] BY <1>2, <3>1
    <3> QED BY <2>1, <2>3, <3>2
  <2> QED BY <1>6, <2>2, <2>3
<1> QED BY <1>4, <1>5, <1>7 DEF all, a, b

LEMMA ReplayOneMore ==
  ASSUME NEW rs \in Seq(Records), NEW r \in Records
  PROVE  /\ replay(rs \o <<r>>) = restoreAgentRecord(replay(rs), r)
         /\ \A c \in Passes(rs \o <<r>>) : c \in Passes(rs) \/ c = restoreAgentRecord(replay(rs), r)
<1> DEFINE d == restoreAgentRecord(replay(rs), r)
           G == [i \in 0..1 |-> IF i = 0 THEN {replay(rs)} ELSE {d}]
           qs == <<r>>
<1>1. qs \in Seq(Records) /\ Len(qs) = 1 /\ qs[1] = r OBVIOUS
<1>2. 1..1 = {1} /\ 1 - 1 = 0 /\ 0 \in 0..1 /\ 1 \in 0..1 OBVIOUS
<1>3. G[0] = {replay(rs)} /\ G[1] = {d} BY <1>2
<1> HIDE DEF qs, G, d
<1>4. \A i \in 1..Len(qs) : \A c \in G[i - 1] : c \in Contexts => restoreAgentRecord(c, qs[i]) \in G[i]
  BY <1>1, <1>2, <1>3 DEF d
<1>5. replay(rs) \in G[0] BY <1>3
<1>6. replay(rs \o qs) \in G[Len(qs)]
      /\ \A c \in Passes(rs \o qs) : c \in Passes(rs) \/ \E i \in 1..Len(qs) : c \in G[i]
  BY <1>1, <1>4, <1>5, ReplayGoesOn
<1>7. replay(rs \o qs) = d
      /\ \A c \in Passes(rs \o qs) : c \in Passes(rs) \/ c = d
  BY <1>1, <1>2, <1>3, <1>6
<1> QED BY <1>7 DEF qs, d

-----------------------------------------------------------------------------
(* What a step logs, and what that does to the conversation.               *)

(* The records qs, applied one after the other, lead from c to d.          *)
Leads(f, c, qs, d) ==
  /\ f \in [0..Len(qs) -> Contexts]
  /\ f[0] = c /\ f[Len(qs)] = d
  /\ \A i \in 1..Len(qs) : f[i] = restoreAgentRecord(f[i - 1], qs[i])

Follows(c, qs, d) == \E f : Leads(f, c, qs, d)

LEMMA FollowsNothing ==
  ASSUME NEW c \in Contexts
  PROVE  Follows(c, <<>>, c)
<1> DEFINE f == [i \in 0..0 |-> c]
<1>1. Len(<<>>) = 0 /\ 0 \in 0..0 /\ 1..0 = {} OBVIOUS
<1>2. f \in [0..0 -> Contexts] /\ f[0] = c OBVIOUS
<1>3. Leads(f, c, <<>>, c) BY <1>1, <1>2 DEF Leads
<1> QED BY <1>3 DEF Follows

LEMMA FollowsOne ==
  ASSUME NEW c \in Contexts, NEW r \in Records
  PROVE  Follows(c, <<r>>, restoreAgentRecord(c, r))
<1> DEFINE d == restoreAgentRecord(c, r)
           f == [i \in 0..1 |-> IF i = 0 THEN c ELSE d]
<1>1. d \in Contexts BY RestoreTyped
<1> HIDE DEF d
<1>2. 0 \in 0..1 /\ 1 \in 0..1 /\ 1..1 = {1} /\ 1 - 1 = 0 /\ Len(<<r>>) = 1 OBVIOUS
<1>3. f \in [0..1 -> Contexts] /\ f[0] = c /\ f[1] = d BY <1>1, <1>2
<1> HIDE DEF f
<1>4. Leads(f, c, <<r>>, d) BY <1>2, <1>3 DEF Leads, d
<1> QED BY <1>4 DEF Follows, d

LEMMA FollowsBoth ==
  ASSUME NEW c, NEW d, NEW e, NEW qs \in Seq(Records), NEW ps \in Seq(Records),
         Follows(c, qs, d), Follows(d, ps, e)
  PROVE  Follows(c, qs \o ps, e)
<1> DEFINE all == qs \o ps
           a == Len(qs)
           b == Len(ps)
<1>1. PICK f : Leads(f, c, qs, d) BY DEF Follows
<1>2. PICK g : Leads(g, d, ps, e) BY DEF Follows
<1>3. /\ a \in Nat /\ b \in Nat /\ Len(all) = a + b
      /\ \A i \in 1..a : all[i] = qs[i]
      /\ \A i \in (a + 1)..(a + b) : all[i] = ps[i - a]
  OBVIOUS
<1>4. /\ f \in [0..a -> Contexts] /\ f[0] = c /\ f[a] = d
      /\ \A i \in 1..a : f[i] = restoreAgentRecord(f[i - 1], qs[i])
  BY <1>1 DEF Leads
<1>5. /\ g \in [0..b -> Contexts] /\ g[0] = d /\ g[b] = e
      /\ \A i \in 1..b : g[i] = restoreAgentRecord(g[i - 1], ps[i])
  BY <1>2 DEF Leads
<1> SUFFICES \E h : Leads(h, c, all, e) BY DEF Follows
<1> HIDE DEF all, a, b
<1> DEFINE h == [i \in 0..(a + b) |-> IF i \in 0..a THEN f[i] ELSE g[i - a]]
<1>6. h \in [0..(a + b) -> Contexts]
  <2>1. \A i \in 0..(a + b) : i \in 0..a \/ i - a \in 0..b BY <1>3
  <2> QED BY <1>4, <1>5, <2>1
<1>7. h[0] = c BY <1>3, <1>4
<1>8. h[a + b] = e
  <2>1. CASE b = 0
    <3>1. a + b = a /\ a \in 0..a /\ a \in 0..(a + b) BY <1>3, <2>1
    <3> QED BY <1>4, <1>5, <2>1, <3>1
  <2>2. CASE b # 0
    <3>1. a + b \notin 0..a /\ (a + b) - a = b /\ a + b \in 0..(a + b) BY <1>3, <2>2
    <3> QED BY <1>5, <3>1
  <2> QED BY <2>1, <2>2
<1>9. ASSUME NEW i \in 1..(a + b) PROVE h[i] = restoreAgentRecord(h[i - 1], all[i])
  <2>1. i \in 0..(a + b) /\ i - 1 \in 0..(a + b) BY <1>3
  <2>2. CASE i \in 1..a
    <3>1. i \in 0..a /\ i - 1 \in 0..a BY <1>3, <2>2
    <3> QED BY <1>3, <1>4, <2>1, <2>2, <3>1
  <2>3. CASE i \notin 1..a
    <3>1. i \notin 0..a /\ i - a \in 1..b /\ i \in (a + 1)..(a + b) BY <1>3, <2>3
    <3>2. h[i] = g[i - a] BY <2>1, <3>1
    <3>3. h[i - 1] = g[(i - a) - 1]
      <4>1. CASE i - 1 \in 0..a
        <5>1. i - 1 = a /\ (i - a) - 1 = 0 BY <1>3, <3>1, <4>1
        <5> QED BY <1>4, <1>5, <2>1, <4>1, <5>1
      <4>2. CASE i - 1 \notin 0..a
        <5>1. (i - 1) - a = (i - a) - 1 BY <1>3
        <5> QED BY <2>1, <4>2, <5>1
      <4> QED BY <4>1, <4>2
    <3> QED BY <1>3, <1>5, <3>1, <3>2, <3>3
  <2> QED BY <2>2, <2>3
<1> HIDE DEF h
<1>10. Leads(h, c, all, e) BY <1>3, <1>6, <1>7, <1>8, <1>9 DEF Leads
<1> QED BY <1>10

LEMMA FollowsKeeps ==
  ASSUME NEW c, NEW d, NEW qs \in Seq(Records), Follows(c, qs, d), NEW G, c \in G[0],
         \A i \in 1..Len(qs) : \A x \in G[i - 1] :
            x \in Contexts => restoreAgentRecord(x, qs[i]) \in G[i]
  PROVE  d \in G[Len(qs)] /\ d \in Contexts
<1> DEFINE b == Len(qs)
<1>1. PICK f : Leads(f, c, qs, d) BY DEF Follows
<1>2. /\ f \in [0..b -> Contexts] /\ f[0] = c /\ f[b] = d
      /\ \A i \in 1..b : f[i] = restoreAgentRecord(f[i - 1], qs[i])
  BY <1>1 DEF Leads
<1>3. b \in Nat OBVIOUS
<1>4. \A i \in 1..b : \A x \in G[i - 1] : x \in Contexts => restoreAgentRecord(x, qs[i]) \in G[i]
  OBVIOUS
<1> DEFINE T == {i \in 0..b : f[i] \notin G[i]}
<1> HIDE DEF b
<1>5. \A i \in 0..b : f[i] \in G[i]
  <2>1. SUFFICES ASSUME T # {} PROVE FALSE OBVIOUS
  <2>2. PICK i \in T : \A k \in T : i =< k
    <3>1. T \subseteq Nat OBVIOUS
    <3> HIDE DEF T
    <3>2. Min(T) \in T /\ \A k \in T : Min(T) =< k BY <2>1, <3>1, LeastElement
    <3> QED BY <3>2
  <2>3. i \in 0..b /\ f[i] \notin G[i] OBVIOUS
  <2>4. i # 0 BY <1>2, <2>3
  <2>5. i \in 1..b /\ i - 1 \in 0..b /\ ~ (i =< i - 1) BY <1>3, <2>3, <2>4
  <2>6. i - 1 \notin T
    <3> HIDE DEF T
    <3> QED BY <2>2, <2>5
  <2>7. f[i - 1] \in G[i - 1] BY <2>5, <2>6
  <2> HIDE DEF T
  <2> QED BY <1>2, <1>4, <2>3, <2>5, <2>7
<1>6. b \in 0..b BY <1>3
<1> QED BY <1>2, <1>5, <1>6 DEF b

(* A replay follows the records it replays.                                *)
LEMMA ReplayFollows ==
  ASSUME NEW rs \in Seq(Records), NEW qs \in Seq(Records), NEW d,
         Follows(replay(rs), qs, d)
  PROVE  replay(rs \o qs) = d
<1> DEFINE b == Len(qs)
<1>1. PICK f : Leads(f, replay(rs), qs, d) BY DEF Follows
<1>2. /\ f \in [0..b -> Contexts] /\ f[0] = replay(rs) /\ f[b] = d
      /\ \A i \in 1..b : f[i] = restoreAgentRecord(f[i - 1], qs[i])
  BY <1>1 DEF Leads
<1>3. b \in Nat OBVIOUS
<1> DEFINE G == [i \in 0..b |-> {f[i]}]
<1>4. \A i \in 1..b : i \in 0..b /\ i - 1 \in 0..b BY <1>3
<1>5. \A i \in 1..Len(qs) : \A x \in G[i - 1] :
         x \in Contexts => restoreAgentRecord(x, qs[i]) \in G[i]
  BY <1>2, <1>4
<1>6. replay(rs) \in G[0] BY <1>2, <1>3
<1>7. G[b] = {d}
  <2>1. b \in 0..b BY <1>3
  <2> QED BY <1>2, <2>1
<1> HIDE DEF G
<1>8. replay(rs \o qs) \in G[b] BY <1>5, <1>6, ReplayGoesOn
<1> QED BY <1>7, <1>8

LEMMA ConcatAssociates ==
  ASSUME NEW S, NEW s \in Seq(S), NEW t \in Seq(S), NEW u \in Seq(S)
  PROVE  (s \o t) \o u = s \o (t \o u)
<1> DEFINE a == (s \o t) \o u
           b == s \o (t \o u)
           n == Len(s) + Len(t) + Len(u)
<1>1. a \in Seq(S) /\ b \in Seq(S) /\ Len(a) = n /\ Len(b) = n /\ n \in Nat OBVIOUS
<1>2. \A i \in 1..n : a[i] = b[i] OBVIOUS
<1> HIDE DEF a, b, n
<1>3. a = [i \in 1..n |-> a[i]] /\ b = [i \in 1..n |-> b[i]] BY <1>1
<1>4. a = b BY <1>2, <1>3
<1> QED BY <1>4 DEF a, b

LEMMA AppendJoined ==
  ASSUME NEW s \in Seq(Msg), NEW t \in Seq(Msg), NEW m \in Msg
  PROVE  Append(s \o t, m) = s \o Append(t, m)
<1> DEFINE u == <<m>>
<1>1. u \in Seq(Msg) /\ s \o t \in Seq(Msg) OBVIOUS
<1>2. \A x \in Seq(Msg) : Append(x, m) = x \o u OBVIOUS
<1> HIDE DEF u
<1>3. (s \o t) \o u = s \o (t \o u) BY <1>1, ConcatAssociates
<1> QED BY <1>1, <1>2, <1>3

LEMMA AppendNothing ==
  ASSUME NEW c \in Contexts
  PROVE  appendMessages(c, <<>>) = c
<1>1. c.history \o <<>> = c.history /\ c.deferredMessages \o <<>> = c.deferredMessages
  BY ContextFields
<1> QED BY <1>1 DEF appendMessages, Contexts

LEMMA AppendMore ==
  ASSUME NEW c \in Contexts, NEW ms \in Seq(UserMsg), NEW ns \in Seq(UserMsg)
  PROVE  appendMessages(appendMessages(c, ms), ns) = appendMessages(c, ms \o ns)
<1>1. ms \in Seq(Msg) /\ ns \in Seq(Msg) BY UserSequences
<1>2. (c.history \o ms) \o ns = c.history \o (ms \o ns)
  <2> DEFINE h == c.history
  <2>1. h \in Seq(Msg) BY ContextFields
  <2> HIDE DEF h
  <2>2. (h \o ms) \o ns = h \o (ms \o ns) BY <1>1, <2>1, ConcatAssociates, SMTT(30)
  <2> QED BY <2>2 DEF h
<1>3. (c.deferredMessages \o ms) \o ns = c.deferredMessages \o (ms \o ns)
  <2> DEFINE h == c.deferredMessages
  <2>1. h \in Seq(UserMsg) BY ContextFields
  <2> HIDE DEF h
  <2>2. (h \o ms) \o ns = h \o (ms \o ns) BY <2>1, ConcatAssociates
  <2> QED BY <2>2 DEF h
<1>4. CASE hasOpenToolExchange(c)
  <2>1. appendMessages(c, ms) = [c EXCEPT !.deferredMessages = @ \o ms]
    BY <1>4 DEF appendMessages
  <2>2. hasOpenToolExchange(appendMessages(c, ms)) BY <1>4, <2>1 DEF hasOpenToolExchange, Contexts
  <2> QED BY <1>3, <1>4, <2>1, <2>2 DEF appendMessages, Contexts
<1>5. CASE ~ hasOpenToolExchange(c)
  <2>1. appendMessages(c, ms) = [c EXCEPT !.history = @ \o ms]
    BY <1>5 DEF appendMessages
  <2>2. ~ hasOpenToolExchange(appendMessages(c, ms)) BY <1>5, <2>1 DEF hasOpenToolExchange, Contexts
  <2> QED BY <1>2, <1>5, <2>1, <2>2 DEF appendMessages, Contexts
<1> QED BY <1>4, <1>5

LEMMA MessageRecordsTyped ==
  ASSUME NEW ms \in Seq(UserMsg)
  PROVE  /\ MessageRecords(ms) \in Seq(Records) /\ Len(MessageRecords(ms)) = Len(ms)
         /\ \A i \in 1..Len(ms) :
              MessageRecords(ms)[i] = Record("append_message", ms[i]) /\ ms[i] \in UserMsg
<1>1. \A i \in 1..Len(ms) : ms[i] \in UserMsg OBVIOUS
<1>2. \A m \in UserMsg : Record("append_message", m) \in Records BY DEF Record, Records
<1>3. MessageRecords(ms) = [i \in 1..Len(ms) |-> Record("append_message", ms[i])]
  BY DEF MessageRecords
<1> QED BY <1>1, <1>2, <1>3

LEMMA RestoreMessage ==
  ASSUME NEW c \in Contexts, NEW m \in UserMsg
  PROVE  restoreAgentRecord(c, Record("append_message", m)) = appendMessages(c, <<m>>)
BY DEF restoreAgentRecord, Record, throws, appendMessage

LEMMA MessagesFollow ==
  ASSUME NEW c \in Contexts, NEW ms \in Seq(UserMsg)
  PROVE  Follows(c, MessageRecords(ms), appendMessages(c, ms))
<1> DEFINE n == Len(ms)
           first(i) == SubSeq(ms, 1, i)
           f == [i \in 0..n |-> appendMessages(c, first(i))]
           qs == MessageRecords(ms)
<1>1. /\ n \in Nat /\ first(0) = <<>> /\ first(n) = ms
      /\ \A i \in 0..n : first(i) \in Seq(UserMsg)
  OBVIOUS
<1>2. \A i \in 1..n : first(i) = first(i - 1) \o <<ms[i]>> OBVIOUS
<1>3. \A i \in 1..n : ms[i] \in UserMsg /\ <<ms[i]>> \in Seq(UserMsg) OBVIOUS
<1>4. Len(qs) = n /\ \A i \in 1..n : qs[i] = Record("append_message", ms[i])
  BY MessageRecordsTyped
<1> HIDE DEF n, first, qs
<1>5. f \in [0..n -> Contexts] BY <1>1, AppendTyped
<1>6. f[0] = c /\ f[n] = appendMessages(c, ms)
  <2>1. 0 \in 0..n /\ n \in 0..n BY <1>1
  <2> QED BY <1>1, <2>1, AppendNothing
<1>7. ASSUME NEW i \in 1..n PROVE f[i] = restoreAgentRecord(f[i - 1], qs[i])
  <2>1. i \in 0..n /\ i - 1 \in 0..n BY <1>1
  <2>2. first(i - 1) \in Seq(UserMsg) BY <1>1, <2>1
  <2>3. appendMessages(c, first(i - 1)) \in Contexts BY <2>2, AppendTyped
  <2>4. restoreAgentRecord(appendMessages(c, first(i - 1)), qs[i])
          = appendMessages(appendMessages(c, first(i - 1)), <<ms[i]>>)
    BY <1>3, <1>4, <2>3, RestoreMessage
  <2>5. appendMessages(appendMessages(c, first(i - 1)), <<ms[i]>>) = appendMessages(c, first(i))
    BY <1>2, <1>3, <2>2, AppendMore, ZenonT(40)
  <2> QED BY <2>1, <2>4, <2>5
<1> HIDE DEF f
<1>8. Leads(f, c, qs, appendMessages(c, ms)) BY <1>4, <1>5, <1>6, <1>7 DEF Leads
<1> QED BY <1>8 DEF Follows, qs

(* What closing an exchange leaves.                                        *)
LEMMA ClosedShape ==
  ASSUME NEW c \in Contexts
  PROVE  closePendingToolResults(c) =
           IF c.pendingToolResultIds = <<>> THEN c
           ELSE [history |-> (c.history \o Closings(c)) \o c.deferredMessages,
                 openSteps |-> c.openSteps, pendingToolResultIds |-> <<>>,
                 deferredMessages |-> <<>>]
<1> DEFINE more == Closings(c)
           d == [c EXCEPT !.history = @ \o more, !.pendingToolResultIds = <<>>]
<1>1. closePendingToolResults(c) = IF c.pendingToolResultIds = <<>> THEN c ELSE flushDeferred(d)
  BY DEF closePendingToolResults, Closings, hasOpenToolExchange
<1> HIDE DEF more
<1>2. d = [history |-> c.history \o more, openSteps |-> c.openSteps,
           pendingToolResultIds |-> <<>>, deferredMessages |-> c.deferredMessages]
  <2>1. c = [history |-> c.history, openSteps |-> c.openSteps,
                 pendingToolResultIds |-> c.pendingToolResultIds,
                 deferredMessages |-> c.deferredMessages]
    BY ContextFields
  <2> DEFINE x == c.history \o more
             e == [c EXCEPT !.history = x, !.pendingToolResultIds = <<>>]
  <2> HIDE DEF x
  <2>2. e \in [history : {x}, openSteps : {c.openSteps}, pendingToolResultIds : {<<>>},
               deferredMessages : {c.deferredMessages}]
    BY <2>1
  <2> HIDE DEF e
  <2>3. e = [history |-> x, openSteps |-> c.openSteps, pendingToolResultIds |-> <<>>,
             deferredMessages |-> c.deferredMessages]
    BY <2>2
  <2> QED BY <2>3 DEF e, x
<1>2a. /\ d.history = c.history \o more /\ d.pendingToolResultIds = <<>>
       /\ d.openSteps = c.openSteps /\ d.deferredMessages = c.deferredMessages
  BY <1>2
<1>3. ~ hasOpenToolExchange(d) BY <1>2a DEF hasOpenToolExchange
<1> HIDE DEF d
<1>4. flushDeferred(d) = [d EXCEPT !.history = @ \o d.deferredMessages, !.deferredMessages = <<>>]
  BY <1>3 DEF flushDeferred
<1>5. flushDeferred(d) = [history |-> (c.history \o more) \o c.deferredMessages,
                          openSteps |-> c.openSteps, pendingToolResultIds |-> <<>>,
                          deferredMessages |-> <<>>]
  BY <1>2, <1>4
<1> QED BY <1>1, <1>5 DEF more

LEMMA NothingPending ==
  ASSUME NEW c \in Contexts
  PROVE  /\ closePendingToolResults(c).pendingToolResultIds = <<>>
         /\ finishResume(c).pendingToolResultIds = <<>>
         /\ \A s \in Nat : stepBegin(c, s).pendingToolResultIds = <<>>
<1>1. \A d \in Contexts : closePendingToolResults(d).pendingToolResultIds = <<>>
  <2> TAKE d \in Contexts
  <2>1. CASE d.pendingToolResultIds = <<>> BY <2>1, ClosedShape
  <2>2. CASE d.pendingToolResultIds # <<>>
    <3>1. closePendingToolResults(d)
            = [history |-> (d.history \o Closings(d)) \o d.deferredMessages,
               openSteps |-> d.openSteps, pendingToolResultIds |-> <<>>,
               deferredMessages |-> <<>>]
      BY <2>2, ClosedShape
    <3> QED BY <3>1
  <2> QED BY <2>1, <2>2
<1>2. [c EXCEPT !.openSteps = {}] \in Contexts BY DEF Contexts
<1>3. finishResume(c).pendingToolResultIds = <<>> BY <1>1, <1>2 DEF finishResume
<1>4. \A s \in Nat : stepBegin(c, s).pendingToolResultIds = <<>>
  <2> TAKE s \in Nat
  <2>1. closePendingToolResults(c) \in Contexts BY CloseTyped
  <2>2. stepBegin(c, s).pendingToolResultIds = closePendingToolResults(c).pendingToolResultIds
    BY <2>1 DEF stepBegin, Contexts
  <2> QED BY <1>1, <2>2
<1> QED BY <1>1, <1>3, <1>4

LEMMA InterruptedTyped ==
  ASSUME NEW c \in Contexts
  PROVE  /\ InterruptedResults(c) \in Seq(Records)
         /\ Len(InterruptedResults(c)) = Len(c.pendingToolResultIds)
         /\ \A i \in 1..Len(c.pendingToolResultIds) :
              InterruptedResults(c)[i] = Record("tool.result", c.pendingToolResultIds[i])
              /\ c.pendingToolResultIds[i] \in CallId
<1> DEFINE p == c.pendingToolResultIds
<1>1. p \in Seq(CallId) BY ContextFields
<1>2. InterruptedResults(c) = [i \in DOMAIN p |-> Record("tool.result", p[i])]
  BY DEF InterruptedResults
<1>3. \A x \in CallId : Record("tool.result", x) \in Records BY DEF Record, Records
<1> HIDE DEF p
<1>4. DOMAIN p = 1..Len(p) /\ \A i \in 1..Len(p) : p[i] \in CallId BY <1>1
<1>5. InterruptedResults(c) = [i \in 1..Len(p) |-> Record("tool.result", p[i])] BY <1>2, <1>4
<1> QED BY <1>1, <1>3, <1>4, <1>5 DEF p

LEMMA RestoreResult ==
  ASSUME NEW c \in Contexts, NEW call \in CallId
  PROVE  restoreAgentRecord(c, Record("tool.result", call)) = toolResult(c, call)
BY DEF restoreAgentRecord, Record, throws

(* Results nobody waits for.                                               *)
LEMMA IdleResultsFollow ==
  ASSUME NEW c \in Contexts, NEW d \in Contexts, d.pendingToolResultIds = <<>>
  PROVE  Follows(d, InterruptedResults(c), d)
<1> DEFINE n == Len(c.pendingToolResultIds)
           f == [i \in 0..n |-> d]
           qs == InterruptedResults(c)
<1>1. n \in Nat BY ContextFields
<1>2. Len(qs) = n /\ \A i \in 1..n : qs[i] = Record("tool.result", c.pendingToolResultIds[i])
                                     /\ c.pendingToolResultIds[i] \in CallId
  BY InterruptedTyped
<1>3. ASSUME NEW call \in CallId PROVE restoreAgentRecord(d, Record("tool.result", call)) = d
  <2>1. call \notin Range(d.pendingToolResultIds) BY DEF Range
  <2> QED BY <2>1, RestoreResult DEF toolResult
<1> HIDE DEF n, qs
<1>4. f \in [0..n -> Contexts] /\ f[0] = d /\ f[n] = d BY <1>1
<1>5. \A i \in 1..n : i \in 0..n /\ i - 1 \in 0..n BY <1>1
<1>6. \A i \in 1..n : f[i] = restoreAgentRecord(f[i - 1], qs[i]) BY <1>2, <1>3, <1>5
<1> HIDE DEF f
<1>7. Leads(f, d, qs, d) BY <1>2, <1>4, <1>6 DEF Leads
<1> QED BY <1>7 DEF Follows, qs

LEMMA RemoveHead ==
  ASSUME NEW S, NEW s \in Seq(S), s # <<>>
  PROVE  RemoveFirst(s, s[1]) = Tail(s) /\ s[1] \in Range(s) /\ Len(s) \in Nat /\ Len(s) >= 1
<1>1. Len(s) \in Nat /\ Len(s) >= 1 /\ 1 \in 1..Len(s) OBVIOUS
<1>2. s[1] \in Range(s) BY <1>1 DEF Range
<1>3. PICK i \in 1..Len(s) : /\ s[i] = s[1]
                             /\ \A j \in 1..(i - 1) : s[j] # s[1]
                             /\ RemoveFirst(s, s[1]) = SubSeq(s, 1, i - 1) \o SubSeq(s, i + 1, Len(s))
  BY <1>2, RemoveTyped
<1>4. i = 1
  <2>1. ASSUME i # 1 PROVE FALSE
    <3>1. 1 \in 1..(i - 1) BY <1>3, <2>1
    <3> QED BY <1>3, <3>1
  <2> QED BY <2>1
<1>5. RemoveFirst(s, s[1]) = SubSeq(s, 1, 0) \o SubSeq(s, 2, Len(s)) BY <1>3, <1>4
<1>6. SubSeq(s, 1, 0) = <<>> OBVIOUS
<1>7. <<>> \o SubSeq(s, 2, Len(s)) = Tail(s) BY <1>1
<1> QED BY <1>1, <1>2, <1>5, <1>6, <1>7

LEMMA RestOf ==
  ASSUME NEW S, NEW s \in Seq(S), NEW n, n = Len(s), NEW i \in 1..n
  PROVE  SubSeq(s, i, n)[1] = s[i] /\ Tail(SubSeq(s, i, n)) = SubSeq(s, i + 1, n)
<1> DEFINE c == SubSeq(s, i, n)
           a == SubSeq(s, i + 1, n)
           b == Tail(c)
           k == n - i
<1>1. n \in Nat /\ k \in Nat OBVIOUS
<1>2. c \in Seq(S) /\ Len(c) = k + 1 /\ \A j \in 1..(k + 1) : c[j] = s[(i + j) - 1] BY <1>1
<1>3. a \in Seq(S) /\ Len(a) = k /\ \A j \in 1..k : a[j] = s[i + j] BY <1>1
<1>4. 1 \in 1..(k + 1) /\ (i + 1) - 1 = i BY <1>1
<1>5. c[1] = s[i] BY <1>2, <1>4
<1>6. \A j \in 1..k : j + 1 \in 1..(k + 1) /\ (i + (j + 1)) - 1 = i + j BY <1>1
<1> HIDE DEF c, a, k
<1>7. b \in Seq(S) /\ Len(b) = k /\ \A j \in 1..k : b[j] = c[j + 1] BY <1>1, <1>2
<1>8. \A j \in 1..k : a[j] = b[j] BY <1>2, <1>3, <1>6, <1>7
<1> HIDE DEF b
<1>9. a = [j \in 1..k |-> a[j]] /\ b = [j \in 1..k |-> b[j]] BY <1>3, <1>7
<1>10. a = b BY <1>8, <1>9
<1> QED BY <1>5, <1>10 DEF a, b, c

LEMMA ResultShape ==
  ASSUME NEW c \in Contexts, NEW call \in CallId, call \in Range(c.pendingToolResultIds)
  PROVE  LET h == Append(c.history, Message("tool", call))
             p == RemoveFirst(c.pendingToolResultIds, call)
         IN  toolResult(c, call) =
               IF p = <<>>
                 THEN [history |-> h \o c.deferredMessages, openSteps |-> c.openSteps,
                       pendingToolResultIds |-> <<>>, deferredMessages |-> <<>>]
                 ELSE [history |-> h, openSteps |-> c.openSteps,
                       pendingToolResultIds |-> p, deferredMessages |-> c.deferredMessages]
<1> DEFINE h == Append(c.history, Message("tool", call))
           p == RemoveFirst(c.pendingToolResultIds, call)
           d == [c EXCEPT !.history = h, !.pendingToolResultIds = p]
<1>1. toolResult(c, call) = flushDeferred(d) BY DEF toolResult
<1> HIDE DEF h, p
<1>2. d \in [history : {h}, openSteps : {c.openSteps}, pendingToolResultIds : {p},
             deferredMessages : {c.deferredMessages}]
  BY DEF Contexts
<1> HIDE DEF d
<1>3. d = [history |-> h, openSteps |-> c.openSteps, pendingToolResultIds |-> p,
           deferredMessages |-> c.deferredMessages]
  BY <1>2
<1> DEFINE g == h \o c.deferredMessages
           e == [d EXCEPT !.history = g, !.deferredMessages = <<>>]
<1>4. flushDeferred(d) = IF p # <<>> THEN d ELSE e
  BY <1>3 DEF flushDeferred, hasOpenToolExchange
<1> HIDE DEF g
<1>5. e \in [history : {g}, openSteps : {c.openSteps}, pendingToolResultIds : {p},
             deferredMessages : {<<>>}]
  BY <1>2
<1> HIDE DEF e
<1>6. e = [history |-> g, openSteps |-> c.openSteps, pendingToolResultIds |-> p,
           deferredMessages |-> <<>>]
  BY <1>5
<1>7. toolResult(c, call) =
        IF p = <<>> THEN [history |-> g, openSteps |-> c.openSteps,
                          pendingToolResultIds |-> <<>>, deferredMessages |-> <<>>]
        ELSE [history |-> h, openSteps |-> c.openSteps, pendingToolResultIds |-> p,
              deferredMessages |-> c.deferredMessages]
  BY <1>1, <1>3, <1>4, <1>6
<1> QED BY <1>7 DEF g, h, p

(* Closing an exchange is what its interrupted results do.                 *)
LEMMA CloseFollows ==
  ASSUME NEW c \in Contexts
  PROVE  Follows(c, InterruptedResults(c), closePendingToolResults(c))
<1> DEFINE h == c.history
           o == c.openSteps
           p == c.pendingToolResultIds
           u == c.deferredMessages
           n == Len(p)
           cl == Closings(c)
           qs == InterruptedResults(c)
           closed == closePendingToolResults(c)
<1>1. h \in Seq(Msg) /\ o \in SUBSET Nat /\ p \in Seq(CallId) /\ u \in Seq(UserMsg) /\ n \in Nat
      /\ c = [history |-> h, openSteps |-> o, pendingToolResultIds |-> p, deferredMessages |-> u]
  BY ContextFields
<1>2. /\ closed = IF p = <<>> THEN c
                  ELSE [history |-> (h \o cl) \o u, openSteps |-> o,
                        pendingToolResultIds |-> <<>>, deferredMessages |-> <<>>]
      /\ closed \in Contexts
  BY ClosedShape, CloseTyped
<1>3. cl \in Seq(Msg) /\ Len(cl) = n /\ \A i \in 1..n : cl[i] = Message("tool", p[i])
  BY ClosingsTyped
<1>4. Len(qs) = n /\ qs \in Seq(Records)
      /\ \A i \in 1..n : qs[i] = Record("tool.result", p[i]) /\ p[i] \in CallId
  BY InterruptedTyped
<1> SUFFICES Follows(c, qs, closed) OBVIOUS
<1>5. CASE p = <<>>
  <2>1. n = 0 BY <1>5
  <2> HIDE DEF qs, n, closed
  <2>2. qs = <<>> BY <1>4, <2>1
  <2>3. closed = c BY <1>2, <1>5
  <2> QED BY <2>2, <2>3, FollowsNothing
<1>6. CASE p # <<>>
  <2>1. n >= 1 /\ p \in Seq(CallId) /\ n = Len(p) BY <1>1, <1>6
  <2> HIDE DEF h, o, p, u, cl, qs, closed
  <2> DEFINE first(i) == SubSeq(cl, 1, i)
             rest(i) == SubSeq(p, i + 1, n)
             part(i) == [history |-> h \o first(i), openSteps |-> o,
                         pendingToolResultIds |-> rest(i), deferredMessages |-> u]
             f == [i \in 0..n |-> IF i = n THEN closed ELSE part(i)]
  <2>2. /\ first(0) = <<>> /\ first(n) = cl /\ \A i \in 0..n : first(i) \in Seq(Msg)
        /\ \A i \in 1..n : first(i) = Append(first(i - 1), cl[i])
    BY <1>1, <1>3
  <2>3. /\ rest(0) = p /\ rest(n) = <<>> /\ \A i \in 0..n : rest(i) \in Seq(CallId)
        /\ \A i \in 1..n : rest(i - 1) # <<>> /\ rest(i - 1)[1] = p[i] /\ rest(i) = Tail(rest(i - 1))
        /\ \A i \in 0..n : i # n => rest(i) # <<>>
    <3>1. rest(0) = p /\ rest(n) = <<>> BY <2>1
    <3>2. \A i \in 0..n : rest(i) \in Seq(CallId) /\ Len(rest(i)) = n - i BY <1>1, <2>1
    <3>3. ASSUME NEW i \in 1..n PROVE rest(i - 1)[1] = p[i] /\ rest(i) = Tail(rest(i - 1))
      <4>1. i - 1 \in 0..n /\ i \in 0..n BY <1>1
      <4>2. i = (i - 1) + 1 BY <1>1
      <4>3. rest(i - 1) = SubSeq(p, i, n) BY <4>2
      <4> QED BY <2>1, <4>3, RestOf
    <3> HIDE DEF rest
    <3>4. \A i \in 0..n : i # n => rest(i) # <<>>
      <4> TAKE i \in 0..n
      <4>1. i # n => Len(rest(i)) # 0 BY <1>1, <3>2
      <4> QED BY <4>1
    <3>5. \A i \in 1..n : rest(i - 1) # <<>>
      <4> TAKE i \in 1..n
      <4>1. i - 1 \in 0..n /\ i - 1 # n BY <1>1
      <4> QED BY <3>4, <4>1
    <3> QED BY <3>1, <3>2, <3>3, <3>4, <3>5
  <2> HIDE DEF first, rest, n
  <2>4. \A i \in 0..n : part(i) \in Contexts
    <3> TAKE i \in 0..n
    <3>1. h \o first(i) \in Seq(Msg) BY <1>1, <2>2
    <3> QED BY <1>1, <2>3, <3>1, MakeContext
  <2>5. ASSUME NEW i \in 1..n
        PROVE  restoreAgentRecord(part(i - 1), qs[i]) = IF i = n THEN closed ELSE part(i)
    <3>1. i - 1 \in 0..n /\ i \in 0..n BY <1>1
    <3> DEFINE d == part(i - 1)
               call == p[i]
    <3>2. d \in Contexts /\ call \in CallId BY <1>4, <2>4, <3>1
    <3>3. /\ d.history = h \o first(i - 1) /\ d.openSteps = o
          /\ d.pendingToolResultIds = rest(i - 1) /\ d.deferredMessages = u
      OBVIOUS
    <3>4. rest(i - 1) \in Seq(CallId) /\ rest(i - 1) # <<>> /\ call = rest(i - 1)[1] BY <2>3, <3>1
    <3>5. call \in Range(rest(i - 1)) /\ RemoveFirst(rest(i - 1), call) = rest(i)
      BY <2>3, <3>4, RemoveHead
    <3>6. restoreAgentRecord(d, qs[i]) = toolResult(d, call)
      BY <1>4, <3>2, RestoreResult
    <3>7. Append(h \o first(i - 1), Message("tool", call)) = h \o first(i)
      <4>1. cl[i] = Message("tool", call) /\ cl[i] \in Msg BY <1>3
      <4>2. first(i - 1) \in Seq(Msg) BY <2>2, <3>1
      <4>3. first(i) = Append(first(i - 1), cl[i]) BY <2>2
      <4> DEFINE s == first(i - 1)
                 m == cl[i]
      <4> HIDE DEF s, m, call
      <4>4. s \in Seq(Msg) /\ m \in Msg BY <4>1, <4>2 DEF s, m
      <4>5. Append(h \o s, m) = (h \o s) \o <<m>> /\ Append(s, m) = s \o <<m>> /\ <<m>> \in Seq(Msg)
        BY <1>1, <4>4
      <4>6. (h \o s) \o <<m>> = h \o (s \o <<m>>) BY <1>1, <4>4, <4>5, ConcatAssociates
      <4>7. Append(h \o s, m) = h \o Append(s, m) BY <4>5, <4>6
      <4> QED BY <4>1, <4>3, <4>7 DEF s, m
    <3> HIDE DEF d, call
    <3>8. toolResult(d, call) =
            IF rest(i) = <<>>
              THEN [history |-> (h \o first(i)) \o u, openSteps |-> o,
                    pendingToolResultIds |-> <<>>, deferredMessages |-> <<>>]
              ELSE [history |-> h \o first(i), openSteps |-> o,
                    pendingToolResultIds |-> rest(i), deferredMessages |-> u]
      BY <3>2, <3>3, <3>5, <3>7, ResultShape
    <3>9. CASE i = n
      <4>1. rest(i) = <<>> /\ first(i) = cl BY <2>2, <2>3, <3>9
      <4> QED BY <1>2, <1>6, <3>6, <3>8, <3>9, <4>1 DEF d
    <3>10. CASE i # n
      <4>1. rest(i) # <<>> BY <2>3, <3>1, <3>10
      <4> QED BY <3>6, <3>8, <3>10, <4>1 DEF d
    <3> QED BY <3>9, <3>10
  <2>6. part(0) = c
    <3>1. h \o <<>> = h BY <1>1
    <3> QED BY <1>1, <2>2, <2>3, <3>1
  <2> HIDE DEF part
  <2>7. f \in [0..n -> Contexts]
    <3>1. closed \in Contexts BY <1>2
    <3> QED BY <2>4, <3>1
  <2>8. f[0] = c /\ f[n] = closed
    <3>1. 0 \in 0..n /\ n \in 0..n /\ n # 0 BY <1>1, <2>1
    <3> QED BY <2>6, <3>1
  <2>9. ASSUME NEW i \in 1..n PROVE f[i] = restoreAgentRecord(f[i - 1], qs[i])
    <3>1. i \in 0..n /\ i - 1 \in 0..n /\ i - 1 # n BY <1>1
    <3> QED BY <2>5, <3>1
  <2> HIDE DEF f
  <2>10. Leads(f, c, qs, closed) BY <1>4, <2>7, <2>8, <2>9 DEF Leads
  <2> QED BY <2>10 DEF Follows
<1> QED BY <1>5, <1>6

-----------------------------------------------------------------------------
(* The type invariant, and what a step logs.                               *)

Places == {"unborn", "launched", "ready", "inject", "stream", "streamed", "calls", "results",
           "seal", "blocked", "pending", "overflowed", "ended"}

Workers == [pc : Places, cancelled : BOOLEAN, step : Nat, calls : Nat, recorded : Nat,
            returned : Nat]

Compactions == [on : BOOLEAN, original : Seq(Msg), compactedCount : Nat]

Uses == [scenario : Scenarios, turns : Nat, steps : Nat, notices : Nat, appended : Nat,
         compactions : Nat, edits : Nat, crashes : Nat]

TypeInv ==
  /\ context \in Contexts
  /\ records \in Seq(Records) /\ synced \in 0..Len(records)
  /\ turn \in [Turn -> Workers]
  /\ activeTurn \in 0..MaxTurns
  /\ steerBuffer \in Nat
  /\ compaction \in Compactions
  /\ used \in Uses

IsMessage(r) == r.type = "append_message"

(* The messages among the records are numbered after a, up to b.           *)
Counts(qs, a, b) ==
  /\ a =< b
  /\ \A i \in 1..Len(qs) : IsMessage(qs[i]) => qs[i].arg.id \in (a + 1)..b
  /\ \A i, j \in 1..Len(qs) :
       i < j /\ IsMessage(qs[i]) /\ IsMessage(qs[j]) => qs[i].arg.id < qs[j].arg.id

(* What the state says about a record that is about to be logged.          *)
Warranted(r) ==
  /\ r.type = "step.begin" => r.arg = used.steps + 1
  /\ r.type = "content.part" =>
       \E t \in Turn : turn[t].pc = "stream" /\ r.arg = turn[t].step
  /\ r.type = "tool.call" =>
       \E t \in Turn : turn[t].pc = "calls" /\ r.arg = <<turn[t].step, turn[t].recorded + 1>>
  /\ r.type = "apply_compaction" =>
       /\ compaction.on /\ SamePrefix(context.history, compaction.original)
       /\ r.arg[2] = compaction.compactedCount

Alone == {"content.part", "tool.call", "apply_compaction"}

(* No step begins twice.                                                   *)
Begins(r) == r.type = "step.begin"

BeginsOnce(qs) ==
  \A i \in 1..Len(qs) : Begins(qs[i]) =>
    used'.steps = used.steps + 1 /\ \A j \in 1..Len(qs) : Begins(qs[j]) => i = j

Logs(qs) ==
  /\ qs \in Seq(Records)
  /\ records' = records \o qs
  /\ Follows(context, qs, context')
  /\ Counts(qs, used.appended, used'.appended)
  /\ \A i \in 1..Len(qs) : Warranted(qs[i]) /\ (qs[i].type \in Alone => Len(qs) = 1)
  /\ BeginsOnce(qs)

LogStep == \E qs : Logs(qs)

(* A compaction that failed has cut a tool result.                         *)
PruneStep ==
  /\ compaction.on
  /\ \E i \in DOMAIN context.history : context.history[i].role \in ToolRoles
  /\ context' = replaceHistory(context)
  /\ records' = records /\ used' = used /\ compaction' = Idle

LEMMA LogsNothing ==
  ASSUME TypeInv, UNCHANGED <<context, records>>, used'.appended = used.appended
  PROVE  LogStep
<1>1. records \o <<>> = records BY DEF TypeInv
<1>2. Follows(context, <<>>, context) BY FollowsNothing DEF TypeInv
<1>3. used.appended \in Nat BY DEF TypeInv, Uses
<1>4. <<>> \in Seq(Records) /\ Len(<<>>) = 0 /\ 1..0 = {} OBVIOUS
<1>5. Counts(<<>>, used.appended, used.appended) BY <1>3, <1>4 DEF Counts
<1>6. BeginsOnce(<<>>) BY <1>4 DEF BeginsOnce
<1>7. Logs(<<>>) BY <1>1, <1>2, <1>4, <1>5, <1>6 DEF Logs
<1> QED BY <1>7 DEF LogStep

LEMMA LogsOne ==
  ASSUME TypeInv, NEW r \in Records, records' = records \o <<r>>,
         context' = restoreAgentRecord(context, r), ~ IsMessage(r), ~ Begins(r),
         used'.appended = used.appended, Warranted(r)
  PROVE  LogStep
<1> DEFINE qs == <<r>>
<1>1. qs \in Seq(Records) /\ Len(qs) = 1 /\ qs[1] = r /\ 1..1 = {1} OBVIOUS
<1>2. Follows(context, qs, context') BY FollowsOne DEF TypeInv
<1>3. used.appended \in Nat BY DEF TypeInv, Uses
<1> HIDE DEF qs
<1>4. \A i \in 1..Len(qs) : qs[i] = r /\ i = 1 BY <1>1
<1>5. Counts(qs, used.appended, used'.appended) BY <1>3, <1>4 DEF Counts
<1>6. BeginsOnce(qs) BY <1>4 DEF BeginsOnce
<1>7. Logs(qs) BY <1>1, <1>2, <1>4, <1>5, <1>6 DEF Logs, qs
<1> QED BY <1>7 DEF LogStep

LEMMA NumberedMessages ==
  ASSUME TypeInv, NEW role \in UserRoles, NEW n \in Nat
  PROVE  /\ Numbered(role, n) \in Seq(UserMsg) /\ Len(Numbered(role, n)) = n
         /\ Counts(MessageRecords(Numbered(role, n)), used.appended, used.appended + n)
         /\ \A i \in 1..Len(MessageRecords(Numbered(role, n))) :
              MessageRecords(Numbered(role, n))[i].type = "append_message"
<1> DEFINE a == used.appended
           ms == Numbered(role, n)
           qs == MessageRecords(ms)
<1>1. a \in Nat BY DEF TypeInv, Uses
<1>2. ms = [i \in 1..n |-> Message(role, a + i)] BY DEF Numbered
<1> HIDE DEF a
<1>3. \A i \in 1..n : Message(role, a + i) \in UserMsg BY <1>1 DEF Message, UserMsg
<1>4. ms \in Seq(UserMsg) /\ Len(ms) = n /\ \A i \in 1..n : ms[i] = Message(role, a + i)
  BY <1>2, <1>3
<1> HIDE DEF ms
<1>5. Len(qs) = n /\ \A i \in 1..n : qs[i] = Record("append_message", ms[i])
  BY <1>4, MessageRecordsTyped
<1> HIDE DEF qs
<1>6. \A i \in 1..n : qs[i].type = "append_message" /\ qs[i].arg.id = a + i
  BY <1>4, <1>5 DEF Record, Message
<1>7. Counts(qs, a, a + n) BY <1>1, <1>5, <1>6 DEF Counts
<1> QED BY <1>4, <1>5, <1>6, <1>7 DEF a, ms, qs

LEMMA LogsMessages ==
  ASSUME TypeInv, NEW role \in UserRoles, NEW n \in Nat,
         records' = records \o MessageRecords(Numbered(role, n)),
         context' = appendMessages(context, Numbered(role, n)),
         used'.appended = used.appended + n
  PROVE  LogStep
<1> DEFINE ms == Numbered(role, n)
           qs == MessageRecords(ms)
<1>1. /\ ms \in Seq(UserMsg) /\ Counts(qs, used.appended, used.appended + n)
      /\ \A i \in 1..Len(qs) : qs[i].type = "append_message"
  BY NumberedMessages
<1> HIDE DEF ms
<1>2. qs \in Seq(Records) BY <1>1, MessageRecordsTyped
<1>3. Follows(context, qs, appendMessages(context, ms)) BY <1>1, MessagesFollow DEF TypeInv
<1>4. Follows(context, qs, context') BY <1>3 DEF ms
<1> HIDE DEF qs
<1>5. \A i \in 1..Len(qs) : Warranted(qs[i]) /\ qs[i].type \notin Alone
  BY <1>1 DEF Warranted, Alone
<1>6. BeginsOnce(qs) BY <1>1 DEF BeginsOnce, Begins
<1>7. Logs(qs) BY <1>1, <1>2, <1>4, <1>5, <1>6 DEF Logs, ms, qs
<1> QED BY <1>7 DEF LogStep

LEMMA CountsOn ==
  ASSUME NEW qs \in Seq(Records), NEW ps \in Seq(Records), NEW a \in Nat, NEW b \in Nat,
         NEW c \in Nat, Counts(qs, a, b), Counts(ps, b, c)
  PROVE  Counts(qs \o ps, a, c)
<1> DEFINE all == qs \o ps
           m == Len(qs)
           n == Len(ps)
<1>1. /\ m \in Nat /\ n \in Nat /\ Len(all) = m + n
      /\ \A i \in 1..(m + n) : \/ i \in 1..m /\ all[i] = qs[i]
                               \/ i - m \in 1..n /\ i > m /\ all[i] = ps[i - m]
  OBVIOUS
<1>2. /\ a =< b /\ \A i \in 1..m : IsMessage(qs[i]) => qs[i].arg.id \in (a + 1)..b
      /\ \A i, j \in 1..m : i < j /\ IsMessage(qs[i]) /\ IsMessage(qs[j])
                              => qs[i].arg.id < qs[j].arg.id
  BY DEF Counts
<1>3. /\ b =< c /\ \A i \in 1..n : IsMessage(ps[i]) => ps[i].arg.id \in (b + 1)..c
      /\ \A i, j \in 1..n : i < j /\ IsMessage(ps[i]) /\ IsMessage(ps[j])
                              => ps[i].arg.id < ps[j].arg.id
  BY DEF Counts
<1> HIDE DEF all, m, n
<1>4. \A i \in 1..(m + n) : IsMessage(all[i]) => all[i].arg.id \in (a + 1)..c
  <2> TAKE i \in 1..(m + n)
  <2>1. CASE i \in 1..m /\ all[i] = qs[i]
    <3>1. IsMessage(qs[i]) => qs[i].arg.id \in (a + 1)..b BY <1>2, <2>1
    <3> QED BY <1>3, <2>1, <3>1
  <2>2. CASE i - m \in 1..n /\ all[i] = ps[i - m]
    <3>1. IsMessage(ps[i - m]) => ps[i - m].arg.id \in (b + 1)..c BY <1>3, <2>2
    <3> QED BY <1>2, <2>2, <3>1
  <2> QED BY <1>1, <2>1, <2>2
<1>5. ASSUME NEW i \in 1..(m + n), NEW j \in 1..(m + n), i < j,
             IsMessage(all[i]), IsMessage(all[j])
      PROVE  all[i].arg.id < all[j].arg.id
  <2>1. CASE j \in 1..m /\ all[j] = qs[j]
    <3>1. i \in 1..m /\ ~ (i > m) BY <1>1, <1>5, <2>1
    <3>2. all[i] = qs[i] BY <1>1, <3>1
    <3> QED BY <1>2, <1>5, <2>1, <3>1, <3>2
  <2>2. CASE j - m \in 1..n /\ j > m /\ all[j] = ps[j - m]
    <3>1. CASE i \in 1..m /\ all[i] = qs[i]
      <4>1. qs[i].arg.id \in (a + 1)..b /\ ps[j - m].arg.id \in (b + 1)..c
        BY <1>2, <1>3, <1>5, <2>2, <3>1
      <4>2. \A x \in (a + 1)..b, y \in (b + 1)..c : x < y OBVIOUS
      <4>3. qs[i].arg.id < ps[j - m].arg.id BY <4>1, <4>2
      <4> QED BY <2>2, <3>1, <4>3
    <3>2. CASE i - m \in 1..n /\ i > m /\ all[i] = ps[i - m]
      <4>1. i - m < j - m BY <1>1, <1>5
      <4> QED BY <1>3, <1>5, <2>2, <3>2, <4>1
    <3> QED BY <1>1, <3>1, <3>2
  <2> QED BY <1>1, <2>1, <2>2
<1>6. a =< c BY <1>2, <1>3
<1>7. Counts(all, a, c)
  <2>1. \A i, j \in 1..(m + n) : i < j /\ IsMessage(all[i]) /\ IsMessage(all[j])
                                   => all[i].arg.id < all[j].arg.id
    BY <1>5
  <2> QED BY <1>1, <1>4, <1>6, <2>1 DEF Counts
<1> QED BY <1>7 DEF all

LEMMA CountsNone ==
  ASSUME NEW qs \in Seq(Records), NEW a \in Nat, \A i \in 1..Len(qs) : ~ IsMessage(qs[i])
  PROVE  Counts(qs, a, a)
BY DEF Counts

LEMMA LogsBeginStep ==
  ASSUME TypeInv, NEW t \in Turn, beginStep(t)
  PROVE  LogStep
<1>1. PICK injects \in Injections :
        LET step   == used.steps + 1
            before == appendMessages(context, injects)
        IN  /\ context' = stepBegin(before, step)
            /\ records' = records \o (MessageRecords(injects) \o <<Record("step.begin", step)>>
                                        \o InterruptedResults(before))
            /\ used' = [used EXCEPT !.steps = step, !.notices = @ + Len(injects),
                                    !.appended = @ + Len(injects)]
  BY DEF beginStep, Log
<1>2. PICK n \in 0..1 : injects = Numbered("injection", n)
  BY DEF Injections
<1> DEFINE step == used.steps + 1
           before == appendMessages(context, injects)
           begun == stepBegin(before, step)
           a == used.appended
           A == MessageRecords(injects)
           r == Record("step.begin", step)
           C == InterruptedResults(before)
<1>3. a \in Nat /\ step \in Nat /\ used \in Uses /\ n \in Nat BY DEF TypeInv, Uses
<1>4. "injection" \in UserRoles BY DEF UserRoles
<1>5. /\ injects \in Seq(UserMsg) /\ Len(injects) = n /\ Counts(A, a, a + n)
      /\ \A i \in 1..Len(A) : A[i].type = "append_message"
  BY <1>2, <1>3, <1>4, NumberedMessages
<1>6. before \in Contexts BY <1>5, AppendTyped DEF TypeInv
<1>7. Follows(context, A, before) BY <1>5, MessagesFollow DEF TypeInv
<1>8. A \in Seq(Records) BY <1>5, MessageRecordsTyped
<1> HIDE DEF A, before, step
<1>9. r \in Records /\ r.type = "step.begin" /\ r.arg = step BY <1>3 DEF Record, Records
<1>10. restoreAgentRecord(before, r) = begun BY <1>9 DEF restoreAgentRecord, throws
<1>11. begun \in Contexts /\ begun.pendingToolResultIds = <<>>
  BY <1>3, <1>6, BeginTyped, NothingPending
<1>12. Follows(before, <<r>>, begun) BY <1>6, <1>9, <1>10, FollowsOne
<1>13. C \in Seq(Records) /\ \A i \in 1..Len(C) : C[i].type = "tool.result"
  <2>1. /\ C \in Seq(Records) /\ Len(C) = Len(before.pendingToolResultIds)
        /\ \A i \in 1..Len(C) : C[i] = Record("tool.result", before.pendingToolResultIds[i])
    BY <1>6, InterruptedTyped
  <2>2. \A x : Record("tool.result", x).type = "tool.result" BY DEF Record
  <2> HIDE DEF C
  <2> QED BY <2>1, <2>2
<1>14. Follows(begun, C, begun) BY <1>6, <1>11, IdleResultsFollow
<1> HIDE DEF begun, r, C
<1> DEFINE AB == A \o <<r>>
           qs == AB \o C
<1>15. <<r>> \in Seq(Records) /\ AB \in Seq(Records) BY <1>8, <1>9
<1>16. Follows(context, AB, begun) BY <1>7, <1>8, <1>12, <1>15, FollowsBoth
<1>17. Follows(context, qs, begun)
  <2> HIDE DEF AB
  <2> QED BY <1>13, <1>14, <1>15, <1>16, FollowsBoth
<1>18. Counts(qs, a, a + n)
  <2>1. a + n \in Nat BY <1>3
  <2>2. Counts(<<r>>, a + n, a + n)
    <3>1. \A i \in 1..Len(<<r>>) : ~ IsMessage(<<r>>[i]) BY <1>9 DEF IsMessage
    <3> QED BY <1>15, <2>1, <3>1, CountsNone
  <2>3. Counts(AB, a, a + n) BY <1>3, <1>5, <1>8, <1>15, <2>1, <2>2, CountsOn
  <2>4. Counts(C, a + n, a + n)
    <3>1. \A i \in 1..Len(C) : ~ IsMessage(C[i]) BY <1>13 DEF IsMessage
    <3> QED BY <1>13, <2>1, <3>1, CountsNone
  <2> HIDE DEF AB
  <2> QED BY <1>3, <1>13, <1>15, <2>1, <2>3, <2>4, CountsOn
<1>19. \A i \in 1..Len(AB) : \/ AB[i] = r /\ i = Len(AB)
                            \/ AB[i].type = "append_message"
  <2>1. Len(AB) = Len(A) + 1 /\ Len(A) \in Nat BY <1>8
  <2>2. \A i \in 1..Len(AB) : i \in 1..Len(A) \/ i = Len(A) + 1 BY <2>1
  <2>3. AB[Len(A) + 1] = r /\ \A i \in 1..Len(A) : AB[i] = A[i] BY <1>8
  <2> HIDE DEF AB
  <2> QED BY <1>5, <2>2, <2>3
<1>20. \A i \in 1..Len(qs) : \/ qs[i] = r /\ i = Len(AB)
                            \/ qs[i].type \in {"append_message", "tool.result"}
  <2> HIDE DEF AB
  <2>1. Len(qs) = Len(AB) + Len(C) /\ Len(AB) \in Nat /\ Len(C) \in Nat BY <1>13, <1>15
  <2>2. \A i \in 1..Len(qs) : \/ i \in 1..Len(AB) /\ qs[i] = AB[i]
                              \/ i - Len(AB) \in 1..Len(C) /\ qs[i] = C[i - Len(AB)]
    BY <1>13, <1>15
  <2> QED BY <1>13, <1>19, <2>2
<1>21. qs \in Seq(Records) BY <1>13, <1>15
<1>22. context' = begun /\ records' = records \o qs BY <1>1 DEF A, begun, before, step, r, C
<1>23. used'.appended = a + n /\ used'.steps = used.steps + 1 BY <1>1, <1>3, <1>5 DEF Uses
<1> HIDE DEF qs, AB
<1>24. \A i \in 1..Len(qs) : Warranted(qs[i]) /\ qs[i].type \notin Alone
  BY <1>9, <1>20 DEF Warranted, Alone, step
<1>25. Logs(qs)
  <2>1. Counts(qs, used.appended, used'.appended) BY <1>18, <1>23
  <2>2. Follows(context, qs, context') BY <1>17, <1>22
  <2>3. BeginsOnce(qs) BY <1>20, <1>23 DEF BeginsOnce, Begins
  <2> QED BY <1>21, <1>22, <1>24, <2>1, <2>2, <2>3 DEF Logs
<1> QED BY <1>25 DEF LogStep

LEMMA LogsEndStep ==
  ASSUME TypeInv, NEW t \in Turn, endStep(t)
  PROVE  LogStep
<1> DEFINE s == turn[t].step
           r == Record("step.end", s)
           sealed == stepEnd(context, s)
           a == used.appended
           n == steerBuffer
           steers == Numbered("notice", n)
           B == MessageRecords(steers)
<1>1. /\ a \in Nat /\ used \in Uses /\ n \in Nat /\ s \in Nat /\ context \in Contexts
      /\ records \in Seq(Records)
  BY DEF TypeInv, Uses, Workers
<1>2. r \in Records /\ r.type = "step.end" /\ r.arg = s BY <1>1 DEF Record, Records
<1>3. restoreAgentRecord(context, r) = sealed BY <1>2 DEF restoreAgentRecord, throws
<1>4. CASE UNCHANGED <<context, records, used>> BY <1>4, LogsNothing
<1>5. CASE context' = sealed /\ records' = records \o <<r>> /\ used' = used
  <2>1. Warranted(r) /\ ~ IsMessage(r) /\ ~ Begins(r) BY <1>2 DEF Warranted, IsMessage, Begins
  <2> HIDE DEF r, sealed
  <2> QED BY <1>2, <1>3, <1>5, <2>1, LogsOne
<1>6. CASE /\ context' = appendMessages(sealed, steers)
           /\ records' = records \o (<<r>> \o B)
           /\ used' = [used EXCEPT !.appended = @ + n]
  <2>1. sealed \in Contexts BY <1>1, EndTyped
  <2>2. "notice" \in UserRoles BY DEF UserRoles
  <2>3. /\ steers \in Seq(UserMsg) /\ Counts(B, a, a + n)
        /\ \A i \in 1..Len(B) : B[i].type = "append_message"
    BY <1>1, <2>2, NumberedMessages
  <2> HIDE DEF steers, sealed
  <2>4. Follows(sealed, B, appendMessages(sealed, steers)) BY <2>1, <2>3, MessagesFollow
  <2>5. B \in Seq(Records) /\ <<r>> \in Seq(Records) BY <1>2, <2>3, MessageRecordsTyped
  <2>6. Follows(context, <<r>>, sealed) BY <1>1, <1>2, <1>3, FollowsOne
  <2> HIDE DEF B, r
  <2> DEFINE qs == <<r>> \o B
  <2>7. Follows(context, qs, context') BY <1>6, <2>4, <2>5, <2>6, FollowsBoth
  <2>8. Counts(qs, a, a + n)
    <3>1. Counts(<<r>>, a, a)
      <4>1. \A i \in 1..Len(<<r>>) : ~ IsMessage(<<r>>[i]) BY <1>2 DEF IsMessage
      <4> QED BY <1>1, <2>5, <4>1, CountsNone
    <3>2. a + n \in Nat BY <1>1
    <3> QED BY <1>1, <2>3, <2>5, <3>1, <3>2, CountsOn
  <2>9. \A i \in 1..Len(qs) : qs[i] = r \/ qs[i].type = "append_message"
    <3>1. Len(qs) = 1 + Len(B) /\ Len(B) \in Nat BY <2>5
    <3>2. \A i \in 1..Len(qs) : \/ qs[i] = r
                                \/ i - 1 \in 1..Len(B) /\ qs[i] = B[i - 1]
      BY <2>5
    <3> QED BY <2>3, <3>2
  <2>10. qs \in Seq(Records) BY <2>5
  <2>11. records' = records \o qs /\ used'.appended = a + n BY <1>1, <1>6 DEF Uses
  <2> HIDE DEF qs
  <2>12. \A i \in 1..Len(qs) : Warranted(qs[i]) /\ qs[i].type \notin Alone
    BY <1>2, <2>9 DEF Warranted, Alone
  <2>13. Logs(qs)
    <3>1. Counts(qs, used.appended, used'.appended) BY <2>8, <2>11
    <3>2. BeginsOnce(qs) BY <1>2, <2>9 DEF BeginsOnce, Begins
    <3> QED BY <2>7, <2>10, <2>11, <2>12, <3>1, <3>2 DEF Logs
  <2> QED BY <2>13 DEF LogStep
<1>7. \/ UNCHANGED <<context, records, used>>
      \/ context' = sealed /\ records' = records \o <<r>> /\ used' = used
      \/ /\ context' = appendMessages(sealed, steers)
         /\ records' = records \o (<<r>> \o B)
         /\ used' = [used EXCEPT !.appended = @ + n]
  BY DEF endStep, Log
<1> QED BY <1>4, <1>5, <1>6, <1>7

LEMMA OneMessage ==
  ASSUME TypeInv, NEW role \in UserRoles
  PROVE  Numbered(role, 1) = <<Message(role, used.appended + 1)>>
<1>1. 1..1 = {1} OBVIOUS
<1> QED BY <1>1 DEF Numbered

LEMMA LogsReminder ==
  ASSUME TypeInv, NEW role \in UserRoles,
         context' = appendMessage(context, Message(role, used.appended + 1)),
         records' = records \o MessageRecords(Numbered(role, 1)),
         used'.appended = used.appended + 1
  PROVE  LogStep
<1>1. context' = appendMessages(context, Numbered(role, 1)) BY OneMessage DEF appendMessage
<1>2. 1 \in Nat OBVIOUS
<1> QED BY <1>1, <1>2, LogsMessages

LEMMA LogsWorker ==
  ASSUME TypeInv, NEW t \in Turn, worker(t)
  PROVE  LogStep
<1>0. /\ used \in Uses /\ steerBuffer \in Nat /\ context \in Contexts /\ records \in Seq(Records)
      /\ turn[t] \in Workers
      /\ "notice" \in UserRoles /\ "user" \in UserRoles /\ "injection" \in UserRoles
  BY DEF TypeInv, UserRoles
<1>1. CASE appendPrompt(t)
  <2>1. used'.appended = used.appended + 1 BY <1>0, <1>1 DEF appendPrompt, Uses
  <2> QED BY <1>0, <1>1, <2>1, LogsReminder DEF appendPrompt, Log
<1>2. CASE beforeStep(t)
  <2>1. used'.appended = used.appended + steerBuffer
    BY <1>0, <1>2 DEF beforeStep, flushSteerBuffer, Uses
  <2> QED BY <1>0, <1>2, <2>1, LogsMessages DEF beforeStep, flushSteerBuffer, Log
<1>3. CASE autoCompaction(t)
  <2>1. used'.appended = used.appended BY <1>0, <1>3 DEF autoCompaction, Uses
  <2> QED BY <1>3, <2>1, LogsNothing DEF autoCompaction
<1>4. CASE stopBeforeStep(t)
  <2>1. CASE UNCHANGED <<context, records, used>> BY <2>1, LogsNothing
  <2>2. CASE \E injects \in Injections :
             /\ context' = appendMessages(context, injects)
             /\ Log(MessageRecords(injects))
             /\ used' = [used EXCEPT !.notices = @ + Len(injects), !.appended = @ + Len(injects)]
    <3>1. PICK injects \in Injections :
             /\ context' = appendMessages(context, injects)
             /\ Log(MessageRecords(injects))
             /\ used' = [used EXCEPT !.notices = @ + Len(injects), !.appended = @ + Len(injects)]
      BY <2>2
    <3> PICK n \in 0..1 : injects = Numbered("injection", n) BY DEF Injections
    <3>2. n \in Nat OBVIOUS
    <3>3. Len(Numbered("injection", n)) = n BY <1>0, <3>2, NumberedMessages
    <3>4. used'.appended = used.appended + n BY <1>0, <3>1, <3>3 DEF Uses
    <3> QED BY <1>0, <3>1, <3>2, <3>4, LogsMessages DEF Log
  <2> QED BY <1>4, <2>1, <2>2 DEF stopBeforeStep
<1>5. CASE beginStep(t) BY <1>5, LogsBeginStep
<1>6. CASE contentPart(t)
  <2> DEFINE r == Record("content.part", turn[t].step)
  <2>1. r \in Records /\ r.type = "content.part" /\ r.arg = turn[t].step
    BY <1>0 DEF Record, Records, Workers
  <2>2. /\ turn[t].pc = "stream" /\ records' = records \o <<r>> /\ context' = context
        /\ used' = used
    BY <1>6 DEF contentPart, Log
  <2> HIDE DEF r
  <2>3. restoreAgentRecord(context, r) = context BY <2>1 DEF restoreAgentRecord
  <2>4. Warranted(r) /\ ~ IsMessage(r) /\ ~ Begins(r) BY <2>1, <2>2 DEF Warranted, IsMessage, Begins
  <2> QED BY <2>1, <2>2, <2>3, <2>4, LogsOne
<1>7. CASE requestFails(t) BY <1>7, LogsNothing DEF requestFails
<1>8. CASE handleOverflowError(t)
  <2>1. used'.appended = used.appended BY <1>0, <1>8 DEF handleOverflowError, Uses
  <2> QED BY <1>8, <2>1, LogsNothing DEF handleOverflowError
<1>9. CASE response(t) BY <1>9, LogsNothing DEF response
<1>10. CASE recordToolCall(t)
  <2> DEFINE call == <<turn[t].step, turn[t].recorded + 1>>
             r == Record("tool.call", call)
  <2>1. call \in CallId BY <1>0 DEF Workers, CallId
  <2> HIDE DEF call
  <2>2. r \in Records /\ r.type = "tool.call" /\ r.arg = call BY <2>1 DEF Record, Records
  <2>3. /\ turn[t].pc = "calls" /\ records' = records \o <<r>> /\ used' = used
        /\ context' = IF throws(context, r) THEN context ELSE toolCall(context, call)
    BY <1>10 DEF recordToolCall, Log, call
  <2> HIDE DEF r
  <2>4. restoreAgentRecord(context, r) = context'
    BY <2>2, <2>3 DEF restoreAgentRecord
  <2>5. Warranted(r) /\ ~ IsMessage(r) /\ ~ Begins(r) BY <2>2, <2>3 DEF Warranted, IsMessage, Begins, call
  <2> QED BY <2>2, <2>3, <2>4, <2>5, LogsOne
<1>11. CASE toolReminder(t)
  <2>1. used'.appended = used.appended + 1 BY <1>0, <1>11 DEF toolReminder, Uses
  <2> QED BY <1>0, <1>11, <2>1, LogsReminder DEF toolReminder, Log
<1>12. CASE recordToolResult(t)
  <2> DEFINE call == <<turn[t].step, turn[t].returned + 1>>
             r == Record("tool.result", call)
  <2>1. call \in CallId BY <1>0 DEF Workers, CallId
  <2>2. records' = records \o <<r>> /\ used' = used /\ context' = toolResult(context, call)
    BY <1>12 DEF recordToolResult, Log
  <2> HIDE DEF call
  <2>3. r \in Records /\ r.type = "tool.result" BY <2>1 DEF Record, Records
  <2>4. restoreAgentRecord(context, r) = context'
    BY <1>0, <2>1, <2>2, RestoreResult
  <2> HIDE DEF r
  <2>5. Warranted(r) /\ ~ IsMessage(r) /\ ~ Begins(r) BY <2>3 DEF Warranted, IsMessage, Begins
  <2> QED BY <2>2, <2>3, <2>4, <2>5, LogsOne
<1>13. CASE endStep(t) BY <1>13, LogsEndStep
<1> QED BY <1>1, <1>2, <1>3, <1>4, <1>5, <1>6, <1>7, <1>8, <1>9, <1>10, <1>11, <1>12, <1>13
        DEF worker

LEMMA LogsCompaction ==
  ASSUME TypeInv, compactionDone
  PROVE  LogStep
<1> DEFINE a == used.compactions
           n == compaction.compactedCount
           r == Record("apply_compaction", <<a, n>>)
<1>1. a \in Nat /\ n \in Nat BY DEF TypeInv, Uses, Compactions
<1>2. CASE UNCHANGED <<context, records>> BY <1>2, LogsNothing DEF compactionDone
<1>3. CASE SamePrefix(context.history, compaction.original)
  <2>1. /\ context' = applyCompaction(context, a, n) /\ records' = records \o <<r>>
        /\ used' = used /\ compaction.on
    BY <1>3 DEF compactionDone, Log
  <2> HIDE DEF a, n
  <2>2. r \in Records /\ r.type = "apply_compaction" /\ r.arg = <<a, n>>
    BY <1>1 DEF Record, Records
  <2> HIDE DEF r
  <2>3. r.arg[1] = a /\ r.arg[2] = n BY <2>2
  <2>4. restoreAgentRecord(context, r) = context'
    BY <2>1, <2>2, <2>3 DEF restoreAgentRecord, throws
  <2>5. Warranted(r) /\ ~ IsMessage(r) /\ ~ Begins(r) BY <1>3, <2>1, <2>2, <2>3 DEF Warranted, IsMessage, Begins, n
  <2> QED BY <2>1, <2>2, <2>4, <2>5, LogsOne
<1> QED BY <1>2, <1>3 DEF compactionDone

LEMMA StepLogs ==
  ASSUME TypeInv, [Next]_vars
  PROVE  LogStep \/ PruneStep \/ crash
<1>0. used \in Uses /\ "notice" \in UserRoles BY DEF TypeInv, UserRoles
<1>1. CASE launch
  <2>1. used'.appended = used.appended BY <1>0, <1>1 DEF launch, Uses
  <2> QED BY <1>1, <2>1, LogsNothing DEF launch
<1>2. CASE steer
  <2>1. used'.appended = used.appended BY <1>0, <1>2 DEF steer, Uses
  <2> QED BY <1>2, <2>1, LogsNothing DEF steer
<1>3. CASE cancel BY <1>3, LogsNothing DEF cancel
<1>4. CASE remind
  <2>1. used'.appended = used.appended + 1 BY <1>0, <1>4 DEF remind, Uses
  <2> QED BY <1>0, <1>4, <2>1, LogsReminder DEF remind, Log
<1>5. CASE undoHistory
  <2> DEFINE r == Record("undo", 1)
  <2>1. r \in Records /\ r.type = "undo" BY DEF Record, Records
  <2>2. used'.appended = used.appended BY <1>0, <1>5 DEF undoHistory, Uses
  <2>3. records' = records \o <<r>> /\ context' = undo(context) BY <1>5 DEF undoHistory, Log
  <2> HIDE DEF r
  <2>4. restoreAgentRecord(context, r) = context' BY <2>1, <2>3 DEF restoreAgentRecord, throws
  <2>5. Warranted(r) /\ ~ IsMessage(r) /\ ~ Begins(r) BY <2>1 DEF Warranted, IsMessage, Begins
  <2> QED BY <2>1, <2>2, <2>3, <2>4, <2>5, LogsOne
<1>6. CASE clearContext
  <2> DEFINE r == Record("clear", 0)
  <2>1. r \in Records /\ r.type = "clear" BY DEF Record, Records
  <2>2. used'.appended = used.appended BY <1>0, <1>6 DEF clearContext, Uses
  <2>3. records' = records \o <<r>> /\ context' = EmptyContext BY <1>6 DEF clearContext, Log
  <2> HIDE DEF r
  <2>4. restoreAgentRecord(context, r) = context' BY <2>1, <2>3 DEF restoreAgentRecord, throws
  <2>5. Warranted(r) /\ ~ IsMessage(r) /\ ~ Begins(r) BY <2>1 DEF Warranted, IsMessage, Begins
  <2> QED BY <2>1, <2>2, <2>3, <2>4, <2>5, LogsOne
<1>7. CASE \E t \in Turn : worker(t) BY <1>7, LogsWorker
<1>8. CASE manualCompaction
  <2>1. used'.appended = used.appended BY <1>0, <1>8 DEF manualCompaction, Uses
  <2> QED BY <1>8, <2>1, LogsNothing DEF manualCompaction
<1>9. CASE compactionDone BY <1>9, LogsCompaction
<1>10. CASE cancelCompaction BY <1>10, LogsNothing DEF cancelCompaction
<1>11. CASE compactionFails
  <2>1. CASE UNCHANGED context BY <1>11, <2>1, LogsNothing DEF compactionFails
  <2>2. CASE ~ UNCHANGED context BY <1>11, <2>2 DEF compactionFails, PruneStep
  <2> QED BY <2>1, <2>2
<1>12. CASE crash BY <1>12
<1>13. CASE UNCHANGED vars BY <1>13, LogsNothing DEF vars
<1> QED BY <1>1, <1>2, <1>3, <1>4, <1>5, <1>6, <1>7, <1>8, <1>9, <1>10, <1>11, <1>12, <1>13
        DEF Next

-----------------------------------------------------------------------------
(* Type correctness.                                                       *)

LEMMA Constants ==
  /\ MaxTurns \in Nat /\ MaxSteps \in Nat /\ MaxNotices \in Nat
  /\ \A s \in Scenarios : s.calls \in Nat /\ s.compactions \in Nat /\ s.crashes \in Nat
BY ContextConstants

LEMMA PruneShape ==
  ASSUME NEW c \in Contexts, \E i \in DOMAIN c.history : c.history[i].role \in ToolRoles
  PROVE  \E i \in 1..Len(c.history) :
           /\ c.history[i].role \in ToolRoles
           /\ replaceHistory(c) = [EmptyContext EXCEPT !.history =
                                     [c.history EXCEPT ![i].role = "pruned"]]
           /\ [c.history EXCEPT ![i].role = "pruned"] \in Seq(Msg)
           /\ replaceHistory(c) \in Contexts
<1> DEFINE h == c.history
           I == {i \in 1..Len(h) : h[i].role \in ToolRoles}
           m == Min(I)
           g == [h EXCEPT ![m].role = "pruned"]
<1>1. h \in Seq(Msg) /\ DOMAIN h = 1..Len(h) BY ContextFields
<1>2. I # {} BY <1>1
<1>3. m \in I
  <2>1. I \subseteq Nat OBVIOUS
  <2> HIDE DEF I
  <2> QED BY <1>2, <2>1, LeastElement
<1>4. m \in 1..Len(h) /\ h[m].role \in ToolRoles BY <1>3
<1>5. replaceHistory(c) = [EmptyContext EXCEPT !.history = g]
  BY <1>2 DEF replaceHistory, SelectInSeq
<1> HIDE DEF m
<1>6. g \in Seq(Msg)
  <2>1. h[m] \in Msg BY <1>1, <1>4
  <2>2. [h[m] EXCEPT !.role = "pruned"] \in Msg BY <2>1 DEF Msg, ToolRoles
  <2> QED BY <1>1, <1>4, <2>2
<1>7. [EmptyContext EXCEPT !.history = g] \in Contexts BY <1>6, EmptyIsContext DEF Contexts
<1> QED BY <1>4, <1>5, <1>6, <1>7

(* What a crash leaves.                                                    *)
LEMMA CrashShape ==
  ASSUME TypeInv, crash
  PROVE  \E n \in synced..Len(records) :
           LET found == SubSeq(records, 1, n)
               resumed == replay(found)
           IN  /\ found \in Seq(Records) /\ resumed \in Contexts /\ CanReplay(found)
               /\ resumed \in Passes(records) /\ Passes(found) \subseteq Passes(records)
               /\ context' = finishResume(resumed)
               /\ records' = found \o InterruptedResults(resumed)
               /\ synced' = n /\ Len(found) = n
<1>1. records \in Seq(Records) /\ synced \in 0..Len(records) BY DEF TypeInv
<1>2. PICK n \in synced..Len(records) :
        /\ CanReplay(SubSeq(records, 1, n))
        /\ context' = finishResume(replay(SubSeq(records, 1, n)))
        /\ records' = SubSeq(records, 1, n) \o InterruptedResults(replay(SubSeq(records, 1, n)))
        /\ synced' = n
  BY DEF crash
<1>3. n \in 0..Len(records) BY <1>1
<1>4. /\ SubSeq(records, 1, n) \in Seq(Records) /\ Len(SubSeq(records, 1, n)) = n
      /\ Passes(SubSeq(records, 1, n)) \subseteq Passes(records)
      /\ replay(SubSeq(records, 1, n)) \in Passes(records)
  BY <1>1, <1>3, PassesPrefix
<1>5. Passes(records) \subseteq Contexts BY <1>1, ReplayTyped
<1> DEFINE found == SubSeq(records, 1, n)
           resumed == replay(found)
<1>6. resumed \in Contexts BY <1>4, <1>5
<1> QED BY <1>2, <1>4, <1>6

LEMMA ContextTyped ==
  ASSUME TypeInv, [Next]_vars
  PROVE  context' \in Contexts /\ records' \in Seq(Records) /\ synced' \in 0..Len(records')
<1>0. context \in Contexts /\ records \in Seq(Records) /\ synced \in 0..Len(records)
      /\ Len(records) \in Nat
  BY DEF TypeInv
<1>1. CASE crash
  <2>1. PICK n \in synced..Len(records) :
           LET found == SubSeq(records, 1, n)
               resumed == replay(found)
           IN  /\ found \in Seq(Records) /\ resumed \in Contexts
               /\ context' = finishResume(resumed)
               /\ records' = found \o InterruptedResults(resumed)
               /\ synced' = n /\ Len(found) = n
    BY <1>1, CrashShape
  <2> DEFINE found == SubSeq(records, 1, n)
             resumed == replay(found)
             more == InterruptedResults(resumed)
  <2>2. found \in Seq(Records) /\ resumed \in Contexts /\ context' = finishResume(resumed)
        /\ records' = found \o more /\ synced' = n /\ Len(found) = n
    BY <2>1
  <2>3. n \in Nat BY <1>0
  <2> HIDE DEF found, resumed
  <2>4. more \in Seq(Records) BY <2>2, InterruptedTyped
  <2> HIDE DEF more
  <2>5. records' \in Seq(Records) /\ n =< Len(records') BY <2>2, <2>3, <2>4
  <2> QED BY <2>2, <2>3, <2>5, FinishTyped
<1>2. ASSUME ~ crash PROVE UNCHANGED synced
  BY <1>2 DEF Next, vars, worker, launch, steer, cancel, remind, undoHistory, clearContext,
     appendPrompt, beforeStep, autoCompaction, stopBeforeStep, beginStep, contentPart,
     requestFails, handleOverflowError, response, recordToolCall, toolReminder,
     recordToolResult, endStep, manualCompaction, compactionDone, cancelCompaction,
     compactionFails
<1>3. CASE LogStep /\ ~ crash
  <2>1. PICK qs : Logs(qs) BY <1>3 DEF LogStep
  <2>2. qs \in Seq(Records) /\ records' = records \o qs /\ Follows(context, qs, context')
    BY <2>1 DEF Logs
  <2>3. records' \in Seq(Records) /\ Len(records) =< Len(records') BY <1>0, <2>2
  <2>4. context' \in Contexts
    <3>1. PICK f : Leads(f, context, qs, context') BY <2>2 DEF Follows
    <3>2. Len(qs) \in 0..Len(qs) BY <2>2
    <3> QED BY <3>1, <3>2 DEF Leads
  <2> QED BY <1>0, <1>2, <1>3, <2>3, <2>4
<1>4. CASE PruneStep /\ ~ crash
  <2>1. context' \in Contexts BY <1>0, <1>4, PruneShape DEF PruneStep
  <2> QED BY <1>0, <1>2, <1>4, <2>1 DEF PruneStep
<1> QED BY <1>1, <1>3, <1>4, StepLogs

LEMMA WorkerFields ==
  ASSUME NEW w \in Workers
  PROVE  /\ w.pc \in Places /\ w.step \in Nat /\ w.calls \in Nat /\ w.recorded \in Nat
         /\ w.returned \in Nat
         /\ \A p \in Places : [w EXCEPT !.pc = p] \in Workers
BY DEF Workers

LEMMA NewWorkers ==
  \A at \in Places : Worker(at) \in Workers
BY DEF Worker, Workers

LEMMA GotoTyped ==
  ASSUME TypeInv, NEW t \in Turn, NEW pc \in Places, goto(t, pc)
  PROVE  turn' \in [Turn -> Workers] /\ activeTurn' \in 0..MaxTurns
<1>1. turn \in [Turn -> Workers] /\ activeTurn \in 0..MaxTurns BY DEF TypeInv
<1>2. [turn[t] EXCEPT !.pc = pc] \in Workers BY <1>1, WorkerFields
<1> QED BY <1>1, <1>2 DEF goto

LEMMA EndingTyped ==
  ASSUME TypeInv, NEW t \in Turn, end(t)
  PROVE  turn' \in [Turn -> Workers] /\ activeTurn' \in 0..MaxTurns
<1>1. turn \in [Turn -> Workers] /\ activeTurn \in 0..MaxTurns BY DEF TypeInv
<1>2. "ended" \in Places BY DEF Places
<1>3. [turn[t] EXCEPT !.pc = "ended"] \in Workers BY <1>1, <1>2, WorkerFields
<1>4. 0 \in 0..MaxTurns BY Constants
<1> QED BY <1>1, <1>3, <1>4 DEF end

LEMMA BeginsTyped ==
  ASSUME TypeInv, NEW n, beginCompaction(n)
  PROVE  compaction' \in Compactions /\ n \in 1..Len(context.history)
<1>1. context.history \in Seq(Msg) BY ContextFields DEF TypeInv
<1>2. n \in 1..Len(context.history) BY <1>1 DEF beginCompaction, canSplitAfter
<1> QED BY <1>1, <1>2 DEF beginCompaction, Compactions

LEMMA IdleTyped == Idle \in Compactions
BY DEF Idle, Compactions

LEMMA UnblockTyped ==
  ASSUME TypeInv
  PROVE  unblock \in [Turn -> Workers]
<1>1. turn \in [Turn -> Workers] BY DEF TypeInv
<1>2. ASSUME NEW t \in Turn
      PROVE  [turn[t] EXCEPT !.pc = CASE @ \in {"blocked", "pending"} -> "inject"
                                    [] @ = "overflowed" -> "ready"
                                    [] OTHER -> @] \in Workers
  <2> DEFINE p == CASE turn[t].pc \in {"blocked", "pending"} -> "inject"
                  [] turn[t].pc = "overflowed" -> "ready"
                  [] OTHER -> turn[t].pc
  <2>1. turn[t] \in Workers /\ turn[t].pc \in Places BY <1>1, WorkerFields
  <2>2. p \in Places
    <3>1. CASE turn[t].pc \in {"blocked", "pending"} BY <3>1 DEF Places
    <3>2. CASE turn[t].pc = "overflowed" BY <3>2 DEF Places
    <3>3. CASE turn[t].pc \notin {"blocked", "pending", "overflowed"} BY <2>1, <3>3
    <3> QED BY <3>1, <3>2, <3>3
  <2> HIDE DEF p
  <2>3. [turn[t] EXCEPT !.pc = p] \in Workers BY <2>1, <2>2, WorkerFields
  <2> QED BY <2>3 DEF p
<1> QED BY <1>2 DEF unblock

Others ==
  /\ turn \in [Turn -> Workers]
  /\ activeTurn \in 0..MaxTurns
  /\ steerBuffer \in Nat
  /\ compaction \in Compactions
  /\ used \in Uses

LEMMA CountersTyped ==
  ASSUME NEW u \in Uses, NEW a \in Nat, NEW b \in Nat, NEW k \in Nat
  PROVE  /\ [u EXCEPT !.notices = b, !.appended = a] \in Uses
         /\ [u EXCEPT !.steps = k, !.notices = b, !.appended = a] \in Uses
<1>1. [u EXCEPT !.notices = b, !.appended = a] \in Uses BY DEF Uses
<1>2. [u EXCEPT !.steps = k, !.notices = b, !.appended = a] \in Uses BY DEF Uses
<1> QED BY <1>1, <1>2

LEMMA UsedTyped ==
  ASSUME NEW u \in Uses, NEW n \in Nat, NEW k \in Nat
  PROVE  /\ [u EXCEPT !.turns = @ + 1] \in Uses
         /\ [u EXCEPT !.notices = @ + 1] \in Uses
         /\ [u EXCEPT !.notices = @ + 1, !.appended = @ + 1] \in Uses
         /\ [u EXCEPT !.edits = @ + 1] \in Uses
         /\ [u EXCEPT !.appended = @ + n] \in Uses
         /\ [u EXCEPT !.compactions = @ + 1] \in Uses
         /\ [u EXCEPT !.crashes = @ + 1] \in Uses
         /\ [u EXCEPT !.notices = @ + n, !.appended = @ + n] \in Uses
         /\ [u EXCEPT !.steps = k, !.notices = @ + n, !.appended = @ + n] \in Uses
         /\ [u EXCEPT !.appended = @ + 1] \in Uses
<1>1. [u EXCEPT !.turns = @ + 1] \in Uses BY DEF Uses
<1>2. [u EXCEPT !.notices = @ + 1] \in Uses BY DEF Uses
<1>0. \A i \in Nat : u.notices + i \in Nat /\ u.appended + i \in Nat BY DEF Uses
<1>3. [u EXCEPT !.notices = @ + 1, !.appended = @ + 1] \in Uses BY <1>0, CountersTyped
<1>4. [u EXCEPT !.edits = @ + 1] \in Uses BY DEF Uses
<1>5. [u EXCEPT !.appended = @ + n] \in Uses BY DEF Uses
<1>6. [u EXCEPT !.compactions = @ + 1] \in Uses BY DEF Uses
<1>7. [u EXCEPT !.crashes = @ + 1] \in Uses BY DEF Uses
<1>8. [u EXCEPT !.notices = @ + n, !.appended = @ + n] \in Uses BY <1>0, CountersTyped
<1>9. [u EXCEPT !.steps = k, !.notices = @ + n, !.appended = @ + n] \in Uses
  BY <1>0, CountersTyped
<1>10. [u EXCEPT !.appended = @ + 1] \in Uses BY DEF Uses
<1> QED BY <1>1, <1>2, <1>3, <1>4, <1>5, <1>6, <1>7, <1>8, <1>9, <1>10

LEMMA InjectionsTyped ==
  ASSUME TypeInv, NEW injects \in Injections
  PROVE  Len(injects) \in Nat /\ injects \in Seq(UserMsg)
         /\ \E n \in 0..1 : injects = Numbered("injection", n) /\ Len(injects) = n
<1> PICK n \in 0..1 : injects = Numbered("injection", n) BY DEF Injections
<1>1. n \in Nat /\ "injection" \in UserRoles BY DEF UserRoles
<1> QED BY <1>1, NumberedMessages

LEMMA PlacesAre ==
  /\ "unborn" \in Places /\ "launched" \in Places /\ "ready" \in Places /\ "inject" \in Places
  /\ "stream" \in Places /\ "streamed" \in Places /\ "calls" \in Places /\ "results" \in Places
  /\ "seal" \in Places /\ "blocked" \in Places /\ "pending" \in Places
  /\ "overflowed" \in Places /\ "ended" \in Places
BY DEF Places

LEMMA WorkerTyped ==
  ASSUME TypeInv, NEW t \in Turn, worker(t)
  PROVE  Others'
<1>0. /\ turn \in [Turn -> Workers] /\ activeTurn \in 0..MaxTurns /\ steerBuffer \in Nat
      /\ compaction \in Compactions /\ used \in Uses /\ turn[t] \in Workers /\ 0 \in Nat
      /\ used.scenario \in Scenarios
  BY DEF TypeInv, Uses
<1>1. CASE appendPrompt(t)
  <2>1. used' \in Uses BY <1>0, <1>1, UsedTyped DEF appendPrompt
  <2>2. goto(t, "ready") BY <1>1 DEF appendPrompt
  <2>3. turn' \in [Turn -> Workers] /\ activeTurn' \in 0..MaxTurns
    BY <2>2, PlacesAre, GotoTyped
  <2> QED BY <1>0, <1>1, <2>1, <2>3, ZenonT(30) DEF appendPrompt, Others
<1>2. CASE beforeStep(t)
  <2>1. used' \in Uses /\ steerBuffer' = 0 /\ compaction' = compaction
    BY <1>0, <1>2, UsedTyped DEF beforeStep, flushSteerBuffer
  <2>2. goto(t, "inject") \/ goto(t, "blocked") BY <1>2 DEF beforeStep
  <2>3. turn' \in [Turn -> Workers] /\ activeTurn' \in 0..MaxTurns
    BY <2>2, PlacesAre, GotoTyped
  <2> QED BY <1>0, <2>1, <2>3, ZenonT(30) DEF Others
<1>3. CASE autoCompaction(t)
  <2>1. used' \in Uses /\ steerBuffer' = steerBuffer
    BY <1>0, <1>3, UsedTyped DEF autoCompaction
  <2>2. goto(t, "blocked") \/ goto(t, "pending") BY <1>3 DEF autoCompaction
  <2>3. turn' \in [Turn -> Workers] /\ activeTurn' \in 0..MaxTurns
    BY <2>2, PlacesAre, GotoTyped
  <2>4. compaction' \in Compactions BY <1>3, BeginsTyped DEF autoCompaction
  <2> QED BY <1>0, <2>1, <2>3, <2>4, ZenonT(30) DEF Others
<1>4. CASE stopBeforeStep(t)
  <2>1. end(t) /\ steerBuffer' = steerBuffer /\ compaction' = compaction
    BY <1>4 DEF stopBeforeStep
  <2>2. used' \in Uses
    <3>1. CASE used' = used BY <1>0, <3>1, SMTT(30)
    <3>2. CASE used' # used
      <4>1. PICK injects \in Injections :
              used' = [used EXCEPT !.notices = @ + Len(injects), !.appended = @ + Len(injects)]
        BY <1>4, <3>2 DEF stopBeforeStep
      <4>2. Len(injects) \in Nat BY InjectionsTyped
      <4> QED BY <1>0, <4>1, <4>2, UsedTyped
    <3> QED BY <3>1, <3>2
  <2> QED BY <1>0, <2>1, <2>2, EndingTyped DEF Others
<1>5. CASE beginStep(t)
  <2>1. PICK injects \in Injections :
          /\ turn' = [turn EXCEPT ![t].pc = "stream", ![t].step = used.steps + 1, ![t].calls = 0,
                                  ![t].recorded = 0, ![t].returned = 0]
          /\ used' = [used EXCEPT !.steps = used.steps + 1, !.notices = @ + Len(injects),
                                  !.appended = @ + Len(injects)]
    BY <1>5 DEF beginStep
  <2>2. Len(injects) \in Nat BY InjectionsTyped
  <2>3. used.steps + 1 \in Nat BY <1>0, SMTT(30) DEF Uses
  <2>4. used' \in Uses BY <1>0, <2>1, <2>2, <2>3, UsedTyped
  <2>5. turn' \in [Turn -> Workers]
    <3> DEFINE n == used.steps + 1
    <3>1. [turn[t] EXCEPT !.pc = "stream", !.step = n, !.calls = 0, !.recorded = 0,
                          !.returned = 0] \in Workers
      BY <1>0, <2>3, PlacesAre DEF Workers
    <3> HIDE DEF n
    <3>2. turn' = [turn EXCEPT ![t] = [turn[t] EXCEPT !.pc = "stream", !.step = n, !.calls = 0,
                                                       !.recorded = 0, !.returned = 0]]
      BY <1>0, <2>1 DEF n
    <3> QED BY <1>0, <3>1, <3>2
  <2> QED BY <1>0, <1>5, <2>4, <2>5 DEF beginStep, Others
<1>6. CASE contentPart(t)
  <2>1. end(t) \/ goto(t, "streamed") BY <1>6 DEF contentPart
  <2>2. turn' \in [Turn -> Workers] /\ activeTurn' \in 0..MaxTurns
    BY <2>1, PlacesAre, GotoTyped, EndingTyped
  <2> QED BY <1>0, <1>6, <2>2 DEF contentPart, Others
<1>7. CASE requestFails(t)
  BY <1>0, <1>7, EndingTyped DEF requestFails, Others
<1>8. CASE handleOverflowError(t)
  <2>1. goto(t, "overflowed") /\ steerBuffer' = steerBuffer BY <1>8 DEF handleOverflowError
  <2>2. turn' \in [Turn -> Workers] /\ activeTurn' \in 0..MaxTurns
    BY <2>1, PlacesAre, GotoTyped
  <2>3. CASE UNCHANGED <<compaction, used>> BY <1>0, <2>1, <2>2, <2>3 DEF Others
  <2>4. CASE /\ \E n \in 1..(Len(context.history) - 1) : beginCompaction(n)
             /\ used' = [used EXCEPT !.compactions = @ + 1]
    <3>1. used' \in Uses BY <1>0, <2>4, UsedTyped
    <3>2. compaction' \in Compactions BY <2>4, BeginsTyped
    <3> QED BY <1>0, <2>1, <2>2, <3>1, <3>2, ZenonT(30) DEF Others
  <2> QED BY <1>8, <2>3, <2>4 DEF handleOverflowError
<1>9. CASE response(t)
  <2>1. PICK n \in 0..used.scenario.calls :
          turn' = [turn EXCEPT ![t].calls = n, ![t].pc = IF n = 0 THEN "seal" ELSE "calls"]
    BY <1>9 DEF response
  <2>2. n \in Nat BY <1>0, Constants
  <2>3. turn' \in [Turn -> Workers]
    <3> DEFINE p == IF n = 0 THEN "seal" ELSE "calls"
    <3>1. p \in Places BY PlacesAre
    <3> HIDE DEF p
    <3>2. [turn[t] EXCEPT !.calls = n, !.pc = p] \in Workers BY <1>0, <2>2, <3>1 DEF Workers
    <3>3. turn' = [turn EXCEPT ![t] = [turn[t] EXCEPT !.calls = n, !.pc = p]]
      BY <1>0, <2>1 DEF p
    <3> QED BY <1>0, <3>2, <3>3
  <2> QED BY <1>0, <1>9, <2>3 DEF response, Others
<1>10. CASE recordToolCall(t)
  <2>1. CASE end(t) BY <1>0, <1>10, <2>1, EndingTyped DEF recordToolCall, Others
  <2>2. CASE ~ end(t)
    <3> DEFINE k == turn[t].recorded + 1
               p == IF k = turn[t].calls THEN "results" ELSE turn[t].pc
    <3>1. k \in Nat /\ p \in Places BY <1>0, PlacesAre DEF Workers
    <3>2. <<turn[t].step, k>>[2] = k OBVIOUS
    <3>3. turn' = [turn EXCEPT ![t].recorded = @ + 1,
                     ![t].pc = IF <<turn[t].step, k>>[2] = turn[t].calls THEN "results" ELSE @]
          /\ activeTurn' = activeTurn
      BY <1>10, <2>2 DEF recordToolCall
    <3>4. turn' = [turn EXCEPT ![t] = [turn[t] EXCEPT !.recorded = k, !.pc = p]]
      BY <1>0, <3>2, <3>3
    <3> HIDE DEF k, p
    <3>5. [turn[t] EXCEPT !.recorded = k, !.pc = p] \in Workers BY <1>0, <3>1 DEF Workers
    <3>6. turn' \in [Turn -> Workers] BY <1>0, <3>4, <3>5
    <3> QED BY <1>0, <1>10, <3>3, <3>6 DEF recordToolCall, Others
  <2> QED BY <2>1, <2>2
<1>11. CASE toolReminder(t)
  <2>1. used' \in Uses BY <1>0, <1>11, UsedTyped DEF toolReminder
  <2> QED BY <1>0, <1>11, <2>1, ZenonT(30) DEF toolReminder, Others
<1>12. CASE recordToolResult(t)
  <2> DEFINE k == turn[t].returned + 1
             p == IF k = turn[t].calls THEN "seal" ELSE turn[t].pc
  <2>1. k \in Nat /\ p \in Places BY <1>0, PlacesAre DEF Workers
  <2>2. <<turn[t].step, k>>[2] = k OBVIOUS
  <2>3. turn' = [turn EXCEPT ![t].returned = @ + 1,
                   ![t].pc = IF <<turn[t].step, k>>[2] = turn[t].calls THEN "seal" ELSE @]
    BY <1>12 DEF recordToolResult
  <2>4. turn' = [turn EXCEPT ![t] = [turn[t] EXCEPT !.returned = k, !.pc = p]]
    BY <1>0, <2>2, <2>3
  <2> HIDE DEF k, p
  <2>5. [turn[t] EXCEPT !.returned = k, !.pc = p] \in Workers BY <1>0, <2>1 DEF Workers
  <2>6. turn' \in [Turn -> Workers] BY <1>0, <2>4, <2>5
  <2> QED BY <1>0, <1>12, <2>6 DEF recordToolResult, Others
<1>13. CASE endStep(t)
  <2>1. end(t) \/ goto(t, "ready") BY <1>13 DEF endStep
  <2>2. turn' \in [Turn -> Workers] /\ activeTurn' \in 0..MaxTurns
    BY <2>1, PlacesAre, GotoTyped, EndingTyped, SMTT(30)
  <2>3. used' \in Uses /\ steerBuffer' \in Nat /\ compaction' = compaction
    BY <1>0, <1>13, UsedTyped DEF endStep
  <2> QED BY <1>0, <2>2, <2>3 DEF Others
<1> QED BY <1>1, <1>2, <1>3, <1>4, <1>5, <1>6, <1>7, <1>8, <1>9, <1>10, <1>11, <1>12, <1>13
        DEF worker

LEMMA OthersTyped ==
  ASSUME TypeInv, [Next]_vars
  PROVE  Others'
<1>0. /\ turn \in [Turn -> Workers] /\ activeTurn \in 0..MaxTurns /\ steerBuffer \in Nat
      /\ compaction \in Compactions /\ used \in Uses /\ MaxTurns \in Nat
  BY Constants DEF TypeInv
<1>1. CASE launch
  <2>1. used' \in Uses BY <1>0, <1>1, UsedTyped DEF launch
  <2>2. Worker("launched") \in Workers BY NewWorkers, PlacesAre
  <2>3. activeTurn' = used.turns + 1 /\ used.turns \in Nat /\ used.turns < MaxTurns
    BY <1>0, <1>1 DEF launch, Uses
  <2>4. turn' \in [Turn -> Workers] BY <1>0, <1>1, <2>2 DEF launch
  <2>5. activeTurn' \in 0..MaxTurns BY <1>0, <2>3
  <2> QED BY <1>0, <1>1, <2>1, <2>4, <2>5, ZenonT(30) DEF launch, Others
<1>2. CASE steer
  <2>1. used' \in Uses BY <1>0, <1>2, UsedTyped DEF steer
  <2> QED BY <1>0, <1>2, <2>1 DEF steer, Others
<1>3. CASE cancel
  <2> DEFINE w == turn[activeTurn]
             p == IF w.pc \in {"blocked", "overflowed"} THEN "ready" ELSE w.pc
  <2>1. activeTurn \in Turn BY <1>0, <1>3 DEF cancel, Turn
  <2>2. w \in Workers /\ p \in Places BY <1>0, <2>1, WorkerFields, PlacesAre
  <2>3. turn' = [turn EXCEPT ![activeTurn] = [w EXCEPT !.cancelled = TRUE, !.pc = p]]
    BY <1>0, <1>3, <2>1 DEF cancel
  <2> HIDE DEF p, w
  <2>4. [w EXCEPT !.cancelled = TRUE, !.pc = p] \in Workers BY <2>2 DEF Workers
  <2>5. turn' \in [Turn -> Workers] BY <1>0, <2>3, <2>4
  <2>6. compaction' \in Compactions BY <1>0, <1>3, IdleTyped DEF cancel
  <2>7. activeTurn' \in 0..MaxTurns BY <1>0, <1>3 DEF cancel
  <2> QED BY <1>0, <1>3, <2>5, <2>6, <2>7 DEF cancel, Others
<1>4. CASE remind
  <2>1. used' \in Uses BY <1>0, <1>4, UsedTyped DEF remind
  <2> QED BY <1>0, <1>4, <2>1 DEF remind, Others
<1>5. CASE undoHistory
  <2>1. used' \in Uses BY <1>0, <1>5, UsedTyped DEF undoHistory
  <2> QED BY <1>0, <1>5, <2>1, ZenonT(30) DEF undoHistory, Others
<1>6. CASE clearContext
  <2>1. used' \in Uses BY <1>0, <1>6, UsedTyped DEF clearContext
  <2> QED BY <1>0, <1>6, <2>1, ZenonT(30) DEF clearContext, Others
<1>7. CASE \E t \in Turn : worker(t) BY <1>7, WorkerTyped
<1>8. CASE manualCompaction
  <2>1. used' \in Uses BY <1>0, <1>8, UsedTyped DEF manualCompaction
  <2>2. compaction' \in Compactions BY <1>8, BeginsTyped DEF manualCompaction
  <2> QED BY <1>0, <1>8, <2>1, <2>2, ZenonT(30) DEF manualCompaction, Others
<1>9. CASE compactionDone
  BY <1>0, <1>9, IdleTyped, UnblockTyped DEF compactionDone, Others
<1>10. CASE cancelCompaction
  BY <1>0, <1>10, IdleTyped, UnblockTyped DEF cancelCompaction, Others
<1>11. CASE compactionFails
  <2> DEFINE failed == {t \in Turn : turn[t].pc \in {"blocked", "overflowed"}}
  <2>1. /\ turn' = [t \in Turn |-> IF t \in failed THEN [turn[t] EXCEPT !.pc = "ended"]
                                   ELSE unblock[t]]
        /\ activeTurn' = IF activeTurn \in failed THEN 0 ELSE activeTurn
    BY <1>11 DEF compactionFails
  <2> HIDE DEF failed
  <2>2. \A t \in Turn : [turn[t] EXCEPT !.pc = "ended"] \in Workers
    BY <1>0, WorkerFields, PlacesAre
  <2>3. turn' \in [Turn -> Workers] BY <2>1, <2>2, UnblockTyped
  <2>4. activeTurn' \in 0..MaxTurns BY <1>0, <2>1
  <2> QED BY <1>0, <1>11, <2>3, <2>4, IdleTyped DEF compactionFails, Others
<1>12. CASE crash
  <2>1. used' \in Uses BY <1>0, <1>12, UsedTyped DEF crash
  <2>2. Worker("ended") \in Workers BY NewWorkers, PlacesAre
  <2>3. turn' \in [Turn -> Workers] BY <1>0, <1>12, <2>2 DEF crash
  <2>4. activeTurn' \in 0..MaxTurns BY <1>0, <1>12 DEF crash
  <2> QED BY <1>12, <2>1, <2>3, <2>4, IdleTyped, ZenonT(30) DEF crash, Others
<1>13. CASE UNCHANGED vars BY <1>0, <1>13 DEF vars, Others
<1> QED BY <1>1, <1>2, <1>3, <1>4, <1>5, <1>6, <1>7, <1>8, <1>9, <1>10, <1>11, <1>12, <1>13
        DEF Next

LEMMA TypeInit == Init => TypeInv
<1> SUFFICES ASSUME Init PROVE TypeInv OBVIOUS
<1>1. PICK s \in Scenarios :
        used = [scenario |-> s, turns |-> 0, steps |-> 0, notices |-> 0, appended |-> 0,
                compactions |-> 0, edits |-> 0, crashes |-> 0]
  BY DEF Init
<1>2. used \in Uses BY <1>1 DEF Uses
<1>3. turn \in [Turn -> Workers] BY NewWorkers, PlacesAre DEF Init
<1>4. activeTurn \in 0..MaxTurns BY Constants DEF Init
<1>5. records \in Seq(Records) /\ synced \in 0..Len(records) BY DEF Init
<1> QED BY <1>2, <1>3, <1>4, <1>5, EmptyIsContext, IdleTyped DEF Init, TypeInv

LEMMA TypeKept ==
  ASSUME TypeInv, [Next]_vars
  PROVE  TypeInv'
BY ContextTyped, OthersTyped DEF TypeInv, Others

(* The conversation and its records are well formed, and the bookkeeping   *)
(* of the turns stays within its types.                                    *)
THEOREM ContextTypes == Spec => []TypeInv
BY TypeInit, TypeKept, PTL DEF Spec

-----------------------------------------------------------------------------
(* The methods, field by field.                                            *)

LEMMA AppendFields ==
  ASSUME NEW c \in Contexts, NEW ms \in Seq(UserMsg)
  PROVE  LET d == appendMessages(c, ms)
         IN  /\ d.openSteps = c.openSteps /\ d.pendingToolResultIds = c.pendingToolResultIds
             /\ c.pendingToolResultIds # <<>> =>
                  d.history = c.history /\ d.deferredMessages = c.deferredMessages \o ms
             /\ c.pendingToolResultIds = <<>> =>
                  d.history = c.history \o ms /\ d.deferredMessages = c.deferredMessages
BY DEF appendMessages, hasOpenToolExchange, Contexts

LEMMA FlushFields ==
  ASSUME NEW c \in Contexts
  PROVE  LET d == flushDeferred(c)
         IN  /\ d.openSteps = c.openSteps /\ d.pendingToolResultIds = c.pendingToolResultIds
             /\ c.pendingToolResultIds # <<>> =>
                  d.history = c.history /\ d.deferredMessages = c.deferredMessages
             /\ c.pendingToolResultIds = <<>> =>
                  d.history = c.history \o c.deferredMessages /\ d.deferredMessages = <<>>
BY DEF flushDeferred, hasOpenToolExchange, Contexts

LEMMA ResultFields ==
  ASSUME NEW c \in Contexts, NEW call \in CallId
  PROVE  LET d == toolResult(c, call)
             p == RemoveFirst(c.pendingToolResultIds, call)
             h == Append(c.history, Message("tool", call))
         IN  /\ d.openSteps = c.openSteps
             /\ call \notin Range(c.pendingToolResultIds) => d = c
             /\ call \in Range(c.pendingToolResultIds) =>
                  /\ d.pendingToolResultIds = p
                  /\ p # <<>> => d.history = h /\ d.deferredMessages = c.deferredMessages
                  /\ p = <<>> => d.history = h \o c.deferredMessages /\ d.deferredMessages = <<>>
<1>1. CASE call \notin Range(c.pendingToolResultIds) BY <1>1 DEF toolResult
<1>2. CASE call \in Range(c.pendingToolResultIds)
  <2> DEFINE d == toolResult(c, call)
             p == RemoveFirst(c.pendingToolResultIds, call)
             h == Append(c.history, Message("tool", call))
  <2>1. d = IF p = <<>>
              THEN [history |-> h \o c.deferredMessages, openSteps |-> c.openSteps,
                    pendingToolResultIds |-> <<>>, deferredMessages |-> <<>>]
              ELSE [history |-> h, openSteps |-> c.openSteps,
                    pendingToolResultIds |-> p, deferredMessages |-> c.deferredMessages]
    BY <1>2, ResultShape
  <2> HIDE DEF d, p, h
  <2>2. /\ d.openSteps = c.openSteps /\ d.pendingToolResultIds = p
        /\ p # <<>> => d.history = h /\ d.deferredMessages = c.deferredMessages
        /\ p = <<>> => d.history = h \o c.deferredMessages /\ d.deferredMessages = <<>>
    BY <2>1
  <2> QED BY <1>2, <2>2 DEF d, p, h
<1> QED BY <1>1, <1>2

LEMMA ClosedFields ==
  ASSUME NEW c \in Contexts
  PROVE  LET d == closePendingToolResults(c)
         IN  /\ d.openSteps = c.openSteps /\ d.pendingToolResultIds = <<>>
             /\ c.pendingToolResultIds = <<>> => d = c
             /\ c.pendingToolResultIds # <<>> =>
                  /\ d.history = (c.history \o Closings(c)) \o c.deferredMessages
                  /\ d.deferredMessages = <<>>
<1>1. CASE c.pendingToolResultIds = <<>>
  <2>1. closePendingToolResults(c) = c BY <1>1, ClosedShape
  <2> QED BY <1>1, <2>1
<1>2. CASE c.pendingToolResultIds # <<>>
  <2> DEFINE d == closePendingToolResults(c)
             h == (c.history \o Closings(c)) \o c.deferredMessages
  <2>1. d = [history |-> h, openSteps |-> c.openSteps,
             pendingToolResultIds |-> <<>>, deferredMessages |-> <<>>]
    BY <1>2, ClosedShape
  <2> HIDE DEF d, h
  <2>2. /\ d.openSteps = c.openSteps /\ d.pendingToolResultIds = <<>>
        /\ d.history = h /\ d.deferredMessages = <<>>
    BY <2>1
  <2> QED BY <1>2, <2>2 DEF d, h
<1> QED BY <1>1, <1>2

LEMMA FinishFields ==
  ASSUME NEW c \in Contexts
  PROVE  LET d == finishResume(c)
             e == closePendingToolResults(c)
         IN  /\ d.openSteps = {} /\ d.pendingToolResultIds = <<>>
             /\ d.history = e.history /\ d.deferredMessages = e.deferredMessages
<1> DEFINE b == [c EXCEPT !.openSteps = {}]
<1>1. b \in Contexts BY DEF Contexts
<1>2. /\ b.history = c.history /\ b.openSteps = {} /\ b.deferredMessages = c.deferredMessages
      /\ b.pendingToolResultIds = c.pendingToolResultIds
  BY DEF Contexts
<1>3. finishResume(c) = closePendingToolResults(b) BY DEF finishResume
<1> HIDE DEF b
<1>4. Closings(b) = Closings(c) BY <1>2 DEF Closings
<1>5. CASE c.pendingToolResultIds = <<>>
  <2>1. closePendingToolResults(b) = b /\ closePendingToolResults(c) = c
    BY <1>1, <1>2, <1>5, ClosedFields
  <2> QED BY <1>2, <1>3, <1>5, <2>1
<1>6. CASE c.pendingToolResultIds # <<>>
  BY <1>1, <1>2, <1>3, <1>4, <1>6, ClosedFields
<1> QED BY <1>5, <1>6

LEMMA BeginFields ==
  ASSUME NEW c \in Contexts, NEW s \in Nat
  PROVE  LET d == stepBegin(c, s)
             e == closePendingToolResults(c)
         IN  /\ d.history = Append(e.history, Message("assistant", s))
             /\ d.openSteps = c.openSteps \cup {s} /\ d.pendingToolResultIds = <<>>
             /\ d.deferredMessages = e.deferredMessages
<1> DEFINE e == closePendingToolResults(c)
<1>1. e \in Contexts /\ e.openSteps = c.openSteps /\ e.pendingToolResultIds = <<>>
  BY CloseTyped, ClosedFields
<1>2. stepBegin(c, s) = [e EXCEPT !.history = Append(@, Message("assistant", s)),
                                  !.openSteps = @ \cup {s}]
  BY DEF stepBegin
<1> HIDE DEF e
<1>3. LET d == stepBegin(c, s)
      IN  /\ d.history = Append(e.history, Message("assistant", s))
          /\ d.openSteps = c.openSteps \cup {s} /\ d.pendingToolResultIds = <<>>
          /\ d.deferredMessages = e.deferredMessages
  BY <1>1, <1>2 DEF Contexts
<1> QED BY <1>3 DEF e

LEMMA EndFields ==
  ASSUME NEW c \in Contexts, NEW s \in Nat
  PROVE  LET d == stepEnd(c, s)
         IN  /\ d.openSteps = c.openSteps \ {s}
             /\ d.pendingToolResultIds = c.pendingToolResultIds
             /\ c.pendingToolResultIds # <<>> =>
                  d.history = c.history /\ d.deferredMessages = c.deferredMessages
             /\ c.pendingToolResultIds = <<>> =>
                  d.history = c.history \o c.deferredMessages /\ d.deferredMessages = <<>>
<1> DEFINE b == [c EXCEPT !.openSteps = @ \ {s}]
<1>1. b \in Contexts /\ b.openSteps = c.openSteps \ {s} /\ b.history = c.history
      /\ b.pendingToolResultIds = c.pendingToolResultIds
      /\ b.deferredMessages = c.deferredMessages
  BY DEF Contexts
<1>2. stepEnd(c, s) = flushDeferred(b) BY DEF stepEnd
<1> HIDE DEF b
<1> QED BY <1>1, <1>2, FlushFields

LEMMA CallFields ==
  ASSUME NEW c \in Contexts, NEW call \in CallId
  PROVE  LET d == toolCall(c, call)
         IN  /\ d.history = WithCall(c.history, call)
             /\ d.pendingToolResultIds = Append(c.pendingToolResultIds, call)
             /\ d.openSteps = c.openSteps /\ d.deferredMessages = c.deferredMessages
BY DEF toolCall, Contexts

LEMMA UndoFields ==
  ASSUME NEW c \in Contexts
  PROVE  LET d == undo(c)
         IN  /\ c.history = <<>> => d = c
             /\ c.history # <<>> =>
                  /\ d.history = Undone(c.history) /\ d.openSteps = {}
                  /\ d.pendingToolResultIds = <<>> /\ d.deferredMessages = <<>>
BY UndoShape DEF EmptyContext

LEMMA CompactionFields ==
  ASSUME NEW c \in Contexts, NEW s \in Nat, NEW n \in Nat
  PROVE  LET d == applyCompaction(c, s, n)
             h == <<Message("summary", s)>> \o SubSeq(c.history, n + 1, Len(c.history))
         IN  /\ d.openSteps = {} /\ d.pendingToolResultIds = c.pendingToolResultIds
             /\ c.pendingToolResultIds # <<>> =>
                  d.history = h /\ d.deferredMessages = c.deferredMessages
             /\ c.pendingToolResultIds = <<>> =>
                  d.history = h \o c.deferredMessages /\ d.deferredMessages = <<>>
<1> DEFINE h == <<Message("summary", s)>> \o SubSeq(c.history, n + 1, Len(c.history))
           b == [c EXCEPT !.history = h, !.openSteps = {}]
<1>1. h \in Seq(Msg) BY CompactedTyped
<1>2. applyCompaction(c, s, n) = flushDeferred(b) BY DEF applyCompaction
<1> HIDE DEF h
<1>3. b \in Contexts /\ b.openSteps = {} /\ b.history = h
      /\ b.pendingToolResultIds = c.pendingToolResultIds
      /\ b.deferredMessages = c.deferredMessages
  BY <1>1 DEF Contexts
<1> HIDE DEF b
<1>4. LET d == applyCompaction(c, s, n)
      IN  /\ d.openSteps = {} /\ d.pendingToolResultIds = c.pendingToolResultIds
          /\ c.pendingToolResultIds # <<>> =>
               d.history = h /\ d.deferredMessages = c.deferredMessages
          /\ c.pendingToolResultIds = <<>> =>
               d.history = h \o c.deferredMessages /\ d.deferredMessages = <<>>
  BY <1>2, <1>3, FlushFields
<1> QED BY <1>4 DEF h

LEMMA EmptyFields ==
  /\ EmptyContext.history = <<>> /\ EmptyContext.openSteps = {}
  /\ EmptyContext.pendingToolResultIds = <<>> /\ EmptyContext.deferredMessages = <<>>
BY DEF EmptyContext

LEMMA PruneFields ==
  ASSUME NEW c \in Contexts, \E i \in DOMAIN c.history : c.history[i].role \in ToolRoles
  PROVE  LET d == replaceHistory(c)
         IN  /\ d.openSteps = {} /\ d.pendingToolResultIds = <<>> /\ d.deferredMessages = <<>>
             /\ \E i \in 1..Len(c.history) :
                  /\ c.history[i].role \in ToolRoles
                  /\ d.history = [c.history EXCEPT ![i].role = "pruned"]
             /\ d \in Contexts
<1>1. PICK i \in 1..Len(c.history) :
           /\ c.history[i].role \in ToolRoles
           /\ replaceHistory(c) = [EmptyContext EXCEPT !.history =
                                     [c.history EXCEPT ![i].role = "pruned"]]
           /\ replaceHistory(c) \in Contexts
  BY PruneShape
<1> DEFINE g == [c.history EXCEPT ![i].role = "pruned"]
<1> HIDE DEF g
<1>2. replaceHistory(c) = [EmptyContext EXCEPT !.history = g] BY <1>1 DEF g
<1>3. LET d == replaceHistory(c)
      IN  /\ d.openSteps = {} /\ d.pendingToolResultIds = <<>> /\ d.deferredMessages = <<>>
          /\ d.history = g
  BY <1>2 DEF EmptyContext
<1> QED BY <1>1, <1>3 DEF g

-----------------------------------------------------------------------------
(* What the methods do to the messages of the history.                     *)

(* The messages selected are those of h at some positions, in their order. *)
Picks(e, s, h, n) ==
  /\ e \in [1..Len(s) -> 1..n]
  /\ \A i \in 1..Len(s) : s[i] = h[e[i]]
  /\ \A i, j \in 1..Len(s) : i < j => e[i] < e[j]

LEMMA SelectionPicks ==
  ASSUME NEW h \in Seq(Msg), NEW I
  PROVE  \E e : Picks(e, Selection(h, I), h, Len(h))
<1>1. PICK f : Chooses(h, I, f) /\ Selection(h, I) = f[Len(h)] BY SelectionExists
<1> DEFINE b == Len(h)
           T == {n \in 0..b : ~ \E e : Picks(e, f[n], h, n)}
<1>2. b \in Nat OBVIOUS
<1>3. /\ f \in [0..b -> Seq(Msg)] /\ f[0] = <<>>
      /\ \A n \in 1..b : f[n] = IF n \in I THEN Append(f[n - 1], h[n]) ELSE f[n - 1]
  BY <1>1 DEF Chooses
<1>4. \A n \in 1..b : h[n] \in Msg OBVIOUS
<1> HIDE DEF b
<1>5. SUFFICES ASSUME T # {} PROVE FALSE
  <2>1. b \in 0..b BY <1>2
  <2>2. ~ (b \in T) BY <1>5
  <2> QED BY <1>1, <2>1, <2>2 DEF b
<1>6. PICK n \in T : \A k \in T : n =< k
  <2>1. T \subseteq Nat OBVIOUS
  <2> HIDE DEF T
  <2>2. Min(T) \in T /\ \A k \in T : Min(T) =< k BY <1>5, <2>1, LeastElement
  <2> QED BY <2>2
<1>7. n \in 0..b /\ ~ \E e : Picks(e, f[n], h, n) OBVIOUS
<1>8. n # 0
  <2>1. SUFFICES ASSUME n = 0 PROVE FALSE OBVIOUS
  <2>2. f[n] = <<>> BY <1>3, <2>1
  <2>3. Picks(<<>>, <<>>, h, 0) BY DEF Picks
  <2> QED BY <1>7, <2>1, <2>2, <2>3
<1>9. n \in 1..b /\ n - 1 \in 0..b /\ ~ (n =< n - 1) BY <1>2, <1>7, <1>8
<1>10. n - 1 \notin T
  <2> HIDE DEF T
  <2> QED BY <1>6, <1>9
<1>11. PICK e : Picks(e, f[n - 1], h, n - 1) BY <1>9, <1>10
<1> HIDE DEF T
<1> DEFINE s == f[n - 1]
           m == Len(s)
<1>12. s \in Seq(Msg) /\ m \in Nat BY <1>3, <1>9
<1>13. /\ e \in [1..m -> 1..(n - 1)]
       /\ \A i \in 1..m : s[i] = h[e[i]]
       /\ \A i, j \in 1..m : i < j => e[i] < e[j]
  BY <1>11 DEF Picks
<1>14. CASE n \notin I
  <2>1. f[n] = s BY <1>3, <1>9, <1>14
  <2>2. e \in [1..m -> 1..n] BY <1>9, <1>13
  <2>3. Picks(e, s, h, n) BY <1>13, <2>2 DEF Picks
  <2> QED BY <1>7, <2>1, <2>3
<1>15. CASE n \in I
  <2>1. f[n] = Append(s, h[n]) BY <1>3, <1>9, <1>15
  <2> HIDE DEF s
  <2>2. Len(f[n]) = m + 1 /\ f[n][m + 1] = h[n] /\ \A i \in 1..m : f[n][i] = s[i]
    BY <1>4, <1>9, <1>12, <2>1
  <2> HIDE DEF m
  <2> DEFINE g == [i \in 1..(m + 1) |-> IF i = m + 1 THEN n ELSE e[i]]
  <2>3. \A i \in 1..(m + 1) : i = m + 1 \/ i \in 1..m BY <1>12
  <2>4. \A i \in 1..m : e[i] \in 1..(n - 1) BY <1>13
  <2>5. g \in [1..(m + 1) -> 1..n] BY <1>9, <2>3, <2>4
  <2>6. \A i \in 1..m : g[i] = e[i] /\ i # m + 1 BY <1>12
  <2>7. g[m + 1] = n BY <1>12
  <2> HIDE DEF g
  <2>8. \A i \in 1..(m + 1) : f[n][i] = h[g[i]] BY <1>13, <2>2, <2>3, <2>6, <2>7
  <2>9. \A i, j \in 1..(m + 1) : i < j => g[i] < g[j]
    <3>1. SUFFICES ASSUME NEW i \in 1..(m + 1), NEW j \in 1..(m + 1), i < j
                   PROVE  g[i] < g[j]
      OBVIOUS
    <3>2. i \in 1..m BY <1>12, <3>1
    <3>3. CASE j = m + 1 BY <1>9, <2>4, <2>6, <2>7, <3>2, <3>3
    <3>4. CASE j # m + 1
      <4>1. j \in 1..m BY <2>3, <3>4
      <4> QED BY <1>13, <2>6, <3>1, <3>2, <4>1
    <3> QED BY <3>3, <3>4
  <2>10. Picks(g, f[n], h, n) BY <2>2, <2>5, <2>8, <2>9 DEF Picks
  <2> QED BY <1>7, <2>10
<1> QED BY <1>14, <1>15

LEMMA UndonePicks ==
  ASSUME NEW c \in Contexts
  PROVE  \E e : Picks(e, Undone(c.history), c.history, Len(c.history))
<1> DEFINE h == c.history
<1>1. h \in Seq(Msg) BY ContextFields
<1> HIDE DEF h
<1>2. \E e : Picks(e, Selection(h, Spared(h)), h, Len(h)) BY <1>1, SelectionPicks
<1> QED BY <1>2 DEF Undone, h

(* A message of two histories put together is a message of one of them.    *)
LEMMA EitherPart ==
  ASSUME NEW S, NEW s \in Seq(S), NEW u \in Seq(S), NEW i \in 1..Len(s \o u)
  PROVE  \/ i \in 1..Len(s) /\ (s \o u)[i] = s[i]
         \/ i - Len(s) \in 1..Len(u) /\ (s \o u)[i] = u[i - Len(s)] /\ Len(s) < i
OBVIOUS

LEMMA WithCallKeeps ==
  ASSUME NEW h \in Seq(Msg), NEW call \in CallId
  PROVE  /\ WithCall(h, call) \in Seq(Msg) /\ Len(WithCall(h, call)) = Len(h)
         /\ \A i \in 1..Len(h) : /\ WithCall(h, call)[i].role = h[i].role
                                 /\ WithCall(h, call)[i].id = h[i].id
<1>1. WithCall(h, call) \in Seq(Msg) /\ Len(WithCall(h, call)) = Len(h) BY WithCallTyped
<1>2. \A i \in 1..Len(h) : h[i] \in Msg OBVIOUS
<1>3. \A m \in Msg : /\ [m EXCEPT !.calls = @ \cup {call}].role = m.role
                     /\ [m EXCEPT !.calls = @ \cup {call}].id = m.id
  BY DEF Msg
<1>4. DOMAIN h = 1..Len(h) OBVIOUS
<1> QED BY <1>1, <1>2, <1>3, <1>4 DEF WithCall

-----------------------------------------------------------------------------
(* The summaries.                                                          *)

(* Every summary of s is one of h.                                         *)
Recalled(s, h) ==
  \A i \in 1..Len(s) : s[i].role = "summary" =>
     \E j \in 1..Len(h) : h[j].role = s[i].role /\ h[j].id = s[i].id

LEMMA RecalledBoth ==
  ASSUME NEW s \in Seq(Msg), NEW u \in Seq(Msg), NEW h, Recalled(s, h), Recalled(u, h)
  PROVE  Recalled(s \o u, h)
<1>1. SUFFICES ASSUME NEW i \in 1..Len(s \o u), (s \o u)[i].role = "summary"
               PROVE  \E j \in 1..Len(h) : h[j].role = (s \o u)[i].role /\ h[j].id = (s \o u)[i].id
  BY DEF Recalled
<1>2. \/ i \in 1..Len(s) /\ (s \o u)[i] = s[i]
      \/ i - Len(s) \in 1..Len(u) /\ (s \o u)[i] = u[i - Len(s)]
  BY EitherPart
<1> QED BY <1>1, <1>2, ZenonT(40) DEF Recalled

LEMMA NoSummaries ==
  /\ \A ms \in Seq(UserMsg) : \A h : ms \in Seq(Msg) /\ Recalled(ms, h)
  /\ \A c \in Contexts : \A h : Closings(c) \in Seq(Msg) /\ Recalled(Closings(c), h)
  /\ \A call \in CallId : \A h : Recalled(<<Message("tool", call)>>, h)
  /\ \A s \in Nat : \A h : Recalled(<<Message("assistant", s)>>, h)
<1>1. ASSUME NEW ms \in Seq(UserMsg), NEW h
      PROVE  ms \in Seq(Msg) /\ Recalled(ms, h)
  <2>1. \A i \in 1..Len(ms) : ms[i] \in UserMsg OBVIOUS
  <2>2. \A m \in UserMsg : m.role # "summary" BY DEF UserMsg, UserRoles
  <2> QED BY <2>1, <2>2, UserSequences DEF Recalled
<1>2. ASSUME NEW c \in Contexts, NEW h
      PROVE  Closings(c) \in Seq(Msg) /\ Recalled(Closings(c), h)
  <2>1. \A x : Message("tool", x).role = "tool" BY DEF Message
  <2> QED BY <2>1, ClosingsTyped DEF Recalled
<1>3. \A x : Message("tool", x).role # "summary" /\ Message("assistant", x).role # "summary"
  BY DEF Message
<1>4. ASSUME NEW m, m.role # "summary", NEW h PROVE Recalled(<<m>>, h)
  BY <1>4 DEF Recalled
<1> QED BY <1>1, <1>2, <1>3, <1>4

LEMMA CloseRecalls ==
  ASSUME NEW c \in Contexts, NEW h, Recalled(c.history, h)
  PROVE  Recalled(closePendingToolResults(c).history, h)
<1> DEFINE u == c.history
           k == Closings(c)
           d == c.deferredMessages
<1>1. u \in Seq(Msg) /\ d \in Seq(UserMsg) BY ContextFields
<1>2. k \in Seq(Msg) /\ Recalled(k, h) BY NoSummaries
<1> HIDE DEF k
<1>3. Recalled(u, h) OBVIOUS
<1> HIDE DEF u, d
<1>4. d \in Seq(Msg) /\ Recalled(d, h) BY <1>1, NoSummaries
<1>5. u \o k \in Seq(Msg) /\ Recalled(u \o k, h) BY <1>1, <1>2, <1>3, RecalledBoth
<1>6. Recalled((u \o k) \o d, h) BY <1>4, <1>5, RecalledBoth
<1> QED BY <1>3, <1>6, ClosedFields DEF u, k, d

(* Only a record of a compaction brings a summary.                         *)
LEMMA RestoreRecalls ==
  ASSUME NEW c \in Contexts, NEW r \in Records, r.type # "apply_compaction",
         NEW h, Recalled(c.history, h)
  PROVE  Recalled(restoreAgentRecord(c, r).history, h)
<1> DEFINE d == restoreAgentRecord(c, r)
           u == c.history
           e == c.deferredMessages
<1>0. u \in Seq(Msg) /\ e \in Seq(UserMsg) /\ Recalled(u, h) BY ContextFields
<1> HIDE DEF u, e
<1>1. e \in Seq(Msg) /\ Recalled(e, h) BY <1>0, NoSummaries
<1>2. Recalled(u \o e, h) BY <1>0, <1>1, RecalledBoth
<1>3. CASE throws(c, r) BY <1>0, <1>3 DEF restoreAgentRecord, u
<1>4. CASE ~ throws(c, r) /\ r.type = "append_message"
  <2>1. r.arg \in UserMsg BY <1>4, RecordKinds
  <2> DEFINE ms == <<r.arg>>
  <2>2. ms \in Seq(UserMsg) BY <2>1
  <2>3. d = appendMessages(c, ms) BY <1>4 DEF restoreAgentRecord, appendMessage
  <2> HIDE DEF ms
  <2>4. ms \in Seq(Msg) /\ Recalled(ms, h) BY <2>2, NoSummaries
  <2>5. Recalled(u \o ms, h) BY <1>0, <2>4, RecalledBoth
  <2> QED BY <1>0, <2>2, <2>3, <2>5, AppendFields DEF u
<1>5. CASE ~ throws(c, r) /\ r.type = "step.begin"
  <2>1. r.arg \in Nat BY <1>5, RecordKinds
  <2> DEFINE x == closePendingToolResults(c)
             m == Message("assistant", r.arg)
             v == x.history
  <2>2. d = stepBegin(c, r.arg) BY <1>5 DEF restoreAgentRecord
  <2>3. d.history = Append(v, m) BY <2>1, <2>2, BeginFields
  <2>4. v \in Seq(Msg) BY CloseTyped, ContextFields
  <2>5. Recalled(v, h) BY <1>0, CloseRecalls DEF u
  <2>6. m \in Msg BY <2>1 DEF Message, Msg
  <2>7. Recalled(<<m>>, h) BY <2>1, NoSummaries
  <2> HIDE DEF m, v, x
  <2>8. Append(v, m) = v \o <<m>> /\ <<m>> \in Seq(Msg) BY <2>4, <2>6
  <2> QED BY <2>3, <2>4, <2>5, <2>7, <2>8, RecalledBoth
<1>6. CASE ~ throws(c, r) /\ r.type = "content.part"
  BY <1>0, <1>6 DEF restoreAgentRecord, u
<1>7. CASE ~ throws(c, r) /\ r.type = "tool.call"
  <2>1. r.arg \in CallId BY <1>7, RecordKinds
  <2>2. d = toolCall(c, r.arg) BY <1>7 DEF restoreAgentRecord
  <2> DEFINE call == r.arg
             v == WithCall(u, call)
  <2>3. d.history = v BY <2>1, <2>2, CallFields DEF u
  <2>4. /\ Len(v) = Len(u)
        /\ \A i \in 1..Len(u) : v[i].role = u[i].role /\ v[i].id = u[i].id
    BY <1>0, <2>1, WithCallKeeps
  <2> HIDE DEF v
  <2> QED BY <1>0, <2>3, <2>4 DEF Recalled
<1>8. CASE ~ throws(c, r) /\ r.type = "tool.result"
  <2>1. r.arg \in CallId BY <1>8, RecordKinds
  <2>2. d = toolResult(c, r.arg) BY <1>8 DEF restoreAgentRecord
  <2> DEFINE m == Message("tool", r.arg)
  <2>3. m \in Msg /\ Recalled(<<m>>, h) BY <2>1, ToolMessages, NoSummaries
  <2>4. \/ d = c \/ d.history = Append(u, m) \/ d.history = Append(u, m) \o e
    BY <2>1, <2>2, ResultFields DEF u, e
  <2> HIDE DEF m
  <2>5. Append(u, m) = u \o <<m>> /\ <<m>> \in Seq(Msg) BY <1>0, <2>3
  <2>6. Recalled(Append(u, m), h) BY <1>0, <2>3, <2>5, RecalledBoth
  <2>7. Append(u, m) \in Seq(Msg) BY <1>0, <2>3
  <2>8. Recalled(Append(u, m) \o e, h) BY <1>1, <2>6, <2>7, RecalledBoth
  <2> QED BY <1>0, <2>4, <2>6, <2>8 DEF u
<1>9. CASE ~ throws(c, r) /\ r.type = "step.end"
  <2>1. r.arg \in Nat BY <1>9, RecordKinds
  <2>2. d = stepEnd(c, r.arg) BY <1>9 DEF restoreAgentRecord
  <2>3. d.history = u \/ d.history = u \o e BY <2>1, <2>2, EndFields, ZenonT(40) DEF u, e
  <2> QED BY <1>0, <1>2, <2>3
<1>10. CASE ~ throws(c, r) /\ r.type = "undo"
  <2>1. d = undo(c) BY <1>10 DEF restoreAgentRecord
  <2> DEFINE v == Undone(u)
  <2>2. d = c \/ d.history = v BY <2>1, UndoFields DEF u
  <2>3. PICK p : Picks(p, v, u, Len(u)) BY UndonePicks DEF u
  <2> HIDE DEF v
  <2>4. \A i \in 1..Len(v) : p[i] \in 1..Len(u) /\ v[i] = u[p[i]] BY <2>3 DEF Picks
  <2>5. Recalled(v, h)
    <3>1. SUFFICES ASSUME NEW i \in 1..Len(v), v[i].role = "summary"
                   PROVE  \E j \in 1..Len(h) : h[j].role = v[i].role /\ h[j].id = v[i].id
      BY DEF Recalled
    <3> DEFINE k == p[i]
    <3>2. k \in 1..Len(u) /\ v[i] = u[k] BY <2>4
    <3> HIDE DEF k
    <3> QED BY <1>0, <3>1, <3>2 DEF Recalled
  <2> QED BY <1>0, <2>2, <2>5 DEF u
<1>11. CASE ~ throws(c, r) /\ r.type = "clear"
  <2>1. d.history = <<>> BY <1>11, EmptyFields DEF restoreAgentRecord
  <2> QED BY <2>1 DEF Recalled
<1> QED BY <1>3, <1>4, <1>5, <1>6, <1>7, <1>8, <1>9, <1>10, <1>11, RecordKinds

(* A compaction is begun, goes on or is over.                              *)
LEMMA CompactionSteps ==
  ASSUME TypeInv, [Next]_vars
  PROVE  compaction' = compaction \/ compaction' = Idle \/ \E n : beginCompaction(n)
<1>1. ASSUME NEW t \in Turn, worker(t)
      PROVE  compaction' = compaction \/ \E n : beginCompaction(n)
  BY <1>1 DEF worker, appendPrompt, beforeStep, autoCompaction, stopBeforeStep, beginStep,
     contentPart, requestFails, handleOverflowError, response, recordToolCall, toolReminder,
     recordToolResult, endStep
<1>2. CASE cancel BY <1>2 DEF cancel
<1>3. CASE launch \/ steer \/ remind \/ undoHistory \/ clearContext \/ UNCHANGED vars
  BY <1>3 DEF launch, steer, remind, undoHistory, clearContext, vars
<1>4. CASE manualCompaction BY <1>4 DEF manualCompaction
<1>5. CASE compactionDone \/ cancelCompaction \/ compactionFails \/ crash
  BY <1>5 DEF compactionDone, cancelCompaction, compactionFails, crash
<1> QED BY <1>1, <1>2, <1>3, <1>4, <1>5 DEF Next

(* A compaction that is on summarises some of the messages it began with.  *)
CompactionInv ==
  compaction.on => compaction.compactedCount \in 1..Len(compaction.original)

LEMMA CompactionKept ==
  ASSUME TypeInv, CompactionInv, [Next]_vars
  PROVE  CompactionInv'
<1>1. CASE compaction' = compaction BY <1>1 DEF CompactionInv
<1>2. CASE compaction' = Idle BY <1>2 DEF CompactionInv, Idle
<1>3. ASSUME NEW n, beginCompaction(n) PROVE CompactionInv'
  <2>1. n \in 1..Len(context.history) BY <1>3, BeginsTyped
  <2> QED BY <1>3, <2>1 DEF CompactionInv, beginCompaction
<1> QED BY <1>1, <1>2, <1>3, CompactionSteps

LEMMA CompactionHolds == Spec => []CompactionInv
<1>1. Init => CompactionInv BY DEF Init, CompactionInv, Idle
<1>2. TypeInv /\ CompactionInv /\ [Next]_vars => CompactionInv' BY CompactionKept
<1> QED BY <1>1, <1>2, ContextTypes, PTL DEF Spec

(* A summary replaces the first messages and leaves the others.            *)
LEMMA CompactionDrops ==
  ASSUME TypeInv, CompactionInv, NEW r \in Records, r.type = "apply_compaction",
         Warranted(r), context' = restoreAgentRecord(context, r)
  PROVE  \A m \in Range(context.history) :
            Kept(m, context'.history)
            \/ Kept(m, SubSeq(compaction.original, 1, compaction.compactedCount))
<1> DEFINE h == context.history
           n == compaction.compactedCount
           o == compaction.original
           s == r.arg[1]
           d == context.deferredMessages
<1>1. context \in Contexts /\ compaction \in Compactions BY DEF TypeInv
<1>2. h \in Seq(Msg) /\ o \in Seq(Msg) /\ d \in Seq(UserMsg) /\ d \in Seq(Msg)
  BY <1>1, ContextFields, UserSequences DEF Compactions
<1>3. s \in Nat /\ r.arg \in Nat \X Nat BY RecordKinds
<1>4. /\ n \in 1..Len(o) /\ r.arg[2] = n /\ Len(o) =< Len(h)
      /\ \A i \in 1..Len(o) : h[i].role = o[i].role /\ h[i].id = o[i].id
  <2>1. DOMAIN o = 1..Len(o) BY <1>2
  <2> QED BY <2>1 DEF Warranted, SamePrefix, CompactionInv
<1>5. context' = applyCompaction(context, s, n) BY <1>4 DEF restoreAgentRecord, throws
<1> DEFINE first == Message("summary", s)
           rest  == SubSeq(h, n + 1, Len(h))
           v     == <<first>> \o rest
<1>6. first \in Msg BY <1>3 DEF Message, Msg
<1>7. context'.history = v \/ context'.history = v \o d
  <2> DEFINE c == context
  <2>1. n \in Nat /\ c \in Contexts BY <1>1, <1>2, <1>4
  <2> HIDE DEF c, s, n
  <2>2. LET x == applyCompaction(c, s, n)
            w == <<Message("summary", s)>> \o SubSeq(c.history, n + 1, Len(c.history))
        IN  x.history = w \/ x.history = w \o c.deferredMessages
    BY <1>3, <2>1, CompactionFields, ZenonT(40)
  <2> QED BY <1>5, <2>2 DEF c
<1> HIDE DEF first, s
<1>8. SUFFICES ASSUME NEW i \in 1..Len(h)
               PROVE  Kept(h[i], context'.history) \/ Kept(h[i], SubSeq(o, 1, n))
  <2>1. Range(h) = {h[i] : i \in 1..Len(h)} BY <1>2 DEF Range
  <2> QED BY <2>1
<1> HIDE DEF h, o, n, d
<1>9. CASE i =< n
  <2>1. i \in 1..Len(SubSeq(o, 1, n)) /\ SubSeq(o, 1, n)[i] = o[i] /\ i \in 1..Len(o)
    BY <1>2, <1>4, <1>9
  <2>2. DOMAIN SubSeq(o, 1, n) = 1..Len(SubSeq(o, 1, n)) BY <1>2, <1>4
  <2>3. h[i].role = o[i].role /\ h[i].id = o[i].id BY <1>4, <2>1
  <2> QED BY <2>1, <2>2, <2>3 DEF Kept
<1>10. CASE ~ (i =< n)
  <2> DEFINE k == i - n
  <2>1. rest \in Seq(Msg) /\ k \in 1..Len(rest) /\ rest[k] = h[i] BY <1>2, <1>4, <1>10
  <2> HIDE DEF rest
  <2>2. v \in Seq(Msg) /\ k + 1 \in 1..Len(v) /\ v[k + 1] = rest[k] BY <1>6, <2>1
  <2> HIDE DEF v
  <2>3. /\ v \o d \in Seq(Msg) /\ k + 1 \in 1..Len(v \o d) /\ (v \o d)[k + 1] = v[k + 1]
    BY <1>2, <2>2
  <2>4. k + 1 \in DOMAIN v /\ k + 1 \in DOMAIN (v \o d) BY <2>2, <2>3
  <2>5. Kept(h[i], v) BY <2>1, <2>2, <2>4 DEF Kept
  <2>6. Kept(h[i], v \o d) BY <2>1, <2>2, <2>3, <2>4 DEF Kept
  <2> QED BY <1>7, <2>5, <2>6
<1> QED BY <1>9, <1>10

(* Without a compaction's record no summary is new.                        *)
LEMMA NoNewSummary ==
  ASSUME TypeInv, LogStep \/ PruneStep
  PROVE  \/ Recalled(context'.history, context.history)
         \/ \E r \in Records : /\ r.type = "apply_compaction" /\ Warranted(r)
                               /\ context' = restoreAgentRecord(context, r)
<1> DEFINE h == context.history
<1>1. context \in Contexts /\ h \in Seq(Msg) BY ContextFields DEF TypeInv
<1>2. Recalled(h, h) BY DEF Recalled
<1>3. ASSUME NEW qs, Logs(qs)
      PROVE  \/ Recalled(context'.history, h)
             \/ \E r \in Records : /\ r.type = "apply_compaction" /\ Warranted(r)
                                   /\ context' = restoreAgentRecord(context, r)
  <2>1. /\ qs \in Seq(Records) /\ Follows(context, qs, context')
        /\ \A i \in 1..Len(qs) : Warranted(qs[i]) /\ (qs[i].type \in Alone => Len(qs) = 1)
    BY <1>3 DEF Logs
  <2>2. CASE \E i \in 1..Len(qs) : qs[i].type = "apply_compaction"
    <3>1. PICK i \in 1..Len(qs) : qs[i].type = "apply_compaction" BY <2>2
    <3>2. Len(qs) = 1 /\ Warranted(qs[i]) BY <2>1, <3>1 DEF Alone
    <3>3. i = 1 BY <3>2
    <3>4. PICK f : Leads(f, context, qs, context') BY <2>1 DEF Follows
    <3>5. f[1] = restoreAgentRecord(f[0], qs[1]) /\ f[0] = context /\ f[1] = context'
      BY <3>2, <3>4 DEF Leads
    <3>6. qs[1] \in Records BY <2>1, <3>2
    <3> QED BY <3>1, <3>2, <3>3, <3>5, <3>6
  <2>3. CASE \A i \in 1..Len(qs) : qs[i].type # "apply_compaction"
    <3> DEFINE G == [i \in 0..Len(qs) |-> {x \in Contexts : Recalled(x.history, h)}]
    <3>1. context \in G[0] BY <1>1, <1>2
    <3>2. ASSUME NEW i \in 1..Len(qs), NEW x \in G[i - 1], x \in Contexts
          PROVE  restoreAgentRecord(x, qs[i]) \in G[i]
      <4>1. i \in 0..Len(qs) /\ i - 1 \in 0..Len(qs) /\ qs[i] \in Records BY <2>1
      <4>2. Recalled(x.history, h) BY <3>2, <4>1
      <4>3. Recalled(restoreAgentRecord(x, qs[i]).history, h)
        BY <2>3, <3>2, <4>1, <4>2, RestoreRecalls
      <4>4. restoreAgentRecord(x, qs[i]) \in Contexts BY <3>2, <4>1, RestoreTyped
      <4> QED BY <4>1, <4>3, <4>4
    <3> HIDE DEF G
    <3>3. context' \in G[Len(qs)] BY <2>1, <3>1, <3>2, FollowsKeeps
    <3>4. Len(qs) \in 0..Len(qs) BY <2>1
    <3> QED BY <3>3, <3>4 DEF G
  <2> QED BY <2>2, <2>3
<1>4. CASE PruneStep
  <2>1. \E i \in DOMAIN context.history : context.history[i].role \in ToolRoles
    BY <1>4 DEF PruneStep
  <2>2. PICK i \in 1..Len(h) : /\ h[i].role \in ToolRoles
                               /\ context'.history = [h EXCEPT ![i].role = "pruned"]
    BY <1>1, <1>4, <2>1, PruneFields DEF PruneStep
  <2> DEFINE g == [h EXCEPT ![i].role = "pruned"]
  <2>3. \A j \in 1..Len(h) : h[j] \in Msg BY <1>1
  <2>4. \A m \in Msg : /\ [m EXCEPT !.role = "pruned"].role = "pruned"
                       /\ [m EXCEPT !.role = "pruned"].id = m.id
    BY DEF Msg
  <2>5. Len(g) = Len(h) BY <1>1
  <2>6. \A j \in 1..Len(h) : j # i => g[j] = h[j] BY <1>1
  <2>7. g[i] = [h[i] EXCEPT !.role = "pruned"] BY <1>1, <2>2
  <2>8. g[i].role = "pruned" BY <2>2, <2>3, <2>4, <2>7
  <2> HIDE DEF g
  <2>9. Recalled(g, h) BY <2>5, <2>6, <2>8 DEF Recalled
  <2> QED BY <2>2, <2>9 DEF g
<1> QED BY <1>3, <1>4 DEF LogStep

(* Whatever a summary displaces, it was made from.                         *)
LEMMA SummaryStep ==
  ASSUME TypeInv, CompactionInv, [Next]_vars, used'.crashes = used.crashes,
         \E m \in Range(context'.history) : m.role = "summary" /\ ~ Kept(m, context.history)
  PROVE  \A m \in Range(context.history) :
            Kept(m, context'.history)
            \/ Kept(m, SubSeq(compaction.original, 1, compaction.compactedCount))
<1>1. ~ crash
  <2>1. used \in Uses BY DEF TypeInv
  <2>2. ASSUME crash PROVE FALSE
    <3>1. used'.crashes = used.crashes + 1 BY <2>1, <2>2 DEF crash, Uses
    <3>2. used.crashes \in Nat BY <2>1 DEF Uses
    <3> QED BY <3>1, <3>2
  <2> QED BY <2>2
<1>2. LogStep \/ PruneStep BY <1>1, StepLogs
<1>3. ~ Recalled(context'.history, context.history)
  <2> DEFINE h == context.history
             g == context'.history
  <2>1. context \in Contexts /\ context' \in Contexts BY ContextTyped DEF TypeInv
  <2>2. h \in Seq(Msg) /\ g \in Seq(Msg) BY <2>1, ContextFields
  <2> HIDE DEF h, g
  <2>3. PICK i \in 1..Len(g) : g[i].role = "summary" /\ ~ Kept(g[i], h)
    <3>1. Range(g) = {g[i] : i \in 1..Len(g)} BY <2>2 DEF Range
    <3> QED BY <3>1 DEF g, h
  <2>4. DOMAIN h = 1..Len(h) BY <2>2
  <2>5. ~ Recalled(g, h) BY <2>3, <2>4 DEF Recalled, Kept
  <2> QED BY <2>5 DEF g, h
<1>4. PICK r \in Records : /\ r.type = "apply_compaction" /\ Warranted(r)
                           /\ context' = restoreAgentRecord(context, r)
  BY <1>2, <1>3, NoNewSummary
<1> QED BY <1>4, CompactionDrops

(* The messages that disappear when a summary comes in are among those it  *)
(* was made from, whatever else changes the conversation meanwhile.        *)
THEOREM SummariesCover == Spec => SummaryCoversWhatItDrops
<1> DEFINE Covers ==
      LET old == Range(context.history)
          new == Range(context'.history)
      IN  used'.crashes = used.crashes
          /\ (\E m \in new : m.role = "summary" /\ ~ Kept(m, context.history))
            => \A m \in old : Kept(m, context'.history)
                             \/ Kept(m, SubSeq(compaction.original, 1, compaction.compactedCount))
<1>1. TypeInv /\ CompactionInv /\ [Next]_vars => [Covers]_vars
  BY SummaryStep
<1> QED BY <1>1, ContextTypes, CompactionHolds, PTL DEF Spec, SummaryCoversWhatItDrops

-----------------------------------------------------------------------------
(* The order of the messages.                                              *)

IsUser(m) == m.role \in UserRoles

Bounded(s, n) == \A i \in 1..Len(s) : IsUser(s[i]) => s[i].id \in 1..n

Before(s, u) ==
  \A i \in 1..Len(s), j \in 1..Len(u) : IsUser(s[i]) /\ IsUser(u[j]) => s[i].id < u[j].id

Sorted(s, n) == InOrder(s) /\ Bounded(s, n)

NoUsers(s) == \A i \in 1..Len(s) : ~ IsUser(s[i])

(* The history, then what is held back, in the order of the numbers; and   *)
(* only an open exchange holds messages back.                              *)
Ordered(c, n) ==
  /\ Sorted(c.history, n) /\ Sorted(c.deferredMessages, n)
  /\ Before(c.history, c.deferredMessages)
  /\ c.deferredMessages # <<>> => hasOpenToolExchange(c)

LEMMA SortedBoth ==
  ASSUME NEW s \in Seq(Msg), NEW u \in Seq(Msg), NEW n \in Nat, Sorted(s, n), Sorted(u, n),
         Before(s, u)
  PROVE  Sorted(s \o u, n)
<1> DEFINE v == s \o u
<1>1. DOMAIN s = 1..Len(s) /\ DOMAIN u = 1..Len(u) /\ DOMAIN v = 1..Len(v) OBVIOUS
<1>2. \A i \in 1..Len(v) : \/ i \in 1..Len(s) /\ v[i] = s[i]
                           \/ i - Len(s) \in 1..Len(u) /\ v[i] = u[i - Len(s)] /\ Len(s) < i
  BY EitherPart
<1>3. Len(s) \in Nat /\ Len(u) \in Nat /\ Len(v) \in Nat OBVIOUS
<1> HIDE DEF v
<1>4. Bounded(v, n)
  <2>1. SUFFICES ASSUME NEW i \in 1..Len(v), IsUser(v[i]) PROVE v[i].id \in 1..n
    BY DEF Bounded
  <2>2. CASE i \in 1..Len(s) /\ v[i] = s[i] BY <2>1, <2>2 DEF Sorted, Bounded
  <2>3. CASE i - Len(s) \in 1..Len(u) /\ v[i] = u[i - Len(s)]
    BY <2>1, <2>3 DEF Sorted, Bounded
  <2> QED BY <1>2, <2>2, <2>3
<1>5. InOrder(v)
  <2>1. SUFFICES ASSUME NEW i \in 1..Len(v), NEW j \in 1..Len(v), i < j, IsUser(v[i]),
                        IsUser(v[j])
                 PROVE  v[i].id < v[j].id
    BY <1>1 DEF InOrder, IsUser
  <2>2. CASE j \in 1..Len(s) /\ v[j] = s[j]
    <3>1. i \in 1..Len(s) /\ v[i] = s[i] BY <1>2, <1>3, <2>1, <2>2
    <3> QED BY <1>1, <2>1, <2>2, <3>1 DEF Sorted, InOrder, IsUser
  <2>3. CASE i \in 1..Len(s) /\ v[i] = s[i] /\ Len(s) < j
    <3> DEFINE k == j - Len(s)
    <3>1. k \in 1..Len(u) /\ v[j] = u[k] BY <1>2, <1>3, <2>1, <2>3
    <3> HIDE DEF k
    <3> QED BY <2>1, <2>3, <3>1 DEF Before
  <2>4. CASE ~ (i \in 1..Len(s)) /\ Len(s) < j
    <3> DEFINE k == j - Len(s)
               l == i - Len(s)
    <3>0. ~ (j \in 1..Len(s)) /\ ~ (i \in 1..Len(s)) BY <1>3, <2>1, <2>4
    <3>1. k \in 1..Len(u) /\ v[j] = u[k] BY <1>2, <2>1, <3>0
    <3>2. l \in 1..Len(u) /\ v[i] = u[l] BY <1>2, <2>1, <3>0
    <3>3. l < k BY <1>3, <2>1
    <3> HIDE DEF k, l
    <3> QED BY <1>1, <2>1, <3>1, <3>2, <3>3 DEF Sorted, InOrder, IsUser
  <2>5. \/ j \in 1..Len(s) /\ v[j] = s[j]
        \/ i \in 1..Len(s) /\ v[i] = s[i] /\ Len(s) < j
        \/ ~ (i \in 1..Len(s)) /\ Len(s) < j
    BY <1>2, <1>3
  <2> QED BY <2>2, <2>3, <2>4, <2>5
<1> QED BY <1>4, <1>5 DEF Sorted, v

LEMMA BeforeBoth ==
  ASSUME NEW s \in Seq(Msg), NEW u \in Seq(Msg), NEW w \in Seq(Msg)
  PROVE  /\ Before(s, w) /\ Before(u, w) => Before(s \o u, w)
         /\ Before(w, s) /\ Before(w, u) => Before(w, s \o u)
<1> DEFINE v == s \o u
<1>1. \A i \in 1..Len(v) : \/ i \in 1..Len(s) /\ v[i] = s[i]
                           \/ i - Len(s) \in 1..Len(u) /\ v[i] = u[i - Len(s)]
  BY EitherPart
<1> HIDE DEF v
<1>2. ASSUME Before(s, w), Before(u, w) PROVE Before(v, w)
  <2>1. SUFFICES ASSUME NEW i \in 1..Len(v), NEW j \in 1..Len(w), IsUser(v[i]), IsUser(w[j])
                 PROVE  v[i].id < w[j].id
    BY DEF Before
  <2>2. CASE i \in 1..Len(s) /\ v[i] = s[i] BY <1>2, <2>1, <2>2 DEF Before
  <2>3. CASE i - Len(s) \in 1..Len(u) /\ v[i] = u[i - Len(s)] BY <1>2, <2>1, <2>3 DEF Before
  <2> QED BY <1>1, <2>2, <2>3
<1>3. ASSUME Before(w, s), Before(w, u) PROVE Before(w, v)
  <2>1. SUFFICES ASSUME NEW i \in 1..Len(v), NEW j \in 1..Len(w), IsUser(v[i]), IsUser(w[j])
                 PROVE  w[j].id < v[i].id
    BY DEF Before
  <2>2. CASE i \in 1..Len(s) /\ v[i] = s[i] BY <1>3, <2>1, <2>2 DEF Before
  <2>3. CASE i - Len(s) \in 1..Len(u) /\ v[i] = u[i - Len(s)] BY <1>3, <2>1, <2>3 DEF Before
  <2> QED BY <1>1, <2>2, <2>3
<1> QED BY <1>2, <1>3 DEF v

LEMMA NothingSorted ==
  ASSUME NEW s \in Seq(Msg), NoUsers(s), NEW n
  PROVE  /\ Sorted(s, n)
         /\ \A u : Before(s, u) /\ Before(u, s)
<1>1. DOMAIN s = 1..Len(s) OBVIOUS
<1> QED BY <1>1 DEF Sorted, InOrder, Bounded, Before, NoUsers, IsUser

LEMMA EmptyUsers == <<>> \in Seq(Msg) /\ NoUsers(<<>>)
BY DEF NoUsers

(* The user's messages of s are, in their order, some of those of h.       *)
Draws(e, s, h) ==
  /\ e \in [1..Len(s) -> 1..Len(h)]
  /\ \A i \in 1..Len(s) : IsUser(s[i]) => IsUser(h[e[i]]) /\ s[i].id = h[e[i]].id
  /\ \A i, j \in 1..Len(s) : i < j => e[i] < e[j]

LEMMA DrawnSorted ==
  ASSUME NEW s \in Seq(Msg), NEW h \in Seq(Msg), NEW e, Draws(e, s, h), NEW n, Sorted(h, n)
  PROVE  /\ Sorted(s, n)
         /\ \A u : Before(h, u) => Before(s, u)
<1>1. DOMAIN s = 1..Len(s) /\ DOMAIN h = 1..Len(h) OBVIOUS
<1>2. \A i \in 1..Len(s) : e[i] \in 1..Len(h) BY DEF Draws
<1>3. \A i \in 1..Len(s) : IsUser(s[i]) => IsUser(h[e[i]]) /\ s[i].id = h[e[i]].id BY DEF Draws
<1>4. \A i, j \in 1..Len(s) : i < j => e[i] < e[j] BY DEF Draws
<1>5. ASSUME NEW i \in 1..Len(s), NEW j \in 1..Len(s), i < j, IsUser(s[i]), IsUser(s[j])
      PROVE  s[i].id < s[j].id
  <2> DEFINE k == e[i]
             l == e[j]
  <2>1. /\ k \in 1..Len(h) /\ l \in 1..Len(h) /\ k < l /\ IsUser(h[k]) /\ IsUser(h[l])
        /\ s[i].id = h[k].id /\ s[j].id = h[l].id
    BY <1>2, <1>3, <1>4, <1>5
  <2> HIDE DEF k, l
  <2> QED BY <1>1, <2>1 DEF Sorted, InOrder, IsUser
<1>6. InOrder(s) BY <1>1, <1>5 DEF InOrder, IsUser
<1>7. Bounded(s, n) BY <1>2, <1>3 DEF Sorted, Bounded
<1>8. ASSUME NEW u, Before(h, u) PROVE Before(s, u)
  BY <1>2, <1>3, <1>8 DEF Before
<1> QED BY <1>6, <1>7, <1>8 DEF Sorted

LEMMA PickedSorted ==
  ASSUME NEW s \in Seq(Msg), NEW h \in Seq(Msg), NEW e, Picks(e, s, h, Len(h))
  PROVE  Draws(e, s, h)
BY DEF Picks, Draws

LEMMA LikeSorted ==
  ASSUME NEW s \in Seq(Msg), NEW h \in Seq(Msg), Len(s) = Len(h),
         \A i \in 1..Len(h) : IsUser(s[i]) => IsUser(h[i]) /\ s[i].id = h[i].id
  PROVE  \E e : Draws(e, s, h)
<1> DEFINE e == [i \in 1..Len(h) |-> i]
<1>1. e \in [1..Len(s) -> 1..Len(h)] /\ \A i \in 1..Len(s) : e[i] = i OBVIOUS
<1> HIDE DEF e
<1>2. Draws(e, s, h) BY <1>1 DEF Draws
<1> QED BY <1>2

LEMMA RestSorted ==
  ASSUME NEW h \in Seq(Msg), NEW k \in Nat
  PROVE  \E e : Draws(e, SubSeq(h, k + 1, Len(h)), h)
<1> DEFINE s == SubSeq(h, k + 1, Len(h))
           e == [i \in 1..Len(s) |-> i + k]
<1>1. s \in Seq(Msg) /\ \A i \in 1..Len(s) : i + k \in 1..Len(h) /\ s[i] = h[i + k] OBVIOUS
<1> HIDE DEF s
<1>2. Len(s) \in Nat BY <1>1
<1>3. e \in [1..Len(s) -> 1..Len(h)] BY <1>1
<1>4. \A i \in 1..Len(s) : e[i] = i + k OBVIOUS
<1> HIDE DEF e
<1>5. \A i, j \in 1..Len(s) : i < j => e[i] < e[j] BY <1>2, <1>4
<1>6. Draws(e, s, h) BY <1>1, <1>3, <1>4, <1>5 DEF Draws
<1> QED BY <1>6 DEF s

LEMMA MessageSorted ==
  ASSUME NEW m \in UserMsg, NEW n \in Nat, m.id \in 1..n
  PROVE  <<m>> \in Seq(Msg) /\ Sorted(<<m>>, n)
<1> DEFINE s == <<m>>
<1>1. s \in Seq(Msg) BY UserMessages
<1>2. DOMAIN s = 1..1 /\ Len(s) = 1 /\ s[1] = m OBVIOUS
<1> HIDE DEF s
<1>3. \A i \in 1..1 : i = 1 OBVIOUS
<1>4. InOrder(s) BY <1>2, <1>3 DEF InOrder
<1>5. Bounded(s, n) BY <1>2, <1>3 DEF Bounded
<1> QED BY <1>1, <1>4, <1>5 DEF Sorted, s

LEMMA SortedWidens ==
  ASSUME NEW s \in Seq(Msg), NEW m \in Nat, NEW n \in Nat, m =< n, Sorted(s, m)
  PROVE  Sorted(s, n)
<1>1. 1..m \subseteq 1..n OBVIOUS
<1> QED BY <1>1 DEF Sorted, Bounded

LEMMA OrderedWidens ==
  ASSUME NEW c \in Contexts, NEW m \in Nat, NEW n \in Nat, m =< n, Ordered(c, m)
  PROVE  Ordered(c, n)
<1> DEFINE h == c.history
           d == c.deferredMessages
<1>1. h \in Seq(Msg) /\ d \in Seq(Msg) BY ContextFields, UserSequences
<1>2. Sorted(h, m) /\ Sorted(d, m) BY DEF Ordered
<1> HIDE DEF h, d
<1>3. Sorted(h, n) /\ Sorted(d, n) BY <1>1, <1>2, SortedWidens
<1> QED BY <1>3 DEF Ordered, h, d

(* A context made of messages in order is in order.                        *)
LEMMA MadeOrdered ==
  ASSUME NEW x \in Contexts, NEW h \in Seq(Msg), NEW d \in Seq(Msg), NEW n \in Nat,
         Sorted(h, n), Sorted(d, n), Before(h, d),
         \/ /\ x.history = h /\ x.deferredMessages = d
            /\ d # <<>> => x.pendingToolResultIds # <<>>
         \/ x.history = h \o d /\ x.deferredMessages = <<>>
  PROVE  Ordered(x, n)
<1>1. CASE /\ x.history = h /\ x.deferredMessages = d
           /\ d # <<>> => x.pendingToolResultIds # <<>>
  BY <1>1 DEF Ordered, hasOpenToolExchange
<1>2. CASE x.history = h \o d /\ x.deferredMessages = <<>>
  <2>1. Sorted(h \o d, n) BY SortedBoth
  <2>2. Sorted(<<>>, n) /\ Before(h \o d, <<>>) BY EmptyUsers, NothingSorted
  <2> QED BY <1>2, <2>1, <2>2 DEF Ordered
<1> QED BY <1>1, <1>2

(* Messages that are not the user's may join the history.                  *)
LEMMA JoinedSorted ==
  ASSUME NEW h \in Seq(Msg), NEW d \in Seq(Msg), NEW s \in Seq(Msg), NEW n \in Nat,
         Sorted(h, n), Before(h, d), NoUsers(s)
  PROVE  h \o s \in Seq(Msg) /\ Sorted(h \o s, n) /\ Before(h \o s, d)
<1>1. Sorted(s, n) /\ Before(h, s) /\ Before(s, d) BY NothingSorted
<1>2. h \o s \in Seq(Msg) OBVIOUS
<1>3. Sorted(h \o s, n) BY <1>1, SortedBoth
<1>4. Before(h \o s, d) BY <1>1, BeforeBoth
<1> QED BY <1>2, <1>3, <1>4

LEMMA ResultsAreNotUsers ==
  /\ \A c \in Contexts : Closings(c) \in Seq(Msg) /\ NoUsers(Closings(c))
  /\ \A call \in CallId :
       <<Message("tool", call)>> \in Seq(Msg) /\ NoUsers(<<Message("tool", call)>>)
  /\ \A s \in Nat :
       /\ <<Message("assistant", s)>> \in Seq(Msg) /\ NoUsers(<<Message("assistant", s)>>)
       /\ <<Message("summary", s)>> \in Seq(Msg) /\ NoUsers(<<Message("summary", s)>>)
<1>1. \A x : /\ ~ IsUser(Message("tool", x)) /\ ~ IsUser(Message("assistant", x))
             /\ ~ IsUser(Message("summary", x))
  BY DEF IsUser, Message, UserRoles
<1>2. ASSUME NEW c \in Contexts PROVE Closings(c) \in Seq(Msg) /\ NoUsers(Closings(c))
  BY <1>1, ClosingsTyped DEF NoUsers
<1>3. ASSUME NEW m \in Msg, ~ IsUser(m) PROVE <<m>> \in Seq(Msg) /\ NoUsers(<<m>>)
  BY <1>3 DEF NoUsers
<1>4. \A call \in CallId : Message("tool", call) \in Msg BY ToolMessages
<1>5. \A s \in Nat : Message("assistant", s) \in Msg /\ Message("summary", s) \in Msg
  BY DEF Message, Msg
<1> QED BY <1>1, <1>2, <1>3, <1>4, <1>5

LEMMA OrderedParts ==
  ASSUME NEW c \in Contexts, NEW n, Ordered(c, n)
  PROVE  /\ c.history \in Seq(Msg) /\ c.deferredMessages \in Seq(Msg)
         /\ Sorted(c.history, n) /\ Sorted(c.deferredMessages, n)
         /\ Before(c.history, c.deferredMessages)
         /\ c.deferredMessages # <<>> => c.pendingToolResultIds # <<>>
BY ContextFields, UserSequences DEF Ordered, hasOpenToolExchange

LEMMA CloseOrdered ==
  ASSUME NEW c \in Contexts, NEW n \in Nat, Ordered(c, n)
  PROVE  Ordered(closePendingToolResults(c), n)
<1> DEFINE h == c.history
           d == c.deferredMessages
           k == Closings(c)
           x == closePendingToolResults(c)
<1>1. /\ h \in Seq(Msg) /\ d \in Seq(Msg) /\ Sorted(h, n) /\ Sorted(d, n) /\ Before(h, d)
  BY OrderedParts
<1>2. k \in Seq(Msg) /\ NoUsers(k) BY ResultsAreNotUsers
<1>3. x = c \/ (x.history = (h \o k) \o d /\ x.deferredMessages = <<>>) BY ClosedFields
<1>4. x \in Contexts BY CloseTyped
<1> HIDE DEF h, d, k, x
<1>5. h \o k \in Seq(Msg) /\ Sorted(h \o k, n) /\ Before(h \o k, d) BY <1>1, <1>2, JoinedSorted
<1>6. CASE x = c BY <1>6 DEF x
<1>7. CASE x.history = (h \o k) \o d /\ x.deferredMessages = <<>>
  <2> DEFINE u == h \o k
  <2> HIDE DEF u
  <2>1. Ordered(x, n) BY <1>1, <1>4, <1>5, <1>7, MadeOrdered DEF u
  <2> QED BY <2>1 DEF x
<1> QED BY <1>3, <1>6, <1>7

LEMMA FinishOrdered ==
  ASSUME NEW c \in Contexts, NEW n \in Nat, Ordered(c, n)
  PROVE  Ordered(finishResume(c), n)
<1> DEFINE e == closePendingToolResults(c)
           d == finishResume(c)
<1>1. Ordered(e, n) /\ e \in Contexts BY CloseOrdered, CloseTyped
<1>2. e.pendingToolResultIds = <<>> /\ d.pendingToolResultIds = <<>> BY NothingPending
<1>3. d.history = e.history /\ d.deferredMessages = e.deferredMessages BY FinishFields
<1> HIDE DEF d, e
<1>4. Ordered(d, n) BY <1>1, <1>2, <1>3 DEF Ordered, hasOpenToolExchange
<1> QED BY <1>4 DEF d

(* A record that is not a message moves no message past another.           *)
LEMMA RestoreOrdered ==
  ASSUME NEW c \in Contexts, NEW r \in Records, ~ IsMessage(r), NEW n \in Nat, Ordered(c, n)
  PROVE  Ordered(restoreAgentRecord(c, r), n)
<1> DEFINE x == restoreAgentRecord(c, r)
           h == c.history
           d == c.deferredMessages
           p == c.pendingToolResultIds
<1>1. /\ h \in Seq(Msg) /\ d \in Seq(Msg) /\ Sorted(h, n) /\ Sorted(d, n) /\ Before(h, d)
      /\ d # <<>> => p # <<>>
  BY OrderedParts
<1>2. x \in Contexts BY RestoreTyped
<1> HIDE DEF h, d, p
<1>3. CASE throws(c, r) \/ r.type = "content.part" BY <1>3 DEF restoreAgentRecord
<1>4. CASE ~ throws(c, r) /\ r.type = "step.begin"
  <2>1. r.arg \in Nat /\ x = stepBegin(c, r.arg) BY <1>4, RecordKinds DEF restoreAgentRecord
  <2> DEFINE e == closePendingToolResults(c)
             m == Message("assistant", r.arg)
             u == e.history
             f == e.deferredMessages
  <2>2. Ordered(e, n) /\ e \in Contexts BY CloseOrdered, CloseTyped
  <2>3. x.history = Append(u, m) /\ x.deferredMessages = f BY <2>1, BeginFields
  <2>4. e.pendingToolResultIds = <<>> BY NothingPending
  <2>5. <<m>> \in Seq(Msg) /\ NoUsers(<<m>>) /\ m \in Msg
    BY <2>1, ResultsAreNotUsers DEF Message, Msg
  <2> HIDE DEF e
  <2>6. /\ u \in Seq(Msg) /\ f \in Seq(Msg) /\ Sorted(u, n) /\ Sorted(f, n) /\ Before(u, f)
        /\ f = <<>>
    BY <2>2, <2>4, OrderedParts
  <2> HIDE DEF m, u, f, x
  <2>7. u \o <<m>> \in Seq(Msg) /\ Sorted(u \o <<m>>, n) /\ Before(u \o <<m>>, f)
    BY <2>5, <2>6, JoinedSorted
  <2>8. Append(u, m) = u \o <<m>> BY <2>5, <2>6
  <2> DEFINE v == u \o <<m>>
  <2> HIDE DEF v
  <2>9. Ordered(x, n) BY <1>2, <2>3, <2>6, <2>7, <2>8, MadeOrdered DEF v
  <2> QED BY <2>9 DEF x
<1>5. CASE ~ throws(c, r) /\ r.type = "tool.call"
  <2>1. r.arg \in CallId /\ x = toolCall(c, r.arg) BY <1>5, RecordKinds DEF restoreAgentRecord
  <2> DEFINE v == WithCall(h, r.arg)
  <2>2. /\ v \in Seq(Msg) /\ Len(v) = Len(h)
        /\ \A i \in 1..Len(h) : v[i].role = h[i].role /\ v[i].id = h[i].id
    BY <1>1, <2>1, WithCallKeeps
  <2>3. /\ x.history = v /\ x.deferredMessages = d
        /\ x.pendingToolResultIds = Append(p, r.arg)
    BY <2>1, CallFields DEF h, d, p
  <2>4. p \in Seq(CallId) BY ContextFields DEF p
  <2>5. x.pendingToolResultIds # <<>> BY <2>1, <2>3, <2>4
  <2> HIDE DEF v, x
  <2>6. \E e : Draws(e, v, h) BY <1>1, <2>2, LikeSorted DEF IsUser
  <2>7. Sorted(v, n) /\ Before(v, d) BY <1>1, <2>2, <2>6, DrawnSorted
  <2>8. Ordered(x, n) BY <1>1, <1>2, <2>2, <2>3, <2>5, <2>7, MadeOrdered
  <2> QED BY <2>8 DEF x
<1>6. CASE ~ throws(c, r) /\ r.type = "tool.result"
  <2>1. r.arg \in CallId /\ x = toolResult(c, r.arg) BY <1>6, RecordKinds DEF restoreAgentRecord
  <2> DEFINE m == Message("tool", r.arg)
             v == h \o <<m>>
  <2>2. <<m>> \in Seq(Msg) /\ NoUsers(<<m>>) /\ m \in Msg BY <2>1, ResultsAreNotUsers, ToolMessages
  <2>3. \/ x = c
        \/ /\ x.history = Append(h, m) /\ x.deferredMessages = d
           /\ x.pendingToolResultIds # <<>>
        \/ x.history = Append(h, m) \o d /\ x.deferredMessages = <<>>
    <3> DEFINE call == r.arg
               z == toolResult(c, call)
               q == RemoveFirst(p, call)
    <3>1. /\ call \notin Range(p) => z = c
          /\ call \in Range(p) =>
               /\ z.pendingToolResultIds = q
               /\ q # <<>> => z.history = Append(h, m) /\ z.deferredMessages = d
               /\ q = <<>> => z.history = Append(h, m) \o d /\ z.deferredMessages = <<>>
      BY <2>1, ResultFields DEF h, d, p
    <3>2. x = z BY <2>1
    <3> HIDE DEF m, z, q, x
    <3> QED BY <3>1, <3>2
  <2> HIDE DEF m, x
  <2>4. Append(h, m) = v BY <1>1, <2>2
  <2>5. v \in Seq(Msg) /\ Sorted(v, n) /\ Before(v, d) BY <1>1, <2>2, JoinedSorted
  <2> HIDE DEF v
  <2>6. CASE x = c BY <2>6 DEF x
  <2>7. CASE x # c
    <3>1. Ordered(x, n) BY <1>1, <1>2, <2>3, <2>4, <2>5, <2>7, MadeOrdered
    <3> QED BY <3>1 DEF x
  <2> QED BY <2>6, <2>7
<1>7. CASE ~ throws(c, r) /\ r.type = "step.end"
  <2>1. r.arg \in Nat /\ x = stepEnd(c, r.arg) BY <1>7, RecordKinds DEF restoreAgentRecord
  <2>2. \/ /\ x.history = h /\ x.deferredMessages = d /\ x.pendingToolResultIds = p
        \/ x.history = h \o d /\ x.deferredMessages = <<>>
    <3> DEFINE z == stepEnd(c, r.arg)
    <3>1. /\ z.pendingToolResultIds = p
          /\ p # <<>> => z.history = h /\ z.deferredMessages = d
          /\ p = <<>> => z.history = h \o d /\ z.deferredMessages = <<>>
      BY <2>1, EndFields DEF h, d, p
    <3>2. x = z BY <2>1
    <3> HIDE DEF z, x
    <3> QED BY <3>1, <3>2
  <2> HIDE DEF x
  <2>3. Ordered(x, n) BY <1>1, <1>2, <2>2, MadeOrdered
  <2> QED BY <2>3 DEF x
<1>8. CASE ~ throws(c, r) /\ r.type = "undo"
  <2>1. x = undo(c) BY <1>8 DEF restoreAgentRecord
  <2> DEFINE v == Undone(h)
  <2>2. x = c \/ (x.history = v /\ x.deferredMessages = <<>>) BY <2>1, UndoFields DEF h
  <2>3. PICK e : Picks(e, v, h, Len(h)) BY UndonePicks DEF h
  <2>4. v \in Seq(Msg) BY UndoTyped DEF h
  <2> HIDE DEF v, x
  <2>5. Sorted(v, n) BY <1>1, <2>3, <2>4, PickedSorted, DrawnSorted
  <2>6. CASE x = c BY <2>6 DEF x
  <2>7. CASE x # c
    <3>1. <<>> \in Seq(Msg) /\ Sorted(<<>>, n) /\ Before(v, <<>>) BY EmptyUsers, NothingSorted
    <3>2. Ordered(x, n) BY <1>2, <2>2, <2>4, <2>5, <2>7, <3>1, MadeOrdered
    <3> QED BY <3>2 DEF x
  <2> QED BY <2>6, <2>7
<1>9. CASE ~ throws(c, r) /\ r.type = "clear"
  <2>1. x.history = <<>> /\ x.deferredMessages = <<>> BY <1>9, EmptyFields DEF restoreAgentRecord
  <2> HIDE DEF x
  <2>2. <<>> \in Seq(Msg) /\ Sorted(<<>>, n) /\ Before(<<>>, <<>>) BY EmptyUsers, NothingSorted
  <2>3. Ordered(x, n) BY <1>2, <2>1, <2>2, MadeOrdered
  <2> QED BY <2>3 DEF x
<1>10. CASE ~ throws(c, r) /\ r.type = "apply_compaction"
  <2> DEFINE s == r.arg[1]
             k == r.arg[2]
             m == Message("summary", s)
             w == SubSeq(h, k + 1, Len(h))
             v == <<m>> \o w
  <2>1. s \in Nat /\ k \in Nat /\ x = applyCompaction(c, s, k)
    BY <1>10, RecordKinds DEF restoreAgentRecord
  <2>2. <<m>> \in Seq(Msg) /\ NoUsers(<<m>>) BY <2>1, ResultsAreNotUsers
  <2>3. w \in Seq(Msg)
    <3> HIDE DEF k
    <3> QED BY <1>1, <2>1
  <2>4. Sorted(w, n) /\ Before(w, d)
    <3>1. \E e : Draws(e, w, h) BY <1>1, <2>1, RestSorted
    <3> HIDE DEF w
    <3> QED BY <1>1, <2>3, <3>1, DrawnSorted
  <2>5. \/ x.history = v /\ x.deferredMessages = d /\ x.pendingToolResultIds = p
        \/ x.history = v \o d /\ x.deferredMessages = <<>>
    <3> HIDE DEF s, k, x
    <3> QED BY <2>1, CompactionFields, ZenonT(40) DEF h, d, p
  <2> HIDE DEF w, m, x
  <2>6. v \in Seq(Msg) BY <2>2, <2>3
  <2>7. Sorted(v, n) /\ Before(v, d)
    <3>1. Sorted(<<m>>, n) /\ Before(<<m>>, w) /\ Before(<<m>>, d) BY <2>2, NothingSorted
    <3> QED BY <1>1, <2>2, <2>3, <2>4, <3>1, SortedBoth, BeforeBoth
  <2> HIDE DEF v
  <2>8. Ordered(x, n) BY <1>1, <1>2, <2>5, <2>6, <2>7, MadeOrdered
  <2> QED BY <2>8 DEF x
<1> QED BY <1>3, <1>4, <1>5, <1>6, <1>7, <1>8, <1>9, <1>10, RecordKinds DEF IsMessage

(* A message with the next number comes last.                              *)
LEMMA MessageOrdered ==
  ASSUME NEW c \in Contexts, NEW r \in Records, IsMessage(r), NEW n \in Nat, Ordered(c, n),
         r.arg.id = n + 1
  PROVE  Ordered(restoreAgentRecord(c, r), n + 1)
<1> DEFINE x == restoreAgentRecord(c, r)
           h == c.history
           d == c.deferredMessages
           p == c.pendingToolResultIds
           m == r.arg
           k == n + 1
<1>1. /\ h \in Seq(Msg) /\ d \in Seq(Msg) /\ Sorted(h, n) /\ Sorted(d, n) /\ Before(h, d)
      /\ d # <<>> => p # <<>>
  BY OrderedParts
<1>2. m \in UserMsg BY RecordKinds DEF IsMessage
<1>3. x = appendMessages(c, <<m>>) BY DEF restoreAgentRecord, throws, IsMessage, appendMessage
<1>4. x \in Contexts BY RestoreTyped
<1>5. <<m>> \in Seq(UserMsg) /\ m.id \in 1..k /\ k \in Nat /\ n =< k BY <1>2
<1>6. <<m>> \in Seq(Msg) /\ Sorted(<<m>>, k) BY <1>2, <1>5, MessageSorted
<1> DEFINE s == <<m>>
<1>7. Len(s) = 1 /\ s[1].id = k OBVIOUS
<1>8. /\ x.pendingToolResultIds = p
      /\ p # <<>> => x.history = h /\ x.deferredMessages = d \o s
      /\ p = <<>> => x.history = h \o s /\ x.deferredMessages = d
  BY <1>3, <1>5, AppendFields
<1> HIDE DEF h, d, p, m, x, s
<1>9. \A i \in 1..n : i < k OBVIOUS
<1> HIDE DEF k
<1>10. Before(h, s) /\ Before(d, s)
  <2>1. \A j \in 1..1 : j = 1 OBVIOUS
  <2> QED BY <1>1, <1>7, <1>9, <2>1 DEF Before, Sorted, Bounded
<1>11. Sorted(h, k) /\ Sorted(d, k) BY <1>1, <1>5, SortedWidens
<1>12. CASE p # <<>>
  <2>1. d \o s \in Seq(Msg) BY <1>1, <1>6 DEF s
  <2>2. Sorted(d \o s, k) BY <1>1, <1>5, <1>6, <1>10, <1>11, SortedBoth DEF s
  <2>3. Before(h, d \o s) BY <1>1, <1>6, <1>10, BeforeBoth DEF s
  <2> DEFINE e == d \o s
  <2>4. x.history = h /\ x.deferredMessages = e /\ x.pendingToolResultIds # <<>>
    BY <1>8, <1>12
  <2> HIDE DEF e
  <2>5. Ordered(x, k) BY <1>1, <1>4, <1>5, <1>11, <2>1, <2>2, <2>3, <2>4, MadeOrdered DEF e
  <2> QED BY <2>5 DEF x, k
<1>13. CASE p = <<>>
  <2>1. h \o s \in Seq(Msg) BY <1>1, <1>6 DEF s
  <2>2. Sorted(h \o s, k) BY <1>1, <1>5, <1>6, <1>10, <1>11, SortedBoth DEF s
  <2>3. d = <<>> BY <1>1, <1>13
  <2>4. Before(h \o s, d) BY <2>3, EmptyUsers, NothingSorted
  <2> DEFINE e == h \o s
  <2>5. x.history = e /\ x.deferredMessages = d BY <1>8, <1>13
  <2> HIDE DEF e
  <2>6. Ordered(x, k) BY <1>1, <1>4, <1>5, <1>11, <2>1, <2>2, <2>3, <2>4, <2>5, MadeOrdered DEF e
  <2> QED BY <2>6 DEF x, k
<1> QED BY <1>12, <1>13

(* The contexts in order that have room for the messages qs still brings.  *)
Room(qs, b) ==
  [i \in 0..Len(qs) |->
     {x \in Contexts : /\ Ordered(x, b)
                       /\ \A j \in (i + 1)..Len(qs) :
                            IsMessage(qs[j]) => Ordered(x, qs[j].arg.id - 1)}]

LEMMA RoomAtFirst ==
  ASSUME NEW qs \in Seq(Records), NEW a \in Nat, NEW b \in Nat, Counts(qs, a, b),
         NEW c \in Contexts, Ordered(c, a)
  PROVE  c \in Room(qs, b)[0]
<1>1. Ordered(c, b) BY OrderedWidens DEF Counts
<1>2. ASSUME NEW j \in 1..Len(qs), IsMessage(qs[j]) PROVE Ordered(c, qs[j].arg.id - 1)
  <2> DEFINE k == qs[j].arg.id
  <2>1. k \in (a + 1)..b BY <1>2 DEF Counts
  <2> HIDE DEF k
  <2>2. k - 1 \in Nat /\ a =< k - 1 BY <2>1
  <2>3. Ordered(c, k - 1) BY <2>2, OrderedWidens
  <2> QED BY <2>3 DEF k
<1>3. 0 \in 0..Len(qs) /\ 0 + 1 = 1 OBVIOUS
<1> QED BY <1>1, <1>2, <1>3 DEF Room

LEMMA RoomGoesOn ==
  ASSUME NEW qs \in Seq(Records), NEW a \in Nat, NEW b \in Nat, Counts(qs, a, b),
         NEW i \in 1..Len(qs), NEW c \in Room(qs, b)[i - 1]
  PROVE  restoreAgentRecord(c, qs[i]) \in Room(qs, b)[i]
<1> DEFINE x == restoreAgentRecord(c, qs[i])
           l == Len(qs)
<1>1. l \in Nat /\ i - 1 \in 0..l /\ i \in 0..l /\ (i - 1) + 1 = i /\ qs[i] \in Records OBVIOUS
<1>2. /\ c \in Contexts /\ Ordered(c, b)
      /\ \A j \in i..l : IsMessage(qs[j]) => Ordered(c, qs[j].arg.id - 1)
  BY <1>1 DEF Room
<1>3. x \in Contexts BY <1>1, <1>2, RestoreTyped
<1>4. \A j \in 1..l : IsMessage(qs[j]) => qs[j].arg.id \in (a + 1)..b BY DEF Counts
<1>5. SUFFICES /\ Ordered(x, b)
               /\ \A j \in (i + 1)..l : IsMessage(qs[j]) => Ordered(x, qs[j].arg.id - 1)
  BY <1>1, <1>3 DEF Room
<1>6. CASE ~ IsMessage(qs[i])
  <2>1. Ordered(x, b) BY <1>1, <1>2, <1>6, RestoreOrdered
  <2>2. ASSUME NEW j \in (i + 1)..l, IsMessage(qs[j]) PROVE Ordered(x, qs[j].arg.id - 1)
    <3> DEFINE k == qs[j].arg.id
    <3>1. j \in i..l /\ j \in 1..l BY <1>1
    <3>2. k \in (a + 1)..b /\ Ordered(c, k - 1) BY <1>2, <1>4, <2>2, <3>1
    <3> HIDE DEF k
    <3>3. k - 1 \in Nat BY <3>2
    <3>4. Ordered(x, k - 1) BY <1>1, <1>2, <1>6, <3>2, <3>3, RestoreOrdered
    <3> QED BY <3>4 DEF k
  <2> QED BY <2>1, <2>2
<1>7. CASE IsMessage(qs[i])
  <2> DEFINE n == qs[i].arg.id
             m == n - 1
  <2>1. i \in i..l /\ i \in 1..l BY <1>1
  <2>2. n \in (a + 1)..b /\ Ordered(c, n - 1) BY <1>2, <1>4, <1>7, <2>1
  <2> HIDE DEF n
  <2>3. m \in Nat /\ n = m + 1 /\ n \in Nat /\ n =< b BY <2>2
  <2>4. Ordered(c, m) BY <2>2
  <2> HIDE DEF m
  <2>5. qs[i].arg.id = m + 1 BY <2>3 DEF n
  <2>6. Ordered(x, n) BY <1>1, <1>2, <1>7, <2>3, <2>4, <2>5, MessageOrdered
  <2> HIDE DEF x
  <2>7. Ordered(x, b) BY <1>3, <2>3, <2>6, OrderedWidens
  <2>8. ASSUME NEW j \in (i + 1)..l, IsMessage(qs[j]) PROVE Ordered(x, qs[j].arg.id - 1)
    <3> DEFINE k == qs[j].arg.id
    <3>1. i < j /\ j \in 1..l BY <1>1
    <3>2. n < k /\ k \in (a + 1)..b BY <1>4, <1>7, <2>1, <2>8, <3>1 DEF Counts, n
    <3> HIDE DEF k
    <3>3. k - 1 \in Nat /\ n =< k - 1 BY <2>3, <3>2
    <3>4. Ordered(x, k - 1) BY <1>3, <2>3, <2>6, <3>3, OrderedWidens
    <3> QED BY <3>4 DEF k
  <2> QED BY <2>7, <2>8
<1> QED BY <1>6, <1>7

LEMMA RoomOrdered ==
  ASSUME NEW qs \in Seq(Records), NEW b, NEW i \in 0..Len(qs), NEW c \in Room(qs, b)[i]
  PROVE  Ordered(c, b)
BY DEF Room

(* The conversation, and every conversation a replay of the records passes *)
(* through, are in the order of the numbers given out.                     *)
OrderInv ==
  /\ Ordered(context, used.appended)
  /\ \A c \in Passes(records) : Ordered(c, used.appended)

LEMMA OrderInit == Init => OrderInv
<1> SUFFICES ASSUME Init PROVE OrderInv OBVIOUS
<1> DEFINE x == EmptyContext
<1>1. context = x /\ records = <<>> BY DEF Init
<1>2. used.appended = 0 BY DEF Init
<1>3. x.history = <<>> /\ x.deferredMessages = <<>> BY EmptyFields
<1>4. <<>> \in Seq(Msg) /\ Sorted(<<>>, 0) /\ Before(<<>>, <<>>) BY EmptyUsers, NothingSorted
<1>5. Ordered(x, 0) BY <1>3, <1>4 DEF Ordered
<1> HIDE DEF x
<1>6. Passes(<<>>) = {x} BY NothingToReplay DEF x
<1> QED BY <1>1, <1>2, <1>5, <1>6 DEF OrderInv

LEMMA OrderLogs ==
  ASSUME TypeInv, OrderInv, NEW qs, Logs(qs), used'.appended \in Nat
  PROVE  /\ Ordered(context', used'.appended)
         /\ \A c \in Passes(records \o qs) : Ordered(c, used'.appended)
<1> DEFINE a == used.appended
           b == used'.appended
           G == Room(qs, b)
<1>1. /\ qs \in Seq(Records) /\ Follows(context, qs, context') /\ Counts(qs, a, b)
  BY DEF Logs
<1>2. a \in Nat /\ b \in Nat /\ context \in Contexts /\ records \in Seq(Records) /\ a =< b
  BY <1>1 DEF TypeInv, Uses, Counts
<1>3. Ordered(context, a) /\ \A c \in Passes(records) : Ordered(c, a) BY DEF OrderInv
<1> HIDE DEF a, b
<1>4. context \in G[0] BY <1>1, <1>2, <1>3, RoomAtFirst
<1>5. replay(records) \in Contexts /\ Ordered(replay(records), a)
      /\ Passes(records) \subseteq Contexts
  BY <1>2, <1>3, ReplayTyped
<1>6. replay(records) \in G[0] BY <1>1, <1>2, <1>5, RoomAtFirst
<1>7. \A i \in 1..Len(qs) : \A c \in G[i - 1] :
         c \in Contexts => restoreAgentRecord(c, qs[i]) \in G[i]
  BY <1>1, <1>2, RoomGoesOn
<1>8. \A i \in 0..Len(qs) : \A c \in G[i] : Ordered(c, b) BY <1>1, RoomOrdered
<1>9. Len(qs) \in 0..Len(qs) /\ \A i \in 1..Len(qs) : i \in 0..Len(qs) BY <1>1
<1> HIDE DEF G
<1>10. context' \in G[Len(qs)] BY <1>1, <1>4, <1>7, FollowsKeeps
<1>11. \A c \in Passes(records \o qs) : c \in Passes(records) \/ \E i \in 1..Len(qs) : c \in G[i]
  BY <1>1, <1>2, <1>6, <1>7, ReplayGoesOn
<1>12. \A c \in Passes(records) : Ordered(c, b) BY <1>2, <1>3, <1>5, OrderedWidens
<1> QED BY <1>8, <1>9, <1>10, <1>11, <1>12 DEF b

LEMMA PruneOrdered ==
  ASSUME NEW c \in Contexts, NEW n \in Nat, Ordered(c, n),
         \E i \in DOMAIN c.history : c.history[i].role \in ToolRoles
  PROVE  Ordered(replaceHistory(c), n)
<1> DEFINE h == c.history
           x == replaceHistory(c)
<1>1. h \in Seq(Msg) /\ Sorted(h, n) BY OrderedParts
<1>2. PICK i \in 1..Len(h) : h[i].role \in ToolRoles /\ x.history = [h EXCEPT ![i].role = "pruned"]
  BY PruneFields
<1>3. x.deferredMessages = <<>> /\ x \in Contexts BY PruneFields
<1> DEFINE g == [h EXCEPT ![i].role = "pruned"]
<1> HIDE DEF h, x
<1>4. x.history = g BY <1>2
<1>5. Len(g) = Len(h) /\ \A j \in 1..Len(h) : j # i => g[j] = h[j] BY <1>1
<1>6. g[i].role = "pruned"
  <2>1. g[i] = [h[i] EXCEPT !.role = "pruned"] BY <1>1, <1>2
  <2>2. h[i] \in Msg BY <1>1, <1>2
  <2>3. \A m \in Msg : [m EXCEPT !.role = "pruned"].role = "pruned" BY DEF Msg
  <2> HIDE DEF g
  <2> QED BY <2>1, <2>2, <2>3
<1> HIDE DEF g
<1>7. g \in Seq(Msg) BY <1>3, <1>4, ContextFields
<1>8. ~ IsUser(g[i]) BY <1>6 DEF IsUser, UserRoles
<1>9. \E e : Draws(e, g, h) BY <1>1, <1>5, <1>7, <1>8, LikeSorted
<1>10. Sorted(g, n) BY <1>1, <1>7, <1>9, DrawnSorted
<1>11. <<>> \in Seq(Msg) /\ Sorted(<<>>, n) /\ Before(g, <<>>) BY EmptyUsers, NothingSorted
<1>12. Ordered(x, n) BY <1>3, <1>4, <1>7, <1>10, <1>11, MadeOrdered
<1> QED BY <1>12 DEF x

(* What a crash leaves: a conversation the replay passed through, closed.  *)
LEMMA OrderCrash ==
  ASSUME TypeInv, OrderInv, crash
  PROVE  OrderInv'
<1> DEFINE a == used.appended
<1>1. used \in Uses /\ records \in Seq(Records) /\ a \in Nat BY DEF TypeInv, Uses
<1>2. used'.appended = a BY <1>1 DEF crash, Uses
<1>3. PICK n \in synced..Len(records) :
        LET found == SubSeq(records, 1, n)
            resumed == replay(found)
        IN  /\ found \in Seq(Records) /\ resumed \in Contexts
            /\ resumed \in Passes(records) /\ Passes(found) \subseteq Passes(records)
            /\ context' = finishResume(resumed)
            /\ records' = found \o InterruptedResults(resumed)
  BY CrashShape
<1> DEFINE f == SubSeq(records, 1, n)
           c == replay(f)
           qs == InterruptedResults(c)
           G == [i \in 0..Len(qs) |-> {x \in Contexts : Ordered(x, a)}]
<1>4. /\ f \in Seq(Records) /\ c \in Contexts /\ c \in Passes(records)
      /\ Passes(f) \subseteq Passes(records) /\ context' = finishResume(c) /\ records' = f \o qs
  BY <1>3
<1>5. Ordered(c, a) /\ \A x \in Passes(f) : Ordered(x, a) BY <1>4 DEF OrderInv
<1> HIDE DEF f, a
<1>6. /\ qs \in Seq(Records)
      /\ \A i \in 1..Len(qs) : ~ IsMessage(qs[i])
  <2>1. \A x : Record("tool.result", x).type = "tool.result" BY DEF Record
  <2> HIDE DEF c
  <2>2. qs \in Seq(Records) /\ Len(qs) = Len(c.pendingToolResultIds) BY <1>4, InterruptedTyped
  <2>3. \A i \in 1..Len(qs) : qs[i] = Record("tool.result", c.pendingToolResultIds[i])
    BY <1>4, <2>2, InterruptedTyped
  <2> QED BY <2>1, <2>2, <2>3 DEF IsMessage
<1>7. Ordered(context', a) BY <1>1, <1>4, <1>5, FinishOrdered
<1> HIDE DEF qs
<1>8. c \in G[0] BY <1>4, <1>5, <1>6
<1>9. ASSUME NEW i \in 1..Len(qs), NEW x \in G[i - 1], x \in Contexts
      PROVE  restoreAgentRecord(x, qs[i]) \in G[i]
  <2>1. i \in 0..Len(qs) /\ i - 1 \in 0..Len(qs) /\ qs[i] \in Records BY <1>6
  <2>2. Ordered(x, a) BY <1>9, <2>1
  <2>3. restoreAgentRecord(x, qs[i]) \in Contexts BY <1>9, <2>1, RestoreTyped
  <2>4. Ordered(restoreAgentRecord(x, qs[i]), a) BY <1>1, <1>6, <1>9, <2>1, <2>2, RestoreOrdered
  <2> QED BY <2>1, <2>3, <2>4
<1>10. \A i \in 1..Len(qs) : \A x \in G[i] : Ordered(x, a)
  <2>1. \A i \in 1..Len(qs) : i \in 0..Len(qs) BY <1>6
  <2> QED BY <2>1
<1> HIDE DEF G
<1>11. \A x \in Passes(f \o qs) : x \in Passes(f) \/ \E i \in 1..Len(qs) : x \in G[i]
  BY <1>4, <1>6, <1>8, <1>9, ReplayGoesOn
<1>12. \A x \in Passes(f \o qs) : Ordered(x, a) BY <1>5, <1>10, <1>11
<1> HIDE DEF c
<1>13. \A x \in Passes(records') : Ordered(x, used'.appended) BY <1>2, <1>4, <1>12
<1>14. Ordered(context', used'.appended) BY <1>2, <1>7
<1> QED BY <1>13, <1>14 DEF OrderInv

LEMMA OrderKept ==
  ASSUME TypeInv, OrderInv, [Next]_vars
  PROVE  OrderInv'
<1>1. TypeInv' BY TypeKept
<1>2. used'.appended \in Nat BY <1>1 DEF TypeInv, Uses
<1>3. ASSUME NEW qs, Logs(qs) PROVE OrderInv'
  <2>1. /\ Ordered(context', used'.appended)
        /\ \A c \in Passes(records \o qs) : Ordered(c, used'.appended)
    BY <1>2, <1>3, OrderLogs
  <2>2. records' = records \o qs BY <1>3 DEF Logs
  <2> QED BY <2>1, <2>2 DEF OrderInv
<1>4. CASE PruneStep
  <2>1. context \in Contexts /\ used.appended \in Nat BY DEF TypeInv, Uses
  <2>2. Ordered(context', used.appended) BY <1>4, <2>1, PruneOrdered DEF PruneStep, OrderInv
  <2> QED BY <1>4, <2>2 DEF PruneStep, OrderInv
<1>5. CASE crash BY <1>5, OrderCrash
<1> QED BY <1>3, <1>4, <1>5, StepLogs DEF LogStep

LEMMA OrderHolds == Spec => []OrderInv
<1>1. TypeInv /\ OrderInv /\ [Next]_vars => OrderInv' BY OrderKept
<1> QED BY <1>1, OrderInit, ContextTypes, PTL DEF Spec

(* Prompts, reminders and notifications stay in the order they came in,    *)
(* held back by a tool exchange or not, and after a crash too.             *)
THEOREM MessagesKeepOrder == Spec => []MessagesInOrder
<1>1. ASSUME TypeInv, OrderInv PROVE MessagesInOrder
  <2> DEFINE h == context.history
             d == context.deferredMessages
             n == used.appended
  <2>1. context \in Contexts /\ n \in Nat /\ Ordered(context, n) BY <1>1 DEF TypeInv, Uses, OrderInv
  <2>2. h \in Seq(Msg) /\ d \in Seq(Msg) /\ Sorted(h, n) /\ Sorted(d, n) /\ Before(h, d)
    BY <2>1, OrderedParts
  <2> HIDE DEF h, d, n
  <2>3. Sorted(h \o d, n) BY <2>1, <2>2, SortedBoth
  <2> QED BY <2>3 DEF Sorted, MessagesInOrder, h, d
<1> QED BY <1>1, ContextTypes, OrderHolds, PTL

-----------------------------------------------------------------------------
(* The workers, as long as nobody disturbs them.                           *)

InStep  == {"stream", "streamed", "calls", "results", "seal"}
Waiting == {"blocked", "pending", "overflowed"}
Calling == {"calls", "results"}
Resting == {"unborn", "ended"}

Single == "overlap" \notin Unguarded

(* The calls of a worker that are recorded, and their results not yet.     *)
Awaited(w) == [k \in 1..(w.recorded - w.returned) |-> <<w.step, w.returned + k>>]

(* What a worker knows of the calls pending.                               *)
Fine(w, p) ==
  /\ w.pc \in {"stream", "streamed"} => w.recorded = 0 /\ w.returned = 0
  /\ w.pc = "calls" => w.returned = 0 /\ w.recorded < w.calls
  /\ w.pc = "results" => w.recorded = w.calls /\ w.returned < w.calls
  /\ p = IF w.pc \in Calling THEN Awaited(w) ELSE <<>>

(* One worker at a time, and it owns what is pending; a compaction in       *)
(* progress has it waiting; a worker in its step finds the step open, and   *)
(* the step is its own.                                                     *)
OneWorker ==
  Single => /\ \A s, t \in running : s = t
            /\ \A t \in running : Fine(turn[t], context.pendingToolResultIds)
            /\ running = {} => context.pendingToolResultIds = <<>>

CompactionAlone ==
  compaction.on => Single /\ \A t \in running : turn[t].pc \in Waiting

OwnStep ==
  /\ \A t \in Turn : turn[t].pc \in InStep =>
       turn[t].step \in context.openSteps /\ turn[t].step \in 1..used.steps
  /\ \A s, t \in Turn : s # t /\ turn[s].pc \in InStep /\ turn[t].pc \in InStep
       => turn[s].step # turn[t].step

WorkInv == Undisturbed => OneWorker /\ CompactionAlone /\ OwnStep

LEMMA StayUndisturbed ==
  ASSUME used'.scenario = used.scenario
  PROVE  (Undisturbed' <=> Undisturbed) /\ (Single' <=> Single)
BY DEF Undisturbed, Single, Unguarded

(* A step that moves no worker but out of its wait, or ends it there.      *)
Stays(s) ==
  \/ /\ turn'[s].pc = turn[s].pc /\ turn'[s].step = turn[s].step
     /\ turn'[s].calls = turn[s].calls /\ turn'[s].recorded = turn[s].recorded
     /\ turn'[s].returned = turn[s].returned
  \/ turn[s].pc \in Waiting /\ turn'[s].pc \in {"ready", "inject", "ended"}

LEMMA WorkRests ==
  ASSUME TypeInv, WorkInv, Undisturbed, used'.scenario = used.scenario,
         used'.steps = used.steps, \A s \in Turn : Stays(s),
         \A s \in Turn : turn'[s].pc \in InStep => turn[s].step \in context'.openSteps,
         Single => \/ context'.pendingToolResultIds = context.pendingToolResultIds
                   \/ /\ context'.pendingToolResultIds = <<>>
                      /\ \A s \in Turn : turn'[s].pc \notin Calling,
         compaction'.on => /\ Single
                           /\ \A s \in Turn : turn'[s].pc \in Waiting \cup Resting
  PROVE  WorkInv'
<1>1. OneWorker /\ CompactionAlone /\ OwnStep BY DEF WorkInv
<1>2. \A s \in Turn : turn'[s].pc \in InStep => turn[s].pc \in InStep /\ turn'[s].step = turn[s].step
  BY DEF Stays, InStep
<1>3. OwnStep' BY <1>1, <1>2 DEF OwnStep
<1>4. running' \subseteq running BY DEF running, Stays, Waiting
<1>5. CompactionAlone'
  <2>1. Single' <=> Single BY StayUndisturbed
  <2> QED BY <2>1 DEF CompactionAlone, running, Waiting, Resting
<1>6. ASSUME Single
      PROVE  /\ \A s, t \in running' : s = t
             /\ \A t \in running' : Fine(turn'[t], context'.pendingToolResultIds)
             /\ running' = {} => context'.pendingToolResultIds = <<>>
  <2> DEFINE p == context.pendingToolResultIds
             q == context'.pendingToolResultIds
  <2>1. /\ \A s, t \in running : s = t
        /\ \A t \in running : Fine(turn[t], p)
        /\ running = {} => p = <<>>
    BY <1>1, <1>6 DEF OneWorker
  <2>2. q = p \/ (q = <<>> /\ \A s \in Turn : turn'[s].pc \notin Calling) BY <1>6
  <2> HIDE DEF p, q
  <2>3. ASSUME NEW t \in running' PROVE Fine(turn'[t], q)
    <3>1. t \in running /\ t \in Turn BY <1>4, <2>3 DEF running
    <3>2. Fine(turn[t], p) BY <2>1, <3>1
    <3>3. CASE turn'[t].pc = turn[t].pc
      <4>1. /\ turn'[t].step = turn[t].step /\ turn'[t].calls = turn[t].calls
            /\ turn'[t].recorded = turn[t].recorded /\ turn'[t].returned = turn[t].returned
        BY <3>1, <3>3 DEF Stays, Waiting
      <4>2. Awaited(turn'[t]) = Awaited(turn[t]) BY <4>1 DEF Awaited
      <4>3. q = p \/ (q = <<>> /\ turn[t].pc \notin Calling) BY <2>2, <3>1, <3>3
      <4>4. p = IF turn[t].pc \in Calling THEN Awaited(turn[t]) ELSE <<>> BY <3>2 DEF Fine
      <4>5. q = IF turn'[t].pc \in Calling THEN Awaited(turn'[t]) ELSE <<>>
        BY <3>3, <4>2, <4>3, <4>4
      <4> QED BY <3>2, <3>3, <4>1, <4>5 DEF Fine
    <3>4. CASE turn'[t].pc # turn[t].pc
      <4>1. turn[t].pc \in Waiting /\ turn'[t].pc \in {"ready", "inject", "ended"}
        BY <3>1, <3>4 DEF Stays
      <4>2. p = <<>> BY <3>2, <4>1 DEF Fine, Waiting, Calling
      <4>3. q = <<>> BY <2>2, <4>2
      <4> QED BY <4>1, <4>3 DEF Fine, Calling
    <3> QED BY <3>3, <3>4
  <2>4. ASSUME running' = {} PROVE q = <<>>
    <3>1. CASE running = {} BY <2>1, <2>2, <3>1
    <3>2. CASE running # {}
      <4>1. PICK t \in running : TRUE BY <3>2
      <4>2. t \in Turn /\ t \notin running' BY <2>4, <4>1 DEF running
      <4>3. turn[t].pc \in Waiting BY <4>1, <4>2 DEF Stays, running
      <4>4. Fine(turn[t], p) BY <2>1, <4>1
      <4>5. p = <<>> BY <4>3, <4>4 DEF Fine, Waiting, Calling
      <4> QED BY <2>2, <4>5
    <3> QED BY <3>1, <3>2
  <2>5. \A s, t \in running' : s = t BY <1>4, <2>1
  <2> QED BY <2>3, <2>4, <2>5 DEF q
<1>7. OneWorker' BY <1>6, StayUndisturbed DEF OneWorker
<1> QED BY <1>3, <1>5, <1>7 DEF WorkInv

(* A step in which worker t becomes w.                                     *)
LEMMA WorkMoves ==
  ASSUME TypeInv, WorkInv, Undisturbed, NEW t \in Turn, NEW w \in Workers,
         turn' = [turn EXCEPT ![t] = w], used' \in Uses, used'.scenario = used.scenario,
         used.steps =< used'.steps,
         Single => t \in running \/ running = {},
         Single => Fine(w, context'.pendingToolResultIds),
         compaction'.on => Single /\ w.pc \in Waiting,
         \A s \in Turn : s # t /\ turn[s].pc \in InStep => turn[s].step \in context'.openSteps,
         w.pc \in InStep => /\ w.step \in context'.openSteps /\ w.step \in 1..used'.steps
                            /\ \A s \in Turn : s # t /\ turn[s].pc \in InStep
                                 => turn[s].step # w.step
  PROVE  WorkInv'
<1>1. OneWorker /\ CompactionAlone /\ OwnStep BY DEF WorkInv
<1>2. turn \in [Turn -> Workers] /\ used \in Uses BY DEF TypeInv
<1>3. turn'[t] = w /\ \A s \in Turn : s # t => turn'[s] = turn[s] BY <1>2
<1>4. used.steps \in Nat /\ used'.steps \in Nat BY <1>2 DEF Uses
<1>5. OwnStep'
  <2>1. ASSUME NEW s \in Turn, turn'[s].pc \in InStep
        PROVE  turn'[s].step \in context'.openSteps /\ turn'[s].step \in 1..used'.steps
    <3>1. CASE s = t BY <1>3, <2>1, <3>1
    <3>2. CASE s # t
      <4>1. turn[s].step \in context'.openSteps /\ turn[s].step \in 1..used.steps
        BY <1>1, <1>3, <2>1, <3>2 DEF OwnStep
      <4> QED BY <1>3, <1>4, <3>2, <4>1
    <3> QED BY <3>1, <3>2
  <2>2. ASSUME NEW s \in Turn, NEW u \in Turn, s # u, turn'[s].pc \in InStep,
               turn'[u].pc \in InStep
        PROVE  turn'[s].step # turn'[u].step
    BY <1>1, <1>3, <2>2 DEF OwnStep
  <2> QED BY <2>1, <2>2 DEF OwnStep
<1>6. ASSUME Single
      PROVE  \A s \in running' : s = t
  BY <1>1, <1>3, <1>6 DEF OneWorker, running
<1>7. CompactionAlone'
  <2>1. Single' <=> Single BY StayUndisturbed
  <2> QED BY <1>3, <1>6, <2>1 DEF CompactionAlone
<1>8. OneWorker'
  <2>1. SUFFICES ASSUME Single
                 PROVE  /\ \A s \in running' : s = t
                        /\ Fine(turn'[t], context'.pendingToolResultIds)
                        /\ running' = {} => context'.pendingToolResultIds = <<>>
    BY StayUndisturbed DEF OneWorker
  <2>2. running' = {} => w.pc \notin Calling BY <1>3 DEF running, Calling
  <2> QED BY <1>3, <1>6, <2>1, <2>2 DEF Fine
<1> QED BY <1>5, <1>7, <1>8 DEF WorkInv

LEMMA AtWork ==
  ASSUME TypeInv, WorkInv, Undisturbed, NEW t \in Turn, turn[t].pc \notin Resting
  PROVE  /\ t \in running
         /\ Single => Fine(turn[t], context.pendingToolResultIds)
         /\ turn[t].pc \notin Waiting => ~ compaction.on
         /\ turn[t].pc \in InStep => /\ turn[t].step \in context.openSteps
                                     /\ turn[t].step \in 1..used.steps
         /\ \A s \in Turn : s # t /\ turn[t].pc \in InStep /\ turn[s].pc \in InStep
              => turn[s].step # turn[t].step
BY DEF WorkInv, OneWorker, CompactionAlone, OwnStep, running, Resting

(* A worker that goes on, outside the exchange of its calls.               *)
LEMMA WorkGoes ==
  ASSUME TypeInv, WorkInv, Undisturbed, NEW t \in Turn, NEW p \in Places,
         turn' = [turn EXCEPT ![t].pc = p],
         turn[t].pc \notin Resting \cup Waiting \cup Calling,
         p \notin {"stream", "calls", "results", "seal"},
         p = "streamed" => turn[t].pc = "stream",
         context'.openSteps = context.openSteps,
         context'.pendingToolResultIds = context.pendingToolResultIds,
         used' \in Uses, used'.scenario = used.scenario, used'.steps = used.steps,
         compaction'.on => Single /\ p \in Waiting
  PROVE  WorkInv'
<1>1. turn \in [Turn -> Workers] /\ used \in Uses BY DEF TypeInv
<1>2. used.steps \in Nat BY <1>1 DEF Uses
<1> DEFINE w == [turn[t] EXCEPT !.pc = p]
<1>3. turn[t] \in Workers BY <1>1
<1>4. w \in Workers BY <1>3, WorkerFields
<1>5. /\ w.pc = p /\ w.step = turn[t].step /\ w.recorded = turn[t].recorded
      /\ w.returned = turn[t].returned
  BY <1>3 DEF Workers
<1>6. turn' = [turn EXCEPT ![t] = w] BY <1>1
<1> HIDE DEF w
<1>7. /\ t \in running
      /\ Single => Fine(turn[t], context.pendingToolResultIds)
      /\ turn[t].pc \in InStep => /\ turn[t].step \in context.openSteps
                                  /\ turn[t].step \in 1..used.steps
      /\ \A s \in Turn : s # t /\ turn[t].pc \in InStep /\ turn[s].pc \in InStep
           => turn[s].step # turn[t].step
  BY AtWork
<1>8. Single => Fine(w, context'.pendingToolResultIds)
  <2>1. SUFFICES ASSUME Single PROVE Fine(w, context'.pendingToolResultIds) OBVIOUS
  <2>2. context.pendingToolResultIds = <<>> BY <1>7, <2>1 DEF Fine
  <2>3. w.pc = "streamed" => w.recorded = 0 /\ w.returned = 0 BY <1>5, <1>7, <2>1 DEF Fine
  <2> QED BY <1>5, <2>2, <2>3 DEF Fine, Calling
<1>9. OwnStep BY DEF WorkInv
<1>10. w.pc \in InStep => turn[t].pc = "stream" BY <1>5 DEF InStep
<1>11. turn[t].pc = "stream" => turn[t].pc \in InStep BY DEF InStep
<1>12. w.pc \in InStep => /\ w.step \in context'.openSteps /\ w.step \in 1..used'.steps
                          /\ \A s \in Turn : s # t /\ turn[s].pc \in InStep
                               => turn[s].step # w.step
  BY <1>5, <1>7, <1>10, <1>11
<1>13. \A s \in Turn : s # t /\ turn[s].pc \in InStep => turn[s].step \in context'.openSteps
  BY <1>9 DEF OwnStep
<1>14. used.steps =< used'.steps BY <1>2
<1>15. compaction'.on => Single /\ w.pc \in Waiting BY <1>5
<1> QED BY <1>4, <1>6, <1>7, <1>8, <1>12, <1>13, <1>14, <1>15, WorkMoves

(* Messages touch neither what is open nor what is pending.                *)
LEMMA MessagesTouchNothing ==
  ASSUME NEW c \in Contexts, NEW ms \in Seq(UserMsg)
  PROVE  /\ appendMessages(c, ms) \in Contexts
         /\ appendMessages(c, ms).openSteps = c.openSteps
         /\ appendMessages(c, ms).pendingToolResultIds = c.pendingToolResultIds
BY AppendTyped, AppendFields

LEMMA ReminderTouchesNothing ==
  ASSUME TypeInv, NEW role \in UserRoles,
         context' = appendMessage(context, Message(role, used.appended + 1))
  PROVE  /\ context'.openSteps = context.openSteps
         /\ context'.pendingToolResultIds = context.pendingToolResultIds
<1> DEFINE ms == <<Message(role, used.appended + 1)>>
<1>1. ms \in Seq(UserMsg) BY OneMessage, NumberedMessages
<1>2. context' = appendMessages(context, ms) BY DEF appendMessage
<1>3. context \in Contexts BY DEF TypeInv
<1> HIDE DEF ms
<1> QED BY <1>1, <1>2, <1>3, MessagesTouchNothing

LEMMA UsesKeep ==
  ASSUME NEW u \in Uses, NEW n \in Nat
  PROVE  /\ LET v == [u EXCEPT !.notices = @ + 1, !.appended = @ + 1]
            IN  v.scenario = u.scenario /\ v.steps = u.steps
         /\ LET v == [u EXCEPT !.appended = @ + n]
            IN  v.scenario = u.scenario /\ v.steps = u.steps
         /\ LET v == [u EXCEPT !.notices = @ + n, !.appended = @ + n]
            IN  v.scenario = u.scenario /\ v.steps = u.steps
         /\ LET v == [u EXCEPT !.compactions = @ + 1]
            IN  v.scenario = u.scenario /\ v.steps = u.steps
BY DEF Uses

(* A compaction is begun only where workers do not overlap.                *)
LEMMA BeginsSingle ==
  ASSUME TypeInv, Undisturbed, NEW n, beginCompaction(n)
  PROVE  Single
<1>1. used \in Uses BY DEF TypeInv
<1>2. used.compactions \in Nat BY <1>1 DEF Uses
<1>3. used.compactions < used.scenario.compactions BY DEF beginCompaction
<1>4. used.scenario.compactions # 0 BY <1>2, <1>3
<1> QED BY <1>4 DEF Undisturbed, Single

(* The worker between its steps, and while the response arrives.           *)
LEMMA WorkSimple ==
  ASSUME TypeInv, WorkInv, Undisturbed, NEW t \in Turn,
         \/ appendPrompt(t) \/ beforeStep(t) \/ autoCompaction(t) \/ stopBeforeStep(t)
         \/ contentPart(t) \/ requestFails(t) \/ handleOverflowError(t)
  PROVE  WorkInv'
<1>0. /\ used \in Uses /\ context \in Contexts /\ turn \in [Turn -> Workers] /\ steerBuffer \in Nat
      /\ used.appended \in Nat /\ 1 \in Nat
  BY DEF TypeInv, Uses
<1>1. used' \in Uses
  <2>1. worker(t) BY DEF worker
  <2> QED BY <2>1, WorkerTyped DEF Others
<1>2. /\ "notice" \in UserRoles /\ "user" \in UserRoles /\ "injection" \in UserRoles
  BY DEF UserRoles
<1>3. ASSUME turn[t].pc \notin Resting \cup Waiting PROVE ~ compaction.on
  BY <1>3, AtWork
<1>4. CASE appendPrompt(t)
  <2>1. turn' = [turn EXCEPT ![t].pc = "ready"] /\ turn[t].pc = "launched" /\ compaction' = compaction
    BY <1>4 DEF appendPrompt, goto
  <2>2. ~ compaction'.on BY <1>3, <2>1 DEF Resting, Waiting
  <2>3. /\ context'.openSteps = context.openSteps
        /\ context'.pendingToolResultIds = context.pendingToolResultIds
    BY <1>2, <1>4, ReminderTouchesNothing DEF appendPrompt
  <2>4. used'.scenario = used.scenario /\ used'.steps = used.steps
    BY <1>0, <1>4, UsesKeep DEF appendPrompt
  <2> QED BY <1>1, <2>1, <2>2, <2>3, <2>4, PlacesAre, WorkGoes DEF Resting, Waiting, Calling
<1>5. CASE beforeStep(t)
  <2>1. turn[t].pc = "ready" /\ compaction' = compaction BY <1>5 DEF beforeStep
  <2>2. ~ compaction.on BY <1>3, <2>1 DEF Resting, Waiting
  <2>3. turn' = [turn EXCEPT ![t].pc = "inject"] BY <1>5, <2>2 DEF beforeStep, goto
  <2>4. /\ context'.openSteps = context.openSteps
        /\ context'.pendingToolResultIds = context.pendingToolResultIds
    <3>1. Numbered("notice", steerBuffer) \in Seq(UserMsg) BY <1>0, <1>2, NumberedMessages
    <3> QED BY <1>0, <1>5, <3>1, MessagesTouchNothing DEF beforeStep, flushSteerBuffer
  <2>5. used'.scenario = used.scenario /\ used'.steps = used.steps
    BY <1>0, <1>5, UsesKeep DEF beforeStep, flushSteerBuffer
  <2> QED BY <1>1, <2>1, <2>2, <2>3, <2>4, <2>5, PlacesAre, WorkGoes DEF Resting, Waiting, Calling
<1>6. CASE autoCompaction(t)
  <2>1. turn[t].pc = "inject" /\ context' = context BY <1>6 DEF autoCompaction
  <2>2. PICK p \in {"blocked", "pending"} : turn' = [turn EXCEPT ![t].pc = p]
    BY <1>6 DEF autoCompaction, goto
  <2>3. Single BY <1>6, BeginsSingle DEF autoCompaction
  <2>4. used'.scenario = used.scenario /\ used'.steps = used.steps
    BY <1>0, <1>6, UsesKeep DEF autoCompaction
  <2>5. p \in Places /\ p \in Waiting BY <2>2, PlacesAre DEF Waiting
  <2> QED BY <1>1, <2>1, <2>2, <2>3, <2>4, <2>5, WorkGoes DEF Resting, Waiting, Calling
<1>7. CASE stopBeforeStep(t)
  <2>1. /\ turn[t].pc \in {"ready", "inject"} /\ compaction' = compaction
        /\ turn' = [turn EXCEPT ![t].pc = "ended"]
    BY <1>7 DEF stopBeforeStep, end
  <2>2. ~ compaction'.on BY <1>3, <2>1 DEF Resting, Waiting
  <2>3. CASE UNCHANGED <<context, used>>
    BY <1>1, <2>1, <2>2, <2>3, PlacesAre, WorkGoes DEF Resting, Waiting, Calling
  <2>4. CASE ~ UNCHANGED <<context, used>>
    <3>1. PICK injects \in Injections :
            /\ context' = appendMessages(context, injects)
            /\ used' = [used EXCEPT !.notices = @ + Len(injects), !.appended = @ + Len(injects)]
      BY <1>7, <2>4 DEF stopBeforeStep
    <3>2. injects \in Seq(UserMsg) /\ Len(injects) \in Nat BY InjectionsTyped
    <3>3. /\ context'.openSteps = context.openSteps
          /\ context'.pendingToolResultIds = context.pendingToolResultIds
      BY <1>0, <3>1, <3>2, MessagesTouchNothing
    <3>4. used'.scenario = used.scenario /\ used'.steps = used.steps
      BY <1>0, <3>1, <3>2, UsesKeep
    <3> QED BY <1>1, <2>1, <2>2, <3>3, <3>4, PlacesAre, WorkGoes DEF Resting, Waiting, Calling
  <2> QED BY <2>3, <2>4
<1>8. CASE contentPart(t)
  <2>1. turn[t].pc = "stream" /\ compaction' = compaction /\ context' = context /\ used' = used
    BY <1>8 DEF contentPart
  <2>2. PICK p \in {"ended", "streamed"} : turn' = [turn EXCEPT ![t].pc = p]
    BY <1>8 DEF contentPart, goto, end
  <2>3. ~ compaction'.on BY <1>3, <2>1 DEF Resting, Waiting
  <2>4. p \in Places BY <2>2, PlacesAre
  <2> QED BY <1>1, <2>1, <2>2, <2>3, <2>4, WorkGoes DEF Resting, Waiting, Calling
<1>9. CASE requestFails(t)
  <2>1. /\ turn[t].pc \in {"inject", "stream", "streamed"} /\ compaction' = compaction
        /\ context' = context /\ used' = used /\ turn' = [turn EXCEPT ![t].pc = "ended"]
    BY <1>9 DEF requestFails, end
  <2>2. ~ compaction'.on BY <1>3, <2>1 DEF Resting, Waiting
  <2> QED BY <1>1, <2>1, <2>2, PlacesAre, WorkGoes DEF Resting, Waiting, Calling
<1>10. CASE handleOverflowError(t)
  <2>1. /\ turn[t].pc = "stream" /\ context' = context
        /\ turn' = [turn EXCEPT ![t].pc = "overflowed"]
    BY <1>10 DEF handleOverflowError, goto
  <2>2. ~ compaction.on BY <1>3, <2>1 DEF Resting, Waiting
  <2>3. Single BY <1>10, <2>2, BeginsSingle DEF handleOverflowError
  <2>4. used'.scenario = used.scenario /\ used'.steps = used.steps
    BY <1>0, <1>10, <2>2, UsesKeep DEF handleOverflowError
  <2> QED BY <1>1, <2>1, <2>3, <2>4, PlacesAre, WorkGoes DEF Resting, Waiting, Calling
<1> QED BY <1>4, <1>5, <1>6, <1>7, <1>8, <1>9, <1>10

(* The step begins: it is open, its number is new, nothing is pending.     *)
LEMMA WorkBegins ==
  ASSUME TypeInv, WorkInv, Undisturbed, NEW t \in Turn, beginStep(t)
  PROVE  WorkInv'
<1> DEFINE k == used.steps + 1
           w == [turn[t] EXCEPT !.pc = "stream", !.step = k, !.calls = 0, !.recorded = 0,
                                !.returned = 0]
<1>1. used \in Uses /\ context \in Contexts /\ turn[t] \in Workers /\ turn \in [Turn -> Workers]
  BY DEF TypeInv
<1>2. used.steps \in Nat /\ k \in Nat /\ used.steps =< k /\ k \in 1..k
      /\ \A n \in 1..used.steps : n # k
  BY <1>1 DEF Uses
<1>3. used' \in Uses
  <2>1. worker(t) BY DEF worker
  <2> QED BY <2>1, WorkerTyped DEF Others
<1>4. turn[t].pc = "inject" /\ compaction' = compaction BY DEF beginStep
<1>5. PICK injects \in Injections :
        /\ context' = stepBegin(appendMessages(context, injects), k)
        /\ turn' = [turn EXCEPT ![t].pc = "stream", ![t].step = k, ![t].calls = 0,
                                ![t].recorded = 0, ![t].returned = 0]
        /\ used' = [used EXCEPT !.steps = k, !.notices = @ + Len(injects),
                                !.appended = @ + Len(injects)]
  BY DEF beginStep
<1>6. injects \in Seq(UserMsg) BY InjectionsTyped
<1> HIDE DEF k
<1>7. used'.scenario = used.scenario /\ used'.steps = k BY <1>1, <1>5 DEF Uses
<1> DEFINE before == appendMessages(context, injects)
<1>8. before \in Contexts /\ before.openSteps = context.openSteps
  BY <1>1, <1>6, MessagesTouchNothing
<1> HIDE DEF before
<1>9. context'.openSteps = context.openSteps \cup {k} /\ context'.pendingToolResultIds = <<>>
  <2>1. context' = stepBegin(before, k) BY <1>5 DEF before
  <2> QED BY <1>2, <1>8, <2>1, BeginFields
<1>10. turn' = [turn EXCEPT ![t] = w] BY <1>1, <1>5
<1>11. w \in Workers /\ w.pc = "stream" /\ w.step = k /\ w.recorded = 0 /\ w.returned = 0
  BY <1>1, <1>2, PlacesAre DEF Workers
<1> HIDE DEF w
<1>12. ~ compaction'.on /\ t \in running BY <1>4, AtWork DEF Resting, Waiting
<1>13. OwnStep BY DEF WorkInv
<1>14. \A s \in Turn : turn[s].pc \in InStep =>
          turn[s].step \in context'.openSteps /\ turn[s].step # k
  BY <1>2, <1>9, <1>13 DEF OwnStep
<1>15. Fine(w, context'.pendingToolResultIds) BY <1>9, <1>11 DEF Fine, Calling
<1>16. used.steps =< used'.steps /\ w.step \in context'.openSteps /\ w.step \in 1..used'.steps
  BY <1>2, <1>7, <1>9, <1>11
<1> QED BY <1>3, <1>7, <1>10, <1>11, <1>12, <1>14, <1>15, <1>16, WorkMoves

LEMMA WorkResponse ==
  ASSUME TypeInv, WorkInv, Undisturbed, NEW t \in Turn, response(t)
  PROVE  WorkInv'
<1>1. /\ used \in Uses /\ context' = context /\ turn[t] \in Workers
      /\ used' = used /\ turn \in [Turn -> Workers] /\ compaction' = compaction
  BY DEF TypeInv, response
<1>2. turn[t].pc \in {"stream", "streamed"} BY DEF response
<1>3. PICK n \in 0..used.scenario.calls :
        turn' = [turn EXCEPT ![t].calls = n, ![t].pc = IF n = 0 THEN "seal" ELSE "calls"]
  BY DEF response
<1>4. used.scenario \in Scenarios /\ used.steps \in Nat BY <1>1 DEF Uses
<1>5. n \in Nat BY <1>3, <1>4, Constants
<1> DEFINE p == IF n = 0 THEN "seal" ELSE "calls"
<1>6. p \in Places /\ p \in {"seal", "calls"} /\ (p = "calls" => n # 0) BY PlacesAre
<1> HIDE DEF p
<1> DEFINE w == [turn[t] EXCEPT !.calls = n, !.pc = p]
<1>7. turn' = [turn EXCEPT ![t] = w] BY <1>1, <1>3 DEF p
<1>8. /\ w \in Workers /\ w.pc = p /\ w.step = turn[t].step /\ w.calls = n
      /\ w.recorded = turn[t].recorded /\ w.returned = turn[t].returned
  BY <1>1, <1>5, <1>6 DEF Workers
<1> HIDE DEF w
<1>9. turn[t].pc \in InStep /\ turn[t].pc \notin Resting \cup Waiting \cup Calling
  BY <1>2 DEF InStep, Resting, Waiting, Calling
<1>10. /\ t \in running /\ ~ compaction.on
       /\ Single => Fine(turn[t], context.pendingToolResultIds)
       /\ turn[t].step \in context.openSteps /\ turn[t].step \in 1..used.steps
       /\ \A s \in Turn : s # t /\ turn[s].pc \in InStep => turn[s].step # turn[t].step
  BY <1>9, AtWork
<1>11. Single => Fine(w, context'.pendingToolResultIds)
  <2>1. SUFFICES ASSUME Single PROVE Fine(w, context.pendingToolResultIds) BY <1>1
  <2>2. context.pendingToolResultIds = <<>> BY <1>9, <1>10, <2>1 DEF Fine
  <2>3. turn[t].recorded = 0 /\ turn[t].returned = 0 BY <1>2, <1>10, <2>1 DEF Fine
  <2>4. Awaited(w) = <<>> BY <1>8, <2>3 DEF Awaited
  <2>5. p = "calls" => 0 < n BY <1>5, <1>6
  <2> QED BY <1>6, <1>8, <2>2, <2>3, <2>4, <2>5 DEF Fine
<1>12. OwnStep BY DEF WorkInv
<1>13. \A s \in Turn : s # t /\ turn[s].pc \in InStep => turn[s].step \in context'.openSteps
  BY <1>1, <1>12 DEF OwnStep
<1>14. used.steps =< used'.steps BY <1>1, <1>4
<1>15. w.step \in context'.openSteps /\ w.step \in 1..used'.steps
  BY <1>1, <1>8, <1>10
<1> QED BY <1>1, <1>7, <1>8, <1>10, <1>11, <1>13, <1>14, <1>15, WorkMoves

(* A call is recorded: it is pending, after those recorded before it.      *)
LEMMA WorkCalls ==
  ASSUME TypeInv, WorkInv, Undisturbed, NEW t \in Turn, recordToolCall(t)
  PROVE  WorkInv'
<1> DEFINE k == turn[t].recorded + 1
           call == <<turn[t].step, k>>
           r == Record("tool.call", call)
<1>1. /\ used \in Uses /\ context \in Contexts /\ turn[t] \in Workers
      /\ turn \in [Turn -> Workers] /\ used.steps \in Nat
  BY DEF TypeInv, Uses
<1>2. turn[t].pc = "calls" /\ compaction' = compaction /\ used' = used BY DEF recordToolCall
<1>3. turn[t].pc \in InStep /\ turn[t].pc \notin Resting \cup Waiting
  BY <1>2 DEF InStep, Resting, Waiting
<1>4. /\ t \in running /\ ~ compaction.on
      /\ Single => Fine(turn[t], context.pendingToolResultIds)
      /\ turn[t].step \in context.openSteps /\ turn[t].step \in 1..used.steps
      /\ \A s \in Turn : s # t /\ turn[s].pc \in InStep => turn[s].step # turn[t].step
  BY <1>3, AtWork
<1>5. ~ throws(context, r)
  <2>1. r.type = "tool.call" /\ r.arg = call BY DEF Record
  <2>2. StepOf(call) = turn[t].step BY DEF StepOf
  <2> HIDE DEF r, call
  <2> QED BY <1>4, <2>1, <2>2 DEF throws
<1>6. /\ context' = toolCall(context, call)
      /\ turn' = [turn EXCEPT ![t].recorded = @ + 1,
                              ![t].pc = IF call[2] = turn[t].calls THEN "results" ELSE @]
  BY <1>5 DEF recordToolCall
<1>7. /\ turn[t].step \in Nat /\ turn[t].recorded \in Nat /\ k \in Nat /\ call \in CallId
      /\ turn[t].calls \in Nat /\ call[2] = k
  BY <1>1 DEF Workers, CallId
<1> HIDE DEF r
<1>8. /\ context'.pendingToolResultIds = Append(context.pendingToolResultIds, call)
      /\ context'.openSteps = context.openSteps
  BY <1>1, <1>6, <1>7, CallFields
<1> DEFINE p == IF k = turn[t].calls THEN "results" ELSE "calls"
           w == [turn[t] EXCEPT !.recorded = k, !.pc = p]
<1>9. p \in Places /\ p \in InStep /\ p \in Calling BY PlacesAre DEF InStep, Calling
<1>10. turn' = [turn EXCEPT ![t] = w] BY <1>1, <1>2, <1>6, <1>7
<1>11. p = "results" <=> k = turn[t].calls OBVIOUS
<1> HIDE DEF p, k
<1>12. /\ w \in Workers /\ w.pc = p /\ w.step = turn[t].step /\ w.calls = turn[t].calls
       /\ w.recorded = k /\ w.returned = turn[t].returned
  BY <1>1, <1>7, <1>9 DEF Workers
<1> HIDE DEF w
<1>13. Single => Fine(w, context'.pendingToolResultIds)
  <2>1. SUFFICES ASSUME Single PROVE Fine(w, context'.pendingToolResultIds) OBVIOUS
  <2>2. /\ turn[t].returned = 0 /\ turn[t].recorded < turn[t].calls
        /\ context.pendingToolResultIds = Awaited(turn[t])
    BY <1>2, <1>4, <2>1 DEF Fine, Calling
  <2> DEFINE n == turn[t].recorded
             s == turn[t].step
  <2>3. n \in Nat /\ k = n + 1 /\ n - 0 = n BY <1>7 DEF k
  <2>4. Awaited(turn[t]) = [i \in 1..n |-> <<s, i>>]
    <3>1. \A i \in 1..n : 0 + i = i BY <2>3
    <3> QED BY <2>2, <2>3, <3>1 DEF Awaited
  <2>5. Awaited(w) = [i \in 1..(n + 1) |-> <<s, i>>]
    <3>1. \A i \in 1..(n + 1) : 0 + i = i BY <2>3
    <3>2. w.recorded - w.returned = n + 1 BY <1>12, <2>2, <2>3
    <3> QED BY <1>12, <2>2, <2>3, <3>1, <3>2 DEF Awaited
  <2>6. call = <<s, n + 1>> BY <2>3
  <2> HIDE DEF n, call
  <2>7. Append([i \in 1..n |-> <<s, i>>], <<s, n + 1>>) = [i \in 1..(n + 1) |-> <<s, i>>]
    <3> DEFINE a == [i \in 1..n |-> <<s, i>>]
               b == [i \in 1..(n + 1) |-> <<s, i>>]
               e == <<s, n + 1>>
    <3>1. a \in Seq(CallId) /\ b \in Seq(CallId) /\ e \in CallId /\ Len(a) = n /\ Len(b) = n + 1
      BY <1>7, <2>3 DEF CallId
    <3>2. \A i \in 1..n : a[i] = b[i] BY <2>3
    <3>3. b[n + 1] = e BY <2>3
    <3> HIDE DEF a, b, e
    <3>4. Append(a, e) = b BY <2>3, <3>1, <3>2, <3>3
    <3> QED BY <3>4 DEF a, b, e
  <2>8. context'.pendingToolResultIds = Awaited(w) BY <1>8, <2>2, <2>4, <2>5, <2>6, <2>7
  <2>9. p # "results" => w.recorded < w.calls BY <1>7, <1>11, <1>12, <2>2, <2>3 DEF n
  <2>10. p \in {"calls", "results"} BY <1>9 DEF Calling
  <2>11. p = "results" => w.recorded = w.calls /\ w.returned < w.calls
    BY <1>7, <1>11, <1>12, <2>2, <2>3
  <2> QED BY <1>9, <1>12, <2>2, <2>8, <2>9, <2>10, <2>11 DEF Fine
<1>14. OwnStep BY DEF WorkInv
<1>15. \A s \in Turn : s # t /\ turn[s].pc \in InStep => turn[s].step \in context'.openSteps
  BY <1>8, <1>14 DEF OwnStep
<1>16. used.steps =< used'.steps /\ used'.scenario = used.scenario /\ used' \in Uses
       /\ ~ compaction'.on
  BY <1>1, <1>2, <1>4
<1>17. w.step \in context'.openSteps /\ w.step \in 1..used'.steps
  BY <1>2, <1>4, <1>8, <1>12
<1> QED BY <1>4, <1>10, <1>12, <1>13, <1>15, <1>16, <1>17, WorkMoves

LEMMA TailAwaited ==
  ASSUME NEW s \in Nat, NEW b \in Nat, NEW n \in Nat
  PROVE  LET a == [k \in 1..(n + 1) |-> <<s, b + k>>]
         IN  /\ a \in Seq(CallId) /\ a # <<>> /\ a[1] = <<s, b + 1>>
             /\ Tail(a) = [k \in 1..n |-> <<s, (b + 1) + k>>]
<1> DEFINE a == [k \in 1..(n + 1) |-> <<s, b + k>>]
           e == [k \in 1..n |-> <<s, (b + 1) + k>>]
<1>1. \A k \in 1..(n + 1) : <<s, b + k>> \in CallId BY DEF CallId
<1>2. \A k \in 1..n : <<s, (b + 1) + k>> \in CallId BY DEF CallId
<1>3. a \in Seq(CallId) /\ Len(a) = n + 1 BY <1>1
<1>4. e \in Seq(CallId) /\ Len(e) = n BY <1>2
<1>5. \A k \in 1..n : a[k + 1] = e[k]
  <2>1. \A k \in 1..n : k + 1 \in 1..(n + 1) /\ b + (k + 1) = (b + 1) + k OBVIOUS
  <2> QED BY <2>1
<1>6. a[1] = <<s, b + 1>> OBVIOUS
<1> HIDE DEF a, e
<1>7. a # <<>> BY <1>3
<1>8. Tail(a) = e BY <1>3, <1>4, <1>5, <1>7
<1> QED BY <1>3, <1>6, <1>7, <1>8 DEF a, e

(* A result is recorded: it answers the first call pending.                *)
LEMMA WorkResults ==
  ASSUME TypeInv, WorkInv, Undisturbed, NEW t \in Turn, recordToolResult(t)
  PROVE  WorkInv'
<1> DEFINE k == turn[t].returned + 1
           call == <<turn[t].step, k>>
<1>1. /\ used \in Uses /\ context \in Contexts /\ turn[t] \in Workers
      /\ turn \in [Turn -> Workers] /\ used.steps \in Nat
  BY DEF TypeInv, Uses
<1>2. turn[t].pc = "results" /\ compaction' = compaction /\ used' = used BY DEF recordToolResult
<1>3. turn[t].pc \in InStep /\ turn[t].pc \notin Resting \cup Waiting
  BY <1>2 DEF InStep, Resting, Waiting
<1>4. /\ t \in running /\ ~ compaction.on
      /\ Single => Fine(turn[t], context.pendingToolResultIds)
      /\ turn[t].step \in context.openSteps /\ turn[t].step \in 1..used.steps
      /\ \A s \in Turn : s # t /\ turn[s].pc \in InStep => turn[s].step # turn[t].step
  BY <1>3, AtWork
<1>5. /\ context' = toolResult(context, call)
      /\ turn' = [turn EXCEPT ![t].returned = @ + 1,
                              ![t].pc = IF call[2] = turn[t].calls THEN "seal" ELSE @]
  BY DEF recordToolResult
<1>6. /\ turn[t].step \in Nat /\ turn[t].returned \in Nat /\ k \in Nat /\ call \in CallId
      /\ turn[t].calls \in Nat /\ call[2] = k /\ turn[t].recorded \in Nat
  BY <1>1 DEF Workers, CallId
<1>7. context'.openSteps = context.openSteps BY <1>1, <1>5, <1>6, ResultFields
<1> DEFINE p == IF k = turn[t].calls THEN "seal" ELSE "results"
           w == [turn[t] EXCEPT !.returned = k, !.pc = p]
<1>8. p \in Places /\ p \in {"seal", "results"} /\ p \in InStep /\ (p = "seal" <=> k = turn[t].calls)
  BY PlacesAre DEF InStep
<1>9. turn' = [turn EXCEPT ![t] = w] BY <1>1, <1>2, <1>5, <1>6
<1> HIDE DEF p
<1>10. /\ w \in Workers /\ w.pc = p /\ w.step = turn[t].step /\ w.calls = turn[t].calls
       /\ w.recorded = turn[t].recorded /\ w.returned = k
  BY <1>1, <1>6, <1>8 DEF Workers
<1> HIDE DEF w
<1>11. Single => Fine(w, context'.pendingToolResultIds)
  <2>1. SUFFICES ASSUME Single PROVE Fine(w, context'.pendingToolResultIds) OBVIOUS
  <2>2. /\ turn[t].recorded = turn[t].calls /\ turn[t].returned < turn[t].calls
        /\ context.pendingToolResultIds = Awaited(turn[t])
    BY <1>2, <1>4, <2>1 DEF Fine, Calling
  <2> DEFINE s == turn[t].step
             b == turn[t].returned
             n == turn[t].calls - k
             a == [i \in 1..(n + 1) |-> <<s, b + i>>]
             e == [i \in 1..n |-> <<s, (b + 1) + i>>]
  <2>3. n \in Nat /\ k = b + 1 /\ turn[t].recorded - b = n + 1 /\ turn[t].recorded - k = n
    BY <1>6, <2>2
  <2>4. Awaited(turn[t]) = a BY <2>3 DEF Awaited
  <2>5. Awaited(w) = e BY <1>10, <2>3 DEF Awaited
  <2>6. call = <<s, b + 1>> OBVIOUS
  <2> HIDE DEF n
  <2>7. a \in Seq(CallId) /\ a # <<>> /\ a[1] = <<s, b + 1>> /\ Tail(a) = e
    <3>1. s \in Nat /\ b \in Nat BY <1>6
    <3> HIDE DEF s, b
    <3>2. n \in Nat BY <2>3
    <3>3. /\ a \in Seq(CallId) /\ a # <<>> /\ a[1] = <<s, b + 1>>
          /\ Tail(a) = [i \in 1..n |-> <<s, (b + 1) + i>>]
      BY <3>1, <3>2, TailAwaited, ZenonT(40)
    <3> QED BY <3>3
  <2> HIDE DEF a, e, call
  <2>8. a[1] = call BY <2>6, <2>7
  <2>9. RemoveFirst(a, call) = e /\ call \in Range(a) BY <2>7, <2>8, RemoveHead
  <2>10. context.pendingToolResultIds = a BY <2>2, <2>4
  <2>11. context'.pendingToolResultIds = e
    <3> DEFINE d == toolResult(context, call)
    <3>1. call \in Range(context.pendingToolResultIds) =>
            d.pendingToolResultIds = RemoveFirst(context.pendingToolResultIds, call)
      BY <1>1, <1>6, ResultFields
    <3> HIDE DEF d
    <3> QED BY <1>5, <2>9, <2>10, <3>1 DEF d
  <2>12. CASE p = "seal"
    <3>1. n = 0 BY <1>6, <1>8, <2>12 DEF n
    <3>2. e = <<>> BY <3>1 DEF e
    <3> QED BY <1>10, <2>11, <2>12, <3>2 DEF Fine, Calling
  <2>13. CASE p = "results"
    <3>1. k < turn[t].calls BY <1>6, <1>8, <2>2, <2>13
    <3> QED BY <1>10, <2>2, <2>5, <2>11, <2>13, <3>1 DEF Fine, Calling
  <2> QED BY <1>8, <2>12, <2>13
<1>12. OwnStep BY DEF WorkInv
<1>13. \A s \in Turn : s # t /\ turn[s].pc \in InStep => turn[s].step \in context'.openSteps
  BY <1>7, <1>12 DEF OwnStep
<1>14. used.steps =< used'.steps /\ used'.scenario = used.scenario /\ used' \in Uses
       /\ ~ compaction'.on
  BY <1>1, <1>2, <1>4
<1>15. w.step \in context'.openSteps /\ w.step \in 1..used'.steps
  BY <1>2, <1>4, <1>7, <1>10
<1> QED BY <1>4, <1>9, <1>10, <1>11, <1>13, <1>14, <1>15, WorkMoves

(* The step ends: nothing is pending, and only its own step is closed.     *)
LEMMA WorkEnds ==
  ASSUME TypeInv, WorkInv, Undisturbed, NEW t \in Turn, endStep(t)
  PROVE  WorkInv'
<1>1. /\ used \in Uses /\ context \in Contexts /\ turn[t] \in Workers
      /\ turn \in [Turn -> Workers] /\ used.steps \in Nat /\ steerBuffer \in Nat
      /\ turn[t].step \in Nat
  BY DEF TypeInv, Uses, Workers
<1>2. turn[t].pc = "seal" /\ compaction' = compaction BY DEF endStep
<1>3. turn[t].pc \in InStep /\ turn[t].pc \notin Resting \cup Waiting
  BY <1>2 DEF InStep, Resting, Waiting
<1>4. /\ t \in running /\ ~ compaction.on
      /\ Single => Fine(turn[t], context.pendingToolResultIds)
      /\ \A s \in Turn : s # t /\ turn[s].pc \in InStep => turn[s].step # turn[t].step
  BY <1>3, AtWork
<1>5. Single => context.pendingToolResultIds = <<>> BY <1>2, <1>4 DEF Fine, Calling
<1>6. used' \in Uses
  <2>1. worker(t) BY DEF worker
  <2> QED BY <2>1, WorkerTyped DEF Others
<1> DEFINE sealed == stepEnd(context, turn[t].step)
           steers == Numbered("notice", steerBuffer)
<1>7. /\ sealed \in Contexts /\ sealed.openSteps = context.openSteps \ {turn[t].step}
      /\ sealed.pendingToolResultIds = context.pendingToolResultIds
  BY <1>1, EndTyped, EndFields
<1>8. steers \in Seq(UserMsg)
  <2>1. "notice" \in UserRoles BY DEF UserRoles
  <2> QED BY <1>1, <2>1, NumberedMessages
<1>9. context' = context \/ context' = sealed \/ context' = appendMessages(sealed, steers)
  BY DEF endStep
<1> HIDE DEF sealed, steers
<1>10. /\ context'.openSteps = context.openSteps
          \/ context'.openSteps = context.openSteps \ {turn[t].step}
       /\ context'.pendingToolResultIds = context.pendingToolResultIds
  BY <1>7, <1>8, <1>9, MessagesTouchNothing
<1>11. used' = used \/ used' = [used EXCEPT !.appended = @ + steerBuffer] BY DEF endStep
<1>12. used'.scenario = used.scenario /\ used'.steps = used.steps BY <1>1, <1>11 DEF Uses
<1>13. PICK p \in {"ended", "ready"} : turn' = [turn EXCEPT ![t].pc = p]
  BY DEF endStep, end, goto
<1> DEFINE w == [turn[t] EXCEPT !.pc = p]
<1>14. turn' = [turn EXCEPT ![t] = w] BY <1>1, <1>13
<1>15. p \in Places /\ p \notin InStep /\ p \notin Calling BY <1>13, PlacesAre DEF InStep, Calling
<1>16. w \in Workers /\ w.pc = p BY <1>1, <1>15 DEF Workers
<1> HIDE DEF w
<1>17. Single => Fine(w, context'.pendingToolResultIds)
  BY <1>5, <1>10, <1>13, <1>16 DEF Fine, Calling
<1>18. OwnStep BY DEF WorkInv
<1>19. \A s \in Turn : s # t /\ turn[s].pc \in InStep => turn[s].step \in context'.openSteps
  BY <1>4, <1>10, <1>18 DEF OwnStep
<1>20. used.steps =< used'.steps /\ ~ compaction'.on BY <1>1, <1>2, <1>4, <1>12
<1> QED BY <1>4, <1>6, <1>12, <1>14, <1>15, <1>16, <1>17, <1>19, <1>20, WorkMoves

LEMMA WorkReminds ==
  ASSUME TypeInv, WorkInv, Undisturbed, UNCHANGED <<turn, compaction>>,
         used'.scenario = used.scenario, used'.steps = used.steps,
         context'.openSteps = context.openSteps,
         context'.pendingToolResultIds = context.pendingToolResultIds
  PROVE  WorkInv'
<1>1. \A s \in Turn : Stays(s) BY DEF Stays
<1>2. \A s \in Turn : turn'[s].pc \in InStep => turn[s].step \in context'.openSteps
  BY DEF WorkInv, OwnStep
<1>3. compaction'.on => Single /\ \A s \in Turn : turn'[s].pc \in Waiting \cup Resting
  BY DEF WorkInv, CompactionAlone, running, Resting
<1> QED BY <1>1, <1>2, <1>3, WorkRests

LEMMA WorkWorks ==
  ASSUME TypeInv, WorkInv, Undisturbed, NEW t \in Turn, worker(t)
  PROVE  WorkInv'
<1>1. CASE toolReminder(t)
  <2>1. "notice" \in UserRoles /\ used \in Uses BY DEF UserRoles, TypeInv
  <2>2. used'.scenario = used.scenario /\ used'.steps = used.steps
    BY <1>1, <2>1 DEF toolReminder, Uses
  <2>3. /\ context'.openSteps = context.openSteps
        /\ context'.pendingToolResultIds = context.pendingToolResultIds
    BY <1>1, <2>1, ReminderTouchesNothing DEF toolReminder
  <2> QED BY <1>1, <2>2, <2>3, WorkReminds DEF toolReminder
<1> QED BY <1>1, WorkSimple, WorkBegins, WorkResponse, WorkCalls, WorkResults, WorkEnds DEF worker

(* The client, while nobody disturbs the workers.                          *)
LEMMA WorkLaunch ==
  ASSUME TypeInv, WorkInv, Undisturbed, launch
  PROVE  WorkInv'
<1> DEFINE t == used.turns + 1
           w == Worker("launched")
<1>1. used \in Uses /\ used.turns \in Nat /\ used.steps \in Nat BY DEF TypeInv, Uses
<1>2. t \in Turn BY <1>1, Constants DEF launch, Turn
<1>3. /\ turn' = [turn EXCEPT ![t] = w] /\ compaction' = compaction /\ context' = context
      /\ used' = [used EXCEPT !.turns = @ + 1]
  BY DEF launch
<1>4. used' \in Uses /\ used'.scenario = used.scenario /\ used'.steps = used.steps
  BY <1>1, <1>3, UsedTyped DEF Uses
<1>5. "compact" \notin Unguarded BY DEF Undisturbed
<1>6. ~ compaction'.on BY <1>3, <1>5 DEF launch
<1>7. Single => running = {} BY DEF launch, May, Single
<1>8. w \in Workers /\ w.pc = "launched" BY NewWorkers, PlacesAre DEF Worker
<1>9. Single => context.pendingToolResultIds = <<>> BY <1>7 DEF WorkInv, OneWorker
<1> HIDE DEF w, t
<1>10. Single => Fine(w, context'.pendingToolResultIds) BY <1>3, <1>8, <1>9 DEF Fine, Calling
<1>11. \A s \in Turn : turn[s].pc \in InStep => turn[s].step \in context'.openSteps
  BY <1>3 DEF WorkInv, OwnStep
<1>12. used.steps =< used'.steps /\ w.pc \notin InStep BY <1>1, <1>4, <1>8 DEF InStep
<1> QED BY <1>2, <1>3, <1>4, <1>6, <1>7, <1>8, <1>10, <1>11, <1>12, WorkMoves

LEMMA WorkCancelled ==
  ASSUME TypeInv, WorkInv, Undisturbed, cancel
  PROVE  WorkInv'
<1> DEFINE t == activeTurn
           b == turn[t].pc \in {"blocked", "overflowed"}
           p == IF b THEN "ready" ELSE turn[t].pc
           w == [turn[t] EXCEPT !.cancelled = TRUE, !.pc = p]
<1>1. turn \in [Turn -> Workers] /\ activeTurn \in 0..MaxTurns BY DEF TypeInv
<1>2. t \in Turn BY <1>1, Constants DEF cancel, Turn
<1>3. turn[t] \in Workers /\ turn[t].pc \in Places BY <1>1, <1>2, WorkerFields
<1>4. /\ turn' = [turn EXCEPT ![t].cancelled = TRUE, ![t].pc = IF b THEN "ready" ELSE @]
      /\ compaction' = IF b THEN Idle ELSE compaction
      /\ context' = context /\ used' = used
  BY DEF cancel
<1>5. turn' = [turn EXCEPT ![t] = w] BY <1>1, <1>2, <1>4
<1>6. /\ w.pc = p /\ w.step = turn[t].step /\ w.calls = turn[t].calls
      /\ w.recorded = turn[t].recorded /\ w.returned = turn[t].returned
  BY <1>3 DEF Workers
<1> HIDE DEF w
<1>7. turn'[t] = w /\ \A s \in Turn : s # t => turn'[s] = turn[s] BY <1>1, <1>2, <1>5
<1>8. b => p = "ready" OBVIOUS
<1>9. ~ b => p = turn[t].pc OBVIOUS
<1>10. b => turn[t].pc \in Waiting BY DEF Waiting
<1>11. ASSUME NEW s \in Turn PROVE Stays(s)
  <2>1. CASE s # t BY <1>7, <2>1 DEF Stays
  <2>2. CASE s = t
    <3> HIDE DEF b, p
    <3> QED BY <1>6, <1>7, <1>8, <1>9, <1>10, <2>2 DEF Stays
  <2> QED BY <2>1, <2>2
<1>12. WorkInv BY DEF WorkInv
<1>13. \A s \in Turn : turn'[s].pc \in InStep => turn[s].step \in context'.openSteps
  <2>1. \A s \in Turn : turn'[s].pc \in InStep => turn[s].pc \in InStep
    BY <1>11 DEF Stays, InStep
  <2> QED BY <1>4, <2>1 DEF WorkInv, OwnStep
<1>14. compaction'.on => Single /\ \A s \in Turn : turn'[s].pc \in Waiting \cup Resting
  <2>1. SUFFICES ASSUME compaction'.on
                 PROVE  Single /\ \A s \in Turn : turn'[s].pc \in Waiting \cup Resting
    OBVIOUS
  <2>2. ~ b /\ compaction.on BY <1>4, <2>1 DEF Idle
  <2>3. Single /\ \A s \in Turn : turn[s].pc \in Waiting \cup Resting
    BY <2>2 DEF WorkInv, CompactionAlone, running, Resting
  <2>4. \A s \in Turn : turn'[s].pc = turn[s].pc
    <3> HIDE DEF b, p
    <3> QED BY <1>6, <1>7, <1>9, <2>2
  <2> QED BY <2>3, <2>4
<1> QED BY <1>4, <1>11, <1>13, <1>14, WorkRests

(* Undo and clear find no worker running.                                  *)
LEMMA WorkEdited ==
  ASSUME TypeInv, WorkInv, Undisturbed, undoHistory \/ clearContext
  PROVE  WorkInv'
<1>1. used \in Uses /\ context \in Contexts BY DEF TypeInv
<1>2. /\ turn' = turn /\ compaction' = compaction
      /\ used' = [used EXCEPT !.edits = @ + 1]
      /\ context' = undo(context) \/ context' = EmptyContext
  BY DEF undoHistory, clearContext
<1>3. used'.scenario = used.scenario /\ used'.steps = used.steps BY <1>1, <1>2 DEF Uses
<1>4. running = {} /\ ~ compaction.on BY DEF undoHistory, clearContext, May, Undisturbed
<1>5. \A s \in Turn : turn'[s].pc \notin InStep \cup Calling
  BY <1>2, <1>4 DEF running, InStep, Calling
<1>6. context' = context \/ context'.pendingToolResultIds = <<>>
  BY <1>1, <1>2, UndoFields, EmptyFields
<1>7. \A s \in Turn : Stays(s) BY <1>2 DEF Stays
<1> QED BY <1>2, <1>3, <1>4, <1>5, <1>6, <1>7, WorkRests

(* A user's compaction finds no worker running.                            *)
LEMMA WorkCompacts ==
  ASSUME TypeInv, WorkInv, Undisturbed, manualCompaction
  PROVE  WorkInv'
<1>1. used \in Uses BY DEF TypeInv
<1>2. turn' = turn /\ context' = context /\ used' = [used EXCEPT !.compactions = @ + 1]
  BY DEF manualCompaction
<1>3. used'.scenario = used.scenario /\ used'.steps = used.steps BY <1>1, <1>2, UsesKeep
<1>4. running = {} BY DEF manualCompaction, May, Undisturbed
<1>5. Single BY BeginsSingle DEF manualCompaction
<1>6. \A s \in Turn : turn'[s].pc \in Resting BY <1>2, <1>4 DEF running, Resting
<1>7. \A s \in Turn : turn'[s].pc \notin InStep BY <1>6 DEF Resting, InStep
<1>8. \A s \in Turn : Stays(s) BY <1>2 DEF Stays
<1> QED BY <1>2, <1>3, <1>5, <1>6, <1>7, <1>8, WorkRests

LEMMA Unblocked ==
  ASSUME TypeInv, NEW s \in Turn
  PROVE  /\ unblock[s] \in Workers
         /\ turn[s].pc \in {"blocked", "pending"} => unblock[s].pc = "inject"
         /\ turn[s].pc = "overflowed" => unblock[s].pc = "ready"
         /\ turn[s].pc \notin Waiting => unblock[s].pc = turn[s].pc
<1>1. turn[s] \in Workers /\ turn[s].pc \in Places BY WorkerFields DEF TypeInv
<1> DEFINE q == CASE turn[s].pc \in {"blocked", "pending"} -> "inject"
                  [] turn[s].pc = "overflowed" -> "ready"
                  [] OTHER -> turn[s].pc
<1>2. CASE turn[s].pc \in {"blocked", "pending"}
  <2>1. q = "inject" BY <1>2
  <2> HIDE DEF q
  <2>2. unblock[s] = [turn[s] EXCEPT !.pc = q] BY DEF unblock, q
  <2>3. unblock[s].pc = q BY <1>1, <2>2 DEF Workers
  <2> QED BY <1>2, <2>1, <2>3, UnblockTyped DEF Waiting
<1>3. CASE turn[s].pc = "overflowed"
  <2>1. q = "ready" BY <1>3
  <2> HIDE DEF q
  <2>2. unblock[s] = [turn[s] EXCEPT !.pc = q] BY DEF unblock, q
  <2>3. unblock[s].pc = q BY <1>1, <2>2 DEF Workers
  <2> QED BY <1>3, <2>1, <2>3, UnblockTyped DEF Waiting
<1>4. CASE turn[s].pc \notin Waiting
  <2>1. q = turn[s].pc BY <1>4 DEF Waiting
  <2> HIDE DEF q
  <2>2. unblock[s] = [turn[s] EXCEPT !.pc = q] BY DEF unblock, q
  <2>3. unblock[s].pc = q BY <1>1, <2>2 DEF Workers
  <2> QED BY <1>4, <2>1, <2>3, UnblockTyped DEF Waiting
<1> QED BY <1>2, <1>3, <1>4 DEF Waiting

(* The compaction is over: those that waited go on, or end.                *)
LEMMA WorkCompacted ==
  ASSUME TypeInv, WorkInv, Undisturbed, compactionDone \/ cancelCompaction \/ compactionFails
  PROVE  WorkInv'
<1>1. context \in Contexts /\ compaction \in Compactions /\ turn \in [Turn -> Workers]
  BY DEF TypeInv
<1>2. compaction.on /\ compaction' = Idle /\ used' = used
  BY DEF compactionDone, cancelCompaction, compactionFails
<1>3. Single /\ \A s \in running : turn[s].pc \in Waiting BY <1>2 DEF WorkInv, CompactionAlone
<1>4. \A s \in Turn :
        \/ turn'[s] = unblock[s]
        \/ (turn[s].pc \in Waiting /\ turn'[s] = [turn[s] EXCEPT !.pc = "ended"])
  <2>1. CASE compactionDone \/ cancelCompaction
    <3>1. turn' = unblock BY <2>1 DEF compactionDone, cancelCompaction
    <3>2. \A s \in Turn : turn'[s] = unblock[s] BY <3>1
    <3> QED BY <3>2
  <2>2. CASE compactionFails
    <3> DEFINE failed == {s \in Turn : turn[s].pc \in {"blocked", "overflowed"}}
    <3>1. turn' = [s \in Turn |-> IF s \in failed THEN [turn[s] EXCEPT !.pc = "ended"]
                                                  ELSE unblock[s]]
      BY <2>2 DEF compactionFails
    <3>2. \A s \in failed : turn[s].pc \in Waiting BY DEF Waiting
    <3> HIDE DEF failed
    <3>3. \A s \in Turn : s \in failed => turn'[s] = [turn[s] EXCEPT !.pc = "ended"] BY <3>1
    <3>4. \A s \in Turn : s \notin failed => turn'[s] = unblock[s] BY <3>1
    <3> QED BY <3>2, <3>3, <3>4
  <2> QED BY <2>1, <2>2
<1>5. ASSUME NEW s \in Turn
      PROVE  Stays(s) /\ turn'[s].pc \notin InStep \cup Calling
  <2>1. turn[s] \in Workers BY <1>1
  <2>2. CASE turn[s].pc \in Waiting
    <3>1. CASE turn'[s] = [turn[s] EXCEPT !.pc = "ended"]
      <4>1. turn'[s].pc = "ended" BY <2>1, <3>1 DEF Workers
      <4> QED BY <2>2, <4>1 DEF Stays, InStep, Calling
    <3>2. CASE turn'[s] = unblock[s]
      <4>1. turn'[s].pc \in {"inject", "ready"} BY <2>2, <3>2, Unblocked DEF Waiting
      <4> QED BY <2>2, <4>1 DEF Stays, InStep, Calling
    <3> QED BY <1>4, <3>1, <3>2
  <2>3. CASE turn[s].pc \notin Waiting
    <3>1. turn[s].pc \in Resting BY <1>3, <2>3 DEF running, Resting
    <3>2. turn'[s] = unblock[s] BY <1>4, <2>3
    <3>3. unblock[s] = [turn[s] EXCEPT !.pc = turn[s].pc]
      BY <2>3 DEF unblock, Waiting
    <3>4. [turn[s] EXCEPT !.pc = turn[s].pc] = turn[s] BY <2>1 DEF Workers
    <3>5. turn'[s] = turn[s] BY <3>2, <3>3, <3>4
    <3> QED BY <3>1, <3>5 DEF Stays, Resting, InStep, Calling
  <2> QED BY <2>2, <2>3
<1>6. context'.pendingToolResultIds = context.pendingToolResultIds
      \/ context'.pendingToolResultIds = <<>>
  <2>1. CASE compactionDone
    <3> DEFINE n == compaction.compactedCount
    <3>1. n \in Nat /\ used.compactions \in Nat BY <1>1 DEF Compactions, TypeInv, Uses
    <3> HIDE DEF n
    <3>2. applyCompaction(context, used.compactions, n).pendingToolResultIds
             = context.pendingToolResultIds
      BY <1>1, <3>1, CompactionFields
    <3> QED BY <2>1, <3>2 DEF compactionDone, n
  <2>2. CASE cancelCompaction BY <2>2 DEF cancelCompaction
  <2>3. CASE compactionFails
    <3>1. CASE UNCHANGED context BY <3>1
    <3>2. CASE ~ UNCHANGED context
      <4>1. /\ \E i \in DOMAIN context.history : context.history[i].role \in ToolRoles
            /\ context' = replaceHistory(context)
        BY <2>3, <3>2 DEF compactionFails
      <4> QED BY <1>1, <4>1, PruneFields
    <3> QED BY <3>1, <3>2
  <2> QED BY <2>1, <2>2, <2>3
<1>7. ~ compaction'.on BY <1>2 DEF Idle
<1> QED BY <1>2, <1>5, <1>6, <1>7, WorkRests

(* After a crash no worker is left, and nothing is pending.                *)
LEMMA WorkCrashed ==
  ASSUME TypeInv, WorkInv, Undisturbed, crash
  PROVE  WorkInv'
<1>1. used \in Uses BY DEF TypeInv
<1>2. used'.scenario = used.scenario /\ used'.steps = used.steps BY <1>1 DEF crash, Uses
<1>3. context'.pendingToolResultIds = <<>>
  <2>1. PICK n \in synced..Len(records) :
           /\ replay(SubSeq(records, 1, n)) \in Contexts
           /\ context' = finishResume(replay(SubSeq(records, 1, n)))
    BY CrashShape
  <2> QED BY <2>1, NothingPending
<1>4. \A s \in Turn : turn'[s].pc \in Resting
  <2>1. Worker("ended").pc = "ended" BY DEF Worker
  <2>2. turn' = [s \in Turn |-> IF s \in running THEN Worker("ended") ELSE turn[s]] BY DEF crash
  <2> QED BY <2>1, <2>2 DEF running, Resting
<1>5. ~ compaction'.on BY DEF crash, Idle
<1>6. \A s \in Turn : turn'[s].pc \notin InStep BY <1>4 DEF Resting, InStep
<1>7. running' = {} BY <1>4 DEF running, Resting
<1>8. OwnStep' BY <1>6 DEF OwnStep
<1>9. CompactionAlone' BY <1>5 DEF CompactionAlone
<1>10. OneWorker' BY <1>3, <1>7 DEF OneWorker
<1> QED BY <1>8, <1>9, <1>10 DEF WorkInv

LEMMA WorkInit == Init => WorkInv
<1> SUFFICES ASSUME Init PROVE WorkInv OBVIOUS
<1>1. \A s \in Turn : turn[s].pc = "unborn" BY DEF Init, Worker
<1>2. running = {} BY <1>1 DEF running
<1>3. context.pendingToolResultIds = <<>> /\ ~ compaction.on
  BY EmptyFields DEF Init, Idle
<1>4. OneWorker BY <1>2, <1>3 DEF OneWorker
<1>5. CompactionAlone BY <1>3 DEF CompactionAlone
<1>6. OwnStep BY <1>1 DEF OwnStep, InStep
<1> QED BY <1>4, <1>5, <1>6 DEF WorkInv

LEMMA ScenarioStays ==
  ASSUME TypeInv, [Next]_vars
  PROVE  used'.scenario = used.scenario
<1>1. used \in Uses BY DEF TypeInv
<1>2. ASSUME NEW t \in Turn, worker(t) PROVE used'.scenario = used.scenario
  BY <1>1, <1>2 DEF worker, appendPrompt, beforeStep, autoCompaction, stopBeforeStep, beginStep,
     contentPart, requestFails, handleOverflowError, response, recordToolCall, toolReminder,
     recordToolResult, endStep, flushSteerBuffer, Uses
<1>3. CASE launch \/ steer \/ cancel \/ remind \/ undoHistory \/ clearContext \/ UNCHANGED vars
  BY <1>1, <1>3 DEF launch, steer, cancel, remind, undoHistory, clearContext, vars, Uses
<1>4. CASE manualCompaction \/ compactionDone \/ cancelCompaction \/ compactionFails \/ crash
  BY <1>1, <1>4 DEF manualCompaction, compactionDone, cancelCompaction, compactionFails, crash,
     Uses
<1> QED BY <1>2, <1>3, <1>4 DEF Next

LEMMA WorkKept ==
  ASSUME TypeInv, WorkInv, [Next]_vars
  PROVE  WorkInv'
<1>0. CASE ~ Undisturbed
  <2>1. ~ Undisturbed' BY <1>0, ScenarioStays, StayUndisturbed
  <2> QED BY <2>1 DEF WorkInv
<1>1. CASE Undisturbed
  <2>0. used \in Uses /\ "notice" \in UserRoles BY DEF TypeInv, UserRoles
  <2>1. CASE launch BY <1>1, <2>1, WorkLaunch
  <2>2. CASE steer
    <3>1. used'.scenario = used.scenario /\ used'.steps = used.steps BY <2>0, <2>2 DEF steer, Uses
    <3> QED BY <1>1, <2>2, <3>1, WorkReminds DEF steer
  <2>3. CASE cancel BY <1>1, <2>3, WorkCancelled
  <2>4. CASE remind
    <3>1. used'.scenario = used.scenario /\ used'.steps = used.steps
      BY <2>0, <2>4 DEF remind, Uses
    <3>2. /\ context'.openSteps = context.openSteps
          /\ context'.pendingToolResultIds = context.pendingToolResultIds
      BY <2>0, <2>4, ReminderTouchesNothing DEF remind
    <3> QED BY <1>1, <2>4, <3>1, <3>2, WorkReminds DEF remind
  <2>5. CASE undoHistory \/ clearContext BY <1>1, <2>5, WorkEdited
  <2>6. CASE \E t \in Turn : worker(t) BY <1>1, <2>6, WorkWorks
  <2>7. CASE manualCompaction BY <1>1, <2>7, WorkCompacts
  <2>8. CASE compactionDone \/ cancelCompaction \/ compactionFails
    BY <1>1, <2>8, WorkCompacted
  <2>9. CASE crash BY <1>1, <2>9, WorkCrashed
  <2>10. CASE UNCHANGED vars BY <1>1, <2>10, WorkReminds DEF vars
  <2> QED BY <2>1, <2>2, <2>3, <2>4, <2>5, <2>6, <2>7, <2>8, <2>9, <2>10 DEF Next
<1> QED BY <1>0, <1>1

LEMMA WorkHolds == Spec => []WorkInv
<1>1. TypeInv /\ WorkInv /\ [Next]_vars => WorkInv' BY WorkKept
<1> QED BY <1>1, WorkInit, ContextTypes, PTL DEF Spec

LEMMA OnlyBeginStepCounts ==
  ASSUME TypeInv, [Next]_vars, used'.steps # used.steps
  PROVE  \E t \in Turn : beginStep(t)
<1>1. used \in Uses BY DEF TypeInv
<1>2. ASSUME NEW t \in Turn, worker(t) PROVE beginStep(t)
  BY <1>1, <1>2 DEF worker, appendPrompt, beforeStep, autoCompaction, stopBeforeStep,
     contentPart, requestFails, handleOverflowError, response, recordToolCall, toolReminder,
     recordToolResult, endStep, flushSteerBuffer, Uses
<1>3. CASE launch \/ steer \/ cancel \/ remind \/ undoHistory \/ clearContext \/ UNCHANGED vars
  BY <1>1, <1>3 DEF launch, steer, cancel, remind, undoHistory, clearContext, vars, Uses
<1>4. CASE manualCompaction \/ compactionDone \/ cancelCompaction \/ compactionFails \/ crash
  BY <1>1, <1>4 DEF manualCompaction, compactionDone, cancelCompaction, compactionFails, crash,
     Uses
<1> QED BY <1>2, <1>3, <1>4 DEF Next

(* Where a request is built, nothing is pending and nothing held back.     *)
LEMMA RequestComplete ==
  ASSUME TypeInv, OrderInv, WorkInv, [Next]_vars, Undisturbed, Single,
         used'.steps # used.steps
  PROVE  ~ hasOpenToolExchange(context) /\ context.deferredMessages = <<>>
<1>1. PICK t \in Turn : beginStep(t) BY OnlyBeginStepCounts
<1>2. turn[t].pc = "inject" BY <1>1 DEF beginStep
<1>3. Fine(turn[t], context.pendingToolResultIds) BY <1>2, AtWork DEF Resting
<1>4. context.pendingToolResultIds = <<>> BY <1>2, <1>3 DEF Fine, Calling
<1>5. context.deferredMessages # <<>> => hasOpenToolExchange(context) BY DEF OrderInv, Ordered
<1> QED BY <1>4, <1>5 DEF hasOpenToolExchange

(* The messages of a request are built from a history in which every call  *)
(* has its result and from which nothing is held back.                     *)
THEOREM RequestsStayComplete == Spec => RequestsAreComplete
<1>1. ASSUME TypeInv, OrderInv, WorkInv, [Next]_vars
      PROVE  [Guarded /\ used.steps' # used.steps => /\ ~ hasOpenToolExchange(context)
                                                     /\ context.deferredMessages = <<>>]_vars
  <2>1. Guarded => Undisturbed /\ Single BY DEF Guarded, Undisturbed, Single
  <2> QED BY <1>1, <2>1, RequestComplete
<1> QED BY <1>1, ContextTypes, OrderHolds, WorkHolds, PTL DEF Spec, RequestsAreComplete

-----------------------------------------------------------------------------
(* The replay follows the conversation.                                    *)

(* The same message, or a tool result whose text was cut and the whole one. *)
Alike(m, n) ==
  /\ m.id = n.id /\ m.calls = n.calls
  /\ m.role = n.role \/ (m.role = "pruned" /\ n.role = "tool")

AllAlike(h, g) == Len(h) = Len(g) /\ \A i \in 1..Len(h) : Alike(h[i], g[i])

(* What the replay of the records has, seen from the conversation.         *)
Rel(c, d) ==
  /\ AllAlike(c.history, d.history)
  /\ c.pendingToolResultIds = d.pendingToolResultIds
  /\ c.deferredMessages = d.deferredMessages
  /\ c.openSteps \subseteq d.openSteps

LEMMA AlikeSelf == \A h : AllAlike(h, h)
BY DEF AllAlike, Alike

LEMMA AlikeBoth ==
  ASSUME NEW h \in Seq(Msg), NEW g \in Seq(Msg), NEW s \in Seq(Msg), NEW u \in Seq(Msg),
         AllAlike(h, g), AllAlike(s, u)
  PROVE  AllAlike(h \o s, g \o u)
<1> DEFINE v == h \o s
           w == g \o u
           n == Len(h)
           k == Len(s)
<1>1. n \in Nat /\ k \in Nat /\ Len(g) = n /\ Len(u) = k BY DEF AllAlike
<1>a. Len(v) = n + k /\ \A i \in 1..(n + k) : v[i] = IF i =< n THEN h[i] ELSE s[i - n]
  OBVIOUS
<1>b. Len(w) = n + k /\ \A i \in 1..(n + k) : w[i] = IF i =< n THEN g[i] ELSE u[i - n]
  BY <1>1
<1> HIDE DEF v, w, n, k
<1>2. /\ Len(v) = Len(w)
      /\ \A i \in 1..Len(v) : \/ i \in 1..n /\ v[i] = h[i] /\ w[i] = g[i]
                              \/ i - n \in 1..k /\ v[i] = s[i - n] /\ w[i] = u[i - n]
  BY <1>1, <1>a, <1>b
<1>3. \A i \in 1..n : Alike(h[i], g[i]) BY DEF AllAlike, n
<1>4. \A i \in 1..k : Alike(s[i], u[i]) BY DEF AllAlike, k
<1>5. ASSUME NEW i \in 1..Len(v) PROVE Alike(v[i], w[i])
  <2>1. CASE i \in 1..n /\ v[i] = h[i] /\ w[i] = g[i] BY <1>3, <2>1
  <2>2. CASE i - n \in 1..k /\ v[i] = s[i - n] /\ w[i] = u[i - n] BY <1>4, <2>2
  <2> QED BY <1>2, <2>1, <2>2
<1>6. AllAlike(v, w) BY <1>2, <1>5 DEF AllAlike
<1> QED BY <1>6 DEF v, w

LEMMA AlikeAppend ==
  ASSUME NEW h \in Seq(Msg), NEW g \in Seq(Msg), NEW m \in Msg, AllAlike(h, g)
  PROVE  AllAlike(Append(h, m), Append(g, m))
<1>1. <<m>> \in Seq(Msg) /\ AllAlike(<<m>>, <<m>>) BY AlikeSelf
<1>2. Append(h, m) = h \o <<m>> /\ Append(g, m) = g \o <<m>> BY SMTT(30)
<1> QED BY <1>1, <1>2, AlikeBoth

LEMMA AlikeCalls ==
  ASSUME NEW h \in Seq(Msg), NEW g \in Seq(Msg), NEW call \in CallId, AllAlike(h, g)
  PROVE  AllAlike(WithCall(h, call), WithCall(g, call))
<1> DEFINE v == WithCall(h, call)
           w == WithCall(g, call)
           n == Len(h)
           Filled(m) == IF m.role = "assistant" /\ m.id = StepOf(call)
                          THEN [m EXCEPT !.calls = @ \cup {call}] ELSE m
<1>1. /\ Len(v) = n /\ Len(w) = n /\ Len(g) = n
      /\ DOMAIN h = 1..n /\ DOMAIN g = 1..n
  BY WithCallTyped DEF AllAlike
<1>a. \A i \in 1..n : v[i] = Filled(h[i]) BY <1>1 DEF WithCall
<1>b. \A i \in 1..n : w[i] = Filled(g[i]) BY <1>1 DEF WithCall
<1>2. \A i \in 1..n : v[i] = Filled(h[i]) /\ w[i] = Filled(g[i]) BY <1>a, <1>b
<1>3. \A i \in 1..n : h[i] \in Msg /\ g[i] \in Msg BY <1>1
<1>4. ASSUME NEW m \in Msg, NEW k \in Msg, Alike(m, k) PROVE Alike(Filled(m), Filled(k))
  <2>1. \A x \in Msg : LET y == [x EXCEPT !.calls = @ \cup {call}]
                       IN  y.role = x.role /\ y.id = x.id /\ y.calls = x.calls \cup {call}
    BY DEF Msg
  <2>2. m.id = k.id /\ m.calls = k.calls /\ (m.role = k.role \/ (m.role = "pruned" /\ k.role = "tool"))
    BY <1>4 DEF Alike
  <2>3. CASE m.role = "assistant" /\ m.id = StepOf(call)
    <3>1. k.role = "assistant" /\ k.id = StepOf(call) BY <2>2, <2>3
    <3> QED BY <1>4, <2>1, <2>2, <2>3, <3>1 DEF Alike
  <2>4. CASE ~ (m.role = "assistant" /\ m.id = StepOf(call))
    <3>1. ~ (k.role = "assistant" /\ k.id = StepOf(call)) BY <2>2, <2>4
    <3> QED BY <1>4, <2>4, <3>1
  <2> QED BY <2>3, <2>4
<1> HIDE DEF v, w, n, Filled
<1>5. \A i \in 1..n : Alike(h[i], g[i]) BY DEF AllAlike, n
<1>6. \A i \in 1..n : Alike(v[i], w[i]) BY <1>2, <1>3, <1>4, <1>5
<1>7. AllAlike(v, w) BY <1>1, <1>6 DEF AllAlike
<1> QED BY <1>7 DEF v, w

LEMMA AlikeRest ==
  ASSUME NEW h \in Seq(Msg), NEW g \in Seq(Msg), NEW k \in Nat, AllAlike(h, g)
  PROVE  AllAlike(SubSeq(h, k + 1, Len(h)), SubSeq(g, k + 1, Len(g)))
<1> DEFINE s == SubSeq(h, k + 1, Len(h))
           u == SubSeq(g, k + 1, Len(g))
<1>1. Len(h) = Len(g) /\ Len(h) \in Nat BY DEF AllAlike
<1>2. Len(s) = Len(u) /\ \A i \in 1..Len(s) : s[i] = h[i + k] /\ u[i] = g[i + k]
                                              /\ i + k \in 1..Len(h)
  BY <1>1
<1> HIDE DEF s, u
<1>3. \A i \in 1..Len(h) : Alike(h[i], g[i]) BY DEF AllAlike
<1>4. \A i \in 1..Len(s) : Alike(s[i], u[i]) BY <1>2, <1>3
<1>5. AllAlike(s, u) BY <1>2, <1>4 DEF AllAlike
<1> QED BY <1>5 DEF s, u

(* Undo keeps the same positions of both.                                  *)
LEMMA SparedAlike ==
  ASSUME NEW h \in Seq(Msg), NEW g \in Seq(Msg), AllAlike(h, g)
  PROVE  Spared(h) = Spared(g)
<1> DEFINE n == Len(h)
           I == {i \in 1..n : h[i].role \in {"user", "summary"}}
           J == {i \in 1..Len(g) : g[i].role \in {"user", "summary"}}
           stop == IF I # {} THEN Max(I) ELSE 0
<1>1. n \in Nat /\ Len(g) = n /\ DOMAIN h = 1..n /\ DOMAIN g = 1..n BY DEF AllAlike
<1>2. \A i \in 1..n : Alike(h[i], g[i]) BY DEF AllAlike
<1>3. \A i \in 1..n : /\ h[i].role \in {"user", "summary"} <=> g[i].role \in {"user", "summary"}
                      /\ h[i].role = "user" <=> g[i].role = "user"
                      /\ h[i].role = "injection" <=> g[i].role = "injection"
  BY <1>2 DEF Alike
<1>4. I = J BY <1>1, <1>3
<1>5. SelectLastInSeq(h, LAMBDA m : m.role \in {"user", "summary"}) = stop
  BY DEF SelectLastInSeq, SelectLastInSubSeq
<1>6. SelectLastInSeq(g, LAMBDA m : m.role \in {"user", "summary"}) = stop
  <2>1. SelectLastInSeq(g, LAMBDA m : m.role \in {"user", "summary"})
          = IF J # {} THEN Max(J) ELSE 0
    BY DEF SelectLastInSeq, SelectLastInSubSeq
  <2> QED BY <1>4, <2>1
<1>7. stop > 0 => stop \in 1..n
  <2>1. CASE I = {} BY <2>1
  <2>2. CASE I # {}
    <3>1. I \subseteq Nat /\ \A i \in I : i =< n OBVIOUS
    <3> HIDE DEF I
    <3>2. Max(I) \in I BY <1>1, <2>2, <3>1, Greatest
    <3>3. stop = Max(I) BY <2>2
    <3> QED BY <3>2, <3>3 DEF I
  <2> QED BY <2>1, <2>2
<1> HIDE DEF stop, I, J
<1> DEFINE keep == IF stop > 0 /\ h[stop].role = "user" THEN stop - 1 ELSE stop
<1>8. keep = IF stop > 0 /\ g[stop].role = "user" THEN stop - 1 ELSE stop BY <1>3, <1>7
<1>9. Spared(h) = {i \in 1..n : i <= keep \/ h[i].role = "injection"} BY <1>1, <1>5 DEF Spared
<1>10. Spared(g) = {i \in 1..n : i <= keep \/ g[i].role = "injection"}
  BY <1>1, <1>6, <1>8 DEF Spared
<1> HIDE DEF keep
<1> QED BY <1>3, <1>9, <1>10

LEMMA SelectionAlike ==
  ASSUME NEW h \in Seq(Msg), NEW g \in Seq(Msg), AllAlike(h, g), NEW I
  PROVE  AllAlike(Selection(h, I), Selection(g, I))
<1> DEFINE b == Len(h)
<1>1. b \in Nat /\ Len(g) = b BY DEF AllAlike
<1>2. PICK f : Chooses(h, I, f) /\ Selection(h, I) = f[b] BY SelectionExists
<1>3. PICK e : Chooses(g, I, e) /\ Selection(g, I) = e[b] BY <1>1, SelectionExists
<1> DEFINE T == {n \in 0..b : ~ AllAlike(f[n], e[n])}
<1>4. /\ f \in [0..b -> Seq(Msg)] /\ f[0] = <<>>
      /\ \A n \in 1..b : f[n] = IF n \in I THEN Append(f[n - 1], h[n]) ELSE f[n - 1]
  BY <1>2 DEF Chooses
<1>5. /\ e \in [0..b -> Seq(Msg)] /\ e[0] = <<>>
      /\ \A n \in 1..b : e[n] = IF n \in I THEN Append(e[n - 1], g[n]) ELSE e[n - 1]
  BY <1>1, <1>3 DEF Chooses
<1>6. \A n \in 1..b : h[n] \in Msg /\ g[n] \in Msg /\ Alike(h[n], g[n]) BY <1>1 DEF AllAlike
<1> HIDE DEF b
<1>7. SUFFICES ASSUME T # {} PROVE FALSE
  <2>1. b \in 0..b /\ b \notin T BY <1>1, <1>7
  <2> QED BY <1>2, <1>3, <2>1
<1>8. PICK n \in T : \A k \in T : n =< k
  <2>1. T \subseteq Nat OBVIOUS
  <2> HIDE DEF T
  <2>2. Min(T) \in T /\ \A k \in T : Min(T) =< k BY <1>7, <2>1, LeastElement
  <2> QED BY <2>2
<1>9. n \in 0..b /\ ~ AllAlike(f[n], e[n]) OBVIOUS
<1>10. n # 0
  <2>1. SUFFICES ASSUME n = 0 PROVE FALSE OBVIOUS
  <2>2. f[n] = e[n] BY <1>4, <1>5, <2>1
  <2> QED BY <1>9, <2>2, AlikeSelf
<1>11. n \in 1..b /\ n - 1 \in 0..b /\ ~ (n =< n - 1) BY <1>1, <1>9, <1>10
<1>12. n - 1 \notin T
  <2> HIDE DEF T
  <2> QED BY <1>8, <1>11
<1>13. AllAlike(f[n - 1], e[n - 1]) BY <1>11, <1>12
<1> HIDE DEF T
<1>14. CASE n \notin I BY <1>4, <1>5, <1>9, <1>11, <1>13, <1>14
<1>15. CASE n \in I
  <2> DEFINE s == f[n - 1]
             u == e[n - 1]
             p == h[n]
             q == g[n]
  <2>1. f[n] = Append(s, p) /\ e[n] = Append(u, q) BY <1>4, <1>5, <1>11, <1>15
  <2>2. s \in Seq(Msg) /\ u \in Seq(Msg) BY <1>4, <1>5, <1>11
  <2>3. p \in Msg /\ q \in Msg /\ Alike(p, q) BY <1>6, <1>11
  <2>4. AllAlike(s, u) BY <1>13
  <2> HIDE DEF s, u, p, q
  <2>5. <<p>> \in Seq(Msg) /\ <<q>> \in Seq(Msg) /\ AllAlike(<<p>>, <<q>>)
    BY <2>3 DEF AllAlike
  <2>6. Append(s, p) = s \o <<p>> /\ Append(u, q) = u \o <<q>>
    <3>1. \A x \in Seq(Msg) : \A m \in Msg : Append(x, m) = x \o <<m>> OBVIOUS
    <3> QED BY <2>2, <2>3, <3>1
  <2> QED BY <1>9, <2>1, <2>2, <2>4, <2>5, <2>6, AlikeBoth
<1> QED BY <1>14, <1>15

LEMMA ClosingsDepend ==
  ASSUME NEW c, NEW d, c.pendingToolResultIds = d.pendingToolResultIds
  PROVE  Closings(c) = Closings(d)
BY DEF Closings

LEMMA CloseRel ==
  ASSUME NEW c \in Contexts, NEW d \in Contexts, Rel(c, d)
  PROVE  /\ closePendingToolResults(c) \in Contexts /\ closePendingToolResults(d) \in Contexts
         /\ Rel(closePendingToolResults(c), closePendingToolResults(d))
<1> DEFINE x == closePendingToolResults(c)
           y == closePendingToolResults(d)
           h == c.history
           g == d.history
           k == Closings(c)
           e == c.deferredMessages
<1>1. /\ AllAlike(h, g) /\ c.pendingToolResultIds = d.pendingToolResultIds
      /\ d.deferredMessages = e /\ c.openSteps \subseteq d.openSteps
  BY DEF Rel
<1>2. h \in Seq(Msg) /\ g \in Seq(Msg) /\ e \in Seq(Msg) BY ContextFields, UserSequences
<1>3. k \in Seq(Msg) /\ Closings(d) = k BY <1>1, ClosingsTyped, ClosingsDepend
<1>4. x \in Contexts /\ y \in Contexts BY CloseTyped
<1>5. CASE c.pendingToolResultIds = <<>>
  <2>1. x = c /\ y = d BY <1>1, <1>5, ClosedFields
  <2> QED BY <1>4, <2>1
<1>6. CASE c.pendingToolResultIds # <<>>
  <2>1. /\ x.history = (h \o k) \o e /\ x.deferredMessages = <<>>
        /\ x.openSteps = c.openSteps /\ x.pendingToolResultIds = <<>>
    BY <1>6, ClosedFields
  <2>2. /\ y.history = (g \o k) \o e /\ y.deferredMessages = <<>>
        /\ y.openSteps = d.openSteps /\ y.pendingToolResultIds = <<>>
    BY <1>1, <1>3, <1>6, ClosedFields
  <2> HIDE DEF x, y, h, g, k, e
  <2>3. AllAlike(h \o k, g \o k) /\ h \o k \in Seq(Msg) /\ g \o k \in Seq(Msg)
    BY <1>1, <1>2, <1>3, AlikeSelf, AlikeBoth
  <2>4. AllAlike((h \o k) \o e, (g \o k) \o e) BY <1>2, <2>3, AlikeSelf, AlikeBoth
  <2>5. Rel(x, y) BY <1>1, <2>1, <2>2, <2>4 DEF Rel
  <2> QED BY <1>4, <2>5 DEF x, y
<1> QED BY <1>5, <1>6

LEMMA FinishRel ==
  ASSUME NEW c \in Contexts, NEW d \in Contexts, Rel(c, d)
  PROVE  AllAlike(finishResume(c).history, finishResume(d).history)
<1>1. Rel(closePendingToolResults(c), closePendingToolResults(d)) BY CloseRel
<1>2. /\ finishResume(c).history = closePendingToolResults(c).history
      /\ finishResume(d).history = closePendingToolResults(d).history
  BY FinishFields
<1> QED BY <1>1, <1>2 DEF Rel

(* One record does the same to both.                                       *)
LEMMA RestoreRel ==
  ASSUME NEW c \in Contexts, NEW d \in Contexts, Rel(c, d), NEW r \in Records, ~ throws(c, r)
  PROVE  ~ throws(d, r) /\ Rel(restoreAgentRecord(c, r), restoreAgentRecord(d, r))
<1> DEFINE x == restoreAgentRecord(c, r)
           y == restoreAgentRecord(d, r)
           h == c.history
           g == d.history
           p == c.pendingToolResultIds
           e == c.deferredMessages
<1>1. /\ AllAlike(h, g) /\ d.pendingToolResultIds = p
      /\ d.deferredMessages = e /\ c.openSteps \subseteq d.openSteps
  BY DEF Rel
<1>2. /\ h \in Seq(Msg) /\ g \in Seq(Msg) /\ e \in Seq(Msg) /\ p \in Seq(CallId)
      /\ e \in Seq(UserMsg) /\ c.openSteps \in SUBSET Nat /\ d.openSteps \in SUBSET Nat
  BY ContextFields, UserSequences
<1>3. ~ throws(d, r) BY <1>1 DEF throws
<1>4. \A s \in Seq(Msg) : h \o s \in Seq(Msg) /\ g \o s \in Seq(Msg) /\ AllAlike(h \o s, g \o s)
  <2> HIDE DEF h, g
  <2> QED BY <1>1, <1>2, AlikeSelf, AlikeBoth
<1>5. CASE r.type = "append_message" /\ r.arg \in UserMsg
  <2> DEFINE ms == <<r.arg>>
  <2>1. ms \in Seq(UserMsg) /\ ms \in Seq(Msg) BY <1>5, UserMessages
  <2>2. x = appendMessages(c, ms) /\ y = appendMessages(d, ms)
    BY <1>3, <1>5 DEF restoreAgentRecord, appendMessage
  <2> HIDE DEF ms
  <2>3. /\ x.openSteps = c.openSteps /\ x.pendingToolResultIds = p
        /\ p # <<>> => x.history = h /\ x.deferredMessages = e \o ms
        /\ p = <<>> => x.history = h \o ms /\ x.deferredMessages = e
    BY <2>1, <2>2, AppendFields
  <2>4. /\ y.openSteps = d.openSteps /\ y.pendingToolResultIds = p
        /\ p # <<>> => y.history = g /\ y.deferredMessages = e \o ms
        /\ p = <<>> => y.history = g \o ms /\ y.deferredMessages = e
    BY <1>1, <2>1, <2>2, AppendFields, ZenonT(40)
  <2>5. AllAlike(x.history, y.history) /\ x.deferredMessages = y.deferredMessages
    BY <1>1, <1>4, <2>1, <2>3, <2>4
  <2> QED BY <1>1, <1>3, <2>3, <2>4, <2>5 DEF Rel
<1>6. CASE r.type = "step.begin" /\ r.arg \in Nat
  <2> DEFINE a == closePendingToolResults(c)
             b == closePendingToolResults(d)
             m == Message("assistant", r.arg)
  <2>1. x = stepBegin(c, r.arg) /\ y = stepBegin(d, r.arg)
    BY <1>3, <1>6 DEF restoreAgentRecord
  <2>2. /\ x.history = Append(a.history, m) /\ x.openSteps = c.openSteps \cup {r.arg}
        /\ x.pendingToolResultIds = <<>> /\ x.deferredMessages = a.deferredMessages
    BY <1>6, <2>1, BeginFields
  <2>3. /\ y.history = Append(b.history, m) /\ y.openSteps = d.openSteps \cup {r.arg}
        /\ y.pendingToolResultIds = <<>> /\ y.deferredMessages = b.deferredMessages
    BY <1>6, <2>1, BeginFields
  <2>4. a \in Contexts /\ b \in Contexts /\ Rel(a, b) BY CloseRel
  <2>5. m \in Msg BY <1>6 DEF Message, Msg
  <2> HIDE DEF a, b, m, x, y
  <2>6. AllAlike(a.history, b.history) /\ a.deferredMessages = b.deferredMessages
    BY <2>4 DEF Rel
  <2>7. a.history \in Seq(Msg) /\ b.history \in Seq(Msg) BY <2>4, ContextFields
  <2>8. AllAlike(Append(a.history, m), Append(b.history, m))
    BY <2>5, <2>6, <2>7, AlikeAppend
  <2>9. Rel(x, y) BY <1>1, <2>2, <2>3, <2>6, <2>8 DEF Rel
  <2> QED BY <1>3, <2>9 DEF x, y
<1>7. CASE r.type = "content.part"
  <2>1. x = c /\ y = d BY <1>3, <1>7 DEF restoreAgentRecord
  <2> QED BY <1>3, <2>1
<1>8. CASE r.type = "step.end" /\ r.arg \in Nat
  <2> DEFINE k == r.arg
  <2>1. x = stepEnd(c, k) /\ y = stepEnd(d, k) /\ k \in Nat
    BY <1>3, <1>8 DEF restoreAgentRecord
  <2> HIDE DEF x, y, h, g, p, e, k
  <2>2. /\ x.openSteps = c.openSteps \ {k} /\ x.pendingToolResultIds = p
        /\ p # <<>> => x.history = h /\ x.deferredMessages = e
        /\ p = <<>> => x.history = h \o e /\ x.deferredMessages = <<>>
    BY <2>1, EndFields DEF h, e, p
  <2>3. /\ y.openSteps = d.openSteps \ {k} /\ y.pendingToolResultIds = p
        /\ p # <<>> => y.history = g /\ y.deferredMessages = e
        /\ p = <<>> => y.history = g \o e /\ y.deferredMessages = <<>>
    BY <1>1, <2>1, EndFields DEF g
  <2>4. AllAlike(x.history, y.history) /\ x.deferredMessages = y.deferredMessages
    BY <1>1, <1>2, <1>4, <2>2, <2>3
  <2>5. Rel(x, y) BY <1>1, <2>2, <2>3, <2>4 DEF Rel, p, e
  <2> QED BY <1>3, <2>5 DEF x, y
<1>9. CASE r.type = "tool.call" /\ r.arg \in CallId
  <2>1. x = toolCall(c, r.arg) /\ y = toolCall(d, r.arg)
    BY <1>3, <1>9 DEF restoreAgentRecord
  <2>2. /\ x.history = WithCall(h, r.arg) /\ x.pendingToolResultIds = Append(p, r.arg)
        /\ x.openSteps = c.openSteps /\ x.deferredMessages = e
    BY <1>9, <2>1, CallFields
  <2>3. /\ y.history = WithCall(g, r.arg) /\ y.pendingToolResultIds = Append(p, r.arg)
        /\ y.openSteps = d.openSteps /\ y.deferredMessages = e
    BY <1>1, <1>9, <2>1, CallFields
  <2>4. AllAlike(WithCall(h, r.arg), WithCall(g, r.arg)) BY <1>1, <1>2, <1>9, AlikeCalls
  <2> HIDE DEF x, y
  <2>5. Rel(x, y) BY <1>1, <2>2, <2>3, <2>4 DEF Rel
  <2> QED BY <1>3, <2>5 DEF x, y
<1>10. CASE r.type = "tool.result" /\ r.arg \in CallId
  <2> DEFINE k == r.arg
             q == RemoveFirst(p, k)
             m == Message("tool", k)
             hm == Append(h, m)
             gm == Append(g, m)
  <2>1. x = toolResult(c, k) /\ y = toolResult(d, k) /\ k \in CallId
    BY <1>3, <1>10 DEF restoreAgentRecord
  <2> HIDE DEF x, y, h, g, p, e, k
  <2>2. /\ x.openSteps = c.openSteps
        /\ k \notin Range(p) => x = c
        /\ k \in Range(p) =>
             /\ x.pendingToolResultIds = q
             /\ q # <<>> => x.history = hm /\ x.deferredMessages = e
             /\ q = <<>> => x.history = hm \o e /\ x.deferredMessages = <<>>
    BY <2>1, ResultFields DEF h, p, e
  <2>3. /\ y.openSteps = d.openSteps
        /\ k \notin Range(p) => y = d
        /\ k \in Range(p) =>
             /\ y.pendingToolResultIds = q
             /\ q # <<>> => y.history = gm /\ y.deferredMessages = e
             /\ q = <<>> => y.history = gm \o e /\ y.deferredMessages = <<>>
    BY <1>1, <2>1, ResultFields DEF g
  <2>4. m \in Msg BY <2>1, ToolMessages
  <2> HIDE DEF q, m
  <2>5. hm \in Seq(Msg) /\ gm \in Seq(Msg) /\ AllAlike(hm, gm)
    BY <1>1, <1>2, <2>4, AlikeAppend
  <2> HIDE DEF hm, gm
  <2>6. AllAlike(hm \o e, gm \o e) BY <1>2, <2>5, AlikeSelf, AlikeBoth
  <2>7. CASE k \notin Range(p)
    <3>1. Rel(x, y) BY <2>2, <2>3, <2>7
    <3> QED BY <1>3, <3>1 DEF x, y
  <2>8. CASE k \in Range(p)
    <3>1. AllAlike(x.history, y.history) /\ x.deferredMessages = y.deferredMessages
      BY <2>2, <2>3, <2>5, <2>6, <2>8
    <3>2. Rel(x, y) BY <1>1, <2>2, <2>3, <2>8, <3>1 DEF Rel
    <3> QED BY <1>3, <3>2 DEF x, y
  <2> QED BY <2>7, <2>8
<1>11. CASE r.type = "undo"
  <2>1. x = undo(c) /\ y = undo(d) BY <1>3, <1>11 DEF restoreAgentRecord
  <2>2. h = <<>> <=> g = <<>>
    <3>1. Len(h) = Len(g) BY <1>1 DEF AllAlike
    <3> HIDE DEF h, g
    <3> QED BY <1>2, <3>1
  <2>3. CASE h = <<>>
    <3>1. x = c /\ y = d BY <2>1, <2>2, <2>3, UndoFields
    <3> QED BY <1>3, <3>1
  <2>4. CASE h # <<>>
    <3>1. /\ x.history = Undone(h) /\ x.openSteps = {} /\ x.pendingToolResultIds = <<>>
          /\ x.deferredMessages = <<>>
      BY <2>1, <2>4, UndoFields
    <3>2. /\ y.history = Undone(g) /\ y.openSteps = {} /\ y.pendingToolResultIds = <<>>
          /\ y.deferredMessages = <<>>
      BY <2>1, <2>2, <2>4, UndoFields
    <3>3. AllAlike(Undone(h), Undone(g))
      BY <1>1, <1>2, SparedAlike, SelectionAlike DEF Undone
    <3> HIDE DEF x, y
    <3>4. Rel(x, y) BY <3>1, <3>2, <3>3 DEF Rel
    <3> QED BY <1>3, <3>4 DEF x, y
  <2> QED BY <2>3, <2>4
<1>12. CASE r.type = "clear"
  <2>1. x = EmptyContext /\ y = EmptyContext BY <1>3, <1>12 DEF restoreAgentRecord
  <2>2. Rel(EmptyContext, EmptyContext) BY AlikeSelf DEF Rel
  <2> QED BY <1>3, <2>1, <2>2
<1>13. CASE r.type = "apply_compaction" /\ r.arg \in Nat \X Nat
  <2> DEFINE a == r.arg[1]
             n == r.arg[2]
             m == <<Message("summary", a)>>
             s == SubSeq(h, n + 1, Len(h))
             u == SubSeq(g, n + 1, Len(g))
             ms == m \o s
             mu == m \o u
  <2>1. a \in Nat /\ n \in Nat BY <1>13
  <2>2. x = applyCompaction(c, a, n) /\ y = applyCompaction(d, a, n)
    BY <1>3, <1>13 DEF restoreAgentRecord
  <2> HIDE DEF x, y, h, g, p, e, a, n
  <2>3. /\ x.openSteps = {} /\ x.pendingToolResultIds = p
        /\ p # <<>> => x.history = ms /\ x.deferredMessages = e
        /\ p = <<>> => x.history = ms \o e /\ x.deferredMessages = <<>>
    BY <2>1, <2>2, CompactionFields, ZenonT(40) DEF h, p, e
  <2>4. /\ y.openSteps = {} /\ y.pendingToolResultIds = p
        /\ p # <<>> => y.history = mu /\ y.deferredMessages = e
        /\ p = <<>> => y.history = mu \o e /\ y.deferredMessages = <<>>
    BY <1>1, <2>1, <2>2, CompactionFields, ZenonT(40) DEF g
  <2>5. m \in Seq(Msg)
    <3>1. Message("summary", a) \in Msg BY <2>1 DEF Message, Msg
    <3> QED BY <3>1
  <2>6. s \in Seq(Msg) /\ u \in Seq(Msg) BY <1>2, <2>1
  <2>7. AllAlike(s, u) BY <1>1, <1>2, <2>1, AlikeRest
  <2> HIDE DEF m, s, u
  <2>8. ms \in Seq(Msg) /\ mu \in Seq(Msg) /\ AllAlike(ms, mu)
    BY <2>5, <2>6, <2>7, AlikeSelf, AlikeBoth
  <2> HIDE DEF ms, mu
  <2>9. AllAlike(ms \o e, mu \o e) BY <1>2, <2>8, AlikeSelf, AlikeBoth
  <2>10. AllAlike(x.history, y.history) /\ x.deferredMessages = y.deferredMessages
    BY <2>3, <2>4, <2>8, <2>9
  <2>11. Rel(x, y) BY <2>3, <2>4, <2>10 DEF Rel
  <2> QED BY <1>3, <2>11 DEF x, y
<1>14. CASE r.type \in {"step.begin", "content.part", "step.end"} /\ r.arg \in Nat
  BY <1>6, <1>7, <1>8, <1>14
<1>15. CASE r.type \in {"tool.call", "tool.result"} /\ r.arg \in CallId
  BY <1>9, <1>10, <1>15
<1>16. CASE r.type \in {"undo", "clear"} BY <1>11, <1>12, <1>16
<1> QED BY RecordKinds, <1>5, <1>13, <1>14, <1>15, <1>16

(* Records that lead one conversation on, and raise nothing there, lead    *)
(* the replay on and can be replayed.                                      *)
LEMMA ReplayKeepsUp ==
  ASSUME NEW rs \in Seq(Records), NEW qs \in Seq(Records), NEW c \in Contexts, NEW d, NEW f,
         Rel(c, replay(rs)), CanReplay(rs), Leads(f, c, qs, d),
         \A i \in 1..Len(qs) : ~ throws(f[i - 1], qs[i])
  PROVE  Rel(d, replay(rs \o qs)) /\ CanReplay(rs \o qs)
<1> DEFINE b == Len(qs)
           a == Len(rs)
           G == [i \in 0..b |-> {x \in Contexts : Rel(f[i], x)}]
           g == Replay(rs \o qs)
<1>1. /\ f \in [0..b -> Contexts] /\ f[0] = c /\ f[b] = d
      /\ \A i \in 1..b : f[i] = restoreAgentRecord(f[i - 1], qs[i])
  BY DEF Leads
<1>2. /\ a \in Nat /\ b \in Nat /\ 0 \in 0..b /\ b \in 0..b
      /\ \A i \in 1..b : i \in 0..b /\ i - 1 \in 0..b /\ qs[i] \in Records
  OBVIOUS
<1>3. rs \o qs \in Seq(Records) /\ Len(rs \o qs) = a + b OBVIOUS
<1>4. (\A k \in 1..a : (rs \o qs)[k] = rs[k]) /\ \A i \in 1..b : (rs \o qs)[a + i] = qs[i]
  OBVIOUS
<1> HIDE DEF a, b, g
<1>5. replay(rs) \in Contexts BY ReplayTyped
<1>6. replay(rs) \in G[0] BY <1>1, <1>2, <1>5
<1>7. ASSUME NEW i \in 1..b, NEW x \in G[i - 1], x \in Contexts
      PROVE  restoreAgentRecord(x, qs[i]) \in G[i] /\ ~ throws(x, qs[i])
  <2>1. Rel(f[i - 1], x) /\ f[i - 1] \in Contexts /\ ~ throws(f[i - 1], qs[i])
    BY <1>1, <1>2, <1>7 DEF b
  <2>2. ~ throws(x, qs[i]) /\ Rel(restoreAgentRecord(f[i - 1], qs[i]), restoreAgentRecord(x, qs[i]))
    BY <1>2, <1>7, <2>1, RestoreRel
  <2>3. restoreAgentRecord(x, qs[i]) \in Contexts BY <1>2, <1>7, RestoreTyped
  <2> QED BY <1>1, <1>2, <2>2, <2>3
<1>8. \A i \in 0..b : \A x \in G[i] : Rel(f[i], x) OBVIOUS
<1> HIDE DEF G
<1>9. /\ \A k \in 0..a : g[k] = Replay(rs)[k]
      /\ \A i \in 0..b : g[a + i] \in G[i] /\ g[a + i] \in Contexts
  BY <1>6, <1>7, ReplayWithin DEF a, b, g
<1>10. Rel(d, g[a + b]) BY <1>1, <1>2, <1>8, <1>9
<1>11. ASSUME NEW k \in 1..(a + b) PROVE ~ throws(g[k - 1], (rs \o qs)[k])
  <2>1. CASE k \in 1..a
    <3>1. DOMAIN rs = 1..a /\ k - 1 \in 0..a BY <1>2, <2>1 DEF a
    <3>2. ~ throws(Replay(rs)[k - 1], rs[k]) BY <2>1, <3>1 DEF CanReplay
    <3> QED BY <1>4, <1>9, <2>1, <3>1, <3>2
  <2>2. CASE k \notin 1..a
    <3> DEFINE i == k - a
    <3>1. i \in 1..b /\ a + i = k /\ a + (i - 1) = k - 1 /\ i - 1 \in 0..b BY <1>2, <2>2
    <3> HIDE DEF i
    <3>2. g[a + (i - 1)] \in G[i - 1] /\ g[a + (i - 1)] \in Contexts BY <1>9, <3>1
    <3>3. ~ throws(g[a + (i - 1)], qs[i]) BY <1>7, <3>1, <3>2
    <3>4. (rs \o qs)[a + i] = qs[i] BY <1>4, <3>1
    <3> QED BY <3>1, <3>3, <3>4
  <2> QED BY <2>1, <2>2
<1>12. DOMAIN (rs \o qs) = 1..(a + b) BY <1>3
<1>13. CanReplay(rs \o qs) BY <1>11, <1>12 DEF CanReplay, g
<1>14. Rel(d, replay(rs \o qs)) BY <1>3, <1>10 DEF replay, g
<1> QED BY <1>13, <1>14

(* Undisturbed, the replay of the records follows the conversation and     *)
(* raises nothing.                                                         *)
ReplayInv == Undisturbed => Rel(context, replay(records)) /\ CanReplay(records)

LEMMA ReplayInit == Init => ReplayInv
<1> SUFFICES ASSUME Init PROVE ReplayInv OBVIOUS
<1>1. context = EmptyContext /\ records = <<>> BY DEF Init
<1>2. replay(<<>>) = EmptyContext BY NothingToReplay
<1>3. Rel(EmptyContext, EmptyContext) BY AlikeSelf DEF Rel
<1>4. CanReplay(<<>>)
  <2>1. DOMAIN <<>> = {} OBVIOUS
  <2> QED BY <2>1 DEF CanReplay
<1> QED BY <1>1, <1>2, <1>3, <1>4 DEF ReplayInv

LEMMA ReplayLogs ==
  ASSUME TypeInv, WorkInv, ReplayInv, Undisturbed, NEW qs, Logs(qs)
  PROVE  Rel(context', replay(records \o qs)) /\ CanReplay(records \o qs)
<1>1. /\ context \in Contexts /\ records \in Seq(Records) /\ qs \in Seq(Records)
      /\ Rel(context, replay(records)) /\ CanReplay(records) /\ OwnStep
  BY DEF TypeInv, ReplayInv, WorkInv, Logs
<1>2. PICK f : Leads(f, context, qs, context') BY DEF Logs, Follows
<1>3. f[0] = context BY <1>2 DEF Leads
<1>4. ASSUME NEW i \in 1..Len(qs), throws(f[i - 1], qs[i]) PROVE FALSE
  <2>1. qs[i].type \in {"content.part", "tool.call"} BY <1>4 DEF throws
  <2>2. Len(qs) = 1 /\ Warranted(qs[i]) BY <2>1 DEF Logs, Alone
  <2>3. f[i - 1] = context BY <1>3, <2>2
  <2>4. CASE qs[i].type = "content.part"
    <3>1. PICK t \in Turn : turn[t].pc = "stream" /\ qs[i].arg = turn[t].step
      BY <2>2, <2>4 DEF Warranted
    <3>2. qs[i].arg \in context.openSteps BY <1>1, <3>1 DEF OwnStep, InStep
    <3> QED BY <1>4, <2>3, <2>4, <3>2 DEF throws
  <2>5. CASE qs[i].type = "tool.call"
    <3>1. PICK t \in Turn : /\ turn[t].pc = "calls"
                            /\ qs[i].arg = <<turn[t].step, turn[t].recorded + 1>>
      BY <2>2, <2>5 DEF Warranted
    <3>2. StepOf(qs[i].arg) \in context.openSteps BY <1>1, <3>1 DEF OwnStep, InStep, StepOf
    <3> QED BY <1>4, <2>3, <2>5, <3>2 DEF throws
  <2> QED BY <2>1, <2>4, <2>5
<1> QED BY <1>1, <1>2, <1>4, ReplayKeepsUp

(* A compaction that fails cuts the text of a result that every request    *)
(* has, and nothing is pending or held back that it could drop.            *)
LEMMA ReplayPrunes ==
  ASSUME TypeInv, OrderInv, WorkInv, ReplayInv, Undisturbed, PruneStep
  PROVE  Rel(context', replay(records))
<1> DEFINE h == context.history
           d == replay(records)
           g == d.history
           x == context'
<1>1. context \in Contexts /\ records \in Seq(Records) /\ OneWorker /\ CompactionAlone
  BY DEF TypeInv, WorkInv
<1>2. Single /\ \A t \in running : turn[t].pc \in Waiting BY <1>1 DEF CompactionAlone, PruneStep
<1>3. context.pendingToolResultIds = <<>>
  <2>1. CASE running = {} BY <1>1, <1>2, <2>1 DEF OneWorker
  <2>2. CASE running # {}
    <3>1. PICK t \in running : TRUE BY <2>2
    <3>2. Fine(turn[t], context.pendingToolResultIds) BY <1>1, <1>2, <3>1 DEF OneWorker
    <3>3. turn[t].pc \notin Calling BY <1>2, <3>1 DEF Waiting, Calling
    <3> QED BY <3>2, <3>3 DEF Fine
  <2> QED BY <2>1, <2>2
<1>4. context.deferredMessages = <<>> BY <1>3 DEF OrderInv, Ordered, hasOpenToolExchange
<1>5. AllAlike(h, g) /\ d.pendingToolResultIds = <<>> /\ d.deferredMessages = <<>>
  BY <1>3, <1>4 DEF ReplayInv, Rel
<1>6. PICK i \in 1..Len(h) : h[i].role \in ToolRoles /\ x.history = [h EXCEPT ![i].role = "pruned"]
  BY <1>1, PruneFields DEF PruneStep
<1>7. /\ x.openSteps = {} /\ x.pendingToolResultIds = <<>> /\ x.deferredMessages = <<>>
      /\ x.history \in Seq(Msg)
  BY <1>1, PruneFields, ContextFields DEF PruneStep
<1>8. h \in Seq(Msg) BY <1>1, ContextFields
<1> DEFINE n == Len(h)
           k == x.history
<1> HIDE DEF h, d, g, x
<1>9. Len(k) = n /\ n \in Nat /\ Len(g) = n /\ \A j \in 1..n : j # i => k[j] = h[j]
  BY <1>5, <1>6, <1>8 DEF AllAlike
<1>10. \A j \in 1..n : Alike(h[j], g[j]) BY <1>5 DEF AllAlike
<1>11. Alike(k[i], g[i])
  <2>1. k[i] = [h[i] EXCEPT !.role = "pruned"] BY <1>6, <1>8
  <2>2. h[i] \in Msg /\ Alike(h[i], g[i]) BY <1>6, <1>8, <1>10
  <2>3. \A m \in Msg : LET z == [m EXCEPT !.role = "pruned"]
                       IN  z.role = "pruned" /\ z.id = m.id /\ z.calls = m.calls
    BY DEF Msg
  <2> HIDE DEF k
  <2>4. k[i].role = "pruned" /\ k[i].id = h[i].id /\ k[i].calls = h[i].calls
    BY <2>1, <2>2, <2>3
  <2> QED BY <1>6, <2>2, <2>4 DEF Alike, ToolRoles
<1> HIDE DEF k, n
<1>12. \A j \in 1..n : Alike(k[j], g[j]) BY <1>9, <1>10, <1>11
<1>13. AllAlike(k, g) BY <1>9, <1>12 DEF AllAlike
<1> QED BY <1>5, <1>7, <1>13 DEF Rel, k, g, d, x

(* A session resumed has closed what was open, and logged the results.     *)
LEMMA ReplayResumes ==
  ASSUME TypeInv, crash
  PROVE  Rel(context', replay(records')) /\ CanReplay(records')
<1>1. PICK n \in synced..Len(records) :
        LET found == SubSeq(records, 1, n)
            resumed == replay(found)
        IN  /\ found \in Seq(Records) /\ resumed \in Contexts /\ CanReplay(found)
            /\ context' = finishResume(resumed)
            /\ records' = found \o InterruptedResults(resumed)
  BY CrashShape
<1> DEFINE rs == SubSeq(records, 1, n)
           c == replay(rs)
           qs == InterruptedResults(c)
           d == closePendingToolResults(c)
           x == finishResume(c)
<1>2. /\ rs \in Seq(Records) /\ c \in Contexts /\ CanReplay(rs) /\ context' = x
      /\ records' = rs \o qs
  BY <1>1
<1>3. PICK f : Leads(f, c, qs, d) BY <1>2, CloseFollows DEF Follows
<1>4. qs \in Seq(Records) /\ \A i \in 1..Len(qs) : qs[i].type = "tool.result"
  <2>1. \A z : Record("tool.result", z).type = "tool.result" BY DEF Record
  <2> HIDE DEF c
  <2>2. qs \in Seq(Records) /\ Len(qs) = Len(c.pendingToolResultIds) BY <1>2, InterruptedTyped
  <2>3. \A i \in 1..Len(qs) : qs[i] = Record("tool.result", c.pendingToolResultIds[i])
    BY <1>2, <2>2, InterruptedTyped
  <2> QED BY <2>1, <2>2, <2>3
<1>5. x.openSteps = {} /\ x.pendingToolResultIds = d.pendingToolResultIds
      /\ x.history = d.history /\ x.deferredMessages = d.deferredMessages
  <2> HIDE DEF c
  <2> QED BY <1>2, FinishFields, ClosedFields
<1>6. Rel(c, replay(rs)) BY AlikeSelf DEF Rel
<1> HIDE DEF rs, c, qs, d, x
<1>7. \A i \in 1..Len(qs) : ~ throws(f[i - 1], qs[i]) BY <1>4 DEF throws
<1>8. Rel(d, replay(rs \o qs)) /\ CanReplay(rs \o qs) BY <1>2, <1>3, <1>4, <1>6, <1>7, ReplayKeepsUp
<1>9. Rel(x, replay(rs \o qs)) BY <1>5, <1>8 DEF Rel
<1> QED BY <1>2, <1>8, <1>9

LEMMA ReplayKept ==
  ASSUME TypeInv, OrderInv, WorkInv, ReplayInv, [Next]_vars
  PROVE  ReplayInv'
<1>1. Undisturbed' <=> Undisturbed BY ScenarioStays, StayUndisturbed
<1>2. SUFFICES ASSUME Undisturbed
               PROVE  Rel(context', replay(records')) /\ CanReplay(records')
  BY <1>1 DEF ReplayInv
<1>3. ASSUME NEW qs, Logs(qs) PROVE Rel(context', replay(records')) /\ CanReplay(records')
  <2>1. records' = records \o qs BY <1>3 DEF Logs
  <2>2. Rel(context', replay(records \o qs)) /\ CanReplay(records \o qs)
    BY <1>2, <1>3, ReplayLogs
  <2> QED BY <2>1, <2>2
<1>4. CASE PruneStep
  <2>1. records' = records /\ CanReplay(records) BY <1>2, <1>4 DEF PruneStep, ReplayInv
  <2>2. Rel(context', replay(records)) BY <1>2, <1>4, ReplayPrunes
  <2> QED BY <2>1, <2>2
<1>5. CASE crash BY <1>5, ReplayResumes
<1> QED BY <1>3, <1>4, <1>5, StepLogs DEF LogStep

LEMMA ReplayHolds == Spec => []ReplayInv
<1>1. TypeInv /\ OrderInv /\ WorkInv /\ ReplayInv /\ [Next]_vars => ReplayInv' BY ReplayKept
<1> QED BY <1>1, ReplayInit, ContextTypes, OrderHolds, WorkHolds, PTL DEF Spec

(* Histories alike are equal but for texts that were cut.                  *)
LEMMA UncutAlike ==
  ASSUME NEW h \in Seq(Msg), NEW g \in Seq(Msg), AllAlike(h, g)
  PROVE  Uncut(g) = Uncut(h)
<1> DEFINE n == Len(h)
           Whole(m) == IF m.role = "pruned" THEN [m EXCEPT !.role = "tool"] ELSE m
<1>1. n \in Nat /\ DOMAIN h = 1..n /\ DOMAIN g = 1..n BY DEF AllAlike
<1>2. \A i \in 1..n : h[i] \in Msg /\ g[i] \in Msg /\ Alike(h[i], g[i]) BY <1>1 DEF AllAlike
<1>3. ASSUME NEW m \in Msg, NEW k \in Msg, Alike(m, k) PROVE Whole(m) = Whole(k)
  <2>1. \A y \in Msg : \A z \in Msg :
           y.role = z.role /\ y.id = z.id /\ y.calls = z.calls => y = z
    BY DEF Msg
  <2>2. \A y \in Msg : LET z == [y EXCEPT !.role = "tool"]
                       IN  z \in Msg /\ z.role = "tool" /\ z.id = y.id /\ z.calls = y.calls
    BY DEF Msg, ToolRoles
  <2>3. Whole(m) \in Msg /\ Whole(m).id = m.id /\ Whole(m).calls = m.calls
        /\ Whole(m).role = IF m.role = "pruned" THEN "tool" ELSE m.role
    BY <2>2
  <2>4. Whole(k) \in Msg /\ Whole(k).id = k.id /\ Whole(k).calls = k.calls
        /\ Whole(k).role = IF k.role = "pruned" THEN "tool" ELSE k.role
    BY <2>2
  <2> HIDE DEF Whole
  <2>5. Whole(m).role = Whole(k).role BY <1>3, <2>3, <2>4 DEF Alike
  <2> QED BY <1>3, <2>1, <2>3, <2>4, <2>5 DEF Alike
<1>4. Uncut(h) = [i \in 1..n |-> Whole(h[i])] /\ Uncut(g) = [i \in 1..n |-> Whole(g[i])]
  BY <1>1 DEF Uncut
<1> HIDE DEF Whole, n
<1>5. \A i \in 1..n : Whole(h[i]) = Whole(g[i]) BY <1>2, <1>3
<1> QED BY <1>4, <1>5

(* As long as a running turn is left undisturbed, a session can be resumed *)
(* from all its records, as none of a step comes after the step was closed,*)
(* and has the conversation it would have had, but for tool results whose  *)
(* text was cut, which come back.                                          *)
THEOREM ResumesRestore == Spec => []ResumeRestores
<1>1. ASSUME TypeInv, ReplayInv PROVE ResumeRestores
  <2> DEFINE x == finishResume(context)
             y == finishResume(replay(records))
  <2>1. SUFFICES ASSUME Undisturbed PROVE Uncut(y.history) = Uncut(x.history)
    BY <1>1 DEF ResumeRestores, RecordsReplay, ReplayInv
  <2>2. context \in Contexts /\ replay(records) \in Contexts BY <1>1, ReplayTyped DEF TypeInv
  <2>3. AllAlike(x.history, y.history) BY <1>1, <2>1, <2>2, FinishRel DEF ReplayInv
  <2>4. x.history \in Seq(Msg) /\ y.history \in Seq(Msg) BY <2>2, FinishTyped, ContextFields
  <2> HIDE DEF x, y
  <2> QED BY <2>3, <2>4, UncutAlike
<1> QED BY <1>1, ContextTypes, ReplayHolds, PTL

-----------------------------------------------------------------------------
(* Tool exchanges.                                                         *)

IsTool(m) == m.role \in ToolRoles
IsStep(m) == m.role = "assistant"

(* Only results from behind i up to k.                                     *)
Results(h, i, k) == \A j \in (i + 1)..k : IsTool(h[j])

(* A result follows the step that made its call, with only results between *)
(* them; no call has two.                                                  *)
Owned(h) ==
  \A i \in 1..Len(h) : IsTool(h[i]) =>
    \E j \in 1..(i - 1) : IsStep(h[j]) /\ h[i].id \in h[j].calls /\ Results(h, j, i)

Once(h) ==
  \A i, j \in 1..Len(h) : IsTool(h[i]) /\ IsTool(h[j]) /\ h[i].id = h[j].id => i = j

(* A call has its result, or it is pending and nothing else came since.    *)
Settled(h, p) ==
  \A i \in 1..Len(h) : \A x \in h[i].calls :
    \/ \E k \in (i + 1)..Len(h) : Results(h, i, k) /\ h[k].id = x
    \/ x \in Range(p) /\ Results(h, i, Len(h))

(* What is pending was called and is pending once.                         *)
Missing(h, p) ==
  /\ \A x \in Range(p) : /\ \E i \in 1..Len(h) : x \in h[i].calls
                         /\ \A k \in 1..Len(h) : IsTool(h[k]) => h[k].id # x
  /\ \A i, j \in 1..Len(p) : p[i] = p[j] => i = j

(* Only steps make calls, which bear the number of the step.               *)
Named(h) ==
  \A i \in 1..Len(h) : \A x \in h[i].calls : IsStep(h[i]) /\ StepOf(x) = h[i].id

Stepwise(h, b) ==
  /\ \A i \in 1..Len(h) : IsStep(h[i]) => h[i].id \in 1..b
  /\ \A i, j \in 1..Len(h) : IsStep(h[i]) /\ IsStep(h[j]) /\ h[i].id = h[j].id => i = j

Closed(h, p, b) ==
  Owned(h) /\ Once(h) /\ Settled(h, p) /\ Missing(h, p) /\ Named(h) /\ Stepwise(h, b)

(* No result, no step and no call is in both.                              *)
Apart(h, g) ==
  \A i \in 1..Len(h), j \in 1..Len(g) :
    (IsTool(h[i]) /\ IsTool(g[j])) \/ (IsStep(h[i]) /\ IsStep(g[j])) => h[i].id # g[j].id

EndsWith(h, s) == h # <<>> /\ IsStep(h[Len(h)]) /\ h[Len(h)].id = s

(* Messages that have no part in an exchange.                              *)
Plain(m) == ~ IsTool(m) /\ ~ IsStep(m) /\ m.calls = {}

LEMMA NothingMissing ==
  \A h : /\ Missing(h, <<>>)
         /\ Settled(h, <<>>) <=>
              \A i \in 1..Len(h) : \A x \in h[i].calls :
                \E k \in (i + 1)..Len(h) : Results(h, i, k) /\ h[k].id = x
<1>1. Range(<<>>) = {} /\ 1..Len(<<>>) = {} BY DEF Range
<1> QED BY <1>1 DEF Missing, Settled

LEMMA PlainClosed ==
  ASSUME NEW u \in Seq(Msg), \A i \in 1..Len(u) : Plain(u[i]), NEW b
  PROVE  Closed(u, <<>>, b) /\ \A h : Apart(h, u) /\ Apart(u, h)
<1>1. \A i \in 1..Len(u) : ~ IsTool(u[i]) /\ ~ IsStep(u[i]) /\ u[i].calls = {} BY DEF Plain
<1>2. Owned(u) BY <1>1 DEF Owned
<1>3. Once(u) BY <1>1 DEF Once
<1>4. Settled(u, <<>>) /\ Missing(u, <<>>) BY <1>1, NothingMissing
<1>5. Named(u) BY <1>1 DEF Named
<1>6. Stepwise(u, b) BY <1>1 DEF Stepwise
<1>7. \A h : Apart(h, u) /\ Apart(u, h) BY <1>1 DEF Apart
<1> QED BY <1>2, <1>3, <1>4, <1>5, <1>6, <1>7 DEF Closed

LEMMA ClosedWidens ==
  ASSUME NEW h \in Seq(Msg), NEW p, NEW a \in Nat, NEW b \in Nat, a =< b, Closed(h, p, a)
  PROVE  Closed(h, p, b)
<1>1. \A x \in 1..a : x \in 1..b OBVIOUS
<1>2. Stepwise(h, b) BY <1>1 DEF Closed, Stepwise
<1> QED BY <1>2 DEF Closed

(* Two histories whose exchanges are complete, one after the other.        *)
LEMMA ClosedBoth ==
  ASSUME NEW h \in Seq(Msg), NEW g \in Seq(Msg), NEW b, Closed(h, <<>>, b), Closed(g, <<>>, b),
         Apart(h, g)
  PROVE  Closed(h \o g, <<>>, b)
<1> DEFINE v == h \o g
           n == Len(h)
           k == Len(g)
<1>1. n \in Nat /\ k \in Nat /\ Len(v) = n + k OBVIOUS
<1>2. (\A i \in 1..n : v[i] = h[i]) /\ \A i \in 1..k : v[n + i] = g[i] OBVIOUS
<1>3. /\ Owned(h) /\ Once(h) /\ Named(h) /\ Stepwise(h, b) /\ Settled(h, <<>>)
      /\ Owned(g) /\ Once(g) /\ Named(g) /\ Stepwise(g, b) /\ Settled(g, <<>>)
  BY DEF Closed
<1>4. \A i \in 1..n : \A x \in h[i].calls :
         \E l \in (i + 1)..n : Results(h, i, l) /\ h[l].id = x
  BY <1>3, NothingMissing DEF n
<1>5. \A i \in 1..k : \A x \in g[i].calls :
         \E l \in (i + 1)..k : Results(g, i, l) /\ g[l].id = x
  BY <1>3, NothingMissing DEF k
<1>6. (\A i \in 1..n : IsTool(h[i]) => \E j \in 1..(i - 1) :
           IsStep(h[j]) /\ h[i].id \in h[j].calls /\ Results(h, j, i))
      /\ \A i \in 1..k : IsTool(g[i]) => \E j \in 1..(i - 1) :
           IsStep(g[j]) /\ g[i].id \in g[j].calls /\ Results(g, j, i)
  BY <1>3 DEF Owned, n, k
<1>7. \A i \in 1..n, j \in 1..k :
         (IsTool(h[i]) /\ IsTool(g[j])) \/ (IsStep(h[i]) /\ IsStep(g[j])) => h[i].id # g[j].id
  BY DEF Apart, n, k
<1>8. /\ \A i, j \in 1..n : IsTool(h[i]) /\ IsTool(h[j]) /\ h[i].id = h[j].id => i = j
      /\ \A i, j \in 1..k : IsTool(g[i]) /\ IsTool(g[j]) /\ g[i].id = g[j].id => i = j
  BY <1>3 DEF Once, n, k
<1>9. /\ \A i, j \in 1..n : IsStep(h[i]) /\ IsStep(h[j]) /\ h[i].id = h[j].id => i = j
      /\ \A i, j \in 1..k : IsStep(g[i]) /\ IsStep(g[j]) /\ g[i].id = g[j].id => i = j
      /\ \A i \in 1..n : IsStep(h[i]) => h[i].id \in 1..b
      /\ \A i \in 1..k : IsStep(g[i]) => g[i].id \in 1..b
  BY <1>3 DEF Stepwise, n, k
<1>10. /\ \A i \in 1..n : \A x \in h[i].calls : IsStep(h[i]) /\ StepOf(x) = h[i].id
       /\ \A i \in 1..k : \A x \in g[i].calls : IsStep(g[i]) /\ StepOf(x) = g[i].id
  BY <1>3 DEF Named, n, k
<1> HIDE DEF v, n, k
<1>11. \A i \in 1..(n + k) : i \in 1..n \/ (i - n \in 1..k /\ n + (i - n) = i) BY <1>1
<1>12. \A i \in 0..n, j \in 0..n : Results(h, i, j) => Results(v, i, j)
  BY <1>1, <1>2 DEF Results
<1>13. ASSUME NEW i \in 0..k, NEW j \in 0..k, Results(g, i, j) PROVE Results(v, n + i, n + j)
  <2>1. ASSUME NEW l \in (n + i + 1)..(n + j) PROVE IsTool(v[l])
    <3>1. l - n \in (i + 1)..j /\ l - n \in 1..k /\ n + (l - n) = l BY <1>1
    <3>2. IsTool(g[l - n]) BY <1>13, <3>1 DEF Results
    <3> QED BY <1>2, <3>1, <3>2
  <2> QED BY <2>1 DEF Results
<1>14. Owned(v)
  <2>1. ASSUME NEW i \in 1..n, IsTool(v[i])
        PROVE  \E j \in 1..(i - 1) : IsStep(v[j]) /\ v[i].id \in v[j].calls /\ Results(v, j, i)
    <3>1. PICK j \in 1..(i - 1) : IsStep(h[j]) /\ h[i].id \in h[j].calls /\ Results(h, j, i)
      BY <1>2, <1>6, <2>1
    <3>2. j \in 1..n /\ j \in 0..n /\ i \in 0..n BY <1>1
    <3> QED BY <1>2, <1>12, <3>1, <3>2
  <2>2. ASSUME NEW i \in 1..k, IsTool(v[n + i])
        PROVE  \E j \in 1..(n + i - 1) :
                 IsStep(v[j]) /\ v[n + i].id \in v[j].calls /\ Results(v, j, n + i)
    <3>1. PICK j \in 1..(i - 1) : IsStep(g[j]) /\ g[i].id \in g[j].calls /\ Results(g, j, i)
      BY <1>2, <1>6, <2>2
    <3>2. j \in 1..k /\ j \in 0..k /\ i \in 0..k /\ n + j \in 1..(n + i - 1) BY <1>1
    <3>3. Results(v, n + j, n + i) BY <1>13, <3>1, <3>2
    <3> QED BY <1>2, <3>1, <3>2, <3>3
  <2>3. ASSUME NEW i \in 1..(n + k), IsTool(v[i])
        PROVE  \E j \in 1..(i - 1) : IsStep(v[j]) /\ v[i].id \in v[j].calls /\ Results(v, j, i)
    <3>1. CASE i \in 1..n BY <2>1, <2>3, <3>1
    <3>2. CASE i \notin 1..n
      <4> DEFINE l == i - n
      <4>1. l \in 1..k /\ n + l = i BY <1>11, <3>2
      <4> HIDE DEF l
      <4>2. PICK j \in 1..(n + l - 1) :
               IsStep(v[j]) /\ v[n + l].id \in v[j].calls /\ Results(v, j, n + l)
        BY <2>2, <2>3, <4>1
      <4>3. j \in 1..(i - 1) BY <1>1, <4>1, <4>2
      <4>4. IsStep(v[j]) /\ v[i].id \in v[j].calls /\ Results(v, j, i) BY <4>1, <4>2
      <4> QED BY <4>3, <4>4
    <3> QED BY <3>1, <3>2
  <2> QED BY <1>1, <2>3 DEF Owned
<1>15. Once(v)
  <2>1. SUFFICES ASSUME NEW i \in 1..(n + k), NEW j \in 1..(n + k), IsTool(v[i]), IsTool(v[j]),
                        v[i].id = v[j].id
                 PROVE  i = j
    BY <1>1 DEF Once
  <2>2. CASE i \in 1..n /\ j \in 1..n BY <1>2, <1>8, <2>1, <2>2
  <2>3. CASE i \in 1..n /\ j \notin 1..n
    <3>1. v[i] = h[i] /\ v[j] = g[j - n] /\ j - n \in 1..k BY <1>2, <1>11, <2>3
    <3> QED BY <1>7, <2>1, <2>3, <3>1
  <2>4. CASE i \notin 1..n /\ j \in 1..n
    <3>1. v[j] = h[j] /\ v[i] = g[i - n] /\ i - n \in 1..k BY <1>2, <1>11, <2>4
    <3> QED BY <1>7, <2>1, <2>4, <3>1
  <2>5. CASE i \notin 1..n /\ j \notin 1..n
    <3>1. v[i] = g[i - n] /\ v[j] = g[j - n] /\ i - n \in 1..k /\ j - n \in 1..k
      BY <1>2, <1>11, <2>5
    <3>2. i - n = j - n BY <1>8, <2>1, <3>1
    <3> QED BY <1>1, <3>2
  <2> QED BY <2>2, <2>3, <2>4, <2>5
<1>16. ASSUME NEW i \in 1..(n + k), NEW x \in v[i].calls
       PROVE  \E l \in (i + 1)..(n + k) : Results(v, i, l) /\ v[l].id = x
  <2>1. CASE i \in 1..n
    <3>1. PICK l \in (i + 1)..n : Results(h, i, l) /\ h[l].id = x BY <1>2, <1>4, <1>16, <2>1
    <3>2. l \in 1..n /\ l \in 0..n /\ i \in 0..n /\ l \in (i + 1)..(n + k) BY <1>1, <2>1
    <3> QED BY <1>2, <1>12, <3>1, <3>2
  <2>2. CASE i \notin 1..n
    <3>1. v[i] = g[i - n] /\ i - n \in 1..k /\ n + (i - n) = i BY <1>2, <1>11, <2>2
    <3>2. PICK l \in (i - n + 1)..k : Results(g, i - n, l) /\ g[l].id = x BY <1>5, <1>16, <3>1
    <3>3. l \in 1..k /\ l \in 0..k /\ i - n \in 0..k /\ n + l \in (i + 1)..(n + k)
      BY <1>1, <3>1, <3>2
    <3>4. Results(v, n + (i - n), n + l) BY <1>13, <3>2, <3>3
    <3> QED BY <1>2, <3>1, <3>2, <3>3, <3>4
  <2> QED BY <2>1, <2>2
<1>17. Settled(v, <<>>) /\ Missing(v, <<>>) BY <1>1, <1>16, NothingMissing
<1>18. Named(v)
  <2>1. ASSUME NEW i \in 1..(n + k), NEW x \in v[i].calls
        PROVE  IsStep(v[i]) /\ StepOf(x) = v[i].id
    <3>1. CASE i \in 1..n BY <1>2, <1>10, <2>1, <3>1
    <3>2. CASE i \notin 1..n
      <4>1. v[i] = g[i - n] /\ i - n \in 1..k BY <1>2, <1>11, <3>2
      <4> QED BY <1>10, <2>1, <4>1
    <3> QED BY <3>1, <3>2
  <2> QED BY <1>1, <2>1 DEF Named
<1>19. Stepwise(v, b)
  <2>1. ASSUME NEW i \in 1..(n + k), NEW j \in 1..(n + k), IsStep(v[i]), IsStep(v[j]),
               v[i].id = v[j].id
        PROVE  i = j
    <3>1. CASE i \in 1..n /\ j \in 1..n BY <1>2, <1>9, <2>1, <3>1
    <3>2. CASE i \in 1..n /\ j \notin 1..n
      <4>1. v[i] = h[i] /\ v[j] = g[j - n] /\ j - n \in 1..k BY <1>2, <1>11, <3>2
      <4> QED BY <1>7, <2>1, <3>2, <4>1
    <3>3. CASE i \notin 1..n /\ j \in 1..n
      <4>1. v[j] = h[j] /\ v[i] = g[i - n] /\ i - n \in 1..k BY <1>2, <1>11, <3>3
      <4> QED BY <1>7, <2>1, <3>3, <4>1
    <3>4. CASE i \notin 1..n /\ j \notin 1..n
      <4>1. v[i] = g[i - n] /\ v[j] = g[j - n] /\ i - n \in 1..k /\ j - n \in 1..k
        BY <1>2, <1>11, <3>4
      <4>2. i - n = j - n BY <1>9, <2>1, <4>1
      <4> QED BY <1>1, <4>2
    <3> QED BY <3>1, <3>2, <3>3, <3>4
  <2>2. ASSUME NEW i \in 1..(n + k), IsStep(v[i]) PROVE v[i].id \in 1..b
    <3>1. CASE i \in 1..n BY <1>2, <1>9, <2>2, <3>1
    <3>2. CASE i \notin 1..n
      <4>1. v[i] = g[i - n] /\ i - n \in 1..k BY <1>2, <1>11, <3>2
      <4> QED BY <1>9, <2>2, <4>1
    <3> QED BY <3>1, <3>2
  <2> QED BY <1>1, <2>1, <2>2 DEF Stepwise
<1>20. Closed(v, <<>>, b) BY <1>14, <1>15, <1>17, <1>18, <1>19 DEF Closed
<1> QED BY <1>20 DEF v

(* A history may be cut before a message that is no result, and after one  *)
(* that is no part of an exchange.                                         *)
CutBefore(h, a) == a < Len(h) => ~ IsTool(h[a + 1])

CutAfter(h, p, b) ==
  \/ b = 0
  \/ b = Len(h) /\ p = <<>>
  \/ b < Len(h) /\ ~ IsTool(h[b + 1])
  \/ Plain(h[b])

LEMMA ClosedCut ==
  ASSUME NEW h \in Seq(Msg), NEW p, NEW s, Closed(h, p, s),
         NEW b \in 0..Len(h), NEW a \in 0..b, CutBefore(h, a), CutAfter(h, p, b)
  PROVE  Closed(SubSeq(h, a + 1, b), <<>>, s)
<1> DEFINE g == SubSeq(h, a + 1, b)
           n == Len(h)
           k == b - a
<1>1. /\ n \in Nat /\ a \in 0..b /\ b \in 0..n /\ k \in Nat /\ a + k = b
      /\ Len(g) = k /\ \A i \in 1..k : g[i] = h[a + i]
  OBVIOUS
<1>2. Owned(h) /\ Once(h) /\ Settled(h, p) /\ Named(h) /\ Stepwise(h, s) BY DEF Closed
<1>4. \A x : x \notin Range(<<>>) BY DEF Range
<1>5. \A i \in 1..n : \A x \in h[i].calls :
          \/ \E l \in (i + 1)..n : Results(h, i, l) /\ h[l].id = x
          \/ x \in Range(p) /\ Results(h, i, n)
  BY <1>2 DEF Settled
<1>6. \A i \in 1..n : IsTool(h[i]) =>
         \E j \in 1..(i - 1) : IsStep(h[j]) /\ h[i].id \in h[j].calls /\ Results(h, j, i)
  BY <1>2 DEF Owned
<1>7. CutBefore(h, a) /\ (a < n => ~ IsTool(h[a + 1])) BY DEF CutBefore
<1>8. \/ b = 0
      \/ b = n /\ p = <<>>
      \/ b < n /\ ~ IsTool(h[b + 1])
      \/ ~ IsTool(h[b]) /\ h[b].calls = {}
  BY DEF CutAfter, Plain
<1> HIDE DEF g, n, k
<1>3. \A i \in 1..k : a + i \in 1..n /\ a + i \in (a + 1)..b
  <2>1. a \in Nat /\ b \in Nat /\ b =< n BY <1>1
  <2> QED BY <1>1, <2>1
<1>9. ASSUME NEW i \in (a + 1)..b, NEW x \in h[i].calls
      PROVE  \E l \in (i + 1)..b : Results(h, i, l) /\ h[l].id = x
  <2>1. i \in 1..n /\ b # 0 /\ b \in Nat /\ i =< b BY <1>1
  <2>2. ASSUME NEW l \in (i + 1)..n, l > b, Results(h, i, l) PROVE FALSE
    <3>1. \A j \in (i + 1)..l : IsTool(h[j]) BY <2>2 DEF Results
    <3>2. CASE ~ IsTool(h[b + 1])
      <4>1. b + 1 \in (i + 1)..l BY <2>1, <2>2
      <4> QED BY <3>1, <3>2, <4>1
    <3>3. CASE ~ IsTool(h[b]) /\ h[b].calls = {}
      <4>1. b \in (i + 1)..l BY <1>9, <2>1, <2>2, <3>3
      <4> QED BY <3>1, <3>3, <4>1
    <3> QED BY <1>1, <1>8, <2>1, <2>2, <3>2, <3>3
  <2>3. ASSUME x \in Range(p), Results(h, i, n) PROVE FALSE
    <3>1. \A j \in (i + 1)..n : IsTool(h[j]) BY <2>3 DEF Results
    <3>2. CASE b < n /\ ~ IsTool(h[b + 1])
      <4>1. b + 1 \in (i + 1)..n BY <1>1, <2>1, <3>2
      <4> QED BY <3>1, <3>2, <4>1
    <3>3. CASE ~ IsTool(h[b]) /\ h[b].calls = {}
      <4>1. b \in (i + 1)..n BY <1>1, <1>9, <2>1, <3>3
      <4> QED BY <3>1, <3>3, <4>1
    <3>4. p # <<>> BY <1>4, <2>3
    <3> QED BY <1>8, <2>1, <3>2, <3>3, <3>4
  <2>4. PICK l \in (i + 1)..n : Results(h, i, l) /\ h[l].id = x BY <1>5, <1>9, <2>1, <2>3
  <2>5. l \in (i + 1)..b BY <1>1, <2>1, <2>2, <2>4
  <2> QED BY <2>4, <2>5
<1>10. \A i \in 0..k, j \in 0..k : Results(h, a + i, a + j) => Results(g, i, j)
  <2>1. ASSUME NEW i \in 0..k, NEW j \in 0..k, Results(h, a + i, a + j), NEW l \in (i + 1)..j
        PROVE  IsTool(g[l])
    <3>1. l \in 1..k /\ a + l \in (a + i + 1)..(a + j) BY <1>1
    <3> QED BY <1>1, <2>1, <3>1 DEF Results
  <2> QED BY <2>1 DEF Results
<1>11. Owned(g)
  <2>1. ASSUME NEW i \in 1..k, IsTool(g[i])
        PROVE  \E j \in 1..(i - 1) : IsStep(g[j]) /\ g[i].id \in g[j].calls /\ Results(g, j, i)
    <3>1. g[i] = h[a + i] /\ a + i \in 1..n BY <1>1, <1>3
    <3>2. PICK m \in 1..(a + i - 1) :
             IsStep(h[m]) /\ h[a + i].id \in h[m].calls /\ Results(h, m, a + i)
      <4> DEFINE l == a + i
      <4>1. l \in 1..n /\ IsTool(h[l]) BY <2>1, <3>1
      <4> HIDE DEF l
      <4>2. \E m \in 1..(l - 1) : IsStep(h[m]) /\ h[l].id \in h[m].calls /\ Results(h, m, l)
        BY <1>6, <4>1
      <4> QED BY <4>2 DEF l
    <3>3. m > a
      <4>1. SUFFICES ASSUME m =< a PROVE FALSE BY <1>1, <3>2
      <4>2. a + 1 \in (m + 1)..(a + i) /\ a < n BY <1>1, <3>1, <3>2, <4>1
      <4> QED BY <1>7, <3>2, <4>2 DEF Results
    <3> DEFINE j == m - a
    <3>4. j \in 1..(i - 1) /\ j \in 1..k /\ j \in 0..k /\ i \in 0..k /\ a + j = m
      BY <1>1, <3>2, <3>3
    <3> HIDE DEF j
    <3>5. Results(g, j, i) BY <1>10, <3>2, <3>4
    <3> QED BY <1>1, <3>1, <3>2, <3>4, <3>5
  <2> QED BY <1>1, <2>1 DEF Owned
<1>12. Once(g)
  <2>1. ASSUME NEW i \in 1..k, NEW j \in 1..k, IsTool(g[i]), IsTool(g[j]), g[i].id = g[j].id
        PROVE  i = j
    <3>1. a + i = a + j BY <1>1, <1>2, <1>3, <2>1 DEF Once, n
    <3> QED BY <1>1, <3>1
  <2> QED BY <1>1, <2>1 DEF Once
<1>13. ASSUME NEW i \in 1..k, NEW x \in g[i].calls
       PROVE  \E l \in (i + 1)..k : Results(g, i, l) /\ g[l].id = x
  <2>1. g[i] = h[a + i] /\ a + i \in (a + 1)..b BY <1>1, <1>3
  <2>2. PICK m \in (a + i + 1)..b : Results(h, a + i, m) /\ h[m].id = x BY <1>9, <1>13, <2>1
  <2> DEFINE l == m - a
  <2>3. l \in (i + 1)..k /\ l \in 1..k /\ l \in 0..k /\ i \in 0..k /\ a + l = m BY <1>1, <2>2
  <2> HIDE DEF l
  <2>4. Results(g, i, l) BY <1>10, <2>2, <2>3
  <2> QED BY <1>1, <2>2, <2>3, <2>4
<1>14. Settled(g, <<>>) /\ Missing(g, <<>>) BY <1>1, <1>13, NothingMissing
<1>15. Named(g) BY <1>1, <1>2, <1>3 DEF Named, n
<1>16. Stepwise(g, s)
  <2>1. ASSUME NEW i \in 1..k, NEW j \in 1..k, IsStep(g[i]), IsStep(g[j]), g[i].id = g[j].id
        PROVE  i = j
    <3>1. a + i = a + j BY <1>1, <1>2, <1>3, <2>1 DEF Stepwise, n
    <3> QED BY <1>1, <3>1
  <2>2. \A i \in 1..k : IsStep(g[i]) => g[i].id \in 1..s BY <1>1, <1>2, <1>3 DEF Stepwise, n
  <2> QED BY <1>1, <2>1, <2>2 DEF Stepwise
<1>17. Closed(g, <<>>, s) BY <1>11, <1>12, <1>14, <1>15, <1>16 DEF Closed
<1> QED BY <1>17 DEF g

(* Cut texts have no part in this.                                         *)
LEMMA AlikeClosed ==
  ASSUME NEW h \in Seq(Msg), NEW g \in Seq(Msg), AllAlike(h, g) \/ AllAlike(g, h),
         NEW p, NEW b, Closed(h, p, b)
  PROVE  Closed(g, p, b)
<1> DEFINE n == Len(h)
<1>1. n \in Nat /\ Len(g) = n BY DEF AllAlike
<1>2. \A i \in 1..n : /\ IsTool(g[i]) <=> IsTool(h[i])
                      /\ IsStep(g[i]) <=> IsStep(h[i])
                      /\ g[i].id = h[i].id /\ g[i].calls = h[i].calls
  <2>1. \A i \in 1..n : Alike(h[i], g[i]) \/ Alike(g[i], h[i]) BY <1>1 DEF AllAlike
  <2>2. \A x, y : Alike(x, y) => /\ IsTool(x) <=> IsTool(y)
                                 /\ IsStep(x) <=> IsStep(y)
                                 /\ x.id = y.id /\ x.calls = y.calls
    BY DEF Alike, IsTool, IsStep, ToolRoles
  <2> QED BY <2>1, <2>2
<1>3. Owned(h) /\ Once(h) /\ Settled(h, p) /\ Missing(h, p) /\ Named(h) /\ Stepwise(h, b)
  BY DEF Closed
<1>4. \A i \in 1..n : IsTool(h[i]) =>
         \E j \in 1..(i - 1) : IsStep(h[j]) /\ h[i].id \in h[j].calls /\ Results(h, j, i)
  BY <1>3 DEF Owned
<1>5. \A i \in 1..n : \A x \in h[i].calls :
          \/ \E l \in (i + 1)..n : Results(h, i, l) /\ h[l].id = x
          \/ x \in Range(p) /\ Results(h, i, n)
  BY <1>3 DEF Settled
<1>6. \A i, j \in 1..n : IsTool(h[i]) /\ IsTool(h[j]) /\ h[i].id = h[j].id => i = j
  BY <1>3 DEF Once
<1>7. /\ \A x \in Range(p) : /\ \E i \in 1..n : x \in h[i].calls
                             /\ \A k \in 1..n : IsTool(h[k]) => h[k].id # x
      /\ \A i, j \in 1..Len(p) : p[i] = p[j] => i = j
  BY <1>3 DEF Missing
<1>8. \A i \in 1..n : \A x \in h[i].calls : IsStep(h[i]) /\ StepOf(x) = h[i].id
  BY <1>3 DEF Named
<1>9. /\ \A i \in 1..n : IsStep(h[i]) => h[i].id \in 1..b
      /\ \A i, j \in 1..n : IsStep(h[i]) /\ IsStep(h[j]) /\ h[i].id = h[j].id => i = j
  BY <1>3 DEF Stepwise
<1> HIDE DEF n
<1>10. \A i \in 1..n, k \in 0..n : Results(h, i, k) => Results(g, i, k)
  <2>1. ASSUME NEW i \in 1..n, NEW k \in 0..n, Results(h, i, k), NEW j \in (i + 1)..k
        PROVE  IsTool(g[j])
    <3>1. j \in 1..n BY <1>1
    <3> QED BY <1>2, <2>1, <3>1 DEF Results
  <2> QED BY <2>1 DEF Results
<1>11. Owned(g)
  <2>1. ASSUME NEW i \in 1..n, IsTool(g[i])
        PROVE  \E j \in 1..(i - 1) : IsStep(g[j]) /\ g[i].id \in g[j].calls /\ Results(g, j, i)
    <3>1. PICK j \in 1..(i - 1) : IsStep(h[j]) /\ h[i].id \in h[j].calls /\ Results(h, j, i)
      BY <1>2, <1>4, <2>1
    <3>2. j \in 1..n /\ i \in 0..n BY <1>1
    <3> QED BY <1>2, <1>10, <3>1, <3>2
  <2> QED BY <1>1, <2>1 DEF Owned
<1>12. Once(g) BY <1>1, <1>2, <1>6 DEF Once
<1>13. Settled(g, p)
  <2>1. ASSUME NEW i \in 1..n, NEW x \in g[i].calls
        PROVE  \/ \E l \in (i + 1)..n : Results(g, i, l) /\ g[l].id = x
               \/ x \in Range(p) /\ Results(g, i, n)
    <3>1. CASE x \in Range(p) /\ Results(h, i, n)
      <4>1. n \in 0..n BY <1>1
      <4> QED BY <1>10, <3>1, <4>1
    <3>2. CASE \E l \in (i + 1)..n : Results(h, i, l) /\ h[l].id = x
      <4>1. PICK l \in (i + 1)..n : Results(h, i, l) /\ h[l].id = x BY <3>2
      <4>2. l \in 1..n /\ l \in 0..n BY <1>1
      <4> QED BY <1>2, <1>10, <4>1, <4>2
    <3> QED BY <1>2, <1>5, <2>1, <3>1, <3>2
  <2> QED BY <1>1, <2>1 DEF Settled
<1>14. Missing(g, p) BY <1>1, <1>2, <1>7 DEF Missing
<1>15. Named(g) BY <1>1, <1>2, <1>8 DEF Named
<1>16. Stepwise(g, b) BY <1>1, <1>2, <1>9 DEF Stepwise
<1> QED BY <1>11, <1>12, <1>13, <1>14, <1>15, <1>16 DEF Closed

(* A step begins.                                                          *)
LEMMA BeginClosed ==
  ASSUME NEW h \in Seq(Msg), NEW b \in Nat, Closed(h, <<>>, b)
  PROVE  Closed(Append(h, Message("assistant", b + 1)), <<>>, b + 1)
<1> DEFINE s == b + 1
           m == Message("assistant", s)
           g == <<m>>
<1>1. m.role = "assistant" /\ m.id = s /\ m.calls = {} BY DEF Message
<1>2. m \in Msg BY DEF Message, Msg
<1> HIDE DEF m
<1>3. g \in Seq(Msg) /\ Len(g) = 1 /\ g[1] = m /\ 1..1 = {1} BY <1>2
<1>4. IsStep(m) /\ ~ IsTool(m) BY <1>1 DEF IsStep, IsTool, ToolRoles
<1>5. s \in Nat /\ s \in 1..s /\ b =< s OBVIOUS
<1>6. \A i \in 1..b : i # s OBVIOUS
<1> HIDE DEF g, s
<1>7. \A i \in 1..Len(g) : i = 1 /\ g[i] = m BY <1>3
<1>8. Owned(g) BY <1>4, <1>7 DEF Owned
<1>9. Once(g) BY <1>4, <1>7 DEF Once
<1>10. Settled(g, <<>>) /\ Missing(g, <<>>) BY <1>1, <1>7, NothingMissing
<1>11. Named(g) BY <1>1, <1>7 DEF Named
<1>12. Stepwise(g, s) BY <1>1, <1>5, <1>7 DEF Stepwise
<1>13. Closed(g, <<>>, s) BY <1>8, <1>9, <1>10, <1>11, <1>12 DEF Closed
<1>14. Closed(h, <<>>, s) BY <1>5, ClosedWidens
<1>15. Apart(h, g)
  <2>1. \A i \in 1..Len(h) : IsStep(h[i]) => h[i].id \in 1..b BY DEF Closed, Stepwise
  <2> QED BY <1>1, <1>4, <1>6, <1>7, <2>1 DEF Apart
<1>16. Append(h, m) = h \o g
  <2>1. \A x \in Seq(Msg) : \A y \in Msg : Append(x, y) = x \o <<y>> OBVIOUS
  <2> QED BY <1>2, <2>1 DEF g
<1>17. Closed(h \o g, <<>>, s) BY <1>3, <1>13, <1>14, <1>15, ClosedBoth
<1> QED BY <1>16, <1>17 DEF m, s

(* The last message makes another call.                                    *)
LEMMA AppendRange ==
  ASSUME NEW S, NEW p \in Seq(S), NEW x \in S
  PROVE  /\ Append(p, x) \in Seq(S) /\ Len(Append(p, x)) = Len(p) + 1
         /\ \A y : y \in Range(Append(p, x)) <=> y \in Range(p) \/ y = x
         /\ (x \notin Range(p) /\ \A i, j \in 1..Len(p) : p[i] = p[j] => i = j)
              => \A i, j \in 1..(Len(p) + 1) : Append(p, x)[i] = Append(p, x)[j] => i = j
<1> DEFINE q == Append(p, x)
           n == Len(p)
<1>1. n \in Nat /\ q \in Seq(S) /\ Len(q) = n + 1 /\ q[n + 1] = x /\ \A i \in 1..n : q[i] = p[i]
  OBVIOUS
<1>2. \A y : y \in Range(p) <=> \E i \in 1..n : y = p[i] BY DEF Range
<1>3. \A y : y \in Range(q) <=> \E i \in 1..(n + 1) : y = q[i] BY <1>1 DEF Range
<1> HIDE DEF q, n
<1>4. \A i \in 1..(n + 1) : i \in 1..n \/ i = n + 1 BY <1>1
<1>5. \A i \in 1..n : i \in 1..(n + 1) BY <1>1
<1>6. n + 1 \in 1..(n + 1) BY <1>1
<1>7. ASSUME NEW y PROVE y \in Range(q) <=> y \in Range(p) \/ y = x
  BY <1>1, <1>2, <1>3, <1>4, <1>5, <1>6
<1>8. ASSUME x \notin Range(p), \A i, j \in 1..n : p[i] = p[j] => i = j,
             NEW i \in 1..(n + 1), NEW j \in 1..(n + 1), q[i] = q[j]
      PROVE  i = j
  BY <1>1, <1>2, <1>4, <1>8
<1> QED BY <1>1, <1>7, <1>8 DEF q, n

LEMMA CallClosed ==
  ASSUME NEW h \in Seq(Msg), NEW p \in Seq(CallId), NEW b, NEW x \in CallId,
         Closed(h, p, b), EndsWith(h, StepOf(x)), x \notin Range(p)
  PROVE  Closed(WithCall(h, x), Append(p, x), b)
<1> DEFINE g == WithCall(h, x)
           q == Append(p, x)
           n == Len(h)
<1>1. n \in Nat /\ n \in 1..n /\ IsStep(h[n]) /\ h[n].id = StepOf(x) /\ Len(g) = n
  <2>1. Len(g) = n BY WithCallKeeps
  <2> QED BY <2>1 DEF EndsWith
<1>2. \A i \in 1..n : g[i].role = h[i].role /\ g[i].id = h[i].id BY WithCallKeeps
<1>3. \A i \in 1..n : (IsTool(g[i]) <=> IsTool(h[i])) /\ (IsStep(g[i]) <=> IsStep(h[i]))
  BY <1>2 DEF IsTool, IsStep
<1>4. \A i \in 1..n : g[i].calls = IF IsStep(h[i]) /\ h[i].id = StepOf(x)
                                     THEN h[i].calls \cup {x} ELSE h[i].calls
  <2>1. \A i \in 1..n : h[i] \in Msg OBVIOUS
  <2>2. \A m \in Msg : [m EXCEPT !.calls = @ \cup {x}].calls = m.calls \cup {x} BY DEF Msg
  <2>3. DOMAIN h = 1..n OBVIOUS
  <2> QED BY <2>1, <2>2, <2>3 DEF WithCall, IsStep
<1>5. \A i \in 1..n : ~ (IsStep(h[i]) /\ IsTool(h[i])) BY DEF IsStep, IsTool, ToolRoles
<1>6. Owned(h) /\ Once(h) /\ Settled(h, p) /\ Missing(h, p) /\ Named(h) /\ Stepwise(h, b)
  BY DEF Closed
<1>7. \A i \in 1..n : IsTool(h[i]) =>
         \E j \in 1..(i - 1) : IsStep(h[j]) /\ h[i].id \in h[j].calls /\ Results(h, j, i)
  BY <1>6 DEF Owned
<1>8. \A i \in 1..n : \A y \in h[i].calls :
          \/ \E k \in (i + 1)..n : Results(h, i, k) /\ h[k].id = y
          \/ y \in Range(p) /\ Results(h, i, n)
  BY <1>6 DEF Settled
<1>9. \A i, j \in 1..n : IsTool(h[i]) /\ IsTool(h[j]) /\ h[i].id = h[j].id => i = j
  BY <1>6 DEF Once
<1>10. /\ \A y \in Range(p) : /\ \E i \in 1..n : y \in h[i].calls
                              /\ \A k \in 1..n : IsTool(h[k]) => h[k].id # y
       /\ \A i, j \in 1..Len(p) : p[i] = p[j] => i = j
  BY <1>6 DEF Missing
<1>11. \A i \in 1..n : \A y \in h[i].calls : IsStep(h[i]) /\ StepOf(y) = h[i].id
  BY <1>6 DEF Named
<1>12. /\ \A i \in 1..n : IsStep(h[i]) => h[i].id \in 1..b
       /\ \A i, j \in 1..n : IsStep(h[i]) /\ IsStep(h[j]) /\ h[i].id = h[j].id => i = j
  BY <1>6 DEF Stepwise
<1>13. /\ Len(q) = Len(p) + 1
       /\ \A y : y \in Range(q) <=> y \in Range(p) \/ y = x
       /\ \A i, j \in 1..Len(q) : q[i] = q[j] => i = j
  <2>1. /\ Len(q) = Len(p) + 1
        /\ \A y : y \in Range(q) <=> y \in Range(p) \/ y = x
        /\ \A i, j \in 1..(Len(p) + 1) : q[i] = q[j] => i = j
    BY <1>10, AppendRange
  <2> QED BY <2>1
<1> HIDE DEF g, q, n
<1>14. \A i \in 1..n : i # n => g[i].calls = h[i].calls BY <1>1, <1>4, <1>12
<1>15. g[n].calls = h[n].calls \cup {x} BY <1>1, <1>4
<1>16. \A i, j \in 1..n : Results(h, i, j) <=> Results(g, i, j)
  <2>1. \A i, j \in 1..n : \A k \in (i + 1)..j : k \in 1..n BY <1>1
  <2> QED BY <1>3, <2>1 DEF Results
<1>17. \A i \in 1..n : x \notin h[i].calls
  <2>1. SUFFICES ASSUME NEW i \in 1..n, x \in h[i].calls PROVE FALSE OBVIOUS
  <2>2. i = n BY <1>1, <1>11, <1>12, <2>1
  <2>3. (n + 1)..n = {} BY <1>1
  <2> QED BY <1>1, <1>8, <2>1, <2>2, <2>3
<1>18. \A i \in 1..n : IsTool(h[i]) => h[i].id # x
  <2>1. SUFFICES ASSUME NEW i \in 1..n, IsTool(h[i]), h[i].id = x PROVE FALSE OBVIOUS
  <2>2. PICK j \in 1..(i - 1) : x \in h[j].calls BY <1>7, <2>1
  <2>3. j \in 1..n BY <1>1
  <2> QED BY <1>17, <2>2, <2>3
<1>19. \A i \in 1..n : h[i].calls \subseteq g[i].calls BY <1>14, <1>15
<1>20. Owned(g)
  <2>1. ASSUME NEW i \in 1..n, IsTool(g[i])
        PROVE  \E j \in 1..(i - 1) : IsStep(g[j]) /\ g[i].id \in g[j].calls /\ Results(g, j, i)
    <3>1. PICK j \in 1..(i - 1) : IsStep(h[j]) /\ h[i].id \in h[j].calls /\ Results(h, j, i)
      BY <1>3, <1>7, <2>1
    <3>2. j \in 1..n BY <1>1
    <3> QED BY <1>2, <1>3, <1>16, <1>19, <3>1, <3>2
  <2> QED BY <1>1, <2>1 DEF Owned
<1>21. Once(g) BY <1>1, <1>2, <1>3, <1>9 DEF Once
<1>22. Settled(g, q)
  <2>1. ASSUME NEW i \in 1..n, NEW y \in g[i].calls
        PROVE  \/ \E l \in (i + 1)..n : Results(g, i, l) /\ g[l].id = y
               \/ y \in Range(q) /\ Results(g, i, n)
    <3>1. CASE y \in h[i].calls
      <4>1. CASE y \in Range(p) /\ Results(h, i, n) BY <1>1, <1>13, <1>16, <4>1
      <4>2. CASE \E l \in (i + 1)..n : Results(h, i, l) /\ h[l].id = y
        <5>1. PICK l \in (i + 1)..n : Results(h, i, l) /\ h[l].id = y BY <4>2
        <5>2. l \in 1..n BY <1>1
        <5> QED BY <1>2, <1>16, <5>1, <5>2
      <4> QED BY <1>8, <3>1, <4>1, <4>2
    <3>2. CASE y \notin h[i].calls
      <4>1. i = n /\ y = x BY <1>14, <1>15, <2>1, <3>2
      <4>2. (n + 1)..n = {} BY <1>1
      <4> QED BY <1>13, <4>1, <4>2 DEF Results
    <3> QED BY <3>1, <3>2
  <2> QED BY <1>1, <2>1 DEF Settled
<1>23. Missing(g, q)
  <2>1. ASSUME NEW y \in Range(q)
        PROVE  /\ \E i \in 1..n : y \in g[i].calls
               /\ \A k \in 1..n : IsTool(g[k]) => g[k].id # y
    <3>1. CASE y = x BY <1>1, <1>2, <1>3, <1>15, <1>18, <3>1
    <3>2. CASE y # x
      <4>1. y \in Range(p) BY <1>13, <3>2
      <4> QED BY <1>2, <1>3, <1>10, <1>19, <4>1
    <3> QED BY <3>1, <3>2
  <2> QED BY <1>1, <1>13, <2>1 DEF Missing
<1>24. Named(g)
  <2>1. ASSUME NEW i \in 1..n, NEW y \in g[i].calls PROVE IsStep(g[i]) /\ StepOf(y) = g[i].id
    <3>1. CASE y \in h[i].calls BY <1>2, <1>3, <1>11, <3>1
    <3>2. CASE y \notin h[i].calls
      <4>1. i = n /\ y = x BY <1>14, <1>15, <2>1, <3>2
      <4> QED BY <1>1, <1>2, <1>3, <4>1
    <3> QED BY <3>1, <3>2
  <2> QED BY <1>1, <2>1 DEF Named
<1>25. Stepwise(g, b) BY <1>1, <1>2, <1>3, <1>12 DEF Stepwise
<1>26. Closed(g, q, b) BY <1>20, <1>21, <1>22, <1>23, <1>24, <1>25 DEF Closed
<1> QED BY <1>26 DEF g, q

(* A result comes in.                                                      *)
LEMMA RemoveRange ==
  ASSUME NEW S, NEW p \in Seq(S), NEW x \in Range(p),
         \A i, j \in 1..Len(p) : p[i] = p[j] => i = j
  PROVE  LET q == RemoveFirst(p, x)
         IN  /\ q \in Seq(S)
             /\ \A y : y \in Range(q) <=> y \in Range(p) /\ y # x
             /\ \A i, j \in 1..Len(q) : q[i] = q[j] => i = j
<1> DEFINE q == RemoveFirst(p, x)
           n == Len(p)
<1>1. PICK m \in 1..n : p[m] = x /\ q = SubSeq(p, 1, m - 1) \o SubSeq(p, m + 1, n)
  BY RemoveTyped
<1>2. q \in Seq(S) BY RemoveTyped
<1> DEFINE s == SubSeq(p, 1, m - 1)
           u == SubSeq(p, m + 1, n)
<1>3. n \in Nat /\ m \in Nat /\ m =< n /\ 1 =< m OBVIOUS
<1>4. s \in Seq(S) /\ Len(s) = m - 1 /\ \A i \in 1..(m - 1) : s[i] = p[i] BY <1>3
<1>5. u \in Seq(S) /\ Len(u) = n - m /\ \A i \in 1..(n - m) : u[i] = p[i + m] BY <1>3
<1>6. \A i \in Range(p) : \E k \in 1..n : p[k] = i BY DEF Range
<1>7. \A k \in 1..n : p[k] \in Range(p) BY DEF Range
<1> HIDE DEF s, u, n
<1>8. Len(q) = n - 1 /\ (\A i \in 1..(m - 1) : q[i] = p[i]) /\ \A i \in m..(n - 1) : q[i] = p[i + 1]
  <2>1. q = s \o u BY <1>1 DEF s, u
  <2>2. Len(s \o u) = n - 1
    <3>1. Len(s \o u) = Len(s) + Len(u) BY <1>4, <1>5
    <3> QED BY <1>3, <1>4, <1>5, <3>1
  <2>3. \A i \in 1..(m - 1) : (s \o u)[i] = s[i] BY <1>3, <1>4, <1>5
  <2>4. \A i \in m..(n - 1) : (s \o u)[i] = u[i - (m - 1)] BY <1>3, <1>4, <1>5
  <2>5. \A i \in m..(n - 1) : i - (m - 1) \in 1..(n - m) /\ (i - (m - 1)) + m = i + 1 BY <1>3
  <2>6. \A i \in m..(n - 1) : u[i - (m - 1)] = p[i + 1] BY <1>5, <2>5
  <2> QED BY <1>4, <2>1, <2>2, <2>3, <2>4, <2>6
<1> DEFINE At(i) == IF i < m THEN i ELSE i + 1
<1>9. \A i \in 1..(n - 1) : At(i) \in 1..n /\ At(i) # m /\ q[i] = p[At(i)]
  <2>1. ASSUME NEW i \in 1..(n - 1)
        PROVE  (i \in 1..(m - 1) /\ i < m) \/ (i \in m..(n - 1) /\ ~ (i < m))
    <3>1. CASE i < m BY <1>3, <3>1
    <3>2. CASE ~ (i < m) BY <1>3, <3>2
    <3> QED BY <3>1, <3>2
  <2>2. \A i \in 1..(m - 1) : i \in 1..n /\ i # m BY <1>3
  <2>3. \A i \in m..(n - 1) : i + 1 \in 1..n /\ i + 1 # m BY <1>3
  <2> QED BY <1>8, <2>1, <2>2, <2>3
<1>10. \A i, j \in 1..(n - 1) : At(i) = At(j) => i = j BY <1>3
<1>11. \A k \in 1..n : k # m => \E i \in 1..(n - 1) : At(i) = k
  <2>1. SUFFICES ASSUME NEW k \in 1..n, k # m PROVE \E i \in 1..(n - 1) : At(i) = k OBVIOUS
  <2>2. CASE k < m
    <3>1. k \in 1..(n - 1) /\ At(k) = k BY <1>3, <2>2
    <3> QED BY <3>1
  <2>3. CASE ~ (k < m)
    <3>1. k - 1 \in 1..(n - 1) /\ At(k - 1) = k BY <1>3, <2>1, <2>3
    <3> QED BY <3>1
  <2> QED BY <2>2, <2>3
<1> HIDE DEF q, At
<1>12. \A y : y \in Range(q) <=> \E i \in 1..(n - 1) : y = q[i]
  <2>1. DOMAIN q = 1..(n - 1) BY <1>2, <1>8
  <2> QED BY <2>1 DEF Range
<1>13. \A i, j \in 1..n : p[i] = p[j] => i = j BY DEF n
<1>14. ASSUME NEW y PROVE y \in Range(q) <=> y \in Range(p) /\ y # x
  <2>1. ASSUME y \in Range(q) PROVE y \in Range(p) /\ y # x
    <3>1. PICK i \in 1..(n - 1) : y = q[i] BY <1>12, <2>1
    <3>2. y = p[At(i)] /\ At(i) \in 1..n /\ At(i) # m BY <1>9, <3>1
    <3> QED BY <1>1, <1>7, <1>13, <3>2
  <2>2. ASSUME y \in Range(p), y # x PROVE y \in Range(q)
    <3>1. PICK k \in 1..n : p[k] = y BY <1>6, <2>2
    <3>2. k # m BY <1>1, <2>2, <3>1
    <3>3. PICK i \in 1..(n - 1) : At(i) = k BY <1>11, <3>2
    <3>4. q[i] = y BY <1>9, <3>1, <3>3
    <3> QED BY <1>12, <3>4
  <2> QED BY <2>1, <2>2
<1>15. ASSUME NEW i \in 1..(n - 1), NEW j \in 1..(n - 1), q[i] = q[j] PROVE i = j
  BY <1>9, <1>10, <1>13, <1>15
<1> QED BY <1>2, <1>8, <1>14, <1>15 DEF q

LEMMA ResultClosed ==
  ASSUME NEW h \in Seq(Msg), NEW p \in Seq(CallId), NEW b, NEW x \in CallId,
         Closed(h, p, b), x \in Range(p)
  PROVE  Closed(Append(h, Message("tool", x)), RemoveFirst(p, x), b)
<1> DEFINE m == Message("tool", x)
           g == Append(h, m)
           q == RemoveFirst(p, x)
           n == Len(h)
<1>1. m.role = "tool" /\ m.id = x /\ m.calls = {} BY DEF Message
<1>2. m \in Msg BY ToolMessages
<1> HIDE DEF m
<1>3. n \in Nat /\ Len(g) = n + 1 /\ g[n + 1] = m /\ \A i \in 1..n : g[i] = h[i] BY <1>2
<1>4. IsTool(m) /\ ~ IsStep(m) BY <1>1 DEF IsStep, IsTool, ToolRoles
<1>6. Owned(h) /\ Once(h) /\ Settled(h, p) /\ Missing(h, p) /\ Named(h) /\ Stepwise(h, b)
  BY DEF Closed
<1>7. \A i \in 1..n : IsTool(h[i]) =>
         \E j \in 1..(i - 1) : IsStep(h[j]) /\ h[i].id \in h[j].calls /\ Results(h, j, i)
  BY <1>6 DEF Owned
<1>8. \A i \in 1..n : \A y \in h[i].calls :
          \/ \E k \in (i + 1)..n : Results(h, i, k) /\ h[k].id = y
          \/ y \in Range(p) /\ Results(h, i, n)
  BY <1>6 DEF Settled
<1>9. \A i, j \in 1..n : IsTool(h[i]) /\ IsTool(h[j]) /\ h[i].id = h[j].id => i = j
  BY <1>6 DEF Once
<1>10. /\ \A y \in Range(p) : /\ \E i \in 1..n : y \in h[i].calls
                              /\ \A k \in 1..n : IsTool(h[k]) => h[k].id # y
       /\ \A i, j \in 1..Len(p) : p[i] = p[j] => i = j
  BY <1>6 DEF Missing
<1>11. \A i \in 1..n : \A y \in h[i].calls : IsStep(h[i]) /\ StepOf(y) = h[i].id
  BY <1>6 DEF Named
<1>12. /\ \A i \in 1..n : IsStep(h[i]) => h[i].id \in 1..b
       /\ \A i, j \in 1..n : IsStep(h[i]) /\ IsStep(h[j]) /\ h[i].id = h[j].id => i = j
  BY <1>6 DEF Stepwise
<1>13. /\ \A y : y \in Range(q) <=> y \in Range(p) /\ y # x
       /\ \A i, j \in 1..Len(q) : q[i] = q[j] => i = j
  BY <1>10, RemoveRange
<1> HIDE DEF g, q, n
<1>14. \A i \in 1..(n + 1) : i \in 1..n \/ i = n + 1 BY <1>3
<1>15. \A i, j \in 0..n : Results(h, i, j) => Results(g, i, j)
  <2>1. \A i, j \in 0..n : \A k \in (i + 1)..j : k \in 1..n BY <1>3
  <2> QED BY <1>3, <2>1 DEF Results
<1>16. ASSUME NEW i \in 1..n, Results(h, i, n) PROVE Results(g, i, n + 1)
  <2>1. ASSUME NEW k \in (i + 1)..(n + 1) PROVE IsTool(g[k])
    <3>1. CASE k = n + 1 BY <1>3, <1>4, <3>1
    <3>2. CASE k # n + 1
      <4>1. k \in 1..n /\ k \in (i + 1)..n BY <1>3, <3>2
      <4> QED BY <1>3, <1>16, <4>1 DEF Results
    <3> QED BY <3>1, <3>2
  <2> QED BY <2>1 DEF Results
<1>17. Owned(g)
  <2>1. ASSUME NEW i \in 1..n, IsTool(g[i])
        PROVE  \E j \in 1..(i - 1) : IsStep(g[j]) /\ g[i].id \in g[j].calls /\ Results(g, j, i)
    <3>1. PICK j \in 1..(i - 1) : IsStep(h[j]) /\ h[i].id \in h[j].calls /\ Results(h, j, i)
      BY <1>3, <1>7, <2>1
    <3>2. j \in 1..n /\ j \in 0..n /\ i \in 0..n BY <1>3
    <3> QED BY <1>3, <1>15, <3>1, <3>2
  <2>2. \E j \in 1..n : IsStep(g[j]) /\ x \in g[j].calls /\ Results(g, j, n + 1)
    <3>1. PICK j \in 1..n : x \in h[j].calls BY <1>10
    <3>2. ASSUME NEW k \in (j + 1)..n, Results(h, j, k), h[k].id = x PROVE FALSE
      <4>1. k \in 1..n /\ k \in (j + 1)..k BY <1>3
      <4> QED BY <1>10, <3>2, <4>1 DEF Results
    <3>3. Results(h, j, n) BY <1>8, <3>1, <3>2
    <3> QED BY <1>3, <1>11, <1>16, <3>1, <3>3
  <2>3. (n + 1) - 1 = n BY <1>3
  <2> QED BY <1>1, <1>3, <1>14, <2>1, <2>2, <2>3 DEF Owned
<1>18. Once(g)
  <2>1. ASSUME NEW i \in 1..(n + 1), NEW j \in 1..(n + 1), IsTool(g[i]), IsTool(g[j]),
               g[i].id = g[j].id
        PROVE  i = j
    BY <1>1, <1>3, <1>9, <1>10, <1>14, <2>1
  <2> QED BY <1>3, <2>1 DEF Once
<1>19. Settled(g, q)
  <2>1. ASSUME NEW i \in 1..n, NEW y \in h[i].calls
        PROVE  \/ \E l \in (i + 1)..(n + 1) : Results(g, i, l) /\ g[l].id = y
               \/ y \in Range(q) /\ Results(g, i, n + 1)
    <3>1. CASE \E l \in (i + 1)..n : Results(h, i, l) /\ h[l].id = y
      <4>1. PICK l \in (i + 1)..n : Results(h, i, l) /\ h[l].id = y BY <3>1
      <4>2. l \in 1..n /\ l \in 0..n /\ i \in 0..n /\ l \in (i + 1)..(n + 1) BY <1>3
      <4> QED BY <1>3, <1>15, <4>1, <4>2
    <3>2. CASE y \in Range(p) /\ Results(h, i, n)
      <4>1. n + 1 \in (i + 1)..(n + 1) BY <1>3
      <4> QED BY <1>1, <1>3, <1>13, <1>16, <3>2, <4>1
    <3> QED BY <1>8, <3>1, <3>2
  <2>2. ASSUME NEW i \in 1..(n + 1), NEW y \in g[i].calls
        PROVE  \/ \E l \in (i + 1)..(n + 1) : Results(g, i, l) /\ g[l].id = y
               \/ y \in Range(q) /\ Results(g, i, n + 1)
    <3>1. i \in 1..n /\ y \in h[i].calls BY <1>1, <1>3, <1>14, <2>2
    <3> QED BY <2>1, <3>1
  <2> QED BY <1>3, <2>2 DEF Settled
<1>20. Missing(g, q)
  <2>1. ASSUME NEW y \in Range(q)
        PROVE  /\ \E i \in 1..(n + 1) : y \in g[i].calls
               /\ \A k \in 1..(n + 1) : IsTool(g[k]) => g[k].id # y
    <3>1. y \in Range(p) /\ y # x BY <1>13
    <3>2. PICK i \in 1..n : y \in h[i].calls BY <1>10, <3>1
    <3>3. i \in 1..(n + 1) BY <1>3
    <3> QED BY <1>1, <1>3, <1>10, <1>14, <3>1, <3>2, <3>3
  <2> QED BY <1>3, <1>13, <2>1 DEF Missing
<1>21. Named(g) BY <1>1, <1>3, <1>11, <1>14 DEF Named
<1>22. Stepwise(g, b)
  <2>1. \A i \in 1..(n + 1) : IsStep(g[i]) => i \in 1..n /\ IsStep(h[i]) /\ g[i].id = h[i].id
    BY <1>3, <1>4, <1>14
  <2> QED BY <1>3, <1>12, <2>1 DEF Stepwise
<1>23. Closed(g, q, b) BY <1>17, <1>18, <1>19, <1>20, <1>21, <1>22 DEF Closed
<1> QED BY <1>23 DEF g, q, m

-----------------------------------------------------------------------------
(* The exchanges of a conversation are closed but for the pending calls of *)
(* the last.                                                               *)
Sound(c, b) == Closed(c.history, c.pendingToolResultIds, b)

LEMMA UserPlain ==
  ASSUME NEW u \in Seq(UserMsg)
  PROVE  u \in Seq(Msg) /\ \A i \in 1..Len(u) : Plain(u[i])
<1>1. u \in Seq(Msg) BY UserSequences
<1>2. \A i \in 1..Len(u) : u[i] \in UserMsg OBVIOUS
<1>3. \A m \in UserMsg : Plain(m) BY DEF UserMsg, Plain, IsTool, IsStep, UserRoles, ToolRoles
<1> QED BY <1>1, <1>2, <1>3

LEMMA MessagesClosed ==
  ASSUME NEW h \in Seq(Msg), NEW b, Closed(h, <<>>, b), NEW u \in Seq(UserMsg)
  PROVE  Closed(h \o u, <<>>, b)
<1>1. u \in Seq(Msg) /\ \A i \in 1..Len(u) : Plain(u[i]) BY UserPlain
<1>2. Closed(u, <<>>, b) /\ Apart(h, u) BY <1>1, PlainClosed
<1> QED BY <1>1, <1>2, ClosedBoth

LEMMA EmptyClosed == \A b : Closed(<<>>, <<>>, b)
<1>1. <<>> \in Seq(Msg) /\ Len(<<>>) = 0 /\ 1..0 = {} OBVIOUS
<1> QED BY <1>1, PlainClosed

LEMMA AppendSound ==
  ASSUME NEW c \in Contexts, NEW b, Sound(c, b), NEW ms \in Seq(UserMsg)
  PROVE  Sound(appendMessages(c, ms), b)
<1> DEFINE h == c.history
           p == c.pendingToolResultIds
           d == appendMessages(c, ms)
<1>1. h \in Seq(Msg) /\ Closed(h, p, b) BY ContextFields DEF Sound
<1>2. d.pendingToolResultIds = p BY AppendFields
<1>3. (p # <<>> => d.history = h) /\ (p = <<>> => d.history = h \o ms) BY AppendFields
<1> HIDE DEF h, p, d
<1>4. CASE p = <<>>
  <2>1. Closed(h \o ms, <<>>, b) BY <1>1, <1>4, MessagesClosed
  <2> QED BY <1>2, <1>3, <1>4, <2>1 DEF Sound, d
<1>5. CASE p # <<>> BY <1>1, <1>2, <1>3, <1>5 DEF Sound, d
<1> QED BY <1>4, <1>5

LEMMA ResultSound ==
  ASSUME NEW c \in Contexts, NEW b, Sound(c, b), NEW x \in CallId
  PROVE  Sound(toolResult(c, x), b)
<1> DEFINE h == c.history
           p == c.pendingToolResultIds
           e == c.deferredMessages
           d == toolResult(c, x)
           q == RemoveFirst(p, x)
           g == Append(h, Message("tool", x))
<1>1. h \in Seq(Msg) /\ Closed(h, p, b) /\ e \in Seq(UserMsg) /\ p \in Seq(CallId)
  BY ContextFields DEF Sound
<1>2. /\ x \notin Range(p) => d = c
      /\ x \in Range(p) =>
           /\ d.pendingToolResultIds = q
           /\ q # <<>> => d.history = g
           /\ q = <<>> => d.history = g \o e
  BY ResultFields
<1>3. Message("tool", x) \in Msg BY ToolMessages
<1>4. g \in Seq(Msg) BY <1>1, <1>3
<1>5. x \in Range(p) => Closed(g, q, b)
  <2> HIDE DEF h, p
  <2> QED BY <1>1, ResultClosed
<1> HIDE DEF h, p, e, d, q, g
<1>6. CASE x \notin Range(p) BY <1>2, <1>6 DEF d
<1>7. CASE x \in Range(p) /\ q = <<>>
  <2>1. Closed(g \o e, <<>>, b) BY <1>1, <1>4, <1>5, <1>7, MessagesClosed
  <2> QED BY <1>2, <1>7, <2>1 DEF Sound, d
<1>8. CASE x \in Range(p) /\ q # <<>> BY <1>2, <1>5, <1>8 DEF Sound, d
<1> QED BY <1>6, <1>7, <1>8

LEMMA CloseSound ==
  ASSUME NEW c \in Contexts, NEW b, Sound(c, b)
  PROVE  Sound(closePendingToolResults(c), b)
<1> DEFINE qs == InterruptedResults(c)
           G == [i \in 0..Len(qs) |-> {x \in Contexts : Sound(x, b)}]
<1>1. Follows(c, qs, closePendingToolResults(c)) BY CloseFollows
<1>2. qs \in Seq(Records) /\ Len(qs) = Len(c.pendingToolResultIds)
      /\ \A i \in 1..Len(qs) : qs[i] = Record("tool.result", c.pendingToolResultIds[i])
  BY InterruptedTyped
<1>3. c.pendingToolResultIds \in Seq(CallId) BY ContextFields
<1>4. \A i \in 1..Len(qs) : c.pendingToolResultIds[i] \in CallId BY <1>2, <1>3
<1> HIDE DEF qs
<1>5. c \in G[0] BY <1>2
<1>6. \A x \in Contexts, z \in CallId :
         Sound(x, b) => restoreAgentRecord(x, Record("tool.result", z)) \in {y \in Contexts : Sound(y, b)}
  BY RestoreResult, ResultSound, ToolResultTyped
<1>7. ASSUME NEW i \in 1..Len(qs), NEW x \in G[i - 1], x \in Contexts
      PROVE  restoreAgentRecord(x, qs[i]) \in G[i]
  <2>1. i \in 0..Len(qs) /\ i - 1 \in 0..Len(qs) BY <1>2
  <2>2. Sound(x, b) BY <2>1
  <2> QED BY <1>2, <1>4, <1>6, <1>7, <2>1, <2>2
<1>8. Len(qs) \in 0..Len(qs) BY <1>2
<1>9. closePendingToolResults(c) \in G[Len(qs)]
  <2> HIDE DEF G
  <2> QED BY <1>1, <1>2, <1>5, <1>7, FollowsKeeps
<1> QED BY <1>8, <1>9

LEMMA FinishSound ==
  ASSUME NEW c \in Contexts, NEW b, Sound(c, b)
  PROVE  Sound(finishResume(c), b)
<1>1. Sound(closePendingToolResults(c), b) BY CloseSound
<1>2. closePendingToolResults(c).pendingToolResultIds = <<>> BY ClosedFields
<1>3. /\ finishResume(c).history = closePendingToolResults(c).history
      /\ finishResume(c).pendingToolResultIds = <<>>
  BY FinishFields
<1> QED BY <1>1, <1>2, <1>3 DEF Sound

LEMMA BeginSound ==
  ASSUME NEW c \in Contexts, NEW b \in Nat, Sound(c, b)
  PROVE  Sound(stepBegin(c, b + 1), b + 1)
<1> DEFINE e == closePendingToolResults(c)
           s == b + 1
           d == stepBegin(c, s)
<1>1. e \in Contexts /\ e.history \in Seq(Msg) BY CloseTyped, ContextFields
<1>2. e.pendingToolResultIds = <<>> BY ClosedFields
<1>3. Closed(e.history, <<>>, b) BY <1>2, CloseSound DEF Sound
<1>4. d.history = Append(e.history, Message("assistant", s)) /\ d.pendingToolResultIds = <<>>
  BY BeginFields
<1> HIDE DEF d, e
<1>5. Closed(Append(e.history, Message("assistant", b + 1)), <<>>, b + 1) BY <1>1, <1>3, BeginClosed
<1> QED BY <1>4, <1>5 DEF Sound, d

LEMMA EndSound ==
  ASSUME NEW c \in Contexts, NEW b, Sound(c, b), NEW s \in Nat
  PROVE  Sound(stepEnd(c, s), b)
<1> DEFINE h == c.history
           p == c.pendingToolResultIds
           e == c.deferredMessages
           d == stepEnd(c, s)
<1>1. h \in Seq(Msg) /\ Closed(h, p, b) /\ e \in Seq(UserMsg) BY ContextFields DEF Sound
<1>2. d.pendingToolResultIds = p BY EndFields
<1>3. (p # <<>> => d.history = h) /\ (p = <<>> => d.history = h \o e) BY EndFields
<1> HIDE DEF h, p, e, d
<1>4. CASE p = <<>>
  <2>1. Closed(h \o e, <<>>, b) BY <1>1, <1>4, MessagesClosed
  <2> QED BY <1>2, <1>3, <1>4, <2>1 DEF Sound, d
<1>5. CASE p # <<>> BY <1>1, <1>2, <1>3, <1>5 DEF Sound, d
<1> QED BY <1>4, <1>5

LEMMA CallSound ==
  ASSUME NEW c \in Contexts, NEW b, Sound(c, b), NEW x \in CallId,
         EndsWith(c.history, StepOf(x)), x \notin Range(c.pendingToolResultIds)
  PROVE  Sound(toolCall(c, x), b)
<1>1. c.history \in Seq(Msg) /\ c.pendingToolResultIds \in Seq(CallId) BY ContextFields
<1>2. Closed(WithCall(c.history, x), Append(c.pendingToolResultIds, x), b)
  BY <1>1, CallClosed DEF Sound
<1>3. /\ toolCall(c, x).history = WithCall(c.history, x)
      /\ toolCall(c, x).pendingToolResultIds = Append(c.pendingToolResultIds, x)
  BY CallFields
<1> QED BY <1>2, <1>3 DEF Sound

(* What a compaction leaves out ends before a message that is no result.   *)
SplitsAt(h, n) == n \in 1..Len(h) /\ CutBefore(h, n)

LEMMA CompactionSound ==
  ASSUME NEW c \in Contexts, NEW b, Sound(c, b), NEW s \in Nat, NEW n \in Nat,
         SplitsAt(c.history, n), c.pendingToolResultIds = <<>>
  PROVE  Sound(applyCompaction(c, s, n), b)
<1> DEFINE h == c.history
           e == c.deferredMessages
           k == Len(h)
           u == <<Message("summary", s)>>
           g == SubSeq(h, n + 1, k)
           d == applyCompaction(c, s, n)
<1>1. h \in Seq(Msg) /\ Closed(h, <<>>, b) /\ e \in Seq(UserMsg) BY ContextFields DEF Sound
<1>2. d.pendingToolResultIds = <<>> /\ d.history = (u \o g) \o e BY CompactionFields
<1>3. Message("summary", s) \in Msg /\ Plain(Message("summary", s))
  BY DEF Message, Msg, Plain, IsTool, IsStep, ToolRoles
<1>4. u \in Seq(Msg) /\ \A i \in 1..Len(u) : Plain(u[i]) BY <1>3
<1>5. n \in 1..Len(h) /\ CutBefore(h, n) BY DEF SplitsAt
<1> HIDE DEF h, e, d, u
<1>6. k \in 0..Len(h) /\ n \in 0..k /\ CutAfter(h, <<>>, k) BY <1>1, <1>5 DEF CutAfter
<1>7. Closed(g, <<>>, b) /\ g \in Seq(Msg) BY <1>1, <1>5, <1>6, ClosedCut
<1> HIDE DEF g, k
<1>8. Closed(u, <<>>, b) /\ Apart(u, g) BY <1>4, PlainClosed
<1>9. Closed(u \o g, <<>>, b) /\ u \o g \in Seq(Msg) BY <1>4, <1>7, <1>8, ClosedBoth
<1>10. Closed((u \o g) \o e, <<>>, b) BY <1>1, <1>9, MessagesClosed
<1> QED BY <1>2, <1>10 DEF Sound, d

(* A selection of the first k messages and of some of M behind them.       *)
LEMMA SelectionKeeps ==
  ASSUME NEW h \in Seq(Msg), NEW k \in 0..Len(h), NEW I, NEW M \in SUBSET Msg,
         1..k \subseteq I, \A i \in I : i \in 1..k \/ h[i] \in M
  PROVE  \E u \in Seq(M) : Selection(h, I) = SubSeq(h, 1, k) \o u
<1>1. PICK f : Chooses(h, I, f) /\ Selection(h, I) = f[Len(h)] BY SelectionExists
<1> DEFINE b == Len(h)
           Starts(n) == n =< k => f[n] = SubSeq(h, 1, n)
           More(n) == k =< n => \E u \in Seq(M) : f[n] = SubSeq(h, 1, k) \o u
           T == {n \in 0..b : ~ (Starts(n) /\ More(n))}
<1>2. b \in Nat /\ k \in Nat /\ k =< b OBVIOUS
<1>3. /\ f \in [0..b -> Seq(Msg)] /\ f[0] = <<>>
      /\ \A n \in 1..b : f[n] = IF n \in I THEN Append(f[n - 1], h[n]) ELSE f[n - 1]
  BY <1>1 DEF Chooses
<1>4. \A n \in 1..b : h[n] \in Msg OBVIOUS
<1>5. SubSeq(h, 1, 0) = <<>> OBVIOUS
<1>6. ASSUME NEW n \in 1..b PROVE SubSeq(h, 1, n) = Append(SubSeq(h, 1, n - 1), h[n])
  <2>1. /\ SubSeq(h, 1, n) \in Seq(Msg) /\ Len(SubSeq(h, 1, n)) = n
        /\ \A i \in 1..n : SubSeq(h, 1, n)[i] = h[i]
    OBVIOUS
  <2>2. /\ SubSeq(h, 1, n - 1) \in Seq(Msg) /\ Len(SubSeq(h, 1, n - 1)) = n - 1
        /\ \A i \in 1..(n - 1) : SubSeq(h, 1, n - 1)[i] = h[i]
    OBVIOUS
  <2> QED BY <2>1, <2>2
<1>7. SubSeq(h, 1, k) \in Seq(Msg) OBVIOUS
<1> HIDE DEF b
<1>8. SUFFICES ASSUME T # {} PROVE FALSE
  <2>1. b \in 0..b /\ k =< b BY <1>2
  <2>2. More(b) BY <1>8, <2>1
  <2>3. \E u \in Seq(M) : f[b] = SubSeq(h, 1, k) \o u BY <2>1, <2>2
  <2> QED BY <1>1, <2>3 DEF b
<1>9. PICK n \in T : \A m \in T : n =< m
  <2>1. T \subseteq Nat OBVIOUS
  <2> HIDE DEF T
  <2>2. Min(T) \in T /\ \A m \in T : Min(T) =< m BY <1>8, <2>1, LeastElement
  <2> QED BY <2>2
<1>10. n \in 0..b /\ ~ (Starts(n) /\ More(n)) OBVIOUS
<1>11. \A s \in Seq(Msg) : s \o <<>> = s OBVIOUS
<1>12. ASSUME Starts(n) PROVE FALSE
  <2>1. ~ More(n) BY <1>10, <1>12
  <2>2. k =< n /\ \A u \in Seq(M) : f[n] # SubSeq(h, 1, k) \o u BY <2>1
  <2>3. k # n
    <3>1. SUFFICES ASSUME k = n PROVE FALSE OBVIOUS
    <3>2. f[n] = SubSeq(h, 1, k) BY <1>2, <1>12, <3>1
    <3>3. f[n] = SubSeq(h, 1, k) \o <<>> /\ <<>> \in Seq(M) BY <1>7, <1>11, <3>2
    <3> QED BY <2>2, <3>3
  <2>4. n \in 1..b /\ n - 1 \in 0..b /\ ~ (n =< n - 1) /\ k =< n - 1 /\ n \notin 1..k
    BY <1>2, <1>10, <2>2, <2>3
  <2>5. n - 1 \notin T
    <3> HIDE DEF T
    <3> QED BY <1>9, <2>4
  <2>6. More(n - 1) BY <2>4, <2>5
  <2>7. PICK u \in Seq(M) : f[n - 1] = SubSeq(h, 1, k) \o u BY <2>4, <2>6
  <2>8. CASE n \notin I
    <3>1. f[n] = f[n - 1] BY <1>3, <2>4, <2>8
    <3> QED BY <2>2, <2>7, <3>1
  <2>9. CASE n \in I
    <3> DEFINE m == h[n]
               s == SubSeq(h, 1, k)
    <3>1. m \in M /\ m \in Msg BY <1>4, <2>4, <2>9
    <3>2. f[n] = Append(s \o u, m) BY <1>3, <2>4, <2>7, <2>9
    <3>3. s \in Seq(Msg) /\ u \in Seq(Msg) /\ Append(u, m) \in Seq(M)
      <4> HIDE DEF m
      <4>1. \A i \in 1..Len(u) : u[i] \in Msg OBVIOUS
      <4>2. u \in Seq(Msg) BY <4>1
      <4> QED BY <1>7, <3>1, <4>2
    <3> HIDE DEF s, m
    <3>4. f[n] = s \o Append(u, m)
      <4> HIDE DEF T, Starts, More
      <4> QED BY <3>1, <3>2, <3>3, AppendJoined
    <3> QED BY <2>2, <3>3, <3>4 DEF s
  <2> QED BY <2>8, <2>9
<1>13. Starts(n)
  <2>1. SUFFICES ASSUME n =< k PROVE f[n] = SubSeq(h, 1, n) OBVIOUS
  <2>2. CASE n = 0 BY <1>3, <1>5, <2>2
  <2>3. CASE n # 0
    <3>1. n \in 1..b /\ n - 1 \in 0..b /\ ~ (n =< n - 1) /\ n \in 1..k /\ n - 1 =< k
      BY <1>2, <1>10, <2>1, <2>3
    <3>2. n - 1 \notin T
      <4> HIDE DEF T
      <4> QED BY <1>9, <3>1
    <3>3. Starts(n - 1) BY <3>1, <3>2
    <3>4. f[n - 1] = SubSeq(h, 1, n - 1) BY <3>1, <3>3
    <3>5. f[n] = Append(f[n - 1], h[n]) BY <1>3, <3>1
    <3> QED BY <1>6, <3>1, <3>4, <3>5
  <2> QED BY <2>2, <2>3
<1> QED BY <1>12, <1>13

(* Undo keeps what came before a prompt, or up to a summary.               *)
LEMMA UndoneSplits ==
  ASSUME NEW h \in Seq(Msg)
  PROVE  LET M == {m \in Msg : m.role = "injection" /\ \E i \in 1..Len(h) : m = h[i]}
         IN  \E k \in 0..Len(h), u \in Seq(M) :
               /\ Undone(h) = SubSeq(h, 1, k) \o u
               /\ \/ k = 0
                  \/ k < Len(h) /\ h[k + 1].role = "user"
                  \/ h[k].role = "summary"
<1> DEFINE n == Len(h)
           I == {i \in 1..n : h[i].role \in {"user", "summary"}}
           stop == IF I # {} THEN Max(I) ELSE 0
           keep == IF stop > 0 /\ h[stop].role = "user" THEN stop - 1 ELSE stop
           M == {m \in Msg : m.role = "injection" /\ \E i \in 1..Len(h) : m = h[i]}
           J == {i \in 1..n : i <= keep \/ h[i].role = "injection"}
<1>1. n \in Nat /\ DOMAIN h = 1..n OBVIOUS
<1>2. SelectLastInSeq(h, LAMBDA m : m.role \in {"user", "summary"}) = stop
  BY DEF SelectLastInSeq, SelectLastInSubSeq
<1>3. stop = 0 \/ stop \in I
  <2>1. CASE I = {} BY <2>1
  <2>2. CASE I # {}
    <3>1. I \subseteq Nat /\ \A i \in I : i =< n OBVIOUS
    <3> HIDE DEF I
    <3>2. Max(I) \in I BY <1>1, <2>2, <3>1, Greatest
    <3>3. stop = Max(I) BY <2>2
    <3> QED BY <3>2, <3>3
  <2> QED BY <2>1, <2>2
<1>4. Spared(h) = J BY <1>1, <1>2 DEF Spared
<1>5. stop = 0 \/ (stop \in 1..n /\ h[stop].role \in {"user", "summary"}) BY <1>3
<1> HIDE DEF stop, I
<1>6. /\ keep \in 0..n
      /\ keep = 0 \/ (keep < n /\ h[keep + 1].role = "user") \/ h[keep].role = "summary"
  <2>1. CASE stop = 0 BY <1>1, <2>1
  <2>2. CASE stop # 0 /\ h[stop].role = "user"
    <3>1. stop \in 1..n /\ stop > 0 BY <1>5, <2>2
    <3>2. keep = stop - 1 BY <2>2, <3>1
    <3>3. keep \in 0..n /\ keep < n /\ keep + 1 = stop BY <1>1, <3>1, <3>2
    <3> QED BY <2>2, <3>3
  <2>3. CASE stop # 0 /\ h[stop].role # "user"
    <3>1. stop \in 1..n /\ h[stop].role = "summary" BY <1>5, <2>3
    <3>2. keep = stop BY <2>3
    <3> QED BY <1>1, <3>1, <3>2
  <2> QED BY <2>1, <2>2, <2>3
<1> HIDE DEF keep
<1>7. 1..keep \subseteq J BY <1>1, <1>6
<1>8. \A i \in J : i \in 1..keep \/ h[i] \in M
  <2>1. SUFFICES ASSUME NEW i \in 1..n, i \in J, i \notin 1..keep PROVE h[i] \in M OBVIOUS
  <2>2. ~ (i <= keep) BY <1>1, <1>6, <2>1
  <2>3. h[i].role = "injection" /\ h[i] \in Msg BY <1>1, <2>1, <2>2
  <2> QED BY <2>3
<1>9. M \in SUBSET Msg OBVIOUS
<1> HIDE DEF J, M
<1>10. PICK u \in Seq(M) : Selection(h, J) = SubSeq(h, 1, keep) \o u
  <2> HIDE DEF n
  <2> QED BY <1>6, <1>7, <1>8, <1>9, SelectionKeeps, ZenonT(40) DEF n
<1> QED BY <1>4, <1>6, <1>10 DEF Undone, M

LEMMA UndoSound ==
  ASSUME NEW c \in Contexts, NEW b, Sound(c, b)
  PROVE  Sound(undo(c), b)
<1> DEFINE h == c.history
           p == c.pendingToolResultIds
           n == Len(h)
           M == {m \in Msg : m.role = "injection" /\ \E i \in 1..Len(h) : m = h[i]}
           d == undo(c)
<1>1. h \in Seq(Msg) /\ Closed(h, p, b) BY ContextFields DEF Sound
<1>2. (h = <<>> => d = c) /\ (h # <<>> => d.history = Undone(h) /\ d.pendingToolResultIds = <<>>)
  BY UndoFields
<1> HIDE DEF h, p, d
<1>3. PICK k \in 0..n, u \in Seq(M) :
         /\ Undone(h) = SubSeq(h, 1, k) \o u
         /\ k = 0 \/ (k < n /\ h[k + 1].role = "user") \/ h[k].role = "summary"
  BY <1>1, UndoneSplits
<1>4. n \in Nat BY <1>1
<1>5. \A i \in 1..n : ~ IsStep(h[i]) => h[i].calls = {} BY <1>1 DEF Closed, Named
<1>6. \A m \in M : m \in Msg /\ Plain(m)
  BY <1>5 DEF Plain, IsTool, IsStep, ToolRoles
<1> HIDE DEF M
<1>7. u \in Seq(Msg) /\ \A i \in 1..Len(u) : Plain(u[i])
  <2>1. \A i \in 1..Len(u) : u[i] \in M OBVIOUS
  <2>2. \A i \in 1..Len(u) : u[i] \in Msg BY <1>6, <2>1
  <2> QED BY <1>6, <2>1, <2>2
<1>8. CutAfter(h, p, k)
  <2>1. CASE k = 0 BY <2>1 DEF CutAfter
  <2>2. CASE k < n /\ h[k + 1].role = "user" BY <2>2 DEF CutAfter, IsTool, ToolRoles
  <2>3. CASE k # 0 /\ h[k].role = "summary"
    <3>1. k \in 1..n BY <1>4, <2>3
    <3>2. Plain(h[k]) BY <1>5, <2>3, <3>1 DEF Plain, IsTool, IsStep, ToolRoles
    <3> QED BY <3>2 DEF CutAfter
  <2> QED BY <1>3, <2>1, <2>2, <2>3
<1>9. CutBefore(h, 0)
  <2>1. SUFFICES ASSUME 0 < n, IsTool(h[1]) PROVE FALSE BY DEF CutBefore
  <2>2. 1 \in 1..n /\ 1..(1 - 1) = {} BY <1>4, <2>1
  <2>3. \E j \in 1..(1 - 1) : IsStep(h[j]) BY <1>1, <2>1, <2>2 DEF Closed, Owned
  <2> QED BY <2>2, <2>3
<1>10. Closed(SubSeq(h, 1, k), <<>>, b) /\ SubSeq(h, 1, k) \in Seq(Msg)
  <2>1. 0 \in 0..k /\ k \in 0..Len(h) BY <1>4
  <2>2. Closed(SubSeq(h, 0 + 1, k), <<>>, b) BY <1>1, <1>8, <1>9, <2>1, ClosedCut
  <2>3. 0 + 1 = 1 OBVIOUS
  <2> QED BY <1>1, <2>1, <2>2, <2>3
<1>11. CASE h = <<>> BY <1>2, <1>11 DEF d
<1>12. CASE h # <<>>
  <2> DEFINE g == SubSeq(h, 1, k)
  <2>1. Closed(g, <<>>, b) /\ g \in Seq(Msg) BY <1>10
  <2> HIDE DEF g
  <2>2. Closed(u, <<>>, b) /\ Apart(g, u) BY <1>7, PlainClosed
  <2>3. Closed(g \o u, <<>>, b) BY <1>7, <2>1, <2>2, ClosedBoth
  <2>4. d.history = g \o u BY <1>2, <1>3, <1>12 DEF g
  <2> QED BY <1>2, <1>12, <2>3, <2>4 DEF Sound, d
<1> QED BY <1>11, <1>12

(* What a record may do where it is logged: a step that begins has the      *)
(* next number, a call is one of the last message, a compaction leaves no   *)
(* exchange half.                                                           *)
Permitted(c, r, b) ==
  /\ Begins(r) => r.arg = b + 1
  /\ r.type = "tool.call" => /\ EndsWith(c.history, StepOf(r.arg))
                             /\ r.arg \notin Range(c.pendingToolResultIds)
  /\ r.type = "apply_compaction" => /\ c.pendingToolResultIds = <<>>
                                    /\ SplitsAt(c.history, r.arg[2])

LEMMA RestoreSound ==
  ASSUME NEW c \in Contexts, NEW r \in Records, NEW b \in Nat, Sound(c, b), Permitted(c, r, b)
  PROVE  Sound(restoreAgentRecord(c, r), IF Begins(r) THEN b + 1 ELSE b)
<1> DEFINE x == restoreAgentRecord(c, r)
           k == r.arg
<1>1. CASE throws(c, r) \/ r.type = "content.part"
  <2>1. ~ Begins(r) BY <1>1 DEF throws, Begins
  <2>2. x = c BY <1>1 DEF restoreAgentRecord
  <2> QED BY <2>1, <2>2
<1>2. CASE ~ throws(c, r) /\ r.type = "append_message"
  <2> DEFINE ms == <<k>>
  <2>1. ms \in Seq(UserMsg) BY <1>2, RecordKinds
  <2>2. x = appendMessages(c, ms) BY <1>2 DEF restoreAgentRecord, appendMessage
  <2> HIDE DEF ms, x
  <2>3. Sound(x, b) BY <2>1, <2>2, AppendSound
  <2> QED BY <1>2, <2>3 DEF Begins, x
<1>3. CASE ~ throws(c, r) /\ r.type = "step.begin"
  <2>1. Begins(r) /\ k = b + 1 BY <1>3 DEF Begins, Permitted
  <2>2. x = stepBegin(c, b + 1) BY <1>3, <2>1 DEF restoreAgentRecord
  <2> HIDE DEF x, k
  <2>3. Sound(x, b + 1) BY <2>2, BeginSound
  <2> QED BY <2>1, <2>3 DEF x
<1>4. CASE ~ throws(c, r) /\ r.type = "tool.call"
  <2>1. k \in CallId /\ x = toolCall(c, k) BY <1>4, RecordKinds DEF restoreAgentRecord
  <2>2. EndsWith(c.history, StepOf(k)) /\ k \notin Range(c.pendingToolResultIds)
    BY <1>4 DEF Permitted
  <2> HIDE DEF x, k
  <2>3. Sound(x, b) BY <2>1, <2>2, CallSound
  <2> QED BY <1>4, <2>3 DEF Begins, x
<1>5. CASE ~ throws(c, r) /\ r.type = "tool.result"
  <2>1. k \in CallId /\ x = toolResult(c, k) BY <1>5, RecordKinds DEF restoreAgentRecord
  <2> HIDE DEF x, k
  <2>2. Sound(x, b) BY <2>1, ResultSound
  <2> QED BY <1>5, <2>2 DEF Begins, x
<1>6. CASE ~ throws(c, r) /\ r.type = "step.end"
  <2>1. k \in Nat /\ x = stepEnd(c, k) BY <1>6, RecordKinds DEF restoreAgentRecord
  <2> HIDE DEF x, k
  <2>2. Sound(x, b) BY <2>1, EndSound
  <2> QED BY <1>6, <2>2 DEF Begins, x
<1>7. CASE ~ throws(c, r) /\ r.type = "undo"
  <2>1. x = undo(c) BY <1>7 DEF restoreAgentRecord
  <2>2. Sound(x, b) BY <2>1, UndoSound
  <2> QED BY <1>7, <2>2 DEF Begins
<1>8. CASE ~ throws(c, r) /\ r.type = "clear"
  <2>1. x = EmptyContext BY <1>8 DEF restoreAgentRecord
  <2>2. Sound(x, b) BY <2>1, EmptyFields, EmptyClosed DEF Sound
  <2> QED BY <1>8, <2>2 DEF Begins
<1>9. CASE ~ throws(c, r) /\ r.type = "apply_compaction"
  <2> DEFINE s == k[1]
             n == k[2]
  <2>1. s \in Nat /\ n \in Nat /\ x = applyCompaction(c, s, n)
    BY <1>9, RecordKinds DEF restoreAgentRecord
  <2>2. c.pendingToolResultIds = <<>> /\ SplitsAt(c.history, n) BY <1>9 DEF Permitted
  <2> HIDE DEF x, s, n
  <2>3. Sound(x, b) BY <2>1, <2>2, CompactionSound
  <2> QED BY <1>9, <2>3 DEF Begins, x
<1> QED BY <1>1, <1>2, <1>3, <1>4, <1>5, <1>6, <1>7, <1>8, <1>9, RecordKinds

LEMMA SoundWidens ==
  ASSUME NEW c \in Contexts, NEW a \in Nat, NEW b \in Nat, a =< b, Sound(c, a)
  PROVE  Sound(c, b)
<1>1. c.history \in Seq(Msg) BY ContextFields
<1> QED BY <1>1, ClosedWidens DEF Sound

LEMMA SoundRel ==
  ASSUME NEW c \in Contexts, NEW d \in Contexts, Rel(c, d), NEW b, Sound(c, b)
  PROVE  Sound(d, b)
<1>1. c.history \in Seq(Msg) /\ d.history \in Seq(Msg) BY ContextFields
<1> QED BY <1>1, AlikeClosed DEF Sound, Rel

(* The records are logged where they may be, and so is their replay.       *)
LEMMA SoundGoesOn ==
  ASSUME NEW rs \in Seq(Records), NEW qs \in Seq(Records), NEW c \in Contexts, NEW d, NEW f,
         NEW a \in Nat, NEW b \in Nat, a =< b,
         Rel(c, replay(rs)), Leads(f, c, qs, d), Sound(c, a),
         \A x \in Passes(rs) : Sound(x, a),
         \A i \in 1..Len(qs) : ~ throws(f[i - 1], qs[i]) /\ Permitted(f[i - 1], qs[i], a),
         \A i \in 1..Len(qs) : Begins(qs[i]) =>
           b = a + 1 /\ \A j \in 1..Len(qs) : Begins(qs[j]) => i = j
  PROVE  Sound(d, b) /\ \A x \in Passes(rs \o qs) : Sound(x, b)
<1> DEFINE n == Len(qs)
           B(i) == IF \E j \in 1..i : Begins(qs[j]) THEN a + 1 ELSE a
           G == [i \in 0..n |-> {x \in Contexts : Rel(f[i], x) /\ Sound(f[i], B(i))}]
<1>1. /\ f \in [0..n -> Contexts] /\ f[0] = c /\ f[n] = d
      /\ \A i \in 1..n : f[i] = restoreAgentRecord(f[i - 1], qs[i])
  BY DEF Leads
<1>2. /\ n \in Nat /\ 0 \in 0..n /\ n \in 0..n
      /\ \A i \in 1..n : i \in 0..n /\ i - 1 \in 0..n /\ qs[i] \in Records
  OBVIOUS
<1>3. \A i \in 1..n : ~ throws(f[i - 1], qs[i]) /\ Permitted(f[i - 1], qs[i], a) OBVIOUS
<1>4. \A i \in 1..n : Begins(qs[i]) => b = a + 1 /\ \A j \in 1..n : Begins(qs[j]) => i = j
  OBVIOUS
<1> HIDE DEF n
<1>5. /\ B(0) = a
      /\ \A i \in 1..n : Begins(qs[i]) => B(i - 1) = a /\ B(i) = a + 1
      /\ \A i \in 1..n : ~ Begins(qs[i]) => B(i) = B(i - 1)
      /\ \A i \in 0..n : B(i) \in Nat /\ B(i) =< b
  <2>1. B(0) = a
    <3>1. 1..0 = {} OBVIOUS
    <3> QED BY <3>1
  <2>2. ASSUME NEW i \in 1..n, Begins(qs[i]) PROVE B(i - 1) = a /\ B(i) = a + 1
    <3>1. i \in 1..i /\ \A j \in 1..(i - 1) : j \in 1..n /\ j # i BY <1>2
    <3> QED BY <1>4, <2>2, <3>1
  <2>3. ASSUME NEW i \in 1..n, ~ Begins(qs[i]) PROVE B(i) = B(i - 1)
    <3>1. \A j \in 1..i : j = i \/ j \in 1..(i - 1) BY <1>2
    <3>2. \A j \in 1..(i - 1) : j \in 1..i BY <1>2
    <3> QED BY <2>3, <3>1, <3>2
  <2>4. ASSUME NEW i \in 0..n PROVE B(i) \in Nat /\ B(i) =< b
    <3>1. \A j \in 1..i : j \in 1..n BY <1>2
    <3> QED BY <1>4, <3>1
  <2> QED BY <2>1, <2>2, <2>3, <2>4
<1>6. replay(rs) \in Contexts BY ReplayTyped
<1> HIDE DEF B
<1>7. replay(rs) \in G[0] BY <1>1, <1>2, <1>5, <1>6
<1>8. ASSUME NEW i \in 1..n, NEW x \in G[i - 1], x \in Contexts
      PROVE  restoreAgentRecord(x, qs[i]) \in G[i]
  <2> DEFINE e == f[i - 1]
             r == qs[i]
  <2>1. i \in 0..n /\ i - 1 \in 0..n /\ r \in Records /\ e \in Contexts BY <1>1, <1>2
  <2>2. Rel(e, x) /\ Sound(e, B(i - 1)) BY <2>1
  <2>3. f[i] = restoreAgentRecord(e, r) BY <1>1
  <2>4. ~ throws(e, r) /\ Permitted(e, r, a) BY <1>3
  <2>5. B(i - 1) \in Nat BY <1>5, <2>1
  <2>6. Permitted(e, r, B(i - 1)) /\ B(i) = IF Begins(r) THEN B(i - 1) + 1 ELSE B(i - 1)
    BY <1>5, <2>4 DEF Permitted
  <2> HIDE DEF e, r, G
  <2>7. Sound(f[i], B(i)) BY <2>1, <2>2, <2>3, <2>5, <2>6, RestoreSound
  <2>8. Rel(f[i], restoreAgentRecord(x, r)) BY <1>8, <2>1, <2>2, <2>3, <2>4, RestoreRel
  <2>9. restoreAgentRecord(x, r) \in Contexts BY <1>8, <2>1, RestoreTyped
  <2> QED BY <2>1, <2>7, <2>8, <2>9 DEF G, r
<1>9. \A i \in 0..n : \A x \in G[i] : f[i] \in Contexts /\ Sound(f[i], b) /\ Sound(x, b)
  <2>1. SUFFICES ASSUME NEW i \in 0..n, NEW x \in G[i]
                 PROVE  f[i] \in Contexts /\ Sound(f[i], b) /\ Sound(x, b)
    OBVIOUS
  <2>2. x \in Contexts /\ Rel(f[i], x) /\ Sound(f[i], B(i)) /\ f[i] \in Contexts BY <1>1
  <2>3. Sound(x, B(i)) BY <2>2, SoundRel
  <2> QED BY <1>5, <2>2, <2>3, SoundWidens
<1> HIDE DEF G
<1>10. /\ replay(rs \o qs) \in G[n]
       /\ \A x \in Passes(rs \o qs) : x \in Passes(rs) \/ \E i \in 1..n : x \in G[i]
  BY <1>7, <1>8, ReplayGoesOn DEF n
<1>11. Sound(d, b) BY <1>1, <1>2, <1>9, <1>10
<1>12. Passes(rs) \subseteq Contexts BY ReplayTyped
<1>13. \A x \in Passes(rs) : Sound(x, b) BY <1>12, SoundWidens
<1> QED BY <1>2, <1>9, <1>10, <1>11, <1>13

-----------------------------------------------------------------------------
(* Under guard one worker at most runs, and none while others change the   *)
(* conversation.                                                           *)
LEMMA GuardedWork ==
  ASSUME Guarded
  PROVE  /\ Undisturbed /\ Single /\ "compact" \notin Unguarded
         /\ \A what : May(what) => running = {}
BY DEF Guarded, Undisturbed, Single, May

Streaming == {"stream", "streamed", "calls"}

(* The step a response is part of has the last message.                    *)
AtHand == \A t \in Turn : turn[t].pc \in Streaming => EndsWith(context.history, turn[t].step)

(* What a compaction summarises still ends before a message that is no     *)
(* result.                                                                 *)
SplitInv == compaction.on => SplitsAt(context.history, compaction.compactedCount)

ExchangeInv ==
  Guarded => /\ AtHand /\ SplitInv
             /\ Sound(context, used.steps)
             /\ \A c \in Passes(records) : Sound(c, used.steps)

LEMMA HandRests ==
  ASSUME AtHand,
         \A s \in Turn : turn'[s].pc \in Streaming =>
           /\ turn[s].pc \in Streaming /\ turn'[s].step = turn[s].step
           /\ context'.history = context.history
  PROVE  AtHand'
BY DEF AtHand

LEMMA SplitRests ==
  ASSUME SplitInv, compaction'.on => UNCHANGED <<compaction, context>>
  PROVE  SplitInv'
BY DEF SplitInv

LEMMA SplitBegins ==
  ASSUME NEW n, TypeInv, beginCompaction(n), context' = context
  PROVE  SplitInv'
<1>1. compaction' = [on |-> TRUE, original |-> context.history, compactedCount |-> n]
      /\ canSplitAfter(context.history, n)
  BY DEF beginCompaction
<1>2. compaction'.compactedCount = n BY <1>1
<1>3. context.history \in Seq(Msg) BY ContextFields DEF TypeInv
<1>4. DOMAIN context.history = 1..Len(context.history) BY <1>3
<1>5. SplitsAt(context.history, n)
  BY <1>1, <1>4 DEF canSplitAfter, SplitsAt, CutBefore, IsTool
<1> QED BY <1>2, <1>5 DEF SplitInv

(* Messages that are appended cut nothing.                                 *)
LEMMA SplitsOn ==
  ASSUME NEW c \in Contexts, NEW ms \in Seq(UserMsg), NEW n, SplitsAt(c.history, n)
  PROVE  SplitsAt(appendMessages(c, ms).history, n)
<1> DEFINE h == c.history
           k == Len(h)
           g == h \o ms
<1>1. h \in Seq(Msg) /\ k \in Nat BY ContextFields
<1>2. appendMessages(c, ms).history = h \/ appendMessages(c, ms).history = g BY AppendFields
<1>3. n \in 1..k /\ (n < k => ~ IsTool(h[n + 1])) BY DEF SplitsAt, CutBefore
<1>4. ms \in Seq(Msg) /\ \A i \in 1..Len(ms) : ~ IsTool(ms[i]) BY UserPlain DEF Plain
<1> HIDE DEF h
<1>5. /\ Len(g) = k + Len(ms) /\ Len(ms) \in Nat
      /\ \A i \in 1..k : g[i] = h[i]
      /\ \A i \in 1..Len(ms) : g[k + i] = ms[i]
  BY <1>1, <1>4
<1> HIDE DEF g, k
<1>6. SplitsAt(g, n)
  <2>1. n \in 1..Len(g) BY <1>1, <1>3, <1>5
  <2>2. ASSUME n < Len(g) PROVE ~ IsTool(g[n + 1])
    <3>1. CASE n < k
      <4>1. n + 1 \in 1..k BY <1>1, <1>3, <3>1
      <4> QED BY <1>3, <1>5, <3>1, <4>1
    <3>2. CASE ~ (n < k)
      <4>1. n = k /\ 1 \in 1..Len(ms) BY <1>1, <1>3, <1>5, <2>2, <3>2
      <4> QED BY <1>4, <1>5, <4>1
    <3> QED BY <3>1, <3>2
  <2> QED BY <2>1, <2>2 DEF SplitsAt, CutBefore
<1>7. SplitsAt(h, n) BY <1>3 DEF SplitsAt, CutBefore, k
<1> QED BY <1>2, <1>6, <1>7 DEF g, h

(* While a compaction is on nothing is pending.                            *)
LEMMA NothingPendingCompacts ==
  ASSUME TypeInv, WorkInv, Undisturbed, compaction.on
  PROVE  /\ context.pendingToolResultIds = <<>>
         /\ \A s \in Turn : turn[s].pc \in Waiting \cup Resting
<1>1. OneWorker /\ CompactionAlone BY DEF WorkInv
<1>2. Single /\ \A s \in running : turn[s].pc \in Waiting BY <1>1 DEF CompactionAlone
<1>3. CASE running = {} BY <1>1, <1>2, <1>3 DEF OneWorker, running, Resting
<1>4. CASE running # {}
  <2>1. PICK t \in running : TRUE BY <1>4
  <2>2. Fine(turn[t], context.pendingToolResultIds) BY <1>1, <1>2, <2>1 DEF OneWorker
  <2>3. turn[t].pc \notin Calling BY <1>2, <2>1 DEF Waiting, Calling
  <2>4. context.pendingToolResultIds = <<>> BY <2>2, <2>3 DEF Fine
  <2> QED BY <1>2, <2>4 DEF running, Resting
<1> QED BY <1>3, <1>4

(* In an action of worker t the others rest.                               *)
LEMMA OthersRest ==
  ASSUME TypeInv, WorkInv, Undisturbed, Single, NEW t \in Turn, worker(t)
  PROVE  /\ ~ compaction.on
         /\ \A s \in Turn : s # t => turn'[s] = turn[s] /\ turn[s].pc \in Resting
<1>1. turn \in [Turn -> Workers] BY DEF TypeInv
<1>2. turn[t].pc \notin Resting \cup Waiting
  BY DEF worker, appendPrompt, beforeStep, autoCompaction, stopBeforeStep,
     beginStep, contentPart, requestFails, handleOverflowError, response, recordToolCall,
     toolReminder, recordToolResult, endStep, Resting, Waiting
<1>3. ~ compaction.on /\ t \in running BY <1>2, AtWork
<1>4. \A s \in Turn : s # t => turn[s].pc \in Resting
  BY <1>3 DEF WorkInv, OneWorker, running, Resting
<1>5. \A s \in Turn : s # t => turn'[s] = turn[s]
  BY <1>1 DEF worker, appendPrompt, beforeStep, autoCompaction, stopBeforeStep,
     beginStep, contentPart, requestFails, handleOverflowError, response, recordToolCall,
     toolReminder, recordToolResult, endStep, goto, end
<1> QED BY <1>3, <1>4, <1>5

LEMMA HandSimple ==
  ASSUME TypeInv, WorkInv, Undisturbed, Single, AtHand, SplitInv, NEW t \in Turn,
         \/ appendPrompt(t) \/ beforeStep(t) \/ autoCompaction(t) \/ stopBeforeStep(t)
         \/ contentPart(t) \/ requestFails(t) \/ handleOverflowError(t) \/ response(t)
         \/ recordToolResult(t) \/ endStep(t)
  PROVE  AtHand' /\ SplitInv'
<1>1. turn \in [Turn -> Workers] /\ turn[t] \in Workers BY DEF TypeInv
<1>2. /\ ~ compaction.on
      /\ \A s \in Turn : s # t => turn'[s] = turn[s] /\ turn[s].pc \in Resting
  BY OthersRest DEF worker
<1>3. \A s \in Turn : s # t => turn'[s].pc \notin Streaming BY <1>2 DEF Resting, Streaming
<1>4. /\ turn'[t].step = turn[t].step
      /\ turn'[t].pc \in Streaming => turn[t].pc \in Streaming /\ context' = context
  <2>1. CASE appendPrompt(t) \/ beforeStep(t) \/ autoCompaction(t) \/ stopBeforeStep(t)
             \/ requestFails(t) \/ handleOverflowError(t)
    <3>1. \E p \in Waiting \cup {"ready", "inject", "ended"} :
             turn' = [turn EXCEPT ![t].pc = p]
      BY <2>1 DEF appendPrompt, beforeStep, autoCompaction, stopBeforeStep,
         requestFails, handleOverflowError, goto, end, Waiting
    <3>2. PICK p \in Waiting \cup {"ready", "inject", "ended"} :
             turn' = [turn EXCEPT ![t].pc = p]
      BY <3>1
    <3>3. turn'[t].step = turn[t].step /\ turn'[t].pc = p BY <1>1, <3>2 DEF Workers
    <3> QED BY <3>3, SMTT(30) DEF Waiting, Streaming
  <2>2. CASE contentPart(t) BY <1>1, <2>2 DEF Workers, contentPart, goto, end, Streaming
  <2>3. CASE response(t) BY <1>1, <2>3, ZenonT(40) DEF Workers, response, Streaming
  <2>4. CASE recordToolResult(t) BY <1>1, <2>4 DEF Workers, recordToolResult, Streaming
  <2>5. CASE endStep(t) BY <1>1, <2>5 DEF Workers, endStep, goto, end, Streaming
  <2> QED BY <2>1, <2>2, <2>3, <2>4, <2>5
<1>5. AtHand' BY <1>3, <1>4, HandRests
<1>6. SplitInv'
  <2>1. CASE autoCompaction(t)
    <3>1. \E n : beginCompaction(n) BY <2>1 DEF autoCompaction
    <3>2. context' = context BY <2>1 DEF autoCompaction
    <3> QED BY <3>1, <3>2, SplitBegins
  <2>2. CASE handleOverflowError(t)
    <3>1. context' = context BY <2>2 DEF handleOverflowError
    <3>2. \E n : beginCompaction(n) BY <1>2, <2>2 DEF handleOverflowError
    <3> QED BY <3>1, <3>2, SplitBegins
  <2>3. CASE ~ autoCompaction(t) /\ ~ handleOverflowError(t)
    <3>1. compaction' = compaction
      BY <2>3 DEF appendPrompt, beforeStep, stopBeforeStep, contentPart, requestFails, response,
         recordToolResult, endStep
    <3>2. ~ compaction'.on BY <1>2, <3>1
    <3> QED BY <3>2, SplitRests
  <2> QED BY <2>1, <2>2, <2>3
<1> QED BY <1>5, <1>6

LEMMA HandWorks ==
  ASSUME TypeInv, WorkInv, Undisturbed, Single, AtHand, SplitInv, NEW t \in Turn, worker(t)
  PROVE  AtHand' /\ SplitInv'
<1>1. /\ turn \in [Turn -> Workers] /\ turn[t] \in Workers /\ context \in Contexts
      /\ used.steps \in Nat /\ context.history \in Seq(Msg)
  BY ContextFields DEF TypeInv, Uses
<1>2. /\ ~ compaction.on
      /\ \A s \in Turn : s # t => turn'[s] = turn[s] /\ turn[s].pc \in Resting
  BY OthersRest
<1>3. \A s \in Turn : s # t => turn'[s].pc \notin Streaming BY <1>2 DEF Resting, Streaming
<1>4. CASE compaction' = compaction
           /\ (turn'[t].pc \in Streaming => EndsWith(context'.history, turn'[t].step))
  <2>1. AtHand' BY <1>3, <1>4 DEF AtHand
  <2>2. SplitInv' BY <1>2, <1>4, SplitRests
  <2> QED BY <2>1, <2>2
<1>5. CASE beginStep(t)
  <2> DEFINE k == used.steps + 1
             m == Message("assistant", k)
  <2>1. PICK injects \in Injections :
          /\ context' = stepBegin(appendMessages(context, injects), k)
          /\ turn' = [turn EXCEPT ![t].pc = "stream", ![t].step = k, ![t].calls = 0,
                                  ![t].recorded = 0, ![t].returned = 0]
    BY <1>5 DEF beginStep
  <2>2. turn'[t].step = k BY <1>1, <2>1 DEF Workers
  <2> DEFINE d == appendMessages(context, injects)
             e == closePendingToolResults(d)
             u == e.history
  <2>3. d \in Contexts BY <1>1, InjectionsTyped, MessagesTouchNothing
  <2>4. u \in Seq(Msg)
    <3> HIDE DEF d
    <3> QED BY <2>3, CloseTyped, ContextFields
  <2>5. context'.history = Append(u, m)
    <3>1. k \in Nat /\ context' = stepBegin(d, k) BY <1>1, <2>1
    <3> HIDE DEF d, k
    <3> QED BY <2>3, <3>1, BeginFields
  <2>6. m \in Msg /\ IsStep(m) /\ m.id = k BY <1>1 DEF Message, Msg, IsStep
  <2> HIDE DEF u, m, k
  <2>7. Append(u, m) # <<>> /\ Append(u, m)[Len(Append(u, m))] = m BY <2>4, <2>6
  <2>8. EndsWith(context'.history, k) BY <2>5, <2>6, <2>7 DEF EndsWith
  <2>9. compaction' = compaction BY <1>5 DEF beginStep
  <2> QED BY <1>4, <2>2, <2>8, <2>9
<1>6. CASE recordToolCall(t)
  <2> DEFINE call == <<turn[t].step, turn[t].recorded + 1>>
             r == Record("tool.call", call)
             h == context.history
  <2>1. compaction' = compaction /\ turn[t].pc = "calls" BY <1>6 DEF recordToolCall
  <2>2. CASE throws(context, r)
    <3>1. end(t) BY <1>6, <2>2 DEF recordToolCall
    <3>2. turn'[t].pc = "ended" BY <1>1, <3>1 DEF end, Workers
    <3> QED BY <1>4, <2>1, <3>2 DEF Streaming
  <2>3. CASE ~ throws(context, r)
    <3>1. context' = toolCall(context, call)
          /\ turn' = [turn EXCEPT ![t].recorded = @ + 1,
                                  ![t].pc = IF call[2] = turn[t].calls THEN "results" ELSE @]
      BY <1>6, <2>3 DEF recordToolCall
    <3>2. call \in CallId BY <1>1 DEF Workers, CallId
    <3>3. turn'[t].step = turn[t].step BY <1>1, <3>1 DEF Workers
    <3> HIDE DEF call
    <3>4. context'.history = WithCall(h, call) BY <1>1, <3>1, <3>2, CallFields
    <3> DEFINE g == WithCall(h, call)
    <3>5. /\ g \in Seq(Msg) /\ Len(g) = Len(h)
          /\ \A i \in 1..Len(h) : g[i].role = h[i].role /\ g[i].id = h[i].id
      BY <1>1, <3>2, WithCallKeeps
    <3>6. EndsWith(h, turn[t].step) BY <2>1 DEF AtHand, Streaming
    <3> HIDE DEF g
    <3>7. EndsWith(g, turn[t].step)
      <4>1. h # <<>> /\ IsStep(h[Len(h)]) /\ h[Len(h)].id = turn[t].step BY <3>6 DEF EndsWith
      <4> HIDE DEF h
      <4>2. h \in Seq(Msg) BY <1>1 DEF h
      <4>3. Len(h) \in 1..Len(h) BY <4>1, <4>2
      <4>4. g # <<>> BY <3>5, <4>3
      <4> QED BY <3>5, <4>1, <4>3, <4>4 DEF EndsWith, IsStep
    <3> QED BY <1>4, <2>1, <3>3, <3>4, <3>7 DEF g
  <2> QED BY <2>2, <2>3
<1>7. CASE toolReminder(t)
  <2>1. /\ turn' = turn /\ compaction' = compaction /\ turn[t].pc \in Calling
        /\ turn[t].recorded > turn[t].returned
        /\ context' = appendMessage(context, Message("notice", used.appended + 1))
    BY <1>7 DEF toolReminder, Calling
  <2>2. Fine(turn[t], context.pendingToolResultIds) BY <2>1, AtWork DEF Resting, Calling
  <2>3. context.pendingToolResultIds = Awaited(turn[t]) BY <2>1, <2>2 DEF Fine
  <2>4. context.pendingToolResultIds # <<>>
    <3>1. 1 \in 1..(turn[t].recorded - turn[t].returned) BY <1>1, <2>1 DEF Workers
    <3>2. 1 \in DOMAIN Awaited(turn[t]) BY <3>1 DEF Awaited
    <3>3. DOMAIN <<>> = {} OBVIOUS
    <3> QED BY <2>3, <3>2, <3>3
  <2> DEFINE ms == <<Message("notice", used.appended + 1)>>
  <2>5. ms \in Seq(UserMsg) BY OneMessage, NumberedMessages DEF UserRoles
  <2>6. context' = appendMessages(context, ms) BY <2>1 DEF appendMessage
  <2> HIDE DEF ms
  <2>7. context'.history = context.history BY <1>1, <2>4, <2>5, <2>6, AppendFields
  <2>8. turn[t].pc \in Streaming => EndsWith(context.history, turn[t].step) BY DEF AtHand
  <2> QED BY <1>4, <2>1, <2>7, <2>8
<1> QED BY <1>5, <1>6, <1>7, HandSimple DEF worker

LEMMA HandKept ==
  ASSUME TypeInv, WorkInv, Guarded, AtHand, SplitInv, [Next]_vars
  PROVE  AtHand' /\ SplitInv'
<1>1. Undisturbed /\ Single /\ "compact" \notin Unguarded /\ \A what : May(what) => running = {}
  BY GuardedWork
<1>2. turn \in [Turn -> Workers] /\ context \in Contexts BY DEF TypeInv
<1>3. CASE launch \/ steer \/ UNCHANGED vars
  <2>1. compaction' = compaction /\ context' = context BY <1>3 DEF launch, steer, vars
  <2>2. \A s \in Turn : turn'[s] = turn[s] \/ turn'[s].pc = "launched"
    BY <1>2, <1>3 DEF launch, steer, vars, Worker
  <2>3. AtHand' BY <2>1, <2>2, HandRests DEF Streaming
  <2> QED BY <2>1, <2>3, SplitRests
<1>4. CASE cancel
  <2>1. context' = context BY <1>4 DEF cancel
  <2>2. compaction'.on => compaction' = compaction BY <1>4 DEF cancel, Idle
  <2>3. ASSUME NEW s \in Turn, turn'[s].pc \in Streaming
        PROVE  turn[s].pc \in Streaming /\ turn'[s].step = turn[s].step
    <3>1. turn[s] \in Workers BY <1>2
    <3> DEFINE p == IF turn[activeTurn].pc \in {"blocked", "overflowed"} THEN "ready"
                    ELSE turn[activeTurn].pc
    <3>2. turn' = [turn EXCEPT ![activeTurn].cancelled = TRUE, ![activeTurn].pc = p]
      BY <1>4 DEF cancel
    <3>3. p = "ready" \/ p = turn[activeTurn].pc OBVIOUS
    <3> HIDE DEF p
    <3>4. CASE s # activeTurn
      <4>1. turn'[s] = turn[s] BY <1>2, <3>2, <3>4
      <4> QED BY <2>3, <4>1
    <3>5. CASE s = activeTurn
      <4>1. turn'[s] = [turn[s] EXCEPT !.cancelled = TRUE, !.pc = p] BY <1>2, <3>2, <3>5
      <4>2. turn'[s].pc = p /\ turn'[s].step = turn[s].step BY <3>1, <4>1 DEF Workers
      <4> QED BY <2>3, <3>3, <3>5, <4>2 DEF Streaming
    <3> QED BY <3>4, <3>5
  <2>4. AtHand' BY <2>1, <2>3, HandRests
  <2> QED BY <2>1, <2>2, <2>4, SplitRests
<1>5. CASE remind
  <2>1. /\ compaction' = compaction /\ turn' = turn /\ running = {}
        /\ context' = appendMessage(context, Message("notice", used.appended + 1))
    BY <1>1, <1>5 DEF remind
  <2> DEFINE ms == <<Message("notice", used.appended + 1)>>
  <2>2. ms \in Seq(UserMsg) BY OneMessage, NumberedMessages DEF UserRoles
  <2>3. context' = appendMessages(context, ms) BY <2>1 DEF appendMessage
  <2> HIDE DEF ms
  <2>4. SplitInv' BY <1>2, <2>1, <2>2, <2>3, SplitsOn DEF SplitInv
  <2>5. \A s \in Turn : turn'[s].pc \notin Streaming BY <2>1 DEF running, Streaming
  <2>6. AtHand' BY <2>5, HandRests
  <2> QED BY <2>4, <2>6
<1>6. CASE undoHistory \/ clearContext
  <2>1. compaction' = compaction /\ turn' = turn /\ running = {} /\ ~ compaction.on
    BY <1>1, <1>6 DEF undoHistory, clearContext
  <2>2. \A s \in Turn : turn'[s].pc \notin Streaming BY <2>1 DEF running, Streaming
  <2>3. AtHand' BY <2>2, HandRests
  <2>4. ~ compaction'.on BY <2>1
  <2> QED BY <2>3, <2>4, SplitRests
<1>7. CASE \E t \in Turn : worker(t) BY <1>1, <1>7, HandWorks
<1>8. CASE manualCompaction
  <2>1. turn' = turn /\ context' = context /\ \E n : beginCompaction(n)
    BY <1>8 DEF manualCompaction
  <2>2. AtHand' BY <2>1, HandRests
  <2> QED BY <2>1, <2>2, SplitBegins
<1>9. CASE compactionDone \/ cancelCompaction \/ compactionFails
  <2>1. compaction.on /\ compaction' = Idle
    BY <1>9 DEF compactionDone, cancelCompaction, compactionFails
  <2>2. \A s \in Turn : turn[s].pc \in Waiting \cup Resting
    BY <1>1, <2>1, NothingPendingCompacts
  <2>3. \A s \in Turn : turn'[s] = unblock[s] \/ turn'[s] = [turn[s] EXCEPT !.pc = "ended"]
    BY <1>9 DEF compactionDone, cancelCompaction, compactionFails, unblock
  <2>4. ASSUME NEW s \in Turn PROVE turn'[s].pc \notin Streaming
    <3>1. turn[s] \in Workers BY <1>2
    <3>2. CASE turn'[s] = unblock[s]
      <4>1. CASE turn[s].pc \in Waiting BY <3>2, <4>1, Unblocked DEF Waiting, Streaming
      <4>2. CASE turn[s].pc \notin Waiting
        <5>1. turn'[s].pc = turn[s].pc /\ turn[s].pc \in Resting BY <2>2, <3>2, <4>2, Unblocked
        <5> QED BY <5>1 DEF Resting, Streaming
      <4> QED BY <4>1, <4>2
    <3>3. CASE turn'[s] = [turn[s] EXCEPT !.pc = "ended"]
      <4>1. turn'[s].pc = "ended" BY <3>1, <3>3 DEF Workers
      <4> QED BY <4>1 DEF Streaming
    <3> QED BY <2>3, <3>2, <3>3
  <2>5. AtHand' BY <2>4, HandRests
  <2>6. ~ compaction'.on BY <2>1 DEF Idle
  <2> QED BY <2>5, <2>6, SplitRests
<1>10. CASE crash
  <2>1. ~ compaction'.on BY <1>10 DEF crash, Idle
  <2>2. turn' = [t \in Turn |-> IF t \in running THEN Worker("ended") ELSE turn[t]]
    BY <1>10 DEF crash
  <2>3. Worker("ended").pc = "ended" BY DEF Worker
  <2>4. \A s \in Turn : turn'[s].pc \notin Streaming BY <2>2, <2>3 DEF running, Streaming
  <2>5. AtHand' BY <2>4, HandRests
  <2> QED BY <2>1, <2>5, SplitRests
<1> QED BY <1>3, <1>4, <1>5, <1>6, <1>7, <1>8, <1>9, <1>10 DEF Next

(* Steps are counted up.                                                   *)
LEMMA StepsGrow ==
  ASSUME TypeInv, [Next]_vars
  PROVE  used.steps \in Nat /\ used'.steps \in Nat /\ used.steps =< used'.steps
<1>1. used \in Uses /\ used.steps \in Nat BY DEF TypeInv, Uses
<1>2. CASE used'.steps = used.steps BY <1>1, <1>2
<1>3. CASE used'.steps # used.steps
  <2>1. PICK t \in Turn : beginStep(t) BY <1>3, OnlyBeginStepCounts
  <2>2. used'.steps = used.steps + 1 BY <1>1, <2>1 DEF beginStep, Uses
  <2> QED BY <1>1, <2>2
<1> QED BY <1>2, <1>3

LEMMA ExchangeInit == Init => ExchangeInv
<1> SUFFICES ASSUME Init PROVE ExchangeInv OBVIOUS
<1> DEFINE x == EmptyContext
<1>1. context = x /\ records = <<>> /\ compaction = Idle BY DEF Init
<1>2. used.steps = 0 /\ turn = [t \in Turn |-> Worker("unborn")] BY DEF Init
<1>3. AtHand
  <2>1. Worker("unborn").pc = "unborn" BY DEF Worker
  <2>2. \A t \in Turn : turn[t].pc = "unborn" BY <1>2, <2>1
  <2> QED BY <2>2 DEF AtHand, Streaming
<1>4. SplitInv BY <1>1 DEF SplitInv, Idle
<1>5. Sound(x, 0) BY EmptyFields, EmptyClosed DEF Sound
<1> HIDE DEF x
<1>6. Passes(<<>>) = {x} BY NothingToReplay DEF x
<1> QED BY <1>1, <1>2, <1>3, <1>4, <1>5, <1>6 DEF ExchangeInv

(* The records a step logs are permitted where it logs them.               *)
LEMMA LogsPermitted ==
  ASSUME TypeInv, WorkInv, Guarded, AtHand, SplitInv, NEW qs, Logs(qs),
         NEW f, Leads(f, context, qs, context'), NEW i \in 1..Len(qs)
  PROVE  ~ throws(f[i - 1], qs[i]) /\ Permitted(f[i - 1], qs[i], used.steps)
<1> DEFINE r == qs[i]
           p == context.pendingToolResultIds
<1>1. f[0] = context BY DEF Leads
<1>2. Warranted(r) /\ (r.type \in Alone => Len(qs) = 1) BY DEF Logs
<1>3. r.type \in Alone => f[i - 1] = context BY <1>1, <1>2
<1>4. Undisturbed /\ Single BY GuardedWork
<1>5. OwnStep BY <1>4 DEF WorkInv
<1> HIDE DEF r
<1>6. Begins(r) => r.arg = used.steps + 1 BY <1>2 DEF Warranted, Begins
<1>7. ASSUME r.type = "content.part" PROVE r.arg \in f[i - 1].openSteps
  <2>1. PICK t \in Turn : turn[t].pc = "stream" /\ r.arg = turn[t].step
    BY <1>2, <1>7 DEF Warranted
  <2>2. r.arg \in context.openSteps BY <1>5, <2>1 DEF OwnStep, InStep
  <2> QED BY <1>3, <1>7, <2>2 DEF Alone
<1>8. ASSUME r.type = "tool.call"
      PROVE  /\ StepOf(r.arg) \in f[i - 1].openSteps
             /\ EndsWith(f[i - 1].history, StepOf(r.arg))
             /\ r.arg \notin Range(f[i - 1].pendingToolResultIds)
  <2>1. PICK t \in Turn : turn[t].pc = "calls" /\ r.arg = <<turn[t].step, turn[t].recorded + 1>>
    BY <1>2, <1>8 DEF Warranted
  <2>2. f[i - 1] = context /\ StepOf(r.arg) = turn[t].step BY <1>3, <1>8, <2>1 DEF Alone, StepOf
  <2>3. turn[t].step \in context.openSteps BY <1>5, <2>1 DEF OwnStep, InStep
  <2>4. EndsWith(context.history, turn[t].step) BY <2>1 DEF AtHand, Streaming
  <2>5. Fine(turn[t], p) BY <1>4, <2>1, AtWork DEF Resting
  <2> DEFINE w == turn[t]
  <2>6. w.recorded \in Nat /\ w.returned = 0
    <3>1. w \in Workers BY DEF TypeInv
    <3>2. w.recorded \in Nat BY <3>1 DEF Workers
    <3> QED BY <2>1, <2>5, <3>2 DEF Fine
  <2>7. p = [k \in 1..(w.recorded - w.returned) |-> <<w.step, w.returned + k>>]
    BY <2>1, <2>5 DEF Fine, Calling, Awaited
  <2>8. r.arg \notin Range(p)
    <3> DEFINE n == w.recorded
               s == w.step
    <3>1. p = [k \in 1..(n - 0) |-> <<s, 0 + k>>] /\ r.arg = <<s, n + 1>> /\ n \in Nat
      BY <2>1, <2>6, <2>7
    <3> HIDE DEF p, n, s
    <3>2. \A k \in 1..(n - 0) : 0 + k # n + 1 BY <3>1
    <3>3. \A k \in 1..(n - 0) : <<s, 0 + k>> # <<s, n + 1>> BY <3>2
    <3> QED BY <3>1, <3>3 DEF Range
  <2> QED BY <2>2, <2>3, <2>4, <2>8
<1>9. ASSUME r.type = "apply_compaction"
      PROVE  f[i - 1].pendingToolResultIds = <<>> /\ SplitsAt(f[i - 1].history, r.arg[2])
  <2>1. f[i - 1] = context /\ compaction.on /\ r.arg[2] = compaction.compactedCount
    BY <1>2, <1>3, <1>9 DEF Alone, Warranted
  <2>2. p = <<>> BY <1>4, <2>1, NothingPendingCompacts
  <2> QED BY <2>1, <2>2 DEF SplitInv
<1>10. ~ throws(f[i - 1], r) BY <1>7, <1>8 DEF throws
<1>11. Permitted(f[i - 1], r, used.steps) BY <1>6, <1>8, <1>9 DEF Permitted
<1> QED BY <1>10, <1>11 DEF r

LEMMA ExchangeLogs ==
  ASSUME TypeInv, WorkInv, ReplayInv, ExchangeInv, Guarded, NEW qs, Logs(qs),
         used'.steps \in Nat, used.steps =< used'.steps
  PROVE  /\ Sound(context', used'.steps)
         /\ \A c \in Passes(records \o qs) : Sound(c, used'.steps)
<1> DEFINE a == used.steps
           b == used'.steps
<1>1. /\ context \in Contexts /\ records \in Seq(Records) /\ qs \in Seq(Records)
      /\ a \in Nat /\ b \in Nat /\ a =< b
  BY DEF TypeInv, Uses, Logs
<1>2. PICK f : Leads(f, context, qs, context') BY DEF Logs, Follows
<1>3. AtHand /\ SplitInv /\ Sound(context, a) /\ \A c \in Passes(records) : Sound(c, a)
  BY DEF ExchangeInv
<1>4. Rel(context, replay(records)) BY GuardedWork DEF ReplayInv
<1>5. \A i \in 1..Len(qs) : ~ throws(f[i - 1], qs[i]) /\ Permitted(f[i - 1], qs[i], a)
  BY <1>2, <1>3, LogsPermitted
<1>6. \A i \in 1..Len(qs) : Begins(qs[i]) =>
        b = a + 1 /\ \A j \in 1..Len(qs) : Begins(qs[j]) => i = j
  BY DEF Logs, BeginsOnce
<1> HIDE DEF a, b
<1> DEFINE x == context'
<1>7. Leads(f, context, qs, x) BY <1>2
<1> HIDE DEF x
<1>8. Sound(x, b) /\ \A c \in Passes(records \o qs) : Sound(c, b)
  BY <1>1, <1>3, <1>4, <1>5, <1>6, <1>7, SoundGoesOn
<1> QED BY <1>8 DEF x, b

LEMMA ExchangePrunes ==
  ASSUME TypeInv, OrderInv, WorkInv, ReplayInv, ExchangeInv, Guarded, PruneStep
  PROVE  Sound(context', used.steps)
<1> DEFINE d == replay(records)
           x == context'
<1>1. records \in Seq(Records) /\ context \in Contexts BY DEF TypeInv
<1>2. d \in Contexts /\ d \in Passes(records) BY <1>1, ReplayTyped
<1>3. Sound(d, used.steps) BY <1>2 DEF ExchangeInv
<1>4. Rel(x, d) BY ReplayPrunes, GuardedWork
<1>5. x \in Contexts BY <1>1, PruneFields DEF PruneStep
<1> HIDE DEF d, x
<1>6. x.history \in Seq(Msg) /\ d.history \in Seq(Msg) BY <1>2, <1>5, ContextFields
<1>7. Closed(x.history, d.pendingToolResultIds, used.steps)
  BY <1>3, <1>4, <1>6, AlikeClosed DEF Sound, Rel
<1> QED BY <1>4, <1>7 DEF Sound, Rel, x

LEMMA ExchangeCrash ==
  ASSUME TypeInv, ExchangeInv, Guarded, crash
  PROVE  /\ Sound(context', used.steps)
         /\ \A c \in Passes(records') : Sound(c, used.steps)
<1> DEFINE b == used.steps
<1>1. records \in Seq(Records) BY DEF TypeInv
<1>2. PICK n \in synced..Len(records) :
        LET found == SubSeq(records, 1, n)
            resumed == replay(found)
        IN  /\ found \in Seq(Records) /\ resumed \in Contexts
            /\ resumed \in Passes(records) /\ Passes(found) \subseteq Passes(records)
            /\ context' = finishResume(resumed)
            /\ records' = found \o InterruptedResults(resumed)
  BY CrashShape
<1> DEFINE rs == SubSeq(records, 1, n)
           c == replay(rs)
           qs == InterruptedResults(c)
           p == c.pendingToolResultIds
           G == [i \in 0..Len(qs) |-> {x \in Contexts : Sound(x, b)}]
<1>3. /\ rs \in Seq(Records) /\ c \in Contexts /\ c \in Passes(records)
      /\ Passes(rs) \subseteq Passes(records) /\ context' = finishResume(c)
      /\ records' = rs \o qs
  BY <1>2
<1>4. Sound(c, b) /\ \A x \in Passes(rs) : Sound(x, b) BY <1>3 DEF ExchangeInv
<1> HIDE DEF rs, b
<1>5. Sound(context', b)
  <2> HIDE DEF c
  <2> QED BY <1>3, <1>4, FinishSound
<1>6. /\ qs \in Seq(Records) /\ Len(qs) = Len(p)
      /\ \A i \in 1..Len(qs) : qs[i] = Record("tool.result", p[i]) /\ p[i] \in CallId
  <2> HIDE DEF c
  <2> QED BY <1>3, InterruptedTyped
<1>7. c = replay(rs) OBVIOUS
<1> HIDE DEF c, p, qs
<1>8. c \in G[0] BY <1>3, <1>4, <1>6
<1>9. \A x \in Contexts, z \in CallId :
        Sound(x, b) => restoreAgentRecord(x, Record("tool.result", z)) \in {y \in Contexts : Sound(y, b)}
  BY RestoreResult, ResultSound, ToolResultTyped
<1>10. ASSUME NEW i \in 1..Len(qs), NEW x \in G[i - 1], x \in Contexts
       PROVE  restoreAgentRecord(x, qs[i]) \in G[i]
  <2>1. i \in 0..Len(qs) /\ i - 1 \in 0..Len(qs) BY <1>6
  <2>2. Sound(x, b) BY <2>1
  <2> QED BY <1>6, <1>9, <1>10, <2>1, <2>2
<1>11. \A i \in 1..Len(qs) : \A x \in G[i] : Sound(x, b)
  <2>1. \A i \in 1..Len(qs) : i \in 0..Len(qs) BY <1>6
  <2> QED BY <2>1
<1> HIDE DEF G
<1>12. \A x \in Passes(rs \o qs) : x \in Passes(rs) \/ \E i \in 1..Len(qs) : x \in G[i]
  BY <1>3, <1>6, <1>7, <1>8, <1>10, ReplayGoesOn
<1>13. \A x \in Passes(rs \o qs) : Sound(x, b) BY <1>4, <1>11, <1>12
<1> QED BY <1>3, <1>5, <1>13 DEF b

LEMMA ExchangeKept ==
  ASSUME TypeInv, OrderInv, WorkInv, ReplayInv, ExchangeInv, [Next]_vars
  PROVE  ExchangeInv'
<1>1. Guarded' <=> Guarded
  <2>1. used'.scenario = used.scenario BY ScenarioStays
  <2> QED BY <2>1 DEF Guarded, Unguarded
<1>2. SUFFICES ASSUME Guarded
               PROVE  /\ AtHand' /\ SplitInv'
                      /\ Sound(context', used'.steps)
                      /\ \A c \in Passes(records') : Sound(c, used'.steps)
  <2>1. ExchangeInv' <=> (Guarded' => /\ AtHand' /\ SplitInv'
                                      /\ Sound(context', used'.steps)
                                      /\ \A c \in Passes(records') : Sound(c, used'.steps))
    BY DEF ExchangeInv
  <2> QED BY <1>1, <2>1
<1>3. AtHand /\ SplitInv BY <1>2 DEF ExchangeInv
<1>4. AtHand' /\ SplitInv' BY <1>2, <1>3, HandKept
<1>5. used'.steps \in Nat /\ used.steps =< used'.steps BY StepsGrow
<1>6. ASSUME NEW qs, Logs(qs)
      PROVE  /\ Sound(context', used'.steps)
             /\ \A c \in Passes(records') : Sound(c, used'.steps)
  <2>1. records' = records \o qs BY <1>6 DEF Logs
  <2>2. /\ Sound(context', used'.steps)
        /\ \A c \in Passes(records \o qs) : Sound(c, used'.steps)
    BY <1>2, <1>5, <1>6, ExchangeLogs
  <2> QED BY <2>1, <2>2
<1>7. CASE PruneStep
  <2>1. records' = records /\ used' = used BY <1>7 DEF PruneStep
  <2>2. Sound(context', used.steps) BY <1>2, <1>7, ExchangePrunes
  <2>3. \A c \in Passes(records) : Sound(c, used.steps) BY <1>2 DEF ExchangeInv
  <2> QED BY <1>4, <2>1, <2>2, <2>3
<1>8. CASE crash
  <2>1. used'.steps = used.steps
    <3>1. used \in Uses BY DEF TypeInv
    <3> QED BY <1>8, <3>1 DEF crash, Uses
  <2>2. /\ Sound(context', used.steps)
        /\ \A c \in Passes(records') : Sound(c, used.steps)
    BY <1>2, <1>8, ExchangeCrash
  <2> QED BY <1>4, <2>1, <2>2
<1> QED BY <1>4, <1>6, <1>7, <1>8, StepLogs DEF LogStep

LEMMA ExchangeHolds == Spec => []ExchangeInv
<1>1. TypeInv /\ OrderInv /\ WorkInv /\ ReplayInv /\ ExchangeInv /\ [Next]_vars => ExchangeInv'
  BY ExchangeKept
<1> QED BY <1>1, ExchangeInit, ContextTypes, OrderHolds, WorkHolds, ReplayHolds, PTL DEF Spec

(* The results of message i, read off a closed history.                    *)
LEMMA AnsweredAre ==
  ASSUME NEW h \in Seq(Msg), NEW i \in 1..Len(h), NEW x
  PROVE  x \in Answered(h, i) <=> \E k \in (i + 1)..Len(h) : Results(h, i, k) /\ h[k].id = x
BY DEF Answered, Results, IsTool

(* As many as there are messages behind i, if they are all results.        *)
LEMMA AnsweredCount ==
  ASSUME NEW h \in Seq(Msg), NEW i \in 1..Len(h), Once(h), Results(h, i, Len(h))
  PROVE  i + Cardinality(Answered(h, i)) = Len(h)
<1> DEFINE n == Len(h)
           I == (i + 1)..n
           A == Answered(h, i)
           f == [k \in I |-> h[k].id]
<1>1. n \in Nat /\ i \in 1..n OBVIOUS
<1>2. \A k \in I : k \in 1..n /\ IsTool(h[k]) /\ Results(h, i, k) BY DEF Results
<1>3. \A x : x \in A <=> \E k \in I : Results(h, i, k) /\ h[k].id = x BY AnsweredAre
<1> HIDE DEF A, n
<1>4. \A x : x \in A <=> \E k \in I : f[k] = x BY <1>2, <1>3
<1>5. \A j, k \in I : f[j] = f[k] => j = k BY <1>2 DEF Once, n
<1>6. DOMAIN f = I OBVIOUS
<1>7. f \in [I -> A] BY <1>4
<1> HIDE DEF f
<1>8. f \in Bijection(I, A) BY <1>4, <1>5, <1>7
  DEF Bijection, Injection, Surjection, IsInjective
<1>9. ExistsBijection(I, A) BY <1>8 DEF ExistsBijection
<1>10. IsFiniteSet(I) /\ Cardinality(I) = IF i + 1 > n THEN 0 ELSE n - (i + 1) + 1
  BY <1>1, FS_Interval
<1>11. Cardinality(A) = Cardinality(I) BY <1>9, <1>10, FS_Bijection
<1> QED BY <1>1, <1>10, <1>11 DEF A, n

(* What is said of a sound conversation is what the class promises.        *)
LEMMA SoundExchanges ==
  ASSUME TypeInv, Sound(context, used.steps)
  PROVE  ToolExchangesClosed
<1> DEFINE h == context.history
           p == context.pendingToolResultIds
           n == Len(h)
<1>1. h \in Seq(Msg) /\ p \in Seq(CallId) BY ContextFields DEF TypeInv
<1>2. Owned(h) /\ Once(h) /\ Settled(h, p) /\ Missing(h, p) /\ Named(h)
  BY DEF Sound, Closed
<1> HIDE DEF h, p
<1>3. DOMAIN h = 1..n BY <1>1
<1>4. \A i \in 1..n : \A x : x \in Answered(h, i) <=>
                              \E k \in (i + 1)..n : Results(h, i, k) /\ h[k].id = x
  BY <1>1, AnsweredAre
<1>5. \A i, j \in DOMAIN h :
        i # j /\ h[i].role \in ToolRoles /\ h[j].role \in ToolRoles => h[i].id # h[j].id
  BY <1>2, <1>3 DEF Once, IsTool
<1>6. ASSUME NEW i \in DOMAIN h, h[i].role \in ToolRoles
      PROVE  \E j \in 1..(i - 1) : h[i].id \in h[j].calls /\ h[i].id \in Answered(h, j)
  <2>1. PICK j \in 1..(i - 1) : h[i].id \in h[j].calls /\ Results(h, j, i)
    BY <1>2, <1>3, <1>6 DEF Owned, IsTool
  <2>2. i \in 1..n /\ n \in Nat BY <1>1, <1>3
  <2> HIDE DEF n
  <2>3. j \in 1..n /\ i \in (j + 1)..n BY <2>2
  <2> QED BY <1>4, <2>1, <2>3
<1>7. \A i \in 1..n : \A x :
        x \in Unanswered(h, i) <=> x \in h[i].calls /\ x \notin Answered(h, i)
  BY <1>2 DEF Unanswered, Named, IsStep
<1>8. ASSUME NEW i \in 1..n, NEW x \in Unanswered(h, i)
      PROVE  x \in Range(p) /\ Results(h, i, n)
  <2>1. x \in h[i].calls /\ ~ \E k \in (i + 1)..n : Results(h, i, k) /\ h[k].id = x
    BY <1>4, <1>7
  <2> QED BY <1>2, <2>1 DEF Settled
<1>9. \A i \in DOMAIN h : Unanswered(h, i) # {} => i + Cardinality(Answered(h, i)) = n
  BY <1>1, <1>2, <1>3, <1>8, AnsweredCount
<1>10. ASSUME NEW x \in Range(p) PROVE \E i \in DOMAIN h : x \in Unanswered(h, i)
  <2>1. PICK i \in 1..n : x \in h[i].calls BY <1>2 DEF Missing
  <2>2. \A k \in 1..n : IsTool(h[k]) => h[k].id # x BY <1>2 DEF Missing
  <2>3. n \in Nat /\ i \in 1..n BY <1>1
  <2> HIDE DEF n
  <2>4. x \notin Answered(h, i)
    <3>1. ASSUME NEW k \in (i + 1)..n, Results(h, i, k) PROVE h[k].id # x
      <4>1. k \in 1..n /\ k \in (i + 1)..k BY <2>3
      <4> QED BY <2>2, <3>1, <4>1 DEF Results
    <3> QED BY <1>4, <3>1
  <2> QED BY <1>3, <1>7, <2>1, <2>4
<1>11. Range(p) = UNION {Unanswered(h, i) : i \in DOMAIN h} BY <1>3, <1>8, <1>10
<1> QED BY <1>5, <1>6, <1>9, <1>11 DEF ToolExchangesClosed, h, p

(* Under guard every result directly follows the step that made its call,  *)
(* once, and the calls without one are those pending, all of the last      *)
(* step; and guarded or not only an open exchange holds messages back.     *)
THEOREM ExchangesClosed == Spec => []ExchangesStayClosed
<1>1. ASSUME TypeInv, OrderInv, ExchangeInv PROVE ExchangesStayClosed
  <2>1. Guarded => ToolExchangesClosed BY <1>1, SoundExchanges DEF ExchangeInv
  <2>2. context.deferredMessages # <<>> => hasOpenToolExchange(context)
    BY <1>1 DEF OrderInv, Ordered, hasOpenToolExchange
  <2> QED BY <2>1, <2>2 DEF ExchangesStayClosed
<1> QED BY <1>1, ContextTypes, OrderHolds, ExchangeHolds, PTL
=============================================================================
