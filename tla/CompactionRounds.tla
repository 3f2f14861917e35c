--------------------------- MODULE CompactionRounds ---------------------------
(***************************************************************************)
(* What a compaction does with a history: how many messages it takes       *)
(* (DefaultCompactionStrategy in agent/compaction/strategy.ts), how it     *)
(* tries again when they are too many, how rounds follow one another, and  *)
(* the pruning it falls back on (compactionWorker and compactionRound in   *)
(* agent/compaction/full.ts).  Nobody else changes the history here; who   *)
(* may, and when, is in AgentContext.                                      *)
(***************************************************************************)
EXTENDS ContextMemory, FiniteSetsExt

CONSTANTS MaxMessages,          \* bound: length of the first history
          Sizes,                \* bound: sizes of its messages, in tokens
          MaxSize,              \* the window of the model
          BlockSize,            \* from which a turn is blocked
          MaxRecentMessages, MaxRecentSize, MinReducedSize,
          SummarySize, PrunedSize,
          MinSaved,             \* what a round must save to be followed by another
          MaxAttempts           \* attempts of a round

ASSUME CompactionConstants ==
  /\ {MaxMessages, MaxSize, BlockSize, MaxRecentMessages, MinSaved, MaxAttempts}
       \subseteq Nat \ {0}
  /\ {MaxRecentSize, MinReducedSize, SummarySize, PrunedSize} \subseteq Nat
  /\ Sizes \subseteq Nat

VARIABLES messages, source, pc, compactedCount, retryCount

vars == <<messages, source, pc, compactedCount, retryCount>>

-----------------------------------------------------------------------------
(* Histories: the kinds of their messages, "0".."2" an assistant with so   *)
(* many calls.  A tool result follows its call or another of its results.  *)

Kinds == {"user", "0", "1", "2", "tool"}
CallsOf(kind) == CASE kind = "1" -> 1 [] kind = "2" -> 2 [] OTHER -> 0
Asks == {"1", "2"}

Owner(ks, i) == Max({j \in 0..(i - 1) : j = 0 \/ ks[j] # "tool"})

WellFormed(ks) ==
  \A i \in DOMAIN ks :
    /\ ks[i] = "tool" => LET o == Owner(ks, i) IN o > 0 /\ i - o <= CallsOf(ks[o])
    /\ ks[i] # "tool" /\ i > 1
         => LET o == Owner(ks, i) IN o > 0 /\ i - 1 - o >= CallsOf(ks[o])

Instance(ks, sizes) ==
  [i \in DOMAIN ks |->
     [role  |-> CASE ks[i] \in {"user", "tool"} -> ks[i] [] OTHER -> "assistant",
      id    |-> IF ks[i] = "tool" THEN <<Owner(ks, i), i - Owner(ks, i)>> ELSE i,
      calls |-> {<<i, k>> : k \in 1..CallsOf(ks[i])},
      size  |-> sizes[i]]]

Histories ==
  UNION {UNION {{Instance(ks, sizes) : sizes \in [1..n -> Sizes]} :
                  ks \in {k \in [1..n -> Kinds] : WellFormed(k)}} : n \in 1..MaxMessages}

Prefix(h, n) == SubSeq(h, 1, n)

(* Of the first n messages, for each n; of all; and of the last r.         *)
TokensUpTo(h) ==
  LET sum[n \in 0..Len(h)] == IF n = 0 THEN 0 ELSE sum[n - 1] + h[n].size
  IN  sum

Tokens(h) == TokensUpTo(h)[Len(h)]
RecentTokens(h, r) == Tokens(h) - TokensUpTo(h)[Len(h) - r]

-----------------------------------------------------------------------------
(* The strategy.                                                           *)

fitCompactCountToWindow_unsplit(h, n) ==
  LET fitting == {k \in 1..(n - 1) : TokensUpTo(h)[k] <= MaxSize}
  IN  IF n = 0 \/ TokensUpTo(h)[n] <= MaxSize \/ fitting = {} THEN n ELSE Max(fitting)

(* The most that fits, or else the least that can be split off.            *)
fitCompactCountToWindow(h, n) ==
  LET safe    == {k \in 1..(n - 1) : canSplitAfter(h, k)}
      fitting == {k \in safe : TokensUpTo(h)[k] <= MaxSize}
  IN  IF n = 0 \/ TokensUpTo(h)[n] <= MaxSize THEN n
      ELSE IF fitting # {} THEN Max(fitting)
      ELSE IF safe # {} THEN Min(safe) ELSE n

reachesMax_exceeds(h, r) == r > MaxRecentMessages \/ RecentTokens(h, r) > MaxRecentSize

reachesMax(h, r) == r >= MaxRecentMessages \/ RecentTokens(h, r) >= MaxRecentSize

(* Looks at more and more recent messages, until there are enough and some *)
(* split has been found.                                                   *)
recentSplit(h) ==
  LET scan[r \in 0..(Len(h) - 1)] ==
        IF r = 0 THEN [best |-> 0, over |-> FALSE]
        ELSE LET best == IF canSplitAfter(h, Len(h) - r) THEN Len(h) - r ELSE scan[r - 1].best
             IN  IF scan[r - 1].over THEN scan[r - 1]
                 ELSE [best |-> best, over |-> reachesMax(h, r) /\ best # 0]
  IN  scan[Len(h) - 1].best

manualSplit(h) == Max({0} \cup {n \in 2..Len(h) : canSplitAfter(h, n)})

computeCompactCount(h, src) ==
  fitCompactCountToWindow(h, IF src = "manual" THEN manualSplit(h) ELSE recentSplit(h))

reduceCompactOnOverflow_stays(h) == Len(h)

(* Of the messages the model refused, less by a minimum if that can be.    *)
reduceCompactOnOverflow(h) ==
  LET safe   == {n \in 2..(Len(h) - 1) : canSplitAfter(h, n)}
      enough == {n \in safe : RecentTokens(h, Len(h) - n) >= MinReducedSize}
  IN  IF enough # {} THEN Max(enough) ELSE IF safe # {} THEN Min(safe) ELSE Len(h)

firstPrunable(h) == SelectInSeq(h, LAMBDA m : m.role \in ToolRoles)

-----------------------------------------------------------------------------
Init ==
  /\ messages \in Histories
  /\ source \in {"auto", "manual"}
  /\ pc = "begin"
  /\ compactedCount = 0
  /\ retryCount = 0

begin ==
  /\ pc \in {"begin", "round"}
  /\ LET n == computeCompactCount(messages, source)
     IN  /\ compactedCount' = n
         /\ pc' = IF n > 0 THEN "generate" ELSE IF pc = "begin" THEN "unable" ELSE "done"
  /\ retryCount' = 0
  /\ UNCHANGED <<messages, source>>

retry(n) ==
  /\ compactedCount' = n
  /\ retryCount' = retryCount + 1
  /\ pc' = IF retryCount + 1 >= MaxAttempts THEN "prune" ELSE pc
  /\ UNCHANGED <<messages, source>>

(* The request for the summary is too large, or its answer is cut.         *)
overflow == pc = "generate" /\ retry(reduceCompactOnOverflow(Prefix(messages, compactedCount)))

transientError == pc = "generate" /\ retry(compactedCount)

fatalError ==
  /\ pc = "generate"
  /\ pc' = "prune"
  /\ UNCHANGED <<messages, source, compactedCount, retryCount>>

Compacted ==
  <<[role |-> "summary", id |-> 0, calls |-> {}, size |-> SummarySize]>> \o
  SubSeq(messages, compactedCount + 1, Len(messages))

worthAnother_always(before, after) == Tokens(after) >= BlockSize

(* Another round, if this one saved enough and the rest still blocks.      *)
worthAnother(before, after) ==
  Tokens(after) + MinSaved <= Tokens(before) /\ Tokens(after) >= BlockSize

answer ==
  /\ pc = "generate"
  /\ messages' = Compacted
  /\ pc' = IF worthAnother(messages, Compacted) THEN "round" ELSE "done"
  /\ UNCHANGED <<source, compactedCount, retryCount>>

(* hardPrune: the first tool result is cut as long as there are too many   *)
(* tokens.                                                                 *)
prune ==
  /\ pc = "prune"
  /\ IF Tokens(messages) > MaxSize /\ Len(messages) > 2 /\ firstPrunable(messages) > 0
       THEN /\ messages' = [messages EXCEPT ![firstPrunable(messages)].role = "pruned",
                                            ![firstPrunable(messages)].size = PrunedSize]
            /\ UNCHANGED pc
       ELSE pc' = "done" /\ UNCHANGED messages
  /\ UNCHANGED <<source, compactedCount, retryCount>>

Next == begin \/ overflow \/ transientError \/ fatalError \/ answer \/ prune

Spec == Init /\ [][Next]_vars /\ WF_vars(Next)

-----------------------------------------------------------------------------
(* Whatever was compacted or cut, a tool result follows the message that   *)
(* asked for it, and a result still awaited has its call in the history.   *)
Awaited(h) == (UNION {h[i].calls : i \in DOMAIN h})
                \ {h[i].id : i \in {i \in DOMAIN h : h[i].role \in ToolRoles}}

ExchangesStayWhole ==
  /\ \A i \in DOMAIN messages :
       messages[i].role \in ToolRoles
         => \E j \in 1..(i - 1) : messages[i].id \in messages[j].calls

AwaitedStay == [][Awaited(messages') = Awaited(messages)]_vars

(* An automatic compaction keeps recent messages up to and with the one    *)
(* that reaches a limit: of the splits that keep no more than that the     *)
(* first, and if there is none the last.                                   *)
MayKeep(h) == {r \in 1..(Len(h) - 1) : \A k \in 1..(r - 1) :
                 k < MaxRecentMessages /\ RecentTokens(h, k) < MaxRecentSize}

RecentMessagesKept ==
  pc \in {"begin", "round"} /\ source = "auto" =>
    LET safe   == {n \in 1..(Len(messages) - 1) : canSplitAfter(messages, n)}
        within == {n \in safe : Len(messages) - n \in MayKeep(messages)}
    IN  recentSplit(messages) = IF within # {} THEN Min(within)
                                ELSE IF safe # {} THEN Max(safe) ELSE 0

(* A refused request is followed by a smaller one, unless there is none.   *)
OverflowShrinks ==
  [][overflow => \/ compactedCount' < compactedCount
                 \/ \A n \in 2..(compactedCount - 1) : ~ canSplitAfter(messages, n)]_vars

(* A compaction comes to its end, or to the pruning.                       *)
RoundsEnd == <>(pc \in {"unable", "done", "prune"})

(* Pruning is what a failed compaction falls back on: it ends.             *)
PruningEnds == pc = "prune" ~> pc = "done"
=============================================================================
