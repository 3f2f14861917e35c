------------------------ MODULE CompactionRoundsProofs ------------------------
(***************************************************************************)
(* Proofs about CompactionRounds.                                          *)
(***************************************************************************)
EXTENDS CompactionRounds, FiniteSetTheorems, WellFoundedInduction, TLAPS

Msg == [role  : {"user", "assistant", "tool", "pruned", "summary"},
        id    : Nat \cup (Nat \X Nat),
        calls : SUBSET (Nat \X Nat),
        size  : Nat]

-----------------------------------------------------------------------------
(* Numbers.                                                                *)

LEMMA LeastElement ==
  ASSUME NEW S, S \subseteq Nat, S # {}
  PROVE  Min(S) \in S /\ \A n \in S : Min(S) =< n
<1> DEFINE R == OpToRel(<, Nat)
<1>1. IsWellFoundedOn(R, Nat) BY NatLessThanWellFounded
<1> HIDE DEF R
<1>2. PICK m \in S : \A n \in S : ~ (<<n, m>> \in R) BY <1>1, WFMin
<1>3. \A n \in S : <<n, m>> \in R <=> n < m BY DEF R, OpToRel
<1>4. \A n \in S : m =< n
  <2> TAKE n \in S
  <2>1. ~ (n < m) BY <1>2, <1>3
  <2>2. m \in Nat /\ n \in Nat OBVIOUS
  <2> QED BY <2>1, <2>2
<1> QED BY <1>4 DEF Min

(* The greatest of a set of numbers that has a bound.                      *)
LEMMA Greatest ==
  ASSUME NEW S, S \subseteq Nat, S # {}, NEW b \in Nat, \A n \in S : n =< b
  PROVE  Max(S) \in S /\ \A n \in S : n =< Max(S)
<1> DEFINE U == {c \in Nat : \A n \in S : n =< c}
<1>1. PICK m \in U : \A c \in U : m =< c
  <2>1. U \subseteq Nat /\ b \in U OBVIOUS
  <2> HIDE DEF U
  <2> QED BY <2>1, LeastElement
<1>2. m \in Nat /\ \A n \in S : n =< m OBVIOUS
<1>3. m \in S
  <2>1. SUFFICES ASSUME m \notin S PROVE FALSE OBVIOUS
  <2>2. \A n \in S : n \in Nat /\ n =< m /\ n # m BY <1>2, <2>1
  <2>3. PICK x \in S : TRUE OBVIOUS
  <2>4. m - 1 \in Nat /\ m - 1 < m BY <1>2, <2>2, <2>3
  <2>5. \A n \in S : n =< m - 1 BY <1>2, <2>2
  <2>6. m - 1 \in U BY <2>4, <2>5
  <2> HIDE DEF U
  <2>7. m =< m - 1 BY <1>1, <2>6
  <2> QED BY <1>2, <2>4, <2>7
<1> QED BY <1>2, <1>3 DEF Max

(* A function on 0..n may be defined by its value at 0 and the step from   *)
(* each number to the next.                                                *)
Definable(n, S, a, step) ==
  \E g \in [0..n -> S] : g[0] = a /\ \A i \in 1..n : g[i] = step[i][g[i - 1]]

LEMMA Recursion ==
  ASSUME NEW n \in Nat, NEW S, NEW a \in S, NEW step \in [1..n -> [S -> S]]
  PROVE  Definable(n, S, a, step)
<1> DEFINE Upto(k, g) == g \in [0..k -> S] /\ g[0] = a
                         /\ \A i \in 1..k : g[i] = step[i][g[i - 1]]
           T == {k \in 0..n : ~ \E g : Upto(k, g)}
<1>1. SUFFICES ASSUME T # {} PROVE FALSE
  <2>1. n \in 0..n OBVIOUS
  <2>2. n \notin T OBVIOUS
  <2>3. \E g : Upto(n, g) BY <2>1, <2>2
  <2> QED BY <2>3 DEF Definable
<1>2. PICK m \in T : \A k \in T : m =< k
  <2>1. T \subseteq Nat OBVIOUS
  <2> HIDE DEF T
  <2>2. Min(T) \in T /\ \A k \in T : Min(T) =< k BY <1>1, <2>1, LeastElement
  <2> QED BY <2>2
<1>3. m \in 0..n /\ ~ \E g : Upto(m, g) OBVIOUS
<1>4. CASE m = 0
  <2> DEFINE g == [i \in 0..0 |-> a]
  <2>1. Upto(0, g) OBVIOUS
  <2> QED BY <1>3, <1>4, <2>1
<1>5. CASE m # 0
  <2> DEFINE k == m - 1
  <2>1. k \in 0..n /\ k + 1 = m /\ k < m /\ m \in 1..n BY <1>3, <1>5
  <2>2. k \notin T
    <3>1. ASSUME k \in T PROVE FALSE
      <4>1. m =< k BY <1>2, <3>1
      <4> QED BY <1>3, <2>1, <4>1
    <3> QED BY <3>1
  <2>3. PICK g : Upto(k, g) BY <2>1, <2>2
  <2> HIDE DEF k
  <2>4. g \in [0..k -> S] /\ g[0] = a /\ \A i \in 1..k : g[i] = step[i][g[i - 1]] BY <2>3
  <2> DEFINE e == [i \in 0..m |-> IF i = m THEN step[m][g[k]] ELSE g[i]]
  <2>5. k \in 0..k /\ g[k] \in S BY <2>1, <2>4
  <2>6. step[m] \in [S -> S] BY <2>1
  <2>7. step[m][g[k]] \in S BY <2>5, <2>6
  <2>8. \A i \in 0..m : i # m => i \in 0..k BY <1>3, <2>1
  <2>9. e \in [0..m -> S] BY <2>4, <2>7, <2>8
  <2>10. e[0] = a BY <1>3, <1>5, <2>4
  <2>11. ASSUME NEW i \in 1..m PROVE e[i] = step[i][e[i - 1]]
    <3>1. i \in 0..m /\ i - 1 \in 0..m /\ i - 1 # m BY <1>3
    <3>2. e[i - 1] = g[i - 1] BY <3>1
    <3>3. CASE i = m
      <4>1. i - 1 = k BY <2>1, <3>3
      <4> QED BY <3>1, <3>2, <3>3, <4>1
    <3>4. CASE i # m
      <4>1. i \in 1..k BY <1>3, <2>1, <3>4
      <4> QED BY <2>4, <3>1, <3>2, <3>4, <4>1
    <3> QED BY <3>3, <3>4
  <2>12. Upto(m, e)
    <3> HIDE DEF e
    <3> QED BY <2>9, <2>10, <2>11
  <2> QED BY <1>3, <2>12
<1> QED BY <1>4, <1>5

-----------------------------------------------------------------------------
(* Tokens.                                                                 *)

LEMMA UpToEquation ==
  ASSUME NEW h \in Seq(Msg)
  PROVE  /\ TokensUpTo(h) \in [0..Len(h) -> Nat]
         /\ TokensUpTo(h)[0] = 0
         /\ \A n \in 1..Len(h) : TokensUpTo(h)[n] = TokensUpTo(h)[n - 1] + h[n].size
<1> DEFINE len == Len(h)
           size(n) == h[n].size
           Sums(s) == s = [n \in 0..len |-> IF n = 0 THEN 0 ELSE s[n - 1] + size(n)]
           t == TokensUpTo(h)
<1>1. len \in Nat OBVIOUS
<1>2. \A i \in 1..len : size(i) \in Nat
  <2> TAKE i \in 1..len
  <2>1. h[i] \in Msg OBVIOUS
  <2> QED BY <2>1 DEF Msg
<1>3. t = CHOOSE s : Sums(s) BY DEF TokensUpTo
<1> SUFFICES t \in [0..len -> Nat] /\ t[0] = 0 /\ \A n \in 1..len : t[n] = t[n - 1] + size(n)
  OBVIOUS
<1> HIDE DEF len, size, t
<1>4. \E s \in [0..len -> Nat] : Sums(s)
  <2> DEFINE N == Nat
             step == [i \in 1..len |-> [x \in N |-> x + size(i)]]
  <2>1. step \in [1..len -> [N -> N]] /\ 0 \in N BY <1>2
  <2>2. \A i \in 1..len, x \in N : step[i][x] = x + size(i) OBVIOUS
  <2> HIDE DEF step, N, Sums
  <2>3. Definable(len, N, 0, step) BY <1>1, <2>1, Recursion
  <2>4. PICK g \in [0..len -> N] : g[0] = 0 /\ \A i \in 1..len : g[i] = step[i][g[i - 1]]
    BY <2>3 DEF Definable
  <2>5. ASSUME NEW n \in 0..len PROVE g[n] = IF n = 0 THEN 0 ELSE g[n - 1] + size(n)
    <3>1. CASE n = 0 BY <2>4, <3>1
    <3>2. CASE n # 0
      <4>1. n \in 1..len /\ n - 1 \in 0..len BY <1>1, <3>2
      <4>2. g[n - 1] \in N BY <4>1
      <4> QED BY <2>2, <2>4, <3>2, <4>1, <4>2
    <3> QED BY <3>1, <3>2
  <2>6. Sums(g) BY <2>5 DEF Sums
  <2>7. g \in [0..len -> Nat] BY DEF N
  <2> QED BY <2>6, <2>7
<1>5. Sums(t)
  <2> HIDE DEF Sums
  <2>1. Sums(CHOOSE s : Sums(s)) BY <1>4
  <2> QED BY <1>3, <2>1
<1>6. DOMAIN t = 0..len BY <1>5
<1>7. \A n \in 0..len : t[n] = IF n = 0 THEN 0 ELSE t[n - 1] + size(n) BY <1>5
<1>8. t = [n \in 0..len |-> t[n]] BY <1>5, <1>6
<1> HIDE DEF Sums
<1>9. t[0] = 0 /\ \A n \in 1..len : t[n] = t[n - 1] + size(n)
  <2>1. 0 \in 0..len /\ \A n \in 1..len : n \in 0..len /\ n # 0 BY <1>1
  <2> QED BY <1>7, <2>1
<1>10. \A n \in 0..len : t[n] \in Nat
  <2> DEFINE T == {n \in 0..len : t[n] \notin Nat}
  <2>1. SUFFICES ASSUME T # {} PROVE FALSE OBVIOUS
  <2>2. PICK m \in T : \A k \in T : m =< k
    <3>1. T \subseteq Nat OBVIOUS
    <3> HIDE DEF T
    <3>2. Min(T) \in T /\ \A k \in T : Min(T) =< k BY <2>1, <3>1, LeastElement
    <3> QED BY <3>2
  <2>3. m \in 0..len /\ t[m] \notin Nat OBVIOUS
  <2>4. m # 0 BY <1>9, <2>3
  <2>5. m \in 1..len /\ m - 1 \in 0..len /\ m - 1 < m BY <1>1, <2>3, <2>4
  <2>6. m - 1 \notin T
    <3>1. ASSUME m - 1 \in T PROVE FALSE
      <4>1. m =< m - 1 BY <2>2, <3>1
      <4> QED BY <2>5, <4>1
    <3> QED BY <3>1
  <2>7. t[m - 1] \in Nat BY <2>5, <2>6
  <2> HIDE DEF T
  <2>8. t[m] = t[m - 1] + size(m) /\ size(m) \in Nat BY <1>2, <1>9, <2>5
  <2> QED BY <2>3, <2>7, <2>8
<1> QED BY <1>8, <1>9, <1>10

LEMMA TokensGrow ==
  ASSUME NEW h \in Seq(Msg), NEW n \in 0..Len(h), NEW m \in 0..n
  PROVE  /\ TokensUpTo(h)[m] \in Nat /\ TokensUpTo(h)[n] \in Nat
         /\ TokensUpTo(h)[m] =< TokensUpTo(h)[n]
<1> DEFINE len == Len(h)
           t == TokensUpTo(h)
           size(k) == h[k].size
<1>1. len \in Nat OBVIOUS
<1>2. t \in [0..len -> Nat] /\ \A k \in 1..len : t[k] = t[k - 1] + size(k) /\ size(k) \in Nat
  <2>1. \A k \in 1..len : h[k] \in Msg OBVIOUS
  <2>2. \A k \in 1..len : size(k) \in Nat BY <2>1 DEF Msg
  <2> QED BY <2>2, UpToEquation
<1> SUFFICES t[m] \in Nat /\ t[n] \in Nat /\ t[m] =< t[n] OBVIOUS
<1>3. m \in 0..len /\ n \in 0..len BY <1>1
<1> HIDE DEF t, size, len
<1>4. \A k \in 0..len : t[k] \in Nat BY <1>2
<1> DEFINE T == {k \in 0..len : m =< k /\ ~ (t[m] =< t[k])}
<1>5. SUFFICES ASSUME T # {} PROVE FALSE BY <1>3, <1>4
<1>6. PICK k \in T : \A i \in T : k =< i
  <2>1. T \subseteq Nat OBVIOUS
  <2> HIDE DEF T
  <2>2. Min(T) \in T /\ \A i \in T : Min(T) =< i BY <1>5, <2>1, LeastElement
  <2> QED BY <2>2
<1>7. k \in 0..len /\ m =< k /\ ~ (t[m] =< t[k]) OBVIOUS
<1>8. k # m BY <1>3, <1>4, <1>7
<1>9. k \in 1..len /\ k - 1 \in 0..len /\ m =< k - 1 /\ ~ (k =< k - 1) BY <1>1, <1>3, <1>7, <1>8
<1>10. t[m] =< t[k - 1]
  <2>1. k - 1 \notin T
    <3> HIDE DEF T
    <3> QED BY <1>6, <1>9
  <2> QED BY <1>9, <2>1
<1> HIDE DEF T
<1>11. t[m] \in Nat /\ t[k] \in Nat /\ t[k - 1] \in Nat BY <1>3, <1>4, <1>7, <1>9
<1>12. t[k] = t[k - 1] + size(k) /\ size(k) \in Nat BY <1>2, <1>9
<1> QED BY <1>7, <1>10, <1>11, <1>12

LEMMA ReachedStays ==
  ASSUME NEW h \in Seq(Msg), NEW s \in 0..Len(h), NEW r \in 0..s, reachesMax(h, r)
  PROVE  reachesMax(h, s)
<1> DEFINE len == Len(h)
           t(n) == TokensUpTo(h)[n]
<1>1. len \in Nat /\ len - s \in 0..len /\ len - r \in 0..len /\ len - s \in 0..(len - r)
  OBVIOUS
<1>2. /\ t(len - s) \in Nat /\ t(len - r) \in Nat /\ t(len) \in Nat
      /\ t(len - s) =< t(len - r)
  <2>1. len \in 0..len BY <1>1
  <2> QED BY <1>1, <2>1, TokensGrow
<1>3. RecentTokens(h, r) = t(len) - t(len - r) /\ RecentTokens(h, s) = t(len) - t(len - s)
  BY DEF RecentTokens, Tokens
<1> HIDE DEF t, len
<1>4. RecentTokens(h, r) =< RecentTokens(h, s) /\ RecentTokens(h, r) \in Int
      /\ RecentTokens(h, s) \in Int
  BY <1>2, <1>3
<1>5. MaxRecentMessages \in Nat /\ MaxRecentSize \in Nat BY CompactionConstants
<1>6. r \in Nat /\ s \in Nat /\ r =< s BY <1>1
<1> QED BY <1>4, <1>5, <1>6 DEF reachesMax

-----------------------------------------------------------------------------
(* The recent messages.                                                    *)

(* What the scan knows after it has looked at the r most recent messages.  *)
Scans(h, s) ==
  /\ s[0].best = 0 /\ s[0].over = FALSE
  /\ \A r \in 1..(Len(h) - 1) :
       LET best == IF canSplitAfter(h, Len(h) - r) THEN Len(h) - r ELSE s[r - 1].best
       IN  IF s[r - 1].over THEN s[r] = s[r - 1]
           ELSE s[r].best = best /\ s[r].over = (reachesMax(h, r) /\ best # 0)

LEMMA ScanExists ==
  ASSUME NEW h \in Seq(Msg), Len(h) >= 1
  PROVE  \E s : Scans(h, s) /\ recentSplit(h) = s[Len(h) - 1].best
<1> DEFINE len == Len(h)
           top == Len(h) - 1
           Safe(r) == canSplitAfter(h, len - r)
           Reached(r) == reachesMax(h, r)
           Best(r, p) == IF Safe(r) THEN len - r ELSE p.best
           Next1(r, p) == IF p.over THEN p
                          ELSE [best |-> Best(r, p), over |-> Reached(r) /\ Best(r, p) # 0]
           nil == [best |-> 0, over |-> FALSE]
           Sums(s) == s = [r \in 0..top |-> IF r = 0 THEN nil ELSE Next1(r, s[r - 1])]
           t == CHOOSE s : Sums(s)
<1>1. len \in Nat /\ top \in Nat /\ len = top + 1 OBVIOUS
<1>2. recentSplit(h) = t[top].best BY DEF recentSplit
<1> SUFFICES /\ t[0].best = 0 /\ t[0].over = FALSE
             /\ \A r \in 1..top :
                  IF t[r - 1].over THEN t[r] = t[r - 1]
                  ELSE t[r].best = Best(r, t[r - 1])
                       /\ t[r].over = (Reached(r) /\ Best(r, t[r - 1]) # 0)
  BY <1>2 DEF Scans
<1> HIDE DEF len, top, Safe, Reached
<1> DEFINE P == [best : Int, over : BOOLEAN]
           step == [r \in 1..top |-> [p \in P |-> Next1(r, p)]]
<1>3. \E s : Sums(s)
  <2>1. ASSUME NEW r \in 1..top, NEW p \in P PROVE Next1(r, p) \in P
    <3>1. Best(r, p) \in Int /\ p.over \in BOOLEAN BY <1>1
    <3> HIDE DEF Best
    <3>2. (Reached(r) /\ Best(r, p) # 0) \in BOOLEAN OBVIOUS
    <3> QED BY <3>1, <3>2
  <2> HIDE DEF Next1, P
  <2>2. step \in [1..top -> [P -> P]] BY <2>1
  <2>3. \A r \in 1..top, p \in P : step[r][p] = Next1(r, p) OBVIOUS
  <2>4. nil \in P BY DEF P
  <2> HIDE DEF step, nil, Sums
  <2>5. Definable(top, P, nil, step) BY <1>1, <2>2, <2>4, Recursion
  <2>6. PICK g \in [0..top -> P] : g[0] = nil /\ \A r \in 1..top : g[r] = step[r][g[r - 1]]
    BY <2>5 DEF Definable
  <2>7. ASSUME NEW r \in 0..top PROVE g[r] = IF r = 0 THEN nil ELSE Next1(r, g[r - 1])
    <3>1. CASE r = 0 BY <2>6, <3>1
    <3>2. CASE r # 0
      <4>1. r \in 1..top /\ r - 1 \in 0..top BY <1>1, <3>2
      <4>2. g[r - 1] \in P BY <4>1
      <4> QED BY <2>3, <2>6, <3>2, <4>1, <4>2
    <3> QED BY <3>1, <3>2
  <2>8. g = [r \in 0..top |-> IF r = 0 THEN nil ELSE Next1(r, g[r - 1])] BY <2>7
  <2> QED BY <2>8 DEF Sums
<1>4. Sums(t)
  <2> HIDE DEF Sums
  <2> QED BY <1>3
<1> HIDE DEF t
<1>5. \A r \in 0..top : t[r] = IF r = 0 THEN nil ELSE Next1(r, t[r - 1])
  <2> HIDE DEF Next1, nil
  <2> QED BY <1>4
<1>6. t[0] = nil
  <2>1. 0 \in 0..top BY <1>1
  <2> HIDE DEF Next1, nil
  <2> QED BY <1>5, <2>1
<1>7. \A r \in 1..top : t[r] = Next1(r, t[r - 1])
  <2>1. \A r \in 1..top : r \in 0..top /\ r # 0 BY <1>1
  <2> HIDE DEF Next1, nil
  <2> QED BY <1>5, <2>1
<1> HIDE DEF Best, Sums
<1>8. t[0].best = 0 /\ t[0].over = FALSE BY <1>6
<1>9. ASSUME NEW r \in 1..top
      PROVE  IF t[r - 1].over THEN t[r] = t[r - 1]
             ELSE t[r].best = Best(r, t[r - 1])
                  /\ t[r].over = (Reached(r) /\ Best(r, t[r - 1]) # 0)
  <2>1. t[r] = Next1(r, t[r - 1]) BY <1>7
  <2> QED BY <2>1
<1> HIDE DEF Next1
<1> QED BY <1>8, <1>9 DEF Best

(* The most of the r recent messages that can be split off; none can.      *)
MostSplit(h, r, k) ==
  /\ k \in 1..r /\ canSplitAfter(h, Len(h) - k)
  /\ \A i \in 1..r : canSplitAfter(h, Len(h) - i) => i =< k

NoSplit(h, r) == \A i \in 1..r : ~ canSplitAfter(h, Len(h) - i)

(* While there was no split among the first r, none was wanted.            *)
Unwanted(h, r) == \A i \in 1..r : reachesMax(h, i) => NoSplit(h, i)

LEMMA ScanStops ==
  ASSUME NEW h \in Seq(Msg), Len(h) >= 1
  PROVE  LET top == Len(h) - 1
         IN  \/ /\ NoSplit(h, top) /\ recentSplit(h) = 0
             \/ \E b \in 1..top, k \in 1..top :
                  /\ MostSplit(h, b, k) /\ recentSplit(h) = Len(h) - k
                  /\ Unwanted(h, b - 1) /\ (reachesMax(h, b) \/ b = top)
<1> DEFINE len == Len(h)
           top == Len(h) - 1
           Safe(r) == canSplitAfter(h, len - r)
           Reached(r) == reachesMax(h, r)
           L(r, k) == k \in 1..r /\ Safe(k) /\ \A i \in 1..r : Safe(i) => i =< k
           N(r) == \A i \in 1..r : ~ Safe(i)
           Q(r) == \A i \in 1..r : Reached(i) => N(i)
<1>1. len \in Nat /\ top \in Nat /\ len = top + 1 OBVIOUS
<1>2. PICK s : Scans(h, s) /\ recentSplit(h) = s[top].best BY ScanExists
<1>3. /\ s[0].best = 0 /\ s[0].over = FALSE
      /\ \A r \in 1..top :
           IF s[r - 1].over THEN s[r] = s[r - 1]
           ELSE LET best == IF Safe(r) THEN len - r ELSE s[r - 1].best
                IN  s[r].best = best /\ s[r].over = (Reached(r) /\ best # 0)
  BY <1>2 DEF Scans
<1> SUFFICES \/ N(top) /\ s[top].best = 0
             \/ \E b \in 1..top, k \in 1..top :
                  L(b, k) /\ s[top].best = len - k /\ Q(b - 1) /\ (Reached(b) \/ b = top)
  BY <1>2 DEF MostSplit, NoSplit, Unwanted
<1> HIDE DEF len, top, Safe, Reached
<1> DEFINE Found(b) == \E k \in 1..b : L(b, k) /\ s[b].best = len - k
           Scanned(r) ==
             IF s[r].over
             THEN \E b \in 1..r : /\ Found(b) /\ s[r] = s[b] /\ Q(b - 1) /\ Reached(b)
             ELSE Q(r) /\ ((N(r) /\ s[r].best = 0) \/ Found(r))
           T == {r \in 0..top : ~ Scanned(r)}
<1>4. T = {}
  <2>1. SUFFICES ASSUME T # {} PROVE FALSE OBVIOUS
  <2>2. PICK r \in T : \A i \in T : r =< i
    <3>1. T \subseteq Nat OBVIOUS
    <3> HIDE DEF T
    <3>2. Min(T) \in T /\ \A i \in T : Min(T) =< i BY <2>1, <3>1, LeastElement
    <3> QED BY <3>2
  <2>3. r \in 0..top /\ ~ Scanned(r) OBVIOUS
  <2>4. r # 0
    <3>1. ASSUME r = 0 PROVE Scanned(r)
      <4>1. Q(0) /\ N(0) OBVIOUS
      <4> HIDE DEF Q, N, Found
      <4> QED BY <1>3, <3>1, <4>1
    <3> QED BY <2>3, <3>1
  <2> DEFINE p == r - 1
  <2>5. r \in 1..top /\ p \in 0..top /\ p = r - 1 /\ p + 1 = r /\ ~ (r =< p) /\ r \in Nat /\ p \in Nat
    BY <1>1, <2>3, <2>4
  <2> HIDE DEF p
  <2>6. Scanned(p)
    <3>1. p \notin T
      <4> HIDE DEF T
      <4> QED BY <2>2, <2>5
    <3> QED BY <2>5, <3>1
  <2> HIDE DEF T
  <2>7. CASE s[p].over
    <3>1. s[r] = s[p] BY <1>3, <2>5, <2>7
    <3>2. PICK b \in 1..p : Found(b) /\ s[p] = s[b] /\ Q(b - 1) /\ Reached(b) BY <2>6, <2>7
    <3>3. b \in 1..r BY <2>5
    <3> HIDE DEF Found, Q
    <3> QED BY <2>3, <2>7, <3>1, <3>2, <3>3
  <2>8. CASE ~ s[p].over
    <3> DEFINE best == IF Safe(r) THEN len - r ELSE s[p].best
    <3>1. s[r].best = best /\ s[r].over = (Reached(r) /\ best # 0) BY <1>3, <2>5, <2>8
    <3>2. Q(p) /\ ((N(p) /\ s[p].best = 0) \/ Found(p)) BY <2>6, <2>8
    <3>3. \A i \in 1..r : i \in 1..p \/ i = r BY <2>5
    <3>4. CASE Safe(r)
      <4>1. L(r, r) /\ r \in 1..r BY <2>5, <3>4
      <4>2. Found(r)
        <5> HIDE DEF L
        <5> QED BY <3>1, <3>4, <4>1
      <4>3. best # 0 BY <1>1, <2>5, <3>4
      <4>4. CASE Reached(r)
        <5>1. s[r].over BY <3>1, <4>3, <4>4
        <5>2. Q(r - 1) BY <2>5, <3>2
        <5>3. r \in 1..r BY <2>5
        <5> HIDE DEF Q, Found
        <5> QED BY <2>3, <4>2, <4>4, <5>1, <5>2, <5>3
      <4>5. CASE ~ Reached(r)
        <5>1. ~ s[r].over BY <3>1, <4>5
        <5>2. Q(r)
          <6> HIDE DEF N
          <6> QED BY <3>2, <3>3, <4>5
        <5> HIDE DEF Q, N, Found
        <5> QED BY <2>3, <4>2, <5>1, <5>2
      <4> QED BY <4>4, <4>5
    <3>5. CASE ~ Safe(r) /\ N(p) /\ s[p].best = 0
      <4>1. N(r) BY <3>3, <3>5
      <4>2. s[r].best = 0 /\ ~ s[r].over BY <3>1, <3>5
      <4>3. Q(r)
        <5> HIDE DEF N
        <5> QED BY <3>2, <3>3, <4>1
      <4> HIDE DEF Q, N, Found
      <4> QED BY <2>3, <4>1, <4>2, <4>3
    <3>6. CASE ~ Safe(r) /\ Found(p)
      <4>1. PICK k \in 1..p : L(p, k) /\ s[p].best = len - k BY <3>6
      <4>2. k \in 1..r /\ L(r, k) BY <2>5, <3>3, <3>6, <4>1
      <4>3. Found(r)
        <5> HIDE DEF L
        <5> QED BY <3>1, <3>6, <4>1, <4>2
      <4>4. best # 0
        <5>1. len - k # 0 BY <1>1, <2>5
        <5> QED BY <3>6, <4>1, <5>1
      <4>5. CASE Reached(r)
        <5>1. s[r].over BY <3>1, <4>4, <4>5
        <5>2. Q(r - 1) BY <2>5, <3>2
        <5>3. r \in 1..r BY <2>5
        <5> HIDE DEF Q, Found
        <5> QED BY <2>3, <4>3, <4>5, <5>1, <5>2, <5>3
      <4>6. CASE ~ Reached(r)
        <5>1. ~ s[r].over BY <3>1, <4>6
        <5>2. Q(r)
          <6> HIDE DEF N
          <6> QED BY <3>2, <3>3, <4>6
        <5> HIDE DEF Q, N, Found
        <5> QED BY <2>3, <4>3, <5>1, <5>2
      <4> QED BY <4>5, <4>6
    <3> QED BY <3>2, <3>4, <3>5, <3>6
  <2> QED BY <2>7, <2>8
<1>5. Scanned(top)
  <2>1. top \in 0..top BY <1>1
  <2> HIDE DEF Scanned
  <2> QED BY <1>4, <2>1
<1>6. CASE s[top].over
  <2>1. PICK b \in 1..top : Found(b) /\ s[top] = s[b] /\ Q(b - 1) /\ Reached(b) BY <1>5, <1>6
  <2>2. PICK k \in 1..b : L(b, k) /\ s[b].best = len - k BY <2>1
  <2>3. k \in 1..top BY <1>1
  <2> HIDE DEF Q, L
  <2> QED BY <2>1, <2>2, <2>3
<1>7. CASE ~ s[top].over /\ Found(top)
  <2>1. Q(top) BY <1>5, <1>7
  <2>2. PICK k \in 1..top : L(top, k) /\ s[top].best = len - k BY <1>7
  <2>3. top \in 1..top /\ Q(top - 1) BY <1>1, <2>1
  <2> HIDE DEF Q, L
  <2> QED BY <2>2, <2>3
<1>8. CASE ~ s[top].over /\ ~ Found(top)
  <2> HIDE DEF Q, N, Found
  <2>1. N(top) /\ s[top].best = 0 BY <1>5, <1>8
  <2> QED BY <2>1
<1> QED BY <1>6, <1>7, <1>8

LEMMA RecentIsKept ==
  ASSUME NEW h \in Seq(Msg), Len(h) >= 1
  PROVE  LET safe   == {n \in 1..(Len(h) - 1) : canSplitAfter(h, n)}
             within == {n \in safe : Len(h) - n \in MayKeep(h)}
         IN  recentSplit(h) = IF within # {} THEN Min(within)
                              ELSE IF safe # {} THEN Max(safe) ELSE 0
<1> DEFINE len == Len(h)
           top == Len(h) - 1
           Safe(n) == canSplitAfter(h, n)
           Reached(r) == reachesMax(h, r)
           safe == {n \in 1..top : Safe(n)}
           may == {r \in 1..top : \A k \in 1..(r - 1) : ~ Reached(k)}
           within == {n \in safe : len - n \in may}
           split == recentSplit(h)
<1>1. len \in Nat /\ top \in Nat /\ len = top + 1 OBVIOUS
<1>2. MayKeep(h) = may
  <2>1. ASSUME NEW k \in 1..top
        PROVE  (k < MaxRecentMessages /\ RecentTokens(h, k) < MaxRecentSize) <=> ~ Reached(k)
    <3>1. len - k \in 0..len /\ len \in 0..len BY <1>1
    <3>2. TokensUpTo(h)[len] \in Nat /\ TokensUpTo(h)[len - k] \in Nat BY <3>1, TokensGrow
    <3>3. RecentTokens(h, k) \in Int BY <3>2 DEF RecentTokens, Tokens
    <3>4. MaxRecentMessages \in Nat /\ MaxRecentSize \in Nat BY CompactionConstants
    <3> HIDE DEF len, top
    <3>5. k \in Nat BY <1>1
    <3> QED BY <3>3, <3>4, <3>5 DEF reachesMax
  <2>2. \A r \in 1..top : \A k \in 1..(r - 1) : k \in 1..top BY <1>1
  <2> QED BY <2>1, <2>2 DEF MayKeep
<1>3. \/ (\A i \in 1..top : ~ Safe(len - i)) /\ split = 0
      \/ \E b \in 1..top, k \in 1..top :
           /\ k \in 1..b /\ Safe(len - k) /\ \A i \in 1..b : Safe(len - i) => i =< k
           /\ split = len - k /\ (Reached(b) \/ b = top)
           /\ \A i \in 1..(b - 1) : Reached(i) => \A n \in 1..i : ~ Safe(len - n)
  BY ScanStops DEF MostSplit, NoSplit, Unwanted
<1>4. ASSUME NEW s \in 1..top, NEW r \in 1..s, Reached(r) PROVE Reached(s)
  <2>1. s \in 0..Len(h) /\ r \in 0..s OBVIOUS
  <2> QED BY <1>4, <2>1, ReachedStays
<1> SUFFICES split = IF within # {} THEN Min(within) ELSE IF safe # {} THEN Max(safe) ELSE 0
  BY <1>2
<1> HIDE DEF len, top, Safe, Reached, split
<1>5. \A n \in 1..top : len - n \in 1..top /\ len - (len - n) = n BY <1>1
<1>6. \A n \in safe : n \in 1..top /\ Safe(n) OBVIOUS
<1>7. CASE (\A i \in 1..top : ~ Safe(len - i)) /\ split = 0
  <2>1. \A n \in 1..top : ~ Safe(n)
    <3> TAKE n \in 1..top
    <3>1. len - n \in 1..top /\ len - (len - n) = n BY <1>5
    <3> QED BY <1>7, <3>1
  <2>2. safe = {} BY <2>1
  <2> QED BY <1>7, <2>2
<1>8. ASSUME NEW b \in 1..top, NEW k \in 1..top,
             k \in 1..b, Safe(len - k), \A i \in 1..b : Safe(len - i) => i =< k,
             split = len - k, Reached(b) \/ b = top,
             \A i \in 1..(b - 1) : Reached(i) => \A n \in 1..i : ~ Safe(len - n)
      PROVE  split = IF within # {} THEN Min(within) ELSE IF safe # {} THEN Max(safe) ELSE 0
  <2>1. split \in safe /\ len - split = k BY <1>5, <1>8
  <2>2. b \in Nat /\ k \in Nat /\ b =< top /\ k =< b BY <1>1, <1>8
  <2>3. CASE k \in may
    <3>1. split \in within BY <2>1, <2>3
    <3>2. ASSUME NEW n \in within PROVE split =< n
      <4>1. n \in 1..top /\ Safe(n) /\ len - n \in may OBVIOUS
      <4>2. len - n \in 1..top /\ len - (len - n) = n BY <1>5, <4>1
      <4>3. SUFFICES ASSUME ~ (len - n =< k) PROVE FALSE BY <1>1, <1>8, <2>2, <4>1
      <4>4. ~ (len - n \in 1..b) BY <1>8, <4>1, <4>2, <4>3
      <4>5. b \in 1..(len - n - 1) /\ b # top BY <1>1, <2>2, <4>2, <4>4
      <4>6. ~ Reached(b) BY <4>1, <4>5
      <4> QED BY <1>8, <4>5, <4>6
    <3>3. within \subseteq Nat BY <1>1
    <3> HIDE DEF within, safe
    <3>4. Min(within) \in within /\ \A n \in within : Min(within) =< n
      BY <3>1, <3>3, LeastElement
    <3>5. split \in Nat /\ Min(within) \in Nat /\ split =< Min(within) /\ Min(within) =< split
      BY <3>1, <3>2, <3>3, <3>4
    <3>6. split = Min(within) BY <3>5
    <3> QED BY <3>1, <3>6
  <2>4. CASE k \notin may
    <3>1. PICK j \in 1..(k - 1) : Reached(j) BY <2>4
    <3>2. j \in 1..(b - 1) /\ j \in 1..top BY <1>1, <2>2, <3>1
    <3>3. \A n \in 1..j : ~ Safe(len - n) BY <1>8, <3>1, <3>2
    <3>4. within = {}
      <4>1. ASSUME NEW n \in within PROVE FALSE
        <5>1. n \in 1..top /\ Safe(n) /\ len - n \in may OBVIOUS
        <5>2. len - n \in 1..top /\ len - (len - n) = n BY <1>5, <5>1
        <5>3. ~ (len - n \in 1..j) BY <3>3, <5>1, <5>2
        <5>4. j \in 1..(len - n - 1) BY <1>1, <3>2, <5>2, <5>3
        <5> QED BY <3>1, <5>1, <5>4
      <4> HIDE DEF within
      <4> QED BY <4>1
    <3>5. ASSUME NEW n \in safe PROVE n =< split
      <4>1. n \in 1..top /\ Safe(n) OBVIOUS
      <4> DEFINE i == len - n
      <4>2. i \in 1..top /\ len - i = n BY <1>5, <4>1
      <4>3. SUFFICES ASSUME ~ (n =< split) PROVE FALSE OBVIOUS
      <4>4. i < k /\ i \in Nat BY <1>1, <1>8, <2>2, <4>1, <4>3
      <4> HIDE DEF i
      <4>5. i \in 1..(b - 1) BY <2>2, <4>2, <4>4
      <4>6. ~ (i \in 1..j) BY <3>3, <4>1, <4>2
      <4>7. j \in 1..i BY <3>2, <4>2, <4>6
      <4>8. Reached(i) BY <1>4, <3>1, <4>2, <4>7
      <4>9. i \in 1..i BY <4>2
      <4> QED BY <1>8, <4>1, <4>2, <4>5, <4>8, <4>9
    <3>6. safe \subseteq Nat /\ \A n \in safe : n =< split BY <1>1, <3>5
    <3> HIDE DEF safe, within
    <3>7. split \in Nat BY <2>1, <3>6
    <3>8. Max(safe) \in safe /\ \A n \in safe : n =< Max(safe)
      BY <2>1, <3>6, <3>7, Greatest
    <3>9. split =< Max(safe) /\ Max(safe) =< split /\ Max(safe) \in Nat BY <2>1, <3>6, <3>8
    <3>10. split = Max(safe) BY <3>7, <3>9
    <3> QED BY <2>1, <3>4, <3>10
  <2> QED BY <2>3, <2>4
<1> HIDE DEF safe, within, may
<1> QED BY <1>3, <1>7, <1>8

-----------------------------------------------------------------------------
(* Histories.                                                              *)

Result(h, i) == h[i].role \in ToolRoles

(* Message i is a result of message o, which asked for it.                 *)
Answers(h, o, i) ==
  /\ h[o].role = "assistant"
  /\ h[i].id = <<h[o].id, i - o>> /\ h[i].id \in h[o].calls
  /\ \A k \in (o + 1)..i : Result(h, k)

(* The calls of a message are numbered; the results of all of them come    *)
(* before anything else does.                                              *)
Asked(h, o) ==
  \E m \in Nat : /\ h[o].calls = {<<h[o].id, k>> : k \in 1..m}
                 /\ \A j \in (o + 1)..Len(h) : ~ Result(h, j) => o + m < j

Whole(h) ==
  /\ \A i \in 1..Len(h) : Result(h, i) => \E o \in 1..(i - 1) : Answers(h, o, i)
  /\ \A i \in 1..Len(h) : h[i].role # "assistant" => h[i].calls = {}
  /\ \A i \in 1..Len(h) : h[i].role = "assistant" => Asked(h, i)
  /\ \A i, j \in 1..Len(h) :
       h[i].role = "assistant" /\ h[j].role = "assistant" /\ h[i].id = h[j].id => i = j

Inv ==
  /\ messages \in Seq(Msg) /\ messages # <<>>
  /\ Whole(messages)
  /\ pc = "generate" => canSplitAfter(messages, compactedCount)

-----------------------------------------------------------------------------
(* Where a history can be split.                                           *)

LEMMA EndsOpenIs ==
  ASSUME NEW h \in Seq(Msg), NEW n \in 1..Len(h)
  PROVE  EndsOpen(h, n) <=>
           /\ Result(h, n)
           /\ \E o \in 1..n : /\ h[o].role = "assistant"
                              /\ \A k \in (o + 1)..n : Result(h, k)
                              /\ Cardinality(h[o].calls) > n - o
<1> DEFINE I == {i \in 1..n : h[i].role \notin ToolRoles}
           owner == IF I # {} THEN Max(I) ELSE 0
           R(i) == h[i].role \in ToolRoles
           A(i) == h[i].role = "assistant"
           C(i) == Cardinality(h[i].calls)
<1>1. n \in Nat /\ n >= 1 OBVIOUS
<1>2. EndsOpen(h, n) <=> R(n) /\ owner > 0 /\ A(owner) /\ C(owner) > n - owner
  <2>1. SelectLastInSubSeq(h, 1, n, LAMBDA m : m.role \notin ToolRoles) = owner
    BY DEF SelectLastInSubSeq
  <2> HIDE DEF owner
  <2> QED BY <2>1 DEF EndsOpen
<1>3. \A i \in 1..n : A(i) => ~ R(i) BY DEF ToolRoles
<1>4. I = {i \in 1..n : ~ R(i)} OBVIOUS
<1> SUFFICES EndsOpen(h, n) <=>
               R(n) /\ \E o \in 1..n : A(o) /\ (\A k \in (o + 1)..n : R(k)) /\ C(o) > n - o
  BY DEF Result
<1> HIDE DEF R, A, C, I
<1>5. I # {} => owner \in I /\ \A i \in I : i =< owner
  <2>1. SUFFICES ASSUME I # {} PROVE Max(I) \in I /\ \A i \in I : i =< Max(I) OBVIOUS
  <2>2. I \subseteq Nat /\ \A i \in I : i =< n BY <1>1, <1>4
  <2> QED BY <1>1, <2>1, <2>2, Greatest
<1>6. ASSUME R(n), owner > 0, A(owner), C(owner) > n - owner
      PROVE  \E o \in 1..n : A(o) /\ (\A k \in (o + 1)..n : R(k)) /\ C(o) > n - o
  <2>1. I # {} BY <1>6
  <2> HIDE DEF owner
  <2>2. owner \in 1..n /\ \A i \in 1..n : ~ R(i) => i =< owner BY <1>4, <1>5, <2>1
  <2>3. \A k \in (owner + 1)..n : R(k)
    <3> TAKE k \in (owner + 1)..n
    <3>1. k \in 1..n /\ ~ (k =< owner) BY <2>2
    <3> QED BY <2>2, <3>1
  <2> QED BY <1>6, <2>2, <2>3
<1>7. ASSUME NEW o \in 1..n, A(o), \A k \in (o + 1)..n : R(k), C(o) > n - o
      PROVE  owner = o
  <2>1. o \in I BY <1>3, <1>4, <1>7
  <2>2. owner \in 1..n /\ ~ R(owner) /\ o =< owner BY <1>4, <1>5, <2>1
  <2> HIDE DEF owner
  <2>3. owner \in (o + 1)..n => R(owner) BY <1>7
  <2> QED BY <2>2, <2>3
<1>8. ASSUME NEW o \in 1..n, A(o), \A k \in (o + 1)..n : R(k), C(o) > n - o
      PROVE  owner > 0 /\ A(owner) /\ C(owner) > n - owner
  <2>1. owner = o BY <1>7, <1>8
  <2> HIDE DEF owner
  <2> QED BY <1>8, <2>1
<1> HIDE DEF owner
<1> QED BY <1>2, <1>6, <1>8

(* A split inside a part of the history is one of the whole.               *)
LEMMA PrefixSplits ==
  ASSUME NEW h \in Seq(Msg), NEW n \in 1..Len(h), NEW k \in 1..(n - 1)
  PROVE  canSplitAfter(Prefix(h, n), k) <=> canSplitAfter(h, k)
<1> DEFINE g == Prefix(h, n)
<1>1. g \in Seq(Msg) /\ Len(g) = n /\ \A i \in 1..n : g[i] = h[i]
  BY DEF Prefix
<1> HIDE DEF g
<1>2. k \in 1..Len(h) /\ k \in 1..Len(g) /\ k + 1 \in 1..n /\ k < Len(g) /\ k < Len(h)
      /\ DOMAIN h = 1..Len(h) /\ DOMAIN g = 1..Len(g)
  BY <1>1
<1>3. \A i \in 1..k : i \in 1..n /\ \A j \in (i + 1)..k : j \in 1..n BY <1>2
<1>4. EndsOpen(g, k) <=> EndsOpen(h, k)
  <2>1. \A i \in 1..n : Result(g, i) <=> Result(h, i) BY <1>1 DEF Result
  <2>2. EndsOpen(g, k) <=>
           /\ Result(g, k)
           /\ \E o \in 1..k : /\ g[o].role = "assistant"
                              /\ \A j \in (o + 1)..k : Result(g, j)
                              /\ Cardinality(g[o].calls) > k - o
    BY <1>1, <1>2, EndsOpenIs
  <2>3. EndsOpen(h, k) <=>
           /\ Result(h, k)
           /\ \E o \in 1..k : /\ h[o].role = "assistant"
                              /\ \A j \in (o + 1)..k : Result(h, j)
                              /\ Cardinality(h[o].calls) > k - o
    BY <1>2, EndsOpenIs
  <2>4. \A o \in 1..k : g[o] = h[o] BY <1>1, <1>3
  <2>5. \A o \in 1..k : \A j \in (o + 1)..k : Result(g, j) <=> Result(h, j) BY <1>3, <2>1
  <2>6. Result(g, k) <=> Result(h, k) BY <1>2, <2>1
  <2> QED BY <2>2, <2>3, <2>4, <2>5, <2>6
<1>5. g[k] = h[k] /\ g[k + 1] = h[k + 1] BY <1>1, <1>2
<1> QED BY <1>2, <1>4, <1>5 DEF canSplitAfter, g

LEMMA NumberedCalls ==
  ASSUME NEW id, NEW m \in Nat
  PROVE  Cardinality({<<id, k>> : k \in 1..m}) = m
<1> DEFINE S == {<<id, k>> : k \in 1..m}
           f == [k \in 1..m |-> <<id, k>>]
<1>1. f \in [1..m -> S] OBVIOUS
<1>2. \A a, b \in 1..m : f[a] = f[b] => a = b OBVIOUS
<1>3. \A c \in S : \E k \in 1..m : f[k] = c OBVIOUS
<1>4. f \in Bijection(1..m, S)
  <2> HIDE DEF f, S
  <2> QED BY <1>1, <1>2, <1>3 DEF Bijection, Injection, Surjection, IsInjective
<1>5. ExistsBijection(1..m, S) BY <1>4 DEF ExistsBijection
<1> HIDE DEF S
<1>6. Cardinality(S) = m BY <1>5, FS_CountingElements
<1> QED BY <1>6 DEF S

(* Before a split every call is answered.                                  *)
LEMMA AnsweredBefore ==
  ASSUME NEW h \in Seq(Msg), Whole(h), NEW n \in 1..Len(h), canSplitAfter(h, n),
         NEW o \in 1..n, NEW c \in h[o].calls
  PROVE  \E i \in 1..n : Result(h, i) /\ h[i].id = c
<1> DEFINE len == Len(h)
           R(i) == Result(h, i)
           calls == h[o].calls
           key == h[o].id
<1>1. len \in Nat /\ n \in Nat /\ o \in Nat /\ n =< len /\ o =< n /\ o \in 1..len OBVIOUS
<1>2. h[o].role = "assistant" BY <1>1 DEF Whole
<1>3. PICK m \in Nat : /\ calls = {<<key, k>> : k \in 1..m}
                       /\ \A j \in (o + 1)..len : ~ R(j) => o + m < j
  BY <1>1, <1>2 DEF Whole, Asked
<1>4. PICK k \in 1..m : c = <<key, k>> BY <1>3
<1>5. n < len => ~ R(n + 1) BY DEF canSplitAfter, Result
<1>6. o # n BY <1>2 DEF canSplitAfter
<1>7. ~ EndsOpen(h, n) BY DEF canSplitAfter
<1>8. Cardinality(calls) = m BY <1>3, NumberedCalls
<1>9. ~ R(o) BY <1>2 DEF Result, ToolRoles
<1>10. EndsOpen(h, n) <=>
           /\ R(n)
           /\ \E e \in 1..n : /\ h[e].role = "assistant"
                              /\ \A j \in (e + 1)..n : R(j)
                              /\ Cardinality(h[e].calls) > n - e
  BY EndsOpenIs
<1>11. \A i \in 1..len : \A e \in 1..(i - 1) : Answers(h, e, i) =>
         h[e].role = "assistant" /\ h[i].id = <<h[e].id, i - e>> /\ \A j \in (e + 1)..i : R(j)
  BY DEF Answers
<1>12. \A i \in 1..len : R(i) => \E e \in 1..(i - 1) : Answers(h, e, i) BY DEF Whole
<1>13. o + m =< n
  <2>1. SUFFICES ASSUME o + m > n PROVE FALSE BY <1>1, <1>3
  <2>2. n = len
    <3>1. SUFFICES ASSUME n < len PROVE FALSE BY <1>1
    <3>2. n + 1 \in (o + 1)..len /\ ~ R(n + 1) BY <1>1, <1>5, <3>1
    <3>3. o + m < n + 1 BY <1>3, <3>2
    <3> HIDE DEF len
    <3> QED BY <1>1, <1>3, <2>1, <3>3
  <2>3. \A j \in (o + 1)..n : R(j)
    <3> TAKE j \in (o + 1)..n
    <3>1. j \in (o + 1)..len /\ ~ (o + m < j) BY <1>1, <1>3, <2>1
    <3> QED BY <1>3, <3>1
  <2>4. R(n) /\ Cardinality(calls) > n - o
    <3>1. n \in (o + 1)..n BY <1>1, <1>6
    <3> HIDE DEF R, len, calls
    <3>2. m > n - o BY <1>1, <1>3, <2>1
    <3> QED BY <1>8, <2>3, <3>1, <3>2
  <2> HIDE DEF R
  <2> QED BY <1>2, <1>7, <1>10, <2>3, <2>4
<1> HIDE DEF R, len, calls, key
<1> DEFINE i == o + k
<1>14. i \in 1..n /\ i \in 1..len /\ o \in 1..(i - 1) /\ i - o = k /\ i \in (o + 1)..n
  BY <1>1, <1>3, <1>4, <1>13
<1>15. \A j \in (o + 1)..i : R(j)
  <2> TAKE j \in (o + 1)..i
  <2>1. j \in (o + 1)..len /\ ~ (o + m < j) BY <1>1, <1>3, <1>4, <1>13
  <2> QED BY <1>3, <2>1
<1> HIDE DEF i
<1>16. R(i) BY <1>14, <1>15
<1>17. PICK e \in 1..(i - 1) : Answers(h, e, i) BY <1>12, <1>14, <1>16
<1>18. /\ h[e].role = "assistant" /\ h[i].id = <<h[e].id, i - e>>
       /\ \A j \in (e + 1)..i : R(j)
  BY <1>11, <1>14, <1>17
<1>19. e = o
  <2>1. ~ R(e) BY <1>18 DEF R, Result, ToolRoles
  <2>2. e \notin (o + 1)..i /\ o \notin (e + 1)..i BY <1>9, <1>15, <1>18, <2>1
  <2> QED BY <1>1, <1>14, <2>2
<1>20. h[i].id = <<h[o].id, k>> BY <1>14, <1>18, <1>19
<1> QED BY <1>4, <1>14, <1>16, <1>20 DEF R, key

(* A history whose first n messages give way to a summary.                 *)
Shortened(h, n, g) ==
  /\ g \in Seq(Msg) /\ Len(g) = Len(h) - n + 1
  /\ g[1].role = "summary" /\ g[1].calls = {}
  /\ \A i \in 2..Len(g) : g[i] = h[i + n - 1]

LEMMA ShortenedIsWhole ==
  ASSUME NEW h \in Seq(Msg), Whole(h), NEW n \in 1..Len(h), canSplitAfter(h, n),
         NEW g, Shortened(h, n, g)
  PROVE  Whole(g)
<1> DEFINE lh == Len(h)
           lg == Len(g)
           d == n - 1
<1>1. lh \in Nat /\ lg \in Nat /\ n \in Nat /\ n >= 1 /\ n =< lh /\ lg = lh - n + 1
      /\ d \in Nat /\ n = d + 1
  BY DEF Shortened
<1>2. \A i \in 2..lg : g[i] = h[i + d] /\ i + d \in (n + 1)..lh /\ i + d \in 1..lh
  BY DEF Shortened
<1>3. g[1].role = "summary" /\ g[1].calls = {} BY DEF Shortened
<1>4. n < lh => ~ Result(h, n + 1) BY DEF canSplitAfter, Result
<1> SUFFICES
      /\ \A i \in 1..lg : Result(g, i) => \E o \in 1..(i - 1) : Answers(g, o, i)
      /\ \A i \in 1..lg : g[i].role # "assistant" => g[i].calls = {}
      /\ \A i \in 1..lg : g[i].role = "assistant" => Asked(g, i)
      /\ \A i, j \in 1..lg :
           g[i].role = "assistant" /\ g[j].role = "assistant" /\ g[i].id = g[j].id => i = j
  BY DEF Whole
<1>5. \A i \in 1..lg : i = 1 \/ i \in 2..lg BY <1>1
<1>6. ~ Result(g, 1) BY <1>3 DEF Result, ToolRoles
<1>7. \A i \in 2..lg : Result(g, i) <=> Result(h, i + d) BY <1>2 DEF Result
<1>8. ASSUME NEW i \in 1..lg, Result(g, i) PROVE \E o \in 1..(i - 1) : Answers(g, o, i)
  <2>1. i \in 2..lg BY <1>5, <1>6, <1>8
  <2>2. Result(h, i + d) /\ i + d \in 1..lh BY <1>2, <1>7, <1>8, <2>1
  <2>3. PICK e \in 1..(i + d - 1) : Answers(h, e, i + d) BY <2>2 DEF Whole
  <2>4. /\ h[e].role = "assistant" /\ h[i + d].id = <<h[e].id, i + d - e>>
        /\ h[i + d].id \in h[e].calls /\ \A k \in (e + 1)..(i + d) : Result(h, k)
    BY <2>3 DEF Answers
  <2>5. e >= n + 1
    <3>1. SUFFICES ASSUME ~ (e >= n + 1) PROVE FALSE OBVIOUS
    <3>2. n + 1 \in (e + 1)..(i + d) /\ n < lh BY <1>1, <1>2, <2>1, <3>1
    <3> QED BY <1>4, <2>4, <3>2
  <2> DEFINE o == e - d
  <2>6. o \in 1..(i - 1) /\ o \in 2..lg /\ o + d = e /\ i + d - e = i - o
    BY <1>1, <2>1, <2>5
  <2> HIDE DEF o, d
  <2>7. g[o] = h[e] /\ g[i] = h[i + d] BY <1>2, <2>1, <2>6
  <2>8. \A k \in (o + 1)..i : Result(g, k)
    <3> TAKE k \in (o + 1)..i
    <3>1. k \in 2..lg /\ k + d \in (e + 1)..(i + d) BY <1>1, <2>1, <2>6
    <3> QED BY <1>7, <2>4, <3>1
  <2>9. Answers(g, o, i) BY <2>4, <2>6, <2>7, <2>8 DEF Answers
  <2> QED BY <2>6, <2>9
<1>9. \A i \in 1..lg : g[i].role # "assistant" => g[i].calls = {}
  BY <1>2, <1>3, <1>5 DEF Whole
<1>10. \A i \in 1..lg : g[i].role = "assistant" => i \in 2..lg BY <1>3, <1>5
<1>11. ASSUME NEW i \in 1..lg, g[i].role = "assistant" PROVE Asked(g, i)
  <2>1. i \in 2..lg BY <1>10, <1>11
  <2> DEFINE o == i + d
  <2>2. g[i] = h[o] /\ o \in 1..lh BY <1>2, <2>1
  <2>3. PICK m \in Nat : /\ h[o].calls = {<<h[o].id, k>> : k \in 1..m}
                         /\ \A j \in (o + 1)..lh : ~ Result(h, j) => o + m < j
    BY <1>11, <2>2 DEF Whole, Asked
  <2>4. ASSUME NEW j \in (i + 1)..lg, ~ Result(g, j) PROVE i + m < j
    <3>1. j \in 2..lg /\ j + d \in (o + 1)..lh BY <1>1, <2>1
    <3>2. ~ Result(h, j + d) BY <1>7, <2>4, <3>1
    <3>3. o + m < j + d BY <2>3, <3>1, <3>2
    <3> QED BY <1>1, <2>3, <3>3
  <2>5. g[i].calls = {<<g[i].id, k>> : k \in 1..m} BY <2>2, <2>3
  <2> QED BY <2>4, <2>5 DEF Asked
<1>12. ASSUME NEW i \in 1..lg, NEW j \in 1..lg,
              g[i].role = "assistant", g[j].role = "assistant", g[i].id = g[j].id
       PROVE  i = j
  <2>1. i \in 2..lg /\ j \in 2..lg BY <1>10, <1>12
  <2>2. /\ h[i + d].role = "assistant" /\ h[j + d].role = "assistant"
        /\ h[i + d].id = h[j + d].id /\ i + d \in 1..lh /\ j + d \in 1..lh
    BY <1>2, <1>12, <2>1
  <2>3. i + d = j + d BY <2>2 DEF Whole
  <2> QED BY <1>1, <2>1, <2>3
<1> QED BY <1>8, <1>9, <1>11, <1>12

LEMMA AwaitedIs ==
  ASSUME NEW h \in Seq(Msg), NEW c
  PROVE  c \in Awaited(h) <=> /\ \E i \in 1..Len(h) : c \in h[i].calls
                              /\ \A i \in 1..Len(h) : Result(h, i) => h[i].id # c
<1>1. DOMAIN h = 1..Len(h) OBVIOUS
<1> QED BY <1>1 DEF Awaited, Result

LEMMA ShortenedIsAwaited ==
  ASSUME NEW h \in Seq(Msg), Whole(h), NEW n \in 1..Len(h), canSplitAfter(h, n),
         NEW g, Shortened(h, n, g)
  PROVE  Awaited(g) = Awaited(h)
<1> DEFINE lh == Len(h)
           lg == Len(g)
           d == n - 1
<1>1. lh \in Nat /\ lg \in Nat /\ n \in Nat /\ n >= 1 /\ n =< lh /\ lg = lh - n + 1
      /\ d \in Nat /\ n = d + 1 /\ g \in Seq(Msg)
  BY DEF Shortened
<1>2. \A i \in 2..lg : g[i] = h[i + d] /\ i + d \in (n + 1)..lh /\ i + d \in 1..lh
  BY DEF Shortened
<1>3. g[1].role = "summary" /\ g[1].calls = {} BY DEF Shortened
<1>4. \A i \in 1..lg : i = 1 \/ i \in 2..lg BY <1>1
<1>5. ~ Result(g, 1) BY <1>3 DEF Result, ToolRoles
<1>6. \A i \in 2..lg : Result(g, i) <=> Result(h, i + d) BY <1>2 DEF Result
<1>7. \A i \in 1..lh : i \in 1..n \/ (i - d \in 2..lg /\ i - d + d = i) BY <1>1
<1> HIDE DEF lh, lg
<1>8. ASSUME NEW c, \E i \in 1..lh : c \in h[i].calls,
             \A i \in 1..lh : Result(h, i) => h[i].id # c
      PROVE  /\ \E i \in 1..lg : c \in g[i].calls
             /\ \A i \in 1..lg : Result(g, i) => g[i].id # c
  <2>1. PICK i \in 1..lh : c \in h[i].calls BY <1>8
  <2>2. i \notin 1..n
    <3>1. SUFFICES ASSUME i \in 1..n PROVE FALSE OBVIOUS
    <3>2. PICK j \in 1..n : Result(h, j) /\ h[j].id = c BY <2>1, <3>1, AnsweredBefore
    <3>3. j \in 1..lh BY <1>1
    <3> QED BY <1>8, <3>2, <3>3
  <2>3. i - d \in 2..lg /\ i - d + d = i BY <1>7, <2>2
  <2>4. i - d \in 1..lg /\ g[i - d] = h[i] BY <1>1, <1>2, <2>3
  <2>5. ASSUME NEW j \in 1..lg, Result(g, j) PROVE g[j].id # c
    <3>1. j \in 2..lg BY <1>4, <1>5, <2>5
    <3>2. Result(h, j + d) /\ g[j] = h[j + d] /\ j + d \in 1..lh BY <1>2, <1>6, <2>5, <3>1
    <3> QED BY <1>8, <3>2
  <2> QED BY <2>1, <2>4, <2>5
<1>9. ASSUME NEW c, \E i \in 1..lg : c \in g[i].calls,
             \A i \in 1..lg : Result(g, i) => g[i].id # c
      PROVE  /\ \E i \in 1..lh : c \in h[i].calls
             /\ \A i \in 1..lh : Result(h, i) => h[i].id # c
  <2>1. PICK i \in 1..lg : c \in g[i].calls BY <1>9
  <2>2. i \in 2..lg BY <1>3, <1>4, <2>1
  <2> DEFINE o == i + d
  <2>3. c \in h[o].calls /\ o \in (n + 1)..lh /\ o \in 1..lh BY <1>2, <2>1, <2>2
  <2> HIDE DEF o
  <2>4. ASSUME NEW j \in 1..lh, Result(h, j) PROVE h[j].id # c
    <3>1. SUFFICES ASSUME h[j].id = c PROVE FALSE OBVIOUS
    <3>2. CASE j \in 1..n
      <4>1. PICK e \in 1..(j - 1) : Answers(h, e, j) BY <2>4 DEF Whole, lh
      <4>2. h[e].role = "assistant" /\ c \in h[e].calls BY <3>1, <4>1 DEF Answers
      <4>3. e \in 1..lh /\ e # o BY <1>1, <2>3, <3>2
      <4>4. h[o].role = "assistant" BY <2>3 DEF Whole, lh
      <4>5. Asked(h, e) /\ Asked(h, o) BY <2>3, <4>2, <4>3, <4>4 DEF Whole, lh
      <4>6. PICK k : c = <<h[e].id, k>> BY <4>2, <4>5 DEF Asked
      <4>7. PICK l : c = <<h[o].id, l>> BY <2>3, <4>5 DEF Asked
      <4>8. h[e].id = h[o].id BY <4>6, <4>7
      <4> QED BY <2>3, <4>2, <4>3, <4>4, <4>8 DEF Whole, lh
    <3>3. CASE j \notin 1..n
      <4>1. j - d \in 2..lg /\ j - d + d = j BY <1>7, <3>3
      <4>2. Result(g, j - d) /\ g[j - d] = h[j] /\ j - d \in 1..lg
        BY <1>1, <1>2, <1>6, <2>4, <4>1
      <4> QED BY <1>9, <3>1, <4>2
    <3> QED BY <3>2, <3>3
  <2> QED BY <2>3, <2>4
<1>10. \A c : c \in Awaited(g) <=> c \in Awaited(h)
  BY <1>1, <1>8, <1>9, AwaitedIs DEF lh, lg
<1> QED BY <1>10

(* Cutting a result changes neither the calls nor what answers them.       *)
Cut(h, g) ==
  /\ g \in Seq(Msg) /\ Len(g) = Len(h)
  /\ \A i \in 1..Len(h) : /\ Result(g, i) <=> Result(h, i)
                          /\ (g[i].role = "assistant") <=> (h[i].role = "assistant")
                          /\ g[i].id = h[i].id /\ g[i].calls = h[i].calls

LEMMA CutIsWhole ==
  ASSUME NEW h \in Seq(Msg), Whole(h), NEW g, Cut(h, g)
  PROVE  Whole(g) /\ Awaited(g) = Awaited(h)
<1> DEFINE len == Len(h)
<1>1. /\ g \in Seq(Msg) /\ Len(g) = len /\ len \in Nat
      /\ \A i \in 1..len : /\ Result(g, i) <=> Result(h, i)
                           /\ (g[i].role = "assistant") <=> (h[i].role = "assistant")
                           /\ g[i].id = h[i].id /\ g[i].calls = h[i].calls
  BY DEF Cut
<1> HIDE DEF len
<1>2. ASSUME NEW i \in 1..len, NEW o \in 1..(i - 1) PROVE Answers(h, o, i) => Answers(g, o, i)
  <2>1. o \in 1..len /\ \A k \in (o + 1)..i : k \in 1..len BY <1>1
  <2> QED BY <1>1, <2>1 DEF Answers
<1>3. ASSUME NEW i \in 1..len, Asked(h, i) PROVE Asked(g, i)
  <2>1. PICK m \in Nat : /\ h[i].calls = {<<h[i].id, k>> : k \in 1..m}
                         /\ \A j \in (i + 1)..len : ~ Result(h, j) => i + m < j
    BY <1>3 DEF Asked, len
  <2>2. \A j \in (i + 1)..len : j \in 1..len BY <1>1
  <2>3. g[i].calls = {<<g[i].id, k>> : k \in 1..m} BY <1>1, <2>1
  <2>4. \A j \in (i + 1)..len : ~ Result(g, j) => i + m < j BY <1>1, <2>1, <2>2
  <2> QED BY <1>1, <2>3, <2>4 DEF Asked
<1>4. Whole(g)
  <2>1. \A i \in 1..len : Result(g, i) => \E o \in 1..(i - 1) : Answers(g, o, i)
    <3> SUFFICES ASSUME NEW i \in 1..len, Result(g, i)
                 PROVE  \E o \in 1..(i - 1) : Answers(g, o, i)
      OBVIOUS
    <3>1. PICK o \in 1..(i - 1) : Answers(h, o, i) BY <1>1 DEF Whole, len
    <3> QED BY <1>2, <3>1
  <2>2. \A i \in 1..len : g[i].role # "assistant" => g[i].calls = {} BY <1>1 DEF Whole, len
  <2>3. \A i \in 1..len : g[i].role = "assistant" => Asked(g, i) BY <1>1, <1>3 DEF Whole, len
  <2>4. \A i, j \in 1..len :
          g[i].role = "assistant" /\ g[j].role = "assistant" /\ g[i].id = g[j].id => i = j
    BY <1>1 DEF Whole, len
  <2> QED BY <1>1, <2>1, <2>2, <2>3, <2>4 DEF Whole
<1>5. \A c : c \in Awaited(g) <=> c \in Awaited(h) BY <1>1, AwaitedIs DEF len
<1> QED BY <1>4, <1>5

-----------------------------------------------------------------------------
(* What the strategy answers.                                              *)

LEMMA SplitIsIn ==
  ASSUME NEW h \in Seq(Msg), NEW n, canSplitAfter(h, n) PROVE n \in 1..Len(h)
<1>1. n \in DOMAIN h BY DEF canSplitAfter
<1> QED BY <1>1

LEMMA FitIsSafe ==
  ASSUME NEW h \in Seq(Msg), NEW n, n = 0 \/ canSplitAfter(h, n)
  PROVE  LET k == fitCompactCountToWindow(h, n) IN k = 0 \/ canSplitAfter(h, k)
<1> DEFINE safe == {k \in 1..(n - 1) : canSplitAfter(h, k)}
           fitting == {k \in safe : TokensUpTo(h)[k] <= MaxSize}
<1>1. n \in Nat BY SplitIsIn
<1>2. safe \subseteq Nat /\ fitting \subseteq Nat /\ \A k \in safe : k =< n BY <1>1
<1>3. \A k \in safe : canSplitAfter(h, k) OBVIOUS
<1>4. \A k \in fitting : k \in safe OBVIOUS
<1>5. fitCompactCountToWindow(h, n) \in {n} \cup (IF fitting # {} THEN {Max(fitting)} ELSE {})
                                            \cup (IF safe # {} THEN {Min(safe)} ELSE {})
  BY DEF fitCompactCountToWindow
<1> HIDE DEF safe, fitting
<1>6. fitting # {} => Max(fitting) \in fitting BY <1>1, <1>2, <1>4, Greatest
<1>7. safe # {} => Min(safe) \in safe BY <1>2, LeastElement
<1> QED BY <1>3, <1>4, <1>5, <1>6, <1>7

LEMMA ComputeIsSafe ==
  ASSUME NEW h \in Seq(Msg), Len(h) >= 1, NEW src
  PROVE  LET n == computeCompactCount(h, src) IN n = 0 \/ canSplitAfter(h, n)
<1>1. manualSplit(h) = 0 \/ canSplitAfter(h, manualSplit(h))
  <2> DEFINE S == {0} \cup {n \in 2..Len(h) : canSplitAfter(h, n)}
  <2>1. Len(h) \in Nat /\ S \subseteq Nat /\ 0 \in S /\ \A n \in S : n =< Len(h) OBVIOUS
  <2>2. \A n \in S : n = 0 \/ canSplitAfter(h, n) OBVIOUS
  <2>3. manualSplit(h) = Max(S) BY DEF manualSplit
  <2> HIDE DEF S
  <2>4. Max(S) \in S BY <2>1, Greatest
  <2> QED BY <2>2, <2>3, <2>4
<1>2. recentSplit(h) = 0 \/ canSplitAfter(h, recentSplit(h))
  <2>1. \/ recentSplit(h) = 0
        \/ \E b, k : MostSplit(h, b, k) /\ recentSplit(h) = Len(h) - k
    BY ScanStops
  <2> QED BY <2>1 DEF MostSplit
<1>3. CASE src = "manual" BY <1>1, <1>3, FitIsSafe DEF computeCompactCount
<1>4. CASE src # "manual" BY <1>2, <1>4, FitIsSafe DEF computeCompactCount
<1> QED BY <1>3, <1>4

LEMMA ReduceIsSafe ==
  ASSUME NEW h \in Seq(Msg), NEW n, canSplitAfter(h, n)
  PROVE  LET k == reduceCompactOnOverflow(Prefix(h, n))
         IN  /\ canSplitAfter(h, k)
             /\ k < n \/ \A j \in 2..(n - 1) : ~ canSplitAfter(h, j)
<1> DEFINE g == Prefix(h, n)
           safe == {k \in 2..(Len(g) - 1) : canSplitAfter(g, k)}
           enough == {k \in safe : RecentTokens(g, Len(g) - k) >= MinReducedSize}
           k == reduceCompactOnOverflow(g)
<1>1. n \in 1..Len(h) BY SplitIsIn
<1>2. Len(g) = n BY <1>1 DEF Prefix
<1>3. \A j \in 2..(n - 1) : canSplitAfter(g, j) <=> canSplitAfter(h, j)
  <2>1. \A j \in 2..(n - 1) : j \in 1..(n - 1) BY <1>1
  <2> QED BY <1>1, <2>1, PrefixSplits
<1>4. safe = {j \in 2..(n - 1) : canSplitAfter(h, j)} BY <1>2, <1>3
<1>5. k = IF enough # {} THEN Max(enough) ELSE IF safe # {} THEN Min(safe) ELSE n
  BY <1>2 DEF reduceCompactOnOverflow
<1>6. \A j \in enough : j \in safe OBVIOUS
<1> HIDE DEF enough, safe, k
<1>7. safe \subseteq Nat /\ enough \subseteq Nat /\ n \in Nat
      /\ \A j \in safe : j < n /\ j =< n /\ canSplitAfter(h, j)
  BY <1>1, <1>4, <1>6
<1>8. enough # {} => Max(enough) \in enough BY <1>6, <1>7, Greatest
<1>9. safe # {} => Min(safe) \in safe BY <1>7, LeastElement
<1>10. CASE safe # {}
  <2>1. k \in safe BY <1>5, <1>6, <1>8, <1>9, <1>10
  <2> QED BY <1>7, <2>1 DEF k
<1>11. CASE safe = {}
  <2>1. k = n BY <1>5, <1>6, <1>8, <1>11
  <2> QED BY <1>4, <1>11, <2>1 DEF k
<1> QED BY <1>10, <1>11

-----------------------------------------------------------------------------
(* The first histories.                                                    *)

LEMMA OwnerIs ==
  ASSUME NEW ks, NEW i \in Nat \ {0}
  PROVE  /\ Owner(ks, i) \in 0..(i - 1)
         /\ Owner(ks, i) = 0 \/ ks[Owner(ks, i)] # "tool"
         /\ \A j \in 1..(i - 1) : ks[j] # "tool" => j =< Owner(ks, i)
<1> DEFINE S == {j \in 0..(i - 1) : j = 0 \/ ks[j] # "tool"}
<1>1. S \subseteq Nat /\ 0 \in S /\ \A j \in S : j =< i OBVIOUS
<1>2. \A j \in 1..(i - 1) : ks[j] # "tool" => j \in S OBVIOUS
<1>3. \A j \in S : j \in 0..(i - 1) /\ (j = 0 \/ ks[j] # "tool") OBVIOUS
<1>4. Owner(ks, i) = Max(S) BY DEF Owner
<1> HIDE DEF S
<1>5. Max(S) \in S /\ \A j \in S : j =< Max(S) BY <1>1, Greatest
<1> QED BY <1>2, <1>3, <1>4, <1>5

LEMMA CallsAre ==
  ASSUME NEW kind \in Kinds
  PROVE  /\ CallsOf(kind) \in Nat
         /\ kind \in {"user", "tool"} => CallsOf(kind) = 0
BY DEF Kinds, CallsOf

LEMMA InstanceIsWhole ==
  ASSUME NEW n \in Nat \ {0}, NEW ks \in [1..n -> Kinds], WellFormed(ks),
         NEW sizes \in [1..n -> Sizes]
  PROVE  /\ Instance(ks, sizes) \in Seq(Msg) /\ Instance(ks, sizes) # <<>>
         /\ Whole(Instance(ks, sizes))
<1> DEFINE h == Instance(ks, sizes)
           m(i) == CallsOf(ks[i])
           own(i) == Owner(ks, i)
           tool(i) == ks[i] = "tool"
           role(i) == CASE ks[i] \in {"user", "tool"} -> ks[i] [] OTHER -> "assistant"
           id(i) == IF tool(i) THEN <<own(i), i - own(i)>> ELSE i
           calls(i) == {<<i, k>> : k \in 1..m(i)}
<1>1. h = [i \in 1..n |-> [role |-> role(i), id |-> id(i), calls |-> calls(i),
                           size |-> sizes[i]]]
  BY DEF Instance
<1>2. \A i \in 1..n : /\ own(i) \in 0..(i - 1)
                      /\ own(i) = 0 \/ ~ tool(own(i))
                      /\ \A j \in 1..(i - 1) : ~ tool(j) => j =< own(i)
  <2> TAKE i \in 1..n
  <2>1. i \in Nat \ {0} OBVIOUS
  <2> QED BY <2>1, OwnerIs
<1>3. \A i \in 1..n : m(i) \in Nat /\ (ks[i] \in {"user", "tool"} => m(i) = 0)
  <2> TAKE i \in 1..n
  <2>1. ks[i] \in Kinds OBVIOUS
  <2> QED BY <2>1, CallsAre
<1>4. \A i \in 1..n : /\ tool(i) => own(i) > 0 /\ i - own(i) <= m(own(i))
                      /\ ~ tool(i) /\ i > 1 => own(i) > 0 /\ i - 1 - own(i) >= m(own(i))
  <2>1. DOMAIN ks = 1..n OBVIOUS
  <2> QED BY <2>1 DEF WellFormed
<1>5. \A i \in 1..n : /\ role(i) \in {"user", "assistant", "tool"}
                      /\ role(i) = "tool" <=> tool(i)
                      /\ role(i) = "assistant" <=> ks[i] \notin {"user", "tool"}
  <2> TAKE i \in 1..n
  <2>1. ks[i] \in Kinds OBVIOUS
  <2> QED BY <2>1 DEF Kinds
<1>6. \A i \in 1..n : sizes[i] \in Nat BY CompactionConstants
<1>7. \A i \in 1..n : role(i) = "assistant" => ~ tool(i) BY <1>5
<1> HIDE DEF m, own, tool, role
<1>8. \A i \in 1..n : id(i) \in Nat \cup (Nat \X Nat)
  <2> TAKE i \in 1..n
  <2>1. own(i) \in Nat /\ i - own(i) \in Nat BY <1>2
  <2> QED BY <2>1
<1>9. \A i \in 1..n : calls(i) \in SUBSET (Nat \X Nat) OBVIOUS
<1>10. \A i \in 1..n : id(i) = IF tool(i) THEN <<own(i), i - own(i)>> ELSE i OBVIOUS
<1>11. \A i \in 1..n : calls(i) = {<<i, k>> : k \in 1..m(i)} OBVIOUS
<1> HIDE DEF id, calls
<1>12. \A i \in 1..n : [role |-> role(i), id |-> id(i), calls |-> calls(i),
                        size |-> sizes[i]] \in Msg
  BY <1>5, <1>6, <1>8, <1>9 DEF Msg
<1>13. h \in Seq(Msg) /\ Len(h) = n /\ h # <<>>
  <2> HIDE DEF Msg
  <2>1. h \in [1..n -> Msg] BY <1>1, <1>12
  <2> HIDE DEF h
  <2>2. h \in Seq(Msg) BY <2>1
  <2>3. Len(h) = n BY <2>1
  <2>4. <<>> \notin [1..n -> Msg] OBVIOUS
  <2> QED BY <2>1, <2>2, <2>3, <2>4
<1>14. \A i \in 1..n : h[i].role = role(i) /\ h[i].id = id(i) /\ h[i].calls = calls(i)
  BY <1>1
<1>15. \A i \in 1..n : Result(h, i) <=> tool(i) BY <1>5, <1>14 DEF Result, ToolRoles
<1> HIDE DEF h
<1>16. ASSUME NEW i \in 1..n, tool(i) PROVE \E o \in 1..(i - 1) : Answers(h, o, i)
  <2> DEFINE o == own(i)
  <2>1. o \in 1..(i - 1) /\ o \in 1..n /\ ~ tool(o) /\ i - o <= m(o) /\ i - o >= 1
    BY <1>2, <1>4, <1>16
  <2>2. i - o \in 1..m(o) /\ m(o) # 0 BY <1>3, <2>1
  <2>3. role(o) = "assistant" BY <1>3, <1>5, <2>1, <2>2
  <2>4. id(i) = <<o, i - o>> /\ id(o) = o BY <1>10, <1>16, <2>1
  <2>5. \A k \in (o + 1)..i : Result(h, k)
    <3> TAKE k \in (o + 1)..i
    <3>1. k \in 1..n /\ ~ (k =< o) /\ (k = i \/ k \in 1..(i - 1)) BY <2>1
    <3>2. tool(k) BY <1>2, <1>16, <3>1
    <3> QED BY <1>15, <3>1, <3>2
  <2> HIDE DEF o
  <2>6. id(i) \in calls(o) BY <1>11, <2>1, <2>2, <2>4
  <2>7. Answers(h, o, i) BY <1>14, <2>1, <2>3, <2>4, <2>5, <2>6 DEF Answers
  <2> QED BY <2>1, <2>7
<1>17. ASSUME NEW i \in 1..n, role(i) # "assistant" PROVE calls(i) = {}
  <2>1. m(i) = 0 BY <1>3, <1>5, <1>17
  <2> QED BY <1>11, <2>1
<1>18. ASSUME NEW o \in 1..n, role(o) = "assistant" PROVE Asked(h, o)
  <2>1. ~ tool(o) /\ m(o) \in Nat BY <1>3, <1>7, <1>18
  <2>2. ASSUME NEW j \in (o + 1)..n, ~ tool(j) PROVE o + m(o) < j
    <3> DEFINE S == {i \in (o + 1)..n : ~ tool(i)}
    <3>1. PICK f \in S : \A i \in S : f =< i
      <4>1. S \subseteq Nat /\ j \in S BY <2>2
      <4> HIDE DEF S
      <4>2. Min(S) \in S /\ \A i \in S : Min(S) =< i BY <4>1, LeastElement
      <4> QED BY <4>2
    <3>2. f \in (o + 1)..n /\ ~ tool(f) /\ f =< j BY <2>2, <3>1
    <3>3. \A i \in (o + 1)..n : ~ tool(i) => f =< i BY <3>1
    <3> HIDE DEF S
    <3>4. f \in 1..n /\ f > 1 /\ o \in 1..(f - 1) BY <3>2
    <3>5. own(f) = o
      <4>1. own(f) \in 0..(f - 1) /\ o =< own(f) /\ (own(f) = 0 \/ ~ tool(own(f)))
        BY <1>2, <2>1, <3>4
      <4>2. ~ (own(f) \in (o + 1)..n) BY <3>2, <3>3, <4>1
      <4> QED BY <3>2, <4>1, <4>2
    <3>6. f - 1 - o >= m(o) BY <1>4, <3>2, <3>4, <3>5
    <3> QED BY <2>1, <2>2, <3>2, <3>6
  <2>3. \A j \in (o + 1)..n : ~ Result(h, j) => o + m(o) < j
    <3> TAKE j \in (o + 1)..n
    <3>1. j \in 1..n OBVIOUS
    <3> QED BY <1>15, <2>2, <3>1
  <2>4. h[o].calls = {<<h[o].id, k>> : k \in 1..m(o)} BY <1>10, <1>11, <1>14, <2>1
  <2> QED BY <1>13, <2>1, <2>3, <2>4 DEF Asked
<1>19. \A i, j \in 1..n : role(i) = "assistant" /\ role(j) = "assistant" /\ id(i) = id(j)
         => i = j
  BY <1>7, <1>10
<1>20. Whole(h)
  <2>1. \A i \in 1..n : Result(h, i) => \E o \in 1..(i - 1) : Answers(h, o, i)
    BY <1>15, <1>16
  <2>2. \A i \in 1..n : h[i].role # "assistant" => h[i].calls = {} BY <1>14, <1>17
  <2>3. \A i \in 1..n : h[i].role = "assistant" => Asked(h, i) BY <1>14, <1>18
  <2>4. \A i, j \in 1..n :
          h[i].role = "assistant" /\ h[j].role = "assistant" /\ h[i].id = h[j].id => i = j
    BY <1>14, <1>19
  <2> QED BY <1>13, <2>1, <2>2, <2>3, <2>4 DEF Whole
<1> QED BY <1>13, <1>20 DEF h

-----------------------------------------------------------------------------
LEMMA InitInv == Init => Inv
<1> SUFFICES ASSUME Init PROVE Inv OBVIOUS
<1>1. messages \in Histories BY DEF Init
<1>2. PICK n \in 1..MaxMessages :
        \E ks \in [1..n -> Kinds], sizes \in [1..n -> Sizes] :
          WellFormed(ks) /\ messages = Instance(ks, sizes)
  BY <1>1 DEF Histories
<1>3. n \in Nat \ {0} OBVIOUS
<1>4. messages \in Seq(Msg) /\ messages # <<>> /\ Whole(messages)
  BY <1>2, <1>3, InstanceIsWhole
<1>5. pc = "begin" BY DEF Init
<1> QED BY <1>4, <1>5 DEF Inv

(* A step of a compaction: the history stays, is shortened or is cut.      *)
LEMMA StepKeeps ==
  Inv /\ [Next]_vars => Inv' /\ Awaited(messages') = Awaited(messages)
<1> SUFFICES ASSUME Inv, [Next]_vars
             PROVE  Inv' /\ Awaited(messages') = Awaited(messages)
  OBVIOUS
<1>1. messages \in Seq(Msg) /\ messages # <<>> /\ Whole(messages) /\ Len(messages) >= 1
      /\ (pc = "generate" => canSplitAfter(messages, compactedCount))
  BY DEF Inv
<1>2. Inv' <=> /\ messages' \in Seq(Msg) /\ messages' # <<>>
               /\ Whole(messages')
               /\ pc' = "generate" => canSplitAfter(messages', compactedCount')
  BY DEF Inv, Whole, Answers, Asked, Result, canSplitAfter, EndsOpen, SelectLastInSubSeq,
         ToolRoles, UserRoles
<1>3. CASE begin
  <2>1. LET n == computeCompactCount(messages, source)
        IN  n = 0 \/ canSplitAfter(messages, n)
    BY <1>1, ComputeIsSafe
  <2>2. messages' = messages /\ compactedCount' = computeCompactCount(messages, source)
        /\ (pc' = "generate" => compactedCount' > 0)
    BY <1>3 DEF begin
  <2> QED BY <1>1, <1>2, <2>1, <2>2
<1>4. CASE overflow
  <2>1. messages' = messages /\ pc = "generate"
        /\ compactedCount' = reduceCompactOnOverflow(Prefix(messages, compactedCount))
    BY <1>4 DEF overflow, retry
  <2>2. canSplitAfter(messages, compactedCount') BY <1>1, <2>1, ReduceIsSafe
  <2> QED BY <1>1, <1>2, <2>1, <2>2
<1>5. CASE transientError
  <2>1. messages' = messages /\ pc = "generate" /\ compactedCount' = compactedCount
    BY <1>5 DEF transientError, retry
  <2> QED BY <1>1, <1>2, <2>1
<1>6. CASE fatalError
  <2>1. messages' = messages /\ pc' = "prune" BY <1>6 DEF fatalError
  <2> QED BY <1>1, <1>2, <2>1
<1>7. CASE answer
  <2> DEFINE n == compactedCount
             sum == [role |-> "summary", id |-> 0, calls |-> {}, size |-> SummarySize]
             rest == SubSeq(messages, n + 1, Len(messages))
             g == <<sum>> \o rest
  <2>1. messages' = g /\ pc' # "generate" /\ pc = "generate"
    BY <1>7 DEF answer, Compacted
  <2>2. n \in 1..Len(messages) /\ canSplitAfter(messages, n) BY <1>1, <2>1, SplitIsIn
  <2>3. sum \in Msg
    <3>1. SummarySize \in Nat BY CompactionConstants
    <3> QED BY <3>1 DEF Msg
  <2>4. sum.role = "summary" /\ sum.calls = {} OBVIOUS
  <2>5. /\ rest \in Seq(Msg) /\ Len(rest) = Len(messages) - n
        /\ \A i \in 1..Len(rest) : rest[i] = messages[n + i]
    BY <1>1, <2>2
  <2> HIDE DEF sum, rest, n
  <2>6. g \in Seq(Msg) /\ Len(g) = Len(rest) + 1 /\ g[1] = sum
        /\ \A i \in 2..Len(g) : g[i] = rest[i - 1]
    BY <2>3, <2>5
  <2> HIDE DEF g
  <2>7. Shortened(messages, n, g)
    <3>1. Len(g) = Len(messages) - n + 1 /\ Len(rest) \in Nat BY <2>2, <2>5, <2>6
    <3>2. ASSUME NEW i \in 2..Len(g) PROVE g[i] = messages[i + n - 1]
      <4>1. i - 1 \in 1..Len(rest) /\ n + (i - 1) = i + n - 1 BY <2>2, <2>6, <3>1
      <4> QED BY <2>5, <2>6, <4>1
    <3> QED BY <2>4, <2>6, <3>1, <3>2 DEF Shortened
  <2>8. Whole(g) /\ Awaited(g) = Awaited(messages) /\ g # <<>>
    <3>1. Len(g) > 0 BY <2>5, <2>6
    <3> QED BY <1>1, <2>2, <2>6, <2>7, <3>1, ShortenedIsWhole, ShortenedIsAwaited
  <2> QED BY <1>2, <2>1, <2>6, <2>8
<1>8. CASE prune
  <2> DEFINE f == firstPrunable(messages)
             g == [messages EXCEPT ![f].role = "pruned", ![f].size = PrunedSize]
  <2>1. pc' # "generate"
    BY <1>8 DEF prune
  <2>2. CASE messages' = messages BY <1>1, <1>2, <2>1, <2>2
  <2>3. CASE messages' = g /\ f > 0
    <3> DEFINE I == {i \in 1..Len(messages) : messages[i].role \in ToolRoles}
    <3>1. f = IF I # {} THEN Min(I) ELSE 0 BY DEF firstPrunable, SelectInSeq
    <3>2. f \in 1..Len(messages) /\ messages[f].role \in ToolRoles
      <4>1. I \subseteq Nat /\ I # {} BY <2>3, <3>1
      <4> HIDE DEF I
      <4>2. Min(I) \in I BY <4>1, LeastElement
      <4> HIDE DEF f
      <4>3. f \in I BY <3>1, <4>1, <4>2
      <4> QED BY <4>3 DEF I
    <3> HIDE DEF f
    <3>3. PrunedSize \in Nat BY CompactionConstants
    <3> DEFINE cut == [messages[f] EXCEPT !.role = "pruned", !.size = PrunedSize]
    <3>4. messages[f] \in Msg BY <1>1, <3>2
    <3>5. cut \in Msg /\ cut.role = "pruned" /\ cut.id = messages[f].id
          /\ cut.calls = messages[f].calls
      BY <3>3, <3>4 DEF Msg
    <3>6. g = [messages EXCEPT ![f] = cut] BY <1>1, <3>2
    <3> HIDE DEF cut, g
    <3>7. g \in Seq(Msg) /\ Len(g) = Len(messages)
          /\ \A i \in 1..Len(messages) : g[i] = IF i = f THEN cut ELSE messages[i]
      <4> DEFINE len == Len(messages)
      <4>1. messages \in [1..len -> Msg] /\ len \in Nat BY <1>1
      <4> HIDE DEF len
      <4>2. g \in [1..len -> Msg] BY <3>5, <3>6, <4>1
      <4>3. g \in Seq(Msg) /\ Len(g) = len BY <4>1, <4>2
      <4>4. \A i \in 1..len : g[i] = IF i = f THEN cut ELSE messages[i] BY <3>6, <4>1
      <4> QED BY <4>3, <4>4 DEF len
    <3>8. Cut(messages, g)
      <4>1. messages[f].role # "assistant" BY <3>2 DEF ToolRoles
      <4>2. ASSUME NEW i \in 1..Len(messages)
            PROVE  /\ Result(g, i) <=> Result(messages, i)
                   /\ (g[i].role = "assistant") <=> (messages[i].role = "assistant")
                   /\ g[i].id = messages[i].id /\ g[i].calls = messages[i].calls
        <5>1. CASE i = f BY <3>2, <3>5, <3>7, <4>1, <5>1 DEF Result, ToolRoles
        <5>2. CASE i # f BY <3>7, <5>2 DEF Result
        <5> QED BY <5>1, <5>2
      <4> QED BY <3>7, <4>2 DEF Cut
    <3>9. Whole(g) /\ Awaited(g) = Awaited(messages) BY <1>1, <3>8, CutIsWhole
    <3>10. g # <<>> BY <1>1, <3>7
    <3> QED BY <1>2, <2>1, <2>3, <3>7, <3>9, <3>10
  <2> QED BY <1>8, <2>2, <2>3 DEF prune
<1>9. CASE UNCHANGED vars
  <2>1. messages' = messages /\ pc' = pc /\ compactedCount' = compactedCount BY <1>9 DEF vars
  <2> QED BY <1>1, <1>2, <2>1
<1> QED BY <1>3, <1>4, <1>5, <1>6, <1>7, <1>8, <1>9 DEF Next

(* A history is always a sequence of whole exchanges, of which only the    *)
(* last may still wait for results, and what a compaction is about to take *)
(* ends after an exchange (strategy.ts:204-241).                           *)
THEOREM HistoryIsWhole == Spec => []Inv
<1>1. Inv /\ [Next]_vars => Inv' BY StepKeeps
<1> QED BY InitInv, <1>1, PTL DEF Spec

(* No tool result is left without the message that asked for it, by any    *)
(* number of rounds, retries and cuts (strategy.ts:204-241).               *)
THEOREM NoOrphans == Spec => []ExchangesStayWhole
<1>1. Inv => ExchangesStayWhole
  <2> SUFFICES ASSUME Inv PROVE ExchangesStayWhole OBVIOUS
  <2>1. DOMAIN messages = 1..Len(messages)
    <3>1. messages \in Seq(Msg) BY DEF Inv
    <3> QED BY <3>1
  <2>2. ASSUME NEW i \in 1..Len(messages), Result(messages, i)
        PROVE  \E j \in 1..(i - 1) : messages[i].id \in messages[j].calls
    <3>1. \E j \in 1..(i - 1) : Answers(messages, j, i) BY <2>2 DEF Inv, Whole
    <3> QED BY <3>1 DEF Answers
  <2> QED BY <2>1, <2>2 DEF ExchangesStayWhole, Result
<1> QED BY <1>1, HistoryIsWhole, PTL

(* The results still awaited are the same before and after, so that they   *)
(* find the message that asks for them (strategy.ts:228-241).              *)
THEOREM CallsStayAwaited == Spec => AwaitedStay
<1>1. Inv /\ [Next]_vars => [Awaited(messages') = Awaited(messages)]_vars BY StepKeeps
<1> QED BY <1>1, HistoryIsWhole, PTL DEF Spec, AwaitedStay

(* After a refused request less is sent, or nothing smaller can be split   *)
(* off (strategy.ts:127-145).                                              *)
THEOREM OverflowMakesSmaller == Spec => OverflowShrinks
<1>1. Inv /\ overflow => \/ compactedCount' < compactedCount
                         \/ \A n \in 2..(compactedCount - 1) : ~ canSplitAfter(messages, n)
  <2> SUFFICES ASSUME Inv, overflow
               PROVE  \/ compactedCount' < compactedCount
                      \/ \A n \in 2..(compactedCount - 1) : ~ canSplitAfter(messages, n)
    OBVIOUS
  <2>1. compactedCount' = reduceCompactOnOverflow(Prefix(messages, compactedCount))
        /\ canSplitAfter(messages, compactedCount) /\ messages \in Seq(Msg)
    BY DEF overflow, retry, Inv
  <2> QED BY <2>1, ReduceIsSafe
<1>2. Inv /\ [Next]_vars =>
        [overflow => \/ compactedCount' < compactedCount
                     \/ \A n \in 2..(compactedCount - 1) : ~ canSplitAfter(messages, n)]_vars
  BY <1>1
<1> QED BY <1>2, HistoryIsWhole, PTL DEF Spec, OverflowShrinks

(* The one pass over the recent messages finds the split that keeps them   *)
(* up to and with the one that reaches a limit, as far as a safe split     *)
(* allows (strategy.ts:98-123).                                            *)
THEOREM ScanFindsSplit == Spec => []RecentMessagesKept
<1>1. Inv => RecentMessagesKept
  <2> SUFFICES ASSUME Inv PROVE RecentMessagesKept OBVIOUS
  <2>1. messages \in Seq(Msg) /\ Len(messages) >= 1 BY DEF Inv
  <2> QED BY <2>1, RecentIsKept DEF RecentMessagesKept
<1> QED BY <1>1, HistoryIsWhole, PTL
=============================================================================
