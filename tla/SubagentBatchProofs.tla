------------------------- MODULE SubagentBatchProofs -------------------------
(***************************************************************************)
(* That no task of a batch is lost or run twice at a time, that results    *)
(* are final, that a cancelled task is reported as started exactly if it   *)
(* has an agent, that waiting tasks always have something that wakes the   *)
(* batch, and that launches keep their distance from a rate limit: for any *)
(* number of tasks, any cap, any rate limits and any intervals.            *)
(*                                                                         *)
(* The methods of the batch are operators on its record, so most lemmas    *)
(* say what a method does to a record that is Good, or all but for one     *)
(* task that has just been released; those on times follow apart, for a    *)
(* record that is also Timed.                                              *)
(***************************************************************************)
EXTENDS SubagentBatch, TLAPS, SequenceTheorems, FiniteSetTheorems, NaturalsInduction,
        WellFoundedInduction

Fields == {"given", "pending", "active", "ready", "started", "agentId", "results", "finished",
           "normalLaunchCount", "normalLaunchTimer", "rateLimitLaunchTimer", "rateLimitMode",
           "startedSuccessCount", "rateLimitCapacity", "globalRetryInterval",
           "nextRateLimitLaunch", "retryCount", "retryReady", "shrink", "lastRateLimit",
           "lastCapacityRecovery"}

Over == {"resolved", "rejected"}

Types(b) ==
  /\ DOMAIN b = Fields
  /\ b.given \in [maxConcurrency : Nat, rateLimits : Nat]
  /\ b.pending \in Seq(Task) /\ IsInjective(b.pending)
  /\ b.active \subseteq Task /\ b.started \subseteq Task /\ b.agentId \subseteq Task
  /\ b.results \in [Task -> {None} \cup Statuses]
  /\ b.retryCount \in [Task -> Nat]
  /\ b.finished \in {"not_run", "no"} \cup Over
  /\ b.normalLaunchCount \in Nat

Elems(s)   == {s[i] : i \in 1..Len(s)}
Waiting(b) == Elems(b.pending)
Settled(b) == {t \in Task : b.results[t] # None}

(* Each task of T waits, runs or has its result.                           *)
Places(b, T) ==
  /\ Waiting(b) \cup b.active \cup Settled(b) = T
  /\ Waiting(b) \cap b.active = {} /\ (Waiting(b) \cup b.active) \cap Settled(b) = {}

(* A task with a retry has had an agent; one reported as not started has   *)
(* had no attempt that was ready and no retry.                             *)
Honest(b) ==
  /\ \A t \in Task : b.retryCount[t] > 0 => t \in b.agentId
  /\ \A t \in Task : b.results[t] = "aborted/not_started" =>
        t \notin b.started /\ b.retryCount[t] = 0 /\ b.finished \in Over

(* When the batch is over nothing is active and no timer is set.           *)
Stopped(b) ==
  b.finished \in Over => b.active = {} /\ b.normalLaunchTimer = Off /\ b.rateLimitLaunchTimer = Off

Good(b, T) == Types(b) /\ Honest(b) /\ Stopped(b) /\ (b.finished \notin Over => Places(b, T))

Inv == Good(batch, Task)

-----------------------------------------------------------------------------
(* Sequences.                                                              *)

LEMMA ElemsAreRange == ASSUME NEW s \in Seq(Task) PROVE Range(s) = Elems(s) /\ DOMAIN s = 1..Len(s)
BY DEF Range, Elems

LEMMA PrefixProperties ==
  ASSUME NEW s \in Seq(Task), IsInjective(s), NEW k \in Nat, k <= Len(s)
  PROVE  /\ SubSeq(s, 1, k) \in Seq(Task) /\ SubSeq(s, k + 1, Len(s)) \in Seq(Task)
         /\ IsInjective(SubSeq(s, k + 1, Len(s)))
         /\ Elems(SubSeq(s, 1, k)) \cup Elems(SubSeq(s, k + 1, Len(s))) = Elems(s)
         /\ Elems(SubSeq(s, 1, k)) \cap Elems(SubSeq(s, k + 1, Len(s))) = {}
<1> DEFINE a == SubSeq(s, 1, k)
           z == SubSeq(s, k + 1, Len(s))
<1>1. Len(s) \in Nat /\ DOMAIN s = 1..Len(s) /\ \A i \in 1..Len(s) : s[i] \in Task OBVIOUS
<1>2. /\ a \in Seq(Task) /\ Len(a) = IF 1 <= k THEN k - 1 + 1 ELSE 0
      /\ \A i \in 1..(k - 1 + 1) : a[i] = s[1 + i - 1]
  <2>1. \A i \in 1..k : s[i] \in Task BY <1>1
  <2> QED BY <2>1, SubSeqProperties
<1>3. /\ z \in Seq(Task) /\ Len(z) = IF k + 1 <= Len(s) THEN Len(s) - (k + 1) + 1 ELSE 0
      /\ \A i \in 1..(Len(s) - (k + 1) + 1) : z[i] = s[k + 1 + i - 1]
  <2>1. k + 1 \in Int /\ \A i \in (k + 1)..Len(s) : s[i] \in Task BY <1>1
  <2> QED BY <1>1, <2>1, SubSeqProperties
<1>4. Len(a) = k /\ \A i \in 1..k : a[i] = s[i] BY <1>2
<1> HIDE DEF a, z
<1>5. Len(z) = Len(s) - k /\ \A i \in 1..(Len(s) - k) : z[i] = s[k + i]
  <2>1. Len(s) - (k + 1) + 1 = Len(s) - k /\ (~ (k + 1 <= Len(s)) => Len(s) - k = 0)
    <3> DEFINE n == Len(s)
    <3> HIDE DEF n
    <3>1. n \in Nat /\ k <= n BY <1>1 DEF n
    <3>2. n - (k + 1) + 1 = n - k /\ (~ (k + 1 <= n) => n - k = 0) BY <3>1
    <3> QED BY <3>2 DEF n
  <2>2. \A i \in 1..(Len(s) - k) : k + 1 + i - 1 = k + i BY <1>1
  <2>3. Len(z) = Len(s) - k BY <1>1, <1>3, <2>1
  <2> QED BY <1>3, <2>1, <2>2, <2>3
<1>6. Elems(a) = {s[i] : i \in 1..k} BY <1>4 DEF Elems
<1>7. Elems(z) = {s[i] : i \in (k + 1)..Len(s)}
  <2>1. \A i \in (k + 1)..Len(s) : i - k \in 1..(Len(s) - k) /\ k + (i - k) = i BY <1>1
  <2>2. \A i \in 1..(Len(s) - k) : k + i \in (k + 1)..Len(s) BY <1>1
  <2>3. \A i \in 1..(Len(s) - k) : z[i] \in {s[j] : j \in (k + 1)..Len(s)} BY <1>5, <2>2
  <2>4. \A i \in (k + 1)..Len(s) : z[i - k] = s[i] BY <1>5, <2>1
  <2>5. \A i \in (k + 1)..Len(s) : s[i] \in {z[j] : j \in 1..(Len(s) - k)} BY <2>1, <2>4
  <2>6. Elems(z) = {z[j] : j \in 1..(Len(s) - k)} BY <1>5 DEF Elems
  <2> QED BY <2>3, <2>5, <2>6
<1>8. 1..k \cup (k + 1)..Len(s) = 1..Len(s) BY <1>1
<1>9. Elems(a) \cup Elems(z) = Elems(s) BY <1>6, <1>7, <1>8 DEF Elems
<1>10. Elems(a) \cap Elems(z) = {}
  <2>1. \A i \in 1..k, j \in (k + 1)..Len(s) :
          i \in 1..Len(s) /\ j \in 1..Len(s) /\ i # j
    BY <1>1
  <2> QED BY <1>1, <1>6, <1>7, <2>1 DEF IsInjective
<1>11. IsInjective(z)
  <2>1. DOMAIN z = 1..(Len(s) - k) BY <1>3, <1>5 DEF z
  <2>2. ASSUME NEW i \in 1..(Len(s) - k), NEW j \in 1..(Len(s) - k), z[i] = z[j] PROVE i = j
    <3>1. k + i \in 1..Len(s) /\ k + j \in 1..Len(s) BY <1>1
    <3>2. s[k + i] = s[k + j] BY <1>5, <2>2
    <3>3. k + i = k + j BY <1>1, <3>1, <3>2 DEF IsInjective
    <3> QED BY <3>3
  <2> QED BY <2>1, <2>2 DEF IsInjective
<1> QED BY <1>2, <1>3, <1>9, <1>10, <1>11 DEF a, z

LEMMA ConcatIsInjective ==
  ASSUME NEW s \in Seq(Task), NEW r \in Seq(Task), IsInjective(s), IsInjective(r),
         Elems(s) \cap Elems(r) = {}
  PROVE  /\ s \o r \in Seq(Task) /\ IsInjective(s \o r)
         /\ Elems(s \o r) = Elems(s) \cup Elems(r)
<1>1. /\ s \o r \in Seq(Task) /\ Len(s \o r) = Len(s) + Len(r)
      /\ \A i \in 1..(Len(s) + Len(r)) :
           (s \o r)[i] = IF i <= Len(s) THEN s[i] ELSE r[i - Len(s)]
  BY ConcatProperties
<1> DEFINE m == Len(s)
           n == Len(r)
           c == s \o r
<1>2. m \in Nat /\ n \in Nat /\ DOMAIN s = 1..m /\ DOMAIN r = 1..n /\ DOMAIN c = 1..(m + n)
  BY <1>1
<1> HIDE DEF m, n, c
<1>3. \A i \in 1..m : i \in 1..(m + n) /\ c[i] = s[i] BY <1>1, <1>2 DEF m, n, c
<1>4. \A i \in (m + 1)..(m + n) : i \in 1..(m + n) /\ i - m \in 1..n /\ c[i] = r[i - m]
  BY <1>1, <1>2 DEF m, n, c
<1>5. \A i \in 1..n : m + i \in (m + 1)..(m + n) /\ (m + i) - m = i BY <1>2
<1>6. \A i \in 1..(m + n) : i \in 1..m \/ i \in (m + 1)..(m + n) BY <1>2
<1>7. Elems(c) = {c[i] : i \in 1..(m + n)} BY <1>1 DEF Elems, m, n, c
<1>8. Elems(s) = {s[i] : i \in 1..m} /\ Elems(r) = {r[i] : i \in 1..n} BY DEF Elems, m, n
<1>9. Elems(c) = Elems(s) \cup Elems(r)
  <2>1. \A x \in Elems(c) : x \in Elems(s) \cup Elems(r) BY <1>3, <1>4, <1>6, <1>7, <1>8
  <2>2. \A x \in Elems(s) : x \in Elems(c) BY <1>3, <1>7, <1>8
  <2>3. \A x \in Elems(r) : x \in Elems(c) BY <1>4, <1>5, <1>7, <1>8
  <2> QED BY <2>1, <2>2, <2>3
<1>10. ASSUME NEW i \in 1..(m + n), NEW j \in 1..(m + n), c[i] = c[j] PROVE i = j
  <2>1. CASE i \in 1..m /\ j \in 1..m BY <1>2, <1>3, <1>10, <2>1 DEF IsInjective
  <2>2. CASE i \in (m + 1)..(m + n) /\ j \in (m + 1)..(m + n)
    <3>1. i - m = j - m BY <1>2, <1>4, <1>10, <2>2 DEF IsInjective
    <3> QED BY <1>2, <3>1
  <2>3. CASE i \in 1..m /\ j \in (m + 1)..(m + n) BY <1>3, <1>4, <1>8, <1>10, <2>3
  <2>4. CASE i \in (m + 1)..(m + n) /\ j \in 1..m BY <1>3, <1>4, <1>8, <1>10, <2>4
  <2> QED BY <1>6, <2>1, <2>2, <2>3, <2>4
<1>11. IsInjective(c) BY <1>2, <1>10 DEF IsInjective
<1> QED BY <1>1, <1>9, <1>11 DEF c

LEMMA RemoveAtProperties ==
  ASSUME NEW s \in Seq(Task), IsInjective(s), NEW i \in 1..Len(s)
  PROVE  /\ RemoveAt(s, i) \in Seq(Task) /\ IsInjective(RemoveAt(s, i))
         /\ Elems(RemoveAt(s, i)) = Elems(s) \ {s[i]} /\ s[i] \in Elems(s)
<1>1. Len(s) \in Nat /\ i \in Nat /\ i - 1 \in Nat /\ i - 1 <= Len(s) /\ i <= Len(s)
      /\ (i - 1) + 1 = i
  OBVIOUS
<1> DEFINE a == SubSeq(s, 1, i - 1)
           z == SubSeq(s, i + 1, Len(s))
           m == SubSeq(s, i, Len(s))
<1>2. /\ a \in Seq(Task) /\ m \in Seq(Task) /\ IsInjective(m)
      /\ Elems(a) \cup Elems(m) = Elems(s) /\ Elems(a) \cap Elems(m) = {}
  BY <1>1, PrefixProperties
<1>3. z \in Seq(Task) /\ IsInjective(z) BY <1>1, PrefixProperties
<1>4. IsInjective(a) /\ Elems(a) = {s[j] : j \in 1..(i - 1)}
  <2>1. \A j \in 1..(i - 1) : s[j] \in Task BY <1>1
  <2>2. /\ Len(a) = IF 1 <= i - 1 THEN (i - 1) - 1 + 1 ELSE 0
        /\ \A j \in 1..((i - 1) - 1 + 1) : a[j] = s[1 + j - 1]
    BY <1>1, <2>1, SubSeqProperties
  <2>3. Len(a) = i - 1 /\ \A j \in 1..(i - 1) : a[j] = s[j] BY <1>1, <2>2
  <2>4. DOMAIN a = 1..(i - 1) BY <1>2, <2>3
  <2>5. DOMAIN s = 1..Len(s) /\ \A j \in 1..(i - 1) : j \in 1..Len(s) BY <1>1
  <2> HIDE DEF a
  <2> QED BY <2>3, <2>4, <2>5 DEF IsInjective, Elems
<1>5. Elems(z) = {s[j] : j \in (i + 1)..Len(s)}
  <2>1. /\ Len(z) = IF i + 1 <= Len(s) THEN Len(s) - (i + 1) + 1 ELSE 0
        /\ \A j \in 1..(Len(s) - (i + 1) + 1) : z[j] = s[i + 1 + j - 1]
    <3>1. i + 1 \in Int /\ \A j \in (i + 1)..Len(s) : s[j] \in Task BY <1>1
    <3> QED BY <1>1, <3>1, SubSeqProperties
  <2>2. Len(z) = Len(s) - i /\ \A j \in 1..(Len(s) - i) : z[j] = s[i + j] BY <1>1, <2>1
  <2>3. \A j \in (i + 1)..Len(s) : j - i \in 1..(Len(s) - i) /\ i + (j - i) = j BY <1>1
  <2>4. \A j \in 1..(Len(s) - i) : i + j \in (i + 1)..Len(s) BY <1>1
  <2> HIDE DEF z
  <2>5. \A j \in 1..(Len(s) - i) : z[j] \in {s[l] : l \in (i + 1)..Len(s)} BY <2>2, <2>4
  <2>6. \A j \in (i + 1)..Len(s) : z[j - i] = s[j] BY <2>2, <2>3
  <2>7. \A j \in (i + 1)..Len(s) : s[j] \in {z[l] : l \in 1..(Len(s) - i)} BY <2>3, <2>6
  <2>8. Elems(z) = {z[j] : j \in 1..(Len(s) - i)} BY <2>2 DEF Elems
  <2> QED BY <2>5, <2>7, <2>8
<1>6. DOMAIN s = 1..Len(s) OBVIOUS
<1>7. Elems(a) \cup Elems(z) = Elems(s) \ {s[i]}
  <2>1. Elems(s) = {s[j] : j \in 1..Len(s)} BY DEF Elems
  <2>2. \A j \in 1..Len(s) : j = i \/ j \in 1..(i - 1) \/ j \in (i + 1)..Len(s) BY <1>1
  <2>3. \A j \in 1..(i - 1) : j \in 1..Len(s) /\ j # i BY <1>1
  <2>4. \A j \in (i + 1)..Len(s) : j \in 1..Len(s) /\ j # i BY <1>1
  <2> HIDE DEF a, z
  <2> QED BY <1>4, <1>5, <1>6, <2>1, <2>2, <2>3, <2>4 DEF IsInjective
<1>8. Elems(a) \cap Elems(z) = {}
  <2>1. \A j \in 1..(i - 1), l \in (i + 1)..Len(s) :
          j \in 1..Len(s) /\ l \in 1..Len(s) /\ j # l
    BY <1>1
  <2> HIDE DEF a, z
  <2> QED BY <1>4, <1>5, <1>6, <2>1 DEF IsInjective
<1>9. RemoveAt(s, i) = a \o z BY DEF RemoveAt
<1>10. s[i] \in Elems(s) BY DEF Elems
<1> HIDE DEF a, z, m
<1> QED BY <1>2, <1>3, <1>4, <1>7, <1>8, <1>9, <1>10, ConcatIsInjective

LEMMA PrependProperties ==
  ASSUME NEW s \in Seq(Task), IsInjective(s), NEW t \in Task, t \notin Elems(s)
  PROVE  /\ <<t>> \o s \in Seq(Task) /\ IsInjective(<<t>> \o s)
         /\ Elems(<<t>> \o s) = Elems(s) \cup {t}
<1>1. <<t>> \in Seq(Task) /\ DOMAIN <<t>> = {1} /\ Len(<<t>>) = 1 /\ <<t>>[1] = t OBVIOUS
<1>2. IsInjective(<<t>>) BY <1>1 DEF IsInjective
<1>3. Elems(<<t>>) = {t} BY <1>1 DEF Elems
<1>4. Elems(<<t>>) \cap Elems(s) = {} BY <1>3
<1> DEFINE h == <<t>>
<1> HIDE DEF h
<1>5. h \in Seq(Task) /\ IsInjective(h) /\ Elems(h) = {t} /\ Elems(h) \cap Elems(s) = {}
  BY <1>1, <1>2, <1>3, <1>4 DEF h
<1>6. h \o s \in Seq(Task) /\ IsInjective(h \o s) /\ Elems(h \o s) = Elems(h) \cup Elems(s)
  BY <1>5, ConcatIsInjective
<1> QED BY <1>5, <1>6 DEF h

LEMMA LeastElement ==
  ASSUME NEW S, S \subseteq Nat, S # {}
  PROVE  Min(S) \in S /\ \A n \in S : Min(S) =< n
<1> DEFINE R == OpToRel(<, Nat)
<1>1. IsWellFoundedOn(R, Nat) BY NatLessThanWellFounded
<1> HIDE DEF R
<1>2. PICK m \in S : \A n \in S : ~ (<<n, m>> \in R) BY <1>1, WFMin
<1>3. \A n \in S : <<n, m>> \in R <=> n < m BY DEF R, OpToRel
<1>4. \A n \in S : m =< n
  <2> TAKE n \in S
  <2>1. ~ (n < m) BY <1>2, <1>3
  <2>2. m \in Nat /\ n \in Nat OBVIOUS
  <2> QED BY <2>1, <2>2
<1> QED BY <1>4 DEF Min

(* The first index that passes, or 0 for none.                             *)
LEMMA FirstIndex ==
  ASSUME NEW n \in Nat, NEW I, I \subseteq 1..n
  PROVE  (IF I # {} THEN Min(I) ELSE 0) \in 0..n
<1>1. I \subseteq Nat OBVIOUS
<1>2. CASE I = {} BY <1>2
<1>3. CASE I # {}
  <2>1. Min(I) \in I BY <1>1, <1>3, LeastElement
  <2>2. Min(I) \in 1..n BY <2>1
  <2> QED BY <1>3, <2>2
<1> QED BY <1>2, <1>3

-----------------------------------------------------------------------------
(* Methods that do not move tasks.                                         *)

Same(b, c) ==
  /\ DOMAIN c = Fields
  /\ c.given = b.given /\ c.pending = b.pending /\ c.active = b.active
  /\ c.started = b.started /\ c.agentId = b.agentId /\ c.results = b.results
  /\ c.finished = b.finished /\ c.retryCount = b.retryCount
  /\ c.normalLaunchCount = b.normalLaunchCount

LEMMA SameIsGood ==
  ASSUME NEW b, NEW c, NEW T, Good(b, T), Same(b, c), b.finished \notin Over
  PROVE  Good(c, T)
BY DEF Good, Same, Types, Honest, Stopped, Places, Waiting, Settled

LEMMA SameIsTransitive ==
  ASSUME NEW a, NEW b, NEW c, Same(a, b), Same(b, c) PROVE Same(a, c)
BY DEF Same

LEMMA WakeupIsSame ==
  ASSUME NEW b, DOMAIN b = Fields, NEW w
  PROVE  Same(b, scheduleRateLimitWakeup(b, w)) /\ Same(b, scheduleNextRateLimitWakeup(b))
<1>1. Same(b, b) BY DEF Same
<1>2. \A n : Same(b, [b EXCEPT !.rateLimitLaunchTimer = n]) BY DEF Same, Fields
<1> QED BY <1>1, <1>2 DEF scheduleRateLimitWakeup, scheduleNextRateLimitWakeup

LEMMA RecoverIsSame ==
  ASSUME NEW b, DOMAIN b = Fields PROVE Same(b, recoverRateLimitCapacity(b))
<1>1. Same(b, b) BY DEF Same
<1>2. \A n, m, k : Same(b, [b EXCEPT !.rateLimitCapacity = n, !.lastCapacityRecovery = m,
                                     !.nextRateLimitLaunch = k])
  BY DEF Same, Fields
<1> QED BY <1>1, <1>2 DEF recoverRateLimitCapacity

LEMMA EnterIsSame ==
  ASSUME NEW b, DOMAIN b = Fields PROVE Same(b, enterRateLimitMode(b))
<1>1. ASSUME NEW c, DOMAIN c = Fields, NEW force
      PROVE  Same(c, shrinkRateLimitCapacity(c, force))
  <2>1. Same(c, c) BY <1>1 DEF Same
  <2>2. \A n, m : Same(c, [c EXCEPT !.rateLimitCapacity = n, !.shrink = m])
    BY <1>1 DEF Same, Fields
  <2> QED BY <2>1, <2>2 DEF shrinkRateLimitCapacity
<1>2. \A m, n, k, l : Same(b, [b EXCEPT !.rateLimitMode = m, !.normalLaunchTimer = n,
                                       !.rateLimitCapacity = k, !.nextRateLimitLaunch = l])
  BY DEF Same, Fields
<1> DEFINE c == [b EXCEPT !.rateLimitMode = TRUE, !.normalLaunchTimer = Off,
                          !.rateLimitCapacity = AtLeastOne(b.startedSuccessCount),
                          !.nextRateLimitLaunch = Later(@, RetryBase)]
<1>3. Same(b, c) BY <1>2
<1>4. enterRateLimitMode(b) = IF b.rateLimitMode THEN shrinkRateLimitCapacity(b, FALSE)
                              ELSE shrinkRateLimitCapacity(c, TRUE)
  BY DEF enterRateLimitMode
<1> HIDE DEF c
<1>5. DOMAIN c = Fields BY <1>3 DEF Same
<1>6. Same(b, shrinkRateLimitCapacity(b, FALSE)) BY <1>1
<1>7. Same(c, shrinkRateLimitCapacity(c, TRUE)) BY <1>1, <1>5
<1>8. Same(b, shrinkRateLimitCapacity(c, TRUE)) BY <1>3, <1>7, SameIsTransitive
<1> QED BY <1>4, <1>6, <1>8

-----------------------------------------------------------------------------
(* Methods that launch tasks.                                              *)

LEMMA StartIsGood ==
  ASSUME NEW b, Good(b, Task), b.finished \notin Over, NEW i \in 1..Len(b.pending)
  PROVE  /\ Good(startAttempt(b, i), Task)
         /\ startAttempt(b, i).results = b.results /\ startAttempt(b, i).finished = b.finished
<1> DEFINE t == b.pending[i]
           rest == RemoveAt(b.pending, i)
           act == b.active \cup {t}
           c == [b EXCEPT !.pending = rest, !.active = act, !.ready = @ \ {t}]
<1>1. Types(b) /\ Honest(b) /\ Places(b, Task) BY DEF Good
<1>2. b.pending \in Seq(Task) /\ IsInjective(b.pending) /\ DOMAIN b = Fields BY <1>1 DEF Types
<1>3. /\ rest \in Seq(Task) /\ IsInjective(rest)
      /\ Elems(rest) = Waiting(b) \ {t} /\ t \in Waiting(b)
  BY <1>2, RemoveAtProperties DEF Waiting
<1>4. t \in Task BY <1>2
<1>5. startAttempt(b, i) = c
  BY DEF startAttempt
<1> HIDE DEF t, rest, act
<1>6. /\ DOMAIN c = Fields /\ c.pending = rest /\ c.active = act
      /\ c.given = b.given /\ c.started = b.started /\ c.agentId = b.agentId
      /\ c.results = b.results /\ c.finished = b.finished /\ c.retryCount = b.retryCount
      /\ c.normalLaunchCount = b.normalLaunchCount
  BY <1>2 DEF Fields
<1> HIDE DEF c
<1>7. act = b.active \cup {t} BY DEF act
<1>8. Types(c) BY <1>1, <1>3, <1>4, <1>6, <1>7 DEF Types
<1>9. Honest(c) BY <1>1, <1>6 DEF Honest
<1>10. Waiting(c) = Waiting(b) \ {t} /\ Settled(c) = Settled(b)
  BY <1>3, <1>6 DEF Waiting, Settled
<1>11. Places(c, Task) BY <1>1, <1>3, <1>6, <1>7, <1>10 DEF Places
<1>12. Stopped(c) BY <1>6 DEF Stopped
<1> QED BY <1>5, <1>6, <1>8, <1>9, <1>11, <1>12 DEF Good

LEMMA LaunchIsGood ==
  ASSUME NEW b, Good(b, Task), b.finished \notin Over, NEW k \in Nat, k <= Len(b.pending)
  PROVE  /\ Good(launchFirst(b, k), Task)
         /\ launchFirst(b, k).results = b.results /\ launchFirst(b, k).finished = b.finished
<1> DEFINE first == SubSeq(b.pending, 1, k)
           rest == SubSeq(b.pending, k + 1, Len(b.pending))
           act == b.active \cup Range(first)
           n == b.normalLaunchCount + k
           c == [b EXCEPT !.pending = rest, !.active = act, !.normalLaunchCount = n]
<1>1. Types(b) /\ Honest(b) /\ Places(b, Task) BY DEF Good
<1>2. b.pending \in Seq(Task) /\ IsInjective(b.pending) /\ DOMAIN b = Fields
      /\ b.normalLaunchCount \in Nat
  BY <1>1 DEF Types
<1>3. /\ first \in Seq(Task) /\ rest \in Seq(Task) /\ IsInjective(rest)
      /\ Elems(first) \cup Elems(rest) = Waiting(b) /\ Elems(first) \cap Elems(rest) = {}
  BY <1>2, PrefixProperties DEF Waiting
<1>4. launchFirst(b, k) = c
  BY DEF launchFirst
<1>5. n \in Nat BY <1>2
<1> HIDE DEF first, rest, n
<1>6. act = b.active \cup Elems(first) BY <1>3, ElemsAreRange DEF act
<1>7. Elems(first) \subseteq Task BY <1>3 DEF Elems
<1> HIDE DEF act
<1>8. /\ DOMAIN c = Fields /\ c.pending = rest /\ c.active = act
      /\ c.given = b.given /\ c.started = b.started /\ c.agentId = b.agentId
      /\ c.results = b.results /\ c.finished = b.finished /\ c.retryCount = b.retryCount
      /\ c.normalLaunchCount = n
  BY <1>2 DEF Fields
<1> HIDE DEF c
<1>9. Types(c) BY <1>1, <1>3, <1>5, <1>6, <1>7, <1>8 DEF Types
<1>10. Honest(c) BY <1>1, <1>8 DEF Honest
<1>11. Waiting(c) = Elems(rest) /\ Settled(c) = Settled(b) BY <1>8 DEF Waiting, Settled
<1>12. Places(c, Task) BY <1>1, <1>3, <1>6, <1>8, <1>11 DEF Places
<1>13. Stopped(c) BY <1>8 DEF Stopped
<1> QED BY <1>4, <1>8, <1>9, <1>10, <1>12, <1>13 DEF Good

LEMMA FinishIsGood ==
  ASSUME NEW b, Types(b), Honest(b), NEW how \in Over
  PROVE  /\ Good(finish(b, how), Task)
         /\ finish(b, how).results = b.results /\ finish(b, how).finished = how
<1> DEFINE c == [b EXCEPT !.finished = how, !.active = {}, !.ready = {},
                          !.normalLaunchTimer = Off, !.rateLimitLaunchTimer = Off]
<1>1. finish(b, how) = c BY DEF finish
<1>2. DOMAIN b = Fields BY DEF Types
<1>3. /\ DOMAIN c = Fields /\ c.pending = b.pending /\ c.active = {}
      /\ c.given = b.given /\ c.started = b.started /\ c.agentId = b.agentId
      /\ c.results = b.results /\ c.finished = how /\ c.retryCount = b.retryCount
      /\ c.normalLaunchCount = b.normalLaunchCount
      /\ c.normalLaunchTimer = Off /\ c.rateLimitLaunchTimer = Off
  BY <1>2 DEF Fields
<1> HIDE DEF c
<1>4. Types(c) BY <1>3 DEF Types
<1>5. Honest(c) /\ Stopped(c) BY <1>3 DEF Honest, Stopped
<1> QED BY <1>1, <1>3, <1>4, <1>5 DEF Good

LEMMA NormalIsGood ==
  ASSUME NEW b, Good(b, Task), b.finished \notin Over
  PROVE  /\ Good(scheduleNormalLaunch(b), Task)
         /\ scheduleNormalLaunch(b).results = b.results
         /\ scheduleNormalLaunch(b).finished = b.finished
<1> DEFINE room  == IF b.given.maxConcurrency = 0 THEN Cardinality(Task)
                    ELSE Later(0, b.given.maxConcurrency - Cardinality(b.active))
           free  == Later(0, InitialLaunchLimit - b.normalLaunchCount)
           burst == Min({free, Len(b.pending), room})
           c     == launchFirst(b, burst)
           d     == [c EXCEPT !.normalLaunchTimer = LaunchInterval]
<1>1. scheduleNormalLaunch(b) =
        IF c.pending = <<>> \/ c.normalLaunchTimer # Off \/ isAtConcurrencyLimit(c) THEN c ELSE d
  BY DEF scheduleNormalLaunch
<1>2. /\ b.given.maxConcurrency \in Nat /\ b.normalLaunchCount \in Nat
      /\ Len(b.pending) \in Nat /\ b.active \subseteq Task
  BY DEF Good, Types
<1>3. Cardinality(Task) \in Nat /\ Cardinality(b.active) \in Nat
  <2>1. IsFiniteSet(Task) BY BatchConstants, FS_Interval DEF Task
  <2>2. IsFiniteSet(b.active) BY <1>2, <2>1, FS_Subset
  <2> QED BY <2>1, <2>2, FS_CardinalityType
<1>4. room \in Nat BY <1>2, <1>3 DEF Later
<1>5. free \in Nat BY <1>2, BatchConstants DEF Later
<1> HIDE DEF room, free
<1>6. burst \in {free, Len(b.pending), room} BY <1>2, <1>4, <1>5, LeastElement
<1>7. burst <= Len(b.pending)
  <2> DEFINE S == {free, Len(b.pending), room}
  <2>1. S \subseteq Nat /\ S # {} BY <1>2, <1>4, <1>5
  <2>2. \A n \in S : Min(S) <= n BY <2>1, LeastElement
  <2> QED BY <2>2
<1>8. burst \in Nat BY <1>2, <1>4, <1>5, <1>6
<1> HIDE DEF burst
<1>9. Good(c, Task) /\ c.results = b.results /\ c.finished = b.finished
  BY <1>7, <1>8, LaunchIsGood
<1> HIDE DEF c
<1>10. Same(c, d) BY <1>9 DEF Good, Types, Same, Fields
<1>11. Good(d, Task) /\ d.results = b.results /\ d.finished = b.finished
  BY <1>9, <1>10, SameIsGood DEF Same
<1> QED BY <1>1, <1>9, <1>11

LEMMA RateLimitIsGood ==
  ASSUME NEW b, Good(b, Task), b.finished \notin Over
  PROVE  /\ Good(scheduleRateLimitLaunch(b), Task)
         /\ scheduleRateLimitLaunch(b).results = b.results
         /\ scheduleRateLimitLaunch(b).finished = b.finished
<1> DEFINE c == [b EXCEPT !.rateLimitLaunchTimer = Off]
           r == recoverRateLimitCapacity(c)
           w == scheduleRateLimitWakeup(r, nextWakeup(r))
           i == SelectInSeq(r.pending, LAMBDA p : r.retryReady[p] = 0)
           a == startAttempt(r, i)
           d == [a EXCEPT !.nextRateLimitLaunch = r.globalRetryInterval]
           e == scheduleNextRateLimitWakeup(d)
           Fine(x) == Good(x, Task) /\ x.results = b.results /\ x.finished = b.finished
<1>1. scheduleRateLimitLaunch(b) =
        IF c.pending = <<>> THEN c
        ELSE IF isFull(r) \/ nextWakeup(r) > 0 THEN w
        ELSE IF i = 0 THEN r ELSE e
  BY DEF scheduleRateLimitLaunch
<1>2. ASSUME NEW x, NEW y, Fine(x), Same(x, y) PROVE Fine(y)
  BY <1>2, SameIsGood DEF Same
<1>3. ASSUME NEW x, Fine(x) PROVE DOMAIN x = Fields
  BY <1>3 DEF Good, Types
<1>4. Fine(b) /\ Same(b, c) BY DEF Good, Types, Same, Fields
<1>5. Fine(c) BY <1>2, <1>4
<1> HIDE DEF c
<1>6. Same(c, r) BY <1>3, <1>5, RecoverIsSame
<1>7. Fine(r) BY <1>2, <1>5, <1>6
<1>8. r.pending \in Seq(Task) BY <1>7 DEF Good, Types
<1>9. i \in 0..Len(r.pending)
  <2> DEFINE I == {j \in 1..Len(r.pending) : r.retryReady[r.pending[j]] = 0}
  <2>1. i = IF I # {} THEN Min(I) ELSE 0 BY DEF SelectInSeq
  <2>2. I \subseteq 1..Len(r.pending) /\ Len(r.pending) \in Nat BY <1>8
  <2> HIDE DEF I
  <2> QED BY <2>1, <2>2, FirstIndex
<1> HIDE DEF r
<1>10. Same(r, w) BY <1>3, <1>7, WakeupIsSame
<1>11. Fine(w) BY <1>2, <1>7, <1>10
<1> HIDE DEF i
<1>12. CASE i # 0
  <2>1. i \in 1..Len(r.pending) BY <1>8, <1>9, <1>12
  <2>2. Fine(a) BY <1>7, <2>1, StartIsGood
  <2> HIDE DEF a
  <2>3. DOMAIN a = Fields BY <1>3, <2>2
  <2>4. Same(a, d) BY <2>3 DEF Same, Fields
  <2>5. Fine(d) BY <1>2, <2>2, <2>4
  <2> HIDE DEF d
  <2>6. Same(d, e) BY <1>3, <2>5, WakeupIsSame
  <2>7. Fine(e) BY <1>2, <2>5, <2>6
  <2> QED BY <1>1, <1>5, <1>7, <1>11, <2>7
<1>13. CASE i = 0 BY <1>1, <1>5, <1>7, <1>11, <1>13
<1> QED BY <1>12, <1>13

LEMMA ScheduleIsGood ==
  ASSUME NEW b, Good(b, Task)
  PROVE  /\ Good(schedule(b), Task) /\ schedule(b).results = b.results
         /\ b.finished \in Over => schedule(b) = b
<1>1. CASE b.finished # "no" BY <1>1 DEF schedule
<1>2. CASE b.finished = "no"
  <2>1. b.finished \notin Over BY <1>2 DEF Over
  <2>2. Types(b) /\ Honest(b) BY DEF Good
  <2>3. Good(finish(b, "resolved"), Task) /\ finish(b, "resolved").results = b.results
    BY <2>2, FinishIsGood DEF Over
  <2> QED BY <1>2, <2>1, <2>3, NormalIsGood, RateLimitIsGood DEF schedule
<1> QED BY <1>1, <1>2

-----------------------------------------------------------------------------
(* What an attempt has come to.                                            *)

LEMMA ReleaseIsGood ==
  ASSUME NEW b, Good(b, Task), NEW t \in b.active
  PROVE  LET c == [b EXCEPT !.active = @ \ {t}]
         IN  /\ Types(c) /\ Honest(c) /\ Places(c, Task \ {t}) /\ t \in Task
             /\ c.results = b.results /\ b.results[t] = None
             /\ c.finished = b.finished /\ b.finished \notin Over
             /\ c.active = b.active \ {t} /\ c.retryCount = b.retryCount
<1> DEFINE act == b.active \ {t}
           c == [b EXCEPT !.active = act]
<1>1. Types(b) /\ Honest(b) /\ b.finished \notin Over BY DEF Good, Stopped
<1>2. Places(b, Task) BY <1>1 DEF Good
<1>3. DOMAIN b = Fields /\ t \in Task BY <1>1 DEF Types
<1>4. act = b.active \ {t} OBVIOUS
<1> HIDE DEF act
<1>5. /\ DOMAIN c = Fields /\ c.pending = b.pending /\ c.active = act
      /\ c.given = b.given /\ c.started = b.started /\ c.agentId = b.agentId
      /\ c.results = b.results /\ c.finished = b.finished /\ c.retryCount = b.retryCount
      /\ c.normalLaunchCount = b.normalLaunchCount
  BY <1>3 DEF Fields
<1>6. b.results[t] = None BY <1>2, <1>3 DEF Places, Settled
<1> HIDE DEF c
<1>7. Types(c) BY <1>1, <1>4, <1>5 DEF Types
<1>8. Honest(c) BY <1>1, <1>5 DEF Honest
<1>9. Waiting(c) = Waiting(b) /\ Settled(c) = Settled(b) BY <1>5 DEF Waiting, Settled
<1>10. Places(c, Task \ {t}) BY <1>2, <1>3, <1>4, <1>5, <1>9 DEF Places
<1> QED BY <1>1, <1>3, <1>4, <1>5, <1>6, <1>7, <1>8, <1>10 DEF c, act

LEMMA ResultIsGood ==
  ASSUME NEW t \in Task, NEW c, Types(c), Honest(c), Places(c, Task \ {t}),
         c.finished \notin Over, NEW outcome \in {"completed", "failed"}
  PROVE  LET d == [c EXCEPT !.results[t] = outcome]
         IN  /\ Good(d, Task)
             /\ \A u \in Task : u # t => d.results[u] = c.results[u]
<1> DEFINE res == [c.results EXCEPT ![t] = outcome]
           d == [c EXCEPT !.results = res]
<1>1. DOMAIN c = Fields /\ c.results \in [Task -> {None} \cup Statuses] BY DEF Types
<1>2. d = [c EXCEPT !.results[t] = outcome] OBVIOUS
<1>3. /\ res \in [Task -> {None} \cup Statuses] /\ res[t] = outcome
      /\ \A u \in Task : u # t => res[u] = c.results[u]
  BY <1>1 DEF Statuses
<1> HIDE DEF res
<1>4. /\ DOMAIN d = Fields /\ d.pending = c.pending /\ d.active = c.active
      /\ d.given = c.given /\ d.started = c.started /\ d.agentId = c.agentId
      /\ d.results = res /\ d.finished = c.finished /\ d.retryCount = c.retryCount
      /\ d.normalLaunchCount = c.normalLaunchCount
  BY <1>1 DEF Fields
<1> HIDE DEF d
<1>5. Types(d) BY <1>3, <1>4 DEF Types
<1>6. Honest(d) BY <1>3, <1>4 DEF Honest
<1>7. Waiting(d) = Waiting(c) /\ Settled(d) = Settled(c) \cup {t}
  BY <1>3, <1>4 DEF Waiting, Settled, None
<1>8. Places(d, Task) BY <1>4, <1>7 DEF Places
<1>9. Stopped(d) BY <1>4 DEF Stopped
<1> QED BY <1>2, <1>3, <1>4, <1>5, <1>6, <1>8, <1>9 DEF Good

LEMMA RequeueIsGood ==
  ASSUME NEW t \in Task, NEW b, Types(b), Honest(b), Places(b, Task \ {t}),
         b.finished \notin Over
  PROVE  Good(requeueRateLimited(b, t), Task) /\ requeueRateLimited(b, t).results = b.results
<1> DEFINE delay == retryDelay[b.retryCount[t]]
           ids == b.agentId \cup {t}
           counts == [b.retryCount EXCEPT ![t] = @ + 1]
           queue == <<t>> \o b.pending
           a == [b EXCEPT !.agentId = ids, !.retryCount = counts, !.retryReady[t] = delay,
                          !.lastRateLimit = RecoveryInterval, !.pending = queue]
           c == enterRateLimitMode(a)
           interval == Later(c.globalRetryInterval * 2, delay)
           d == [c EXCEPT !.nextRateLimitLaunch = Later(@, RetryBase)]
           e == [c EXCEPT !.globalRetryInterval = interval,
                          !.nextRateLimitLaunch = Later(@, interval)]
<1>1. requeueRateLimited(b, t) = IF t \in b.ready THEN d ELSE e
  BY DEF requeueRateLimited
<1>2. /\ DOMAIN b = Fields /\ b.pending \in Seq(Task) /\ IsInjective(b.pending)
      /\ b.retryCount \in [Task -> Nat] /\ b.agentId \subseteq Task
  BY DEF Types
<1>3. t \notin Elems(b.pending) BY DEF Places, Waiting
<1>4. queue \in Seq(Task) /\ IsInjective(queue) /\ Elems(queue) = Elems(b.pending) \cup {t}
  BY <1>2, <1>3, PrependProperties
<1>5. counts \in [Task -> Nat] /\ \A u \in Task : u # t => counts[u] = b.retryCount[u]
  BY <1>2
<1>6. ids \subseteq Task /\ t \in ids /\ \A u \in b.agentId : u \in ids BY <1>2
<1> HIDE DEF delay, ids, counts, queue
<1>7. /\ DOMAIN a = Fields /\ a.pending = queue /\ a.active = b.active
      /\ a.given = b.given /\ a.started = b.started /\ a.agentId = ids
      /\ a.results = b.results /\ a.finished = b.finished /\ a.retryCount = counts
      /\ a.normalLaunchCount = b.normalLaunchCount
  BY <1>2 DEF Fields
<1> HIDE DEF a
<1>8. Types(a) BY <1>4, <1>5, <1>6, <1>7 DEF Types
<1>9. b.results[t] = None /\ t \notin b.active BY DEF Places, Settled
<1>10. Honest(a) BY <1>5, <1>6, <1>7, <1>9 DEF Honest, None
<1>11. Waiting(a) = Waiting(b) \cup {t} /\ Settled(a) = Settled(b)
  BY <1>4, <1>7 DEF Waiting, Settled
<1>12. t \notin Settled(b) BY <1>9 DEF Settled
<1>13. Places(a, Task) BY <1>7, <1>9, <1>11, <1>12 DEF Places
<1>14. Good(a, Task) BY <1>7, <1>8, <1>10, <1>13 DEF Good, Stopped
<1>15. Same(a, c) BY <1>7, EnterIsSame
<1>16. Good(c, Task) /\ c.results = b.results /\ c.finished \notin Over
  BY <1>7, <1>14, <1>15, SameIsGood DEF Same
<1> HIDE DEF c, interval
<1>17. DOMAIN c = Fields BY <1>15 DEF Same
<1>18. Same(c, d) /\ Same(c, e) BY <1>17 DEF Same, Fields
<1>19. Good(d, Task) /\ d.results = b.results BY <1>16, <1>18, SameIsGood DEF Same
<1>20. Good(e, Task) /\ e.results = b.results BY <1>16, <1>18, SameIsGood DEF Same
<1> QED BY <1>1, <1>19, <1>20

-----------------------------------------------------------------------------
(* What can happen to a batch.                                             *)

(* Results, and the end, are final.                                        *)
Final(b, c) ==
  /\ \A t \in Task : b.results[t] # None => c.results[t] = b.results[t]
  /\ b.finished \in Over => c.results = b.results /\ c.finished = b.finished

LEMMA ScheduleIsFinal ==
  ASSUME NEW b, NEW c, Good(b, Task), Final(c, b), c.finished \notin Over
  PROVE  Good(schedule(b), Task) /\ Final(c, schedule(b))
BY ScheduleIsGood DEF Final

LEMMA SameIsFinal ==
  ASSUME NEW b, NEW c, Good(b, Task), Same(b, c), b.finished \notin Over
  PROVE  Good(c, Task) /\ Final(b, c)
BY SameIsGood DEF Same, Final

LEMMA ReadyIsGood ==
  ASSUME NEW b, Good(b, Task), NEW t \in Task
  PROVE  Good(markAttemptReady(b, t), Task) /\ Final(b, markAttemptReady(b, t))
<1> DEFINE on == b.started \cup {t}
           c == [b EXCEPT !.ready = @ \cup {t}, !.started = on]
           d == [c EXCEPT !.startedSuccessCount = @ + 1]
           e == [c EXCEPT !.globalRetryInterval = RetryBase, !.nextRateLimitLaunch = RetryBase]
<1>1. markAttemptReady(b, t) =
        IF b.finished # "no" \/ t \in b.ready \/ t \notin b.active THEN b
        ELSE IF ~ b.rateLimitMode THEN d ELSE schedule(e)
  BY DEF markAttemptReady
<1>2. Good(b, Task) /\ Final(b, b) BY DEF Final
<1>3. CASE b.finished # "no" \/ t \in b.ready \/ t \notin b.active BY <1>1, <1>2, <1>3
<1>4. CASE b.finished = "no" /\ t \in b.active
  <2>1. DOMAIN b = Fields /\ on \subseteq Task BY DEF Good, Types
  <2>2. b.finished \notin Over BY <1>4 DEF Over
  <2> HIDE DEF on
  <2>3. /\ DOMAIN c = Fields /\ c.pending = b.pending /\ c.active = b.active
        /\ c.given = b.given /\ c.started = on /\ c.agentId = b.agentId
        /\ c.results = b.results /\ c.finished = b.finished /\ c.retryCount = b.retryCount
        /\ c.normalLaunchCount = b.normalLaunchCount
    BY <2>1 DEF Fields
  <2> HIDE DEF c
  <2>4. Types(c) BY <2>1, <2>3 DEF Good, Types
  <2>5. \A u \in Task : b.results[u] # "aborted/not_started" BY <2>2 DEF Good, Honest
  <2>6. Honest(c) BY <2>3, <2>5 DEF Good, Honest
  <2>7. Places(c, Task) BY <2>2, <2>3 DEF Good, Places, Waiting, Settled
  <2>8. Good(c, Task) /\ Final(b, c) /\ c.finished \notin Over
    BY <2>2, <2>3, <2>4, <2>6, <2>7 DEF Good, Stopped, Final
  <2>9. Same(c, d) /\ Same(c, e) BY <2>3 DEF Same, Fields
  <2>10. Good(d, Task) /\ Final(b, d)
    BY <2>3, <2>8, <2>9, SameIsGood DEF Same, Final
  <2>11. Good(e, Task) /\ Final(b, e)
    BY <2>3, <2>8, <2>9, SameIsGood DEF Same, Final
  <2>12. Good(schedule(e), Task) /\ Final(b, schedule(e))
    BY <2>2, <2>11, ScheduleIsFinal
  <2> QED BY <1>1, <1>2, <2>10, <2>12
<1> QED BY <1>3, <1>4

LEMMA OutcomeIsGood ==
  ASSUME NEW b, Good(b, Task), NEW t \in Task,
         NEW outcome \in {"completed", "failed", "rate_limited"}
  PROVE  Good(handleAttemptOutcome(b, t, outcome), Task)
         /\ Final(b, handleAttemptOutcome(b, t, outcome))
<1> DEFINE c == [b EXCEPT !.active = @ \ {t}]
           d(o) == [c EXCEPT !.results[t] = o]
           q == requeueRateLimited(c, t)
<1>1. handleAttemptOutcome(b, t, outcome) =
        IF t \notin b.active THEN b
        ELSE IF outcome # "rate_limited" THEN schedule(d(outcome))
        ELSE IF isOnlyUnfinishedTask(c, t) THEN schedule(d("failed"))
        ELSE schedule(q)
  BY DEF handleAttemptOutcome
<1>2. CASE t \notin b.active
  <2>1. Final(b, b) BY DEF Final
  <2> QED BY <1>1, <1>2, <2>1
<1>3. CASE t \in b.active
  <2>1. /\ Types(c) /\ Honest(c) /\ Places(c, Task \ {t})
        /\ c.results = b.results /\ b.results[t] = None
        /\ c.finished = b.finished /\ b.finished \notin Over
    BY <1>3, ReleaseIsGood
  <2> HIDE DEF c
  <2>2. ASSUME NEW o \in {"completed", "failed"}
        PROVE  Good(schedule(d(o)), Task) /\ Final(b, schedule(d(o)))
    <3>1. /\ Good(d(o), Task)
          /\ \A u \in Task : u # t => d(o).results[u] = c.results[u]
      BY <2>1, <2>2, ResultIsGood
    <3>2. Final(b, d(o)) BY <2>1, <3>1 DEF Final
    <3> HIDE DEF d
    <3> QED BY <2>1, <3>1, <3>2, ScheduleIsFinal
  <2>3. Good(q, Task) /\ q.results = c.results BY <2>1, RequeueIsGood
  <2> HIDE DEF q
  <2>4. Final(b, q) BY <2>1, <2>3 DEF Final
  <2>5. Good(schedule(q), Task) /\ Final(b, schedule(q)) BY <2>1, <2>3, <2>4, ScheduleIsFinal
  <2> HIDE DEF d
  <2>6. CASE outcome # "rate_limited" BY <1>1, <1>3, <2>2, <2>6
  <2>7. CASE outcome = "rate_limited" BY <1>1, <1>3, <2>2, <2>5, <2>7
  <2> QED BY <2>6, <2>7
<1> QED BY <1>2, <1>3

LEMMA CancelIsGood ==
  ASSUME NEW b, Good(b, Task), b.finished \notin Over
  PROVE  Good(finishWithUserCancellation(b), Task) /\ Final(b, finishWithUserCancellation(b))
<1> DEFINE res == [t \in Task |-> IF b.results[t] # None THEN b.results[t]
                                  ELSE IF t \in b.started \cup b.agentId THEN "aborted/started"
                                  ELSE "aborted/not_started"]
           c == [b EXCEPT !.results = res]
           e == [b EXCEPT !.results = res, !.finished = "resolved"]
<1>1. finishWithUserCancellation(b) = finish(c, "resolved")
  BY DEF finishWithUserCancellation
<1>2. DOMAIN b = Fields /\ b.results \in [Task -> {None} \cup Statuses] BY DEF Good, Types
<1>3. /\ res \in [Task -> {None} \cup Statuses]
      /\ \A t \in Task : b.results[t] # None => res[t] = b.results[t]
      /\ \A t \in Task : res[t] = "aborted/not_started" /\ b.results[t] = None =>
                        t \notin b.started /\ t \notin b.agentId
  BY <1>2 DEF Statuses
<1> HIDE DEF res
<1>4. /\ DOMAIN e = Fields /\ e.pending = b.pending /\ e.active = b.active
      /\ e.given = b.given /\ e.started = b.started /\ e.agentId = b.agentId
      /\ e.results = res /\ e.finished = "resolved" /\ e.retryCount = b.retryCount
      /\ e.normalLaunchCount = b.normalLaunchCount
  BY <1>2 DEF Fields
<1>5. finish(c, "resolved") = finish(e, "resolved")
  BY <1>2 DEF finish, Fields
<1> HIDE DEF c, e
<1>6. Types(e) BY <1>3, <1>4 DEF Good, Types, Over
<1>7. \A t \in Task : b.retryCount[t] \in Nat BY DEF Good, Types
<1>8. Honest(e)
  <2>1. \A t \in Task : b.results[t] # "aborted/not_started" BY DEF Good, Honest
  <2>2. \A t \in Task : b.retryCount[t] > 0 => t \in b.agentId BY DEF Good, Honest
  <2>3. ASSUME NEW t \in Task, res[t] = "aborted/not_started"
        PROVE  t \notin b.started /\ b.retryCount[t] = 0
    <3>1. t \notin b.started /\ t \notin b.agentId BY <1>3, <2>1, <2>3
    <3> QED BY <1>7, <2>2, <3>1
  <2> QED BY <1>4, <2>2, <2>3 DEF Honest, Over
<1>9. Good(finish(e, "resolved"), Task) /\ finish(e, "resolved").results = res
  BY <1>4, <1>6, <1>8, FinishIsGood DEF Over
<1>10. Final(b, finish(e, "resolved")) BY <1>3, <1>9 DEF Final
<1> QED BY <1>1, <1>5, <1>9, <1>10

-----------------------------------------------------------------------------
(* The retry delays.                                                       *)

(* A function may be iterated: the sequence that starts with a and goes on *)
(* by step exists.                                                         *)
LEMMA Iteration ==
  ASSUME NEW S, NEW a \in S, NEW step \in [S -> S]
  PROVE  \E g \in [Nat -> S] : g[0] = a /\ \A n \in Nat : g[n + 1] = step[g[n]]
<1> DEFINE Upto(n, h) == /\ h \in [0..n -> S] /\ h[0] = a
                         /\ \A i \in 0..n : i < n => h[i + 1] = step[h[i]]
<1>1. \A n \in Nat : \E h : Upto(n, h)
  <2> DEFINE T == {n \in Nat : ~ \E h : Upto(n, h)}
  <2>1. SUFFICES ASSUME T # {} PROVE FALSE OBVIOUS
  <2>2. PICK m \in T : \A n \in T : m =< n
    <3>1. T \subseteq Nat OBVIOUS
    <3> HIDE DEF T
    <3> QED BY <2>1, <3>1, LeastElement
  <2>3. m \in Nat /\ ~ \E h : Upto(m, h) OBVIOUS
  <2>4. CASE m = 0
    <3> DEFINE h == [i \in 0..0 |-> a]
    <3>1. Upto(0, h) OBVIOUS
    <3> QED BY <2>3, <2>4, <3>1
  <2>5. CASE m # 0
    <3> DEFINE k == m - 1
    <3>1. k \in Nat /\ k + 1 = m /\ k < m BY <2>3, <2>5
    <3>2. k \notin T
      <4> HIDE DEF T
      <4> QED BY <2>2, <2>3, <3>1
    <3>3. PICK h : Upto(k, h) BY <3>1, <3>2
    <3> DEFINE e == [i \in 0..m |-> IF i =< k THEN h[i] ELSE step[h[k]]]
    <3> HIDE DEF k
    <3>4. h \in [0..k -> S] /\ h[0] = a /\ \A i \in 0..k : i < k => h[i + 1] = step[h[i]]
      BY <3>3
    <3>5. step[h[k]] \in S BY <3>1, <3>4
    <3>6. \A i \in 0..m : i =< k => i \in 0..k BY <3>1, <2>3
    <3>7. e \in [0..m -> S] BY <3>4, <3>5, <3>6
    <3>8. e[0] = a BY <2>3, <3>1, <3>4
    <3>9. ASSUME NEW i \in 0..m, i < m PROVE e[i + 1] = step[e[i]]
      <4>1. i \in 0..k /\ i + 1 \in 0..m /\ i =< k BY <2>3, <3>1, <3>9
      <4>2. e[i] = h[i] BY <4>1
      <4>3. CASE i = k
        <5>1. ~ (i + 1 =< k) BY <3>1, <4>3
        <5> QED BY <4>1, <4>2, <4>3, <5>1
      <4>4. CASE i # k
        <5>1. i < k /\ i + 1 =< k BY <3>1, <4>1, <4>4
        <5> QED BY <3>4, <4>1, <4>2, <5>1
      <4> QED BY <4>3, <4>4
    <3>10. Upto(m, e)
      <4> HIDE DEF e
      <4> QED BY <3>7, <3>8, <3>9
    <3> QED BY <2>3, <3>10
  <2> QED BY <2>4, <2>5
<1> DEFINE H(n) == CHOOSE h : Upto(n, h)
<1>2. \A n \in Nat : Upto(n, H(n)) BY <1>1
<1>3. ASSUME NEW n \in Nat PROVE \A i \in 0..n : H(n + 1)[i] = H(n)[i]
  <2> DEFINE b == H(n)
             c == H(n + 1)
             T == {i \in 0..n : c[i] # b[i]}
  <2>1. Upto(n, b) /\ Upto(n + 1, c) /\ n + 1 \in Nat
    <3>1. n + 1 \in Nat OBVIOUS
    <3> HIDE DEF H, Upto
    <3> QED BY <1>2, <3>1
  <2> HIDE DEF b, c
  <2>2. SUFFICES ASSUME T # {} PROVE FALSE BY DEF b, c
  <2>3. PICK m \in T : \A i \in T : m =< i
    <3>1. T \subseteq Nat OBVIOUS
    <3> HIDE DEF T
    <3> QED BY <2>2, <3>1, LeastElement
  <2>4. m \in 0..n /\ c[m] # b[m] OBVIOUS
  <2>5. m # 0 BY <2>1, <2>4
  <2> DEFINE k == m - 1
  <2>6. k \in 0..n /\ k < m /\ k < n /\ k < n + 1 /\ k + 1 = m /\ k \in 0..(n + 1) BY <2>4, <2>5
  <2> HIDE DEF k
  <2>7. c[k] = b[k]
    <3>1. k \notin T
      <4>1. ASSUME k \in T PROVE FALSE
        <5>1. m =< k BY <2>3, <4>1
        <5> QED BY <2>4, <2>6, <5>1
      <4> QED BY <4>1
    <3> QED BY <2>6, <3>1
  <2>8. b[k + 1] = step[b[k]] BY <2>1, <2>6
  <2>9. c[k + 1] = step[c[k]] BY <2>1, <2>6
  <2> QED BY <2>4, <2>6, <2>7, <2>8, <2>9
<1> DEFINE g == [n \in Nat |-> H(n)[n]]
<1>4. \A n \in Nat : H(n) \in [0..n -> S] /\ H(n)[0] = a
  <2> HIDE DEF H
  <2> QED BY <1>2
<1>5. g \in [Nat -> S]
  <2> HIDE DEF H
  <2>1. \A n \in Nat : n \in 0..n OBVIOUS
  <2>2. \A n \in Nat : H(n)[n] \in S BY <1>4, <2>1
  <2> QED BY <2>2
<1>6. g[0] = a
  <2> HIDE DEF H
  <2> QED BY <1>4
<1>7. ASSUME NEW n \in Nat PROVE g[n + 1] = step[g[n]]
  <2>1. n + 1 \in Nat /\ n \in 0..(n + 1) /\ n < n + 1 /\ n \in 0..n OBVIOUS
  <2>2. Upto(n + 1, H(n + 1))
    <3> HIDE DEF H, Upto
    <3> QED BY <1>2, <2>1
  <2>3. H(n + 1)[n] = H(n)[n]
    <3> HIDE DEF H
    <3> QED BY <1>3, <2>1
  <2> HIDE DEF H
  <2>4. H(n + 1)[n + 1] = step[H(n + 1)[n]] BY <2>1, <2>2
  <2> QED BY <2>1, <2>3, <2>4
<1> HIDE DEF g
<1> QED BY <1>5, <1>6, <1>7

LEMMA DelayEquation ==
  \A n \in Nat : retryDelay[n] = IF n = 0 THEN RetryBase ELSE 2 * retryDelay[n - 1]
<1> DEFINE twice == [m \in Nat |-> 2 * m]
           Doubles(d) == d = [n \in Nat |-> IF n = 0 THEN RetryBase ELSE 2 * d[n - 1]]
<1>1. twice \in [Nat -> Nat] /\ RetryBase \in Nat BY BatchConstants
<1>2. PICK g \in [Nat -> Nat] : g[0] = RetryBase /\ \A n \in Nat : g[n + 1] = twice[g[n]]
  <2> DEFINE N == Nat
  <2>1. RetryBase \in N /\ twice \in [N -> N] BY <1>1
  <2> HIDE DEF twice, N
  <2>2. \E g \in [Nat -> N] : g[0] = RetryBase /\ \A n \in Nat : g[n + 1] = twice[g[n]]
    BY <2>1, Iteration
  <2> QED BY <2>2 DEF N
<1>3. Doubles(g)
  <2>1. ASSUME NEW n \in Nat PROVE g[n] = IF n = 0 THEN RetryBase ELSE 2 * g[n - 1]
    <3>1. CASE n = 0 BY <1>2, <3>1
    <3>2. CASE n # 0
      <4>1. n - 1 \in Nat /\ (n - 1) + 1 = n BY <3>2
      <4>2. g[n - 1] \in Nat BY <4>1
      <4> QED BY <1>2, <3>2, <4>1, <4>2
    <3> QED BY <3>1, <3>2
  <2> QED BY <2>1
<1>4. Doubles(CHOOSE d : Doubles(d)) BY <1>3
<1>5. retryDelay = CHOOSE d : Doubles(d) BY DEF retryDelay
<1>6. Doubles(retryDelay) BY <1>4, <1>5
<1> QED BY <1>6

LEMMA DelayType == \A n \in Nat : retryDelay[n] \in Nat /\ retryDelay[n] >= RetryBase
<1> DEFINE Long(n) == retryDelay[n] \in Nat /\ retryDelay[n] >= RetryBase
           T == {n \in Nat : ~ Long(n)}
<1>1. SUFFICES ASSUME T # {} PROVE FALSE OBVIOUS
<1>2. PICK m \in T : \A n \in T : m =< n
  <2>1. T \subseteq Nat OBVIOUS
  <2> HIDE DEF T
  <2> QED BY <1>1, <2>1, LeastElement
<1>3. m \in Nat /\ ~ Long(m) OBVIOUS
<1>4. m # 0 BY <1>3, DelayEquation, BatchConstants
<1>5. m - 1 \in Nat /\ m - 1 < m BY <1>3, <1>4
<1>6. m - 1 \notin T BY <1>2, <1>3, <1>5
<1>7. Long(m - 1) BY <1>5, <1>6
<1>8. retryDelay[m] = 2 * retryDelay[m - 1] BY <1>3, <1>4, DelayEquation
<1> QED BY <1>3, <1>7, <1>8, BatchConstants

-----------------------------------------------------------------------------
(* Times.                                                                  *)

Clocks(b) ==
  /\ b.normalLaunchTimer \in Nat \cup {Off} /\ b.rateLimitLaunchTimer \in Nat \cup {Off}
  /\ b.rateLimitMode \in BOOLEAN
  /\ b.nextRateLimitLaunch \in Nat /\ b.lastRateLimit \in Nat /\ b.lastCapacityRecovery \in Nat
  /\ b.retryReady \in [Task -> Nat]
  /\ b.globalRetryInterval \in Nat /\ b.globalRetryInterval >= RetryBase
  /\ b.lastRateLimit <= RecoveryInterval
  /\ b.rateLimitMode => b.normalLaunchTimer = Off

(* The next launch is no nearer than the base delay after a rate limit.    *)
Spaced(b) == b.lastRateLimit <= b.nextRateLimitLaunch + (RecoveryInterval - RetryBase)

Timed(b) == Clocks(b) /\ Spaced(b)

(* SomethingWillWake, of any batch.                                        *)
Wakes(b) ==
  b.finished = "no" /\ b.pending # <<>> =>
    \/ b.rateLimitLaunchTimer # Off
    \/ ~ b.rateLimitMode /\ (b.normalLaunchTimer # Off \/ isAtConcurrencyLimit(b))

(* From b to c at most one task is launched, and that far enough from the  *)
(* last rate limit.                                                        *)
OneAtATime(b, c) ==
  \/ c.active \subseteq b.active
  \/ /\ \E t : c.active \subseteq b.active \cup {t}
     /\ b.lastRateLimit <= RecoveryInterval - RetryBase

(* The fields of the timing invariant.                                     *)
SameTimes(b, c) ==
  /\ c.normalLaunchTimer = b.normalLaunchTimer /\ c.rateLimitLaunchTimer = b.rateLimitLaunchTimer
  /\ c.rateLimitMode = b.rateLimitMode /\ c.nextRateLimitLaunch = b.nextRateLimitLaunch
  /\ c.lastRateLimit = b.lastRateLimit /\ c.lastCapacityRecovery = b.lastCapacityRecovery
  /\ c.retryReady = b.retryReady /\ c.globalRetryInterval = b.globalRetryInterval

LEMMA SameTimesIsTimed ==
  ASSUME NEW b, NEW c, SameTimes(b, c), Timed(b) PROVE Timed(c)
BY DEF SameTimes, Timed, Clocks, Spaced

LEMMA WakeupIsTimed ==
  ASSUME NEW b, Clocks(b), DOMAIN b = Fields, NEW w \in Int
  PROVE  LET c == scheduleRateLimitWakeup(b, w)
         IN  /\ Clocks(c) /\ (Spaced(b) => Spaced(c))
             /\ w > 0 => c.rateLimitLaunchTimer # Off
<1> DEFINE c == [b EXCEPT !.rateLimitLaunchTimer = w]
<1>1. scheduleRateLimitWakeup(b, w) = IF w <= 0 THEN b ELSE c BY DEF scheduleRateLimitWakeup
<1>2. CASE w <= 0 BY <1>1, <1>2
<1>3. CASE ~ (w <= 0)
  <2>1. w \in Nat /\ w # Off BY <1>3 DEF Off
  <2>2. /\ c.normalLaunchTimer = b.normalLaunchTimer /\ c.rateLimitLaunchTimer = w
        /\ c.rateLimitMode = b.rateLimitMode /\ c.nextRateLimitLaunch = b.nextRateLimitLaunch
        /\ c.lastRateLimit = b.lastRateLimit /\ c.lastCapacityRecovery = b.lastCapacityRecovery
        /\ c.retryReady = b.retryReady /\ c.globalRetryInterval = b.globalRetryInterval
    BY DEF Fields
  <2> HIDE DEF c
  <2>3. Clocks(c) /\ (Spaced(b) => Spaced(c)) BY <2>1, <2>2 DEF Clocks, Spaced
  <2> QED BY <1>1, <1>3, <2>1, <2>2, <2>3
<1> QED BY <1>2, <1>3

LEMMA RecoveryIsInt ==
  ASSUME NEW b, Clocks(b) PROVE nextCapacityRecovery(b) \in Nat
BY DEF nextCapacityRecovery, Later, Clocks

LEMMA RecoverIsTimed ==
  ASSUME NEW b, Timed(b), DOMAIN b = Fields
  PROVE  LET r == recoverRateLimitCapacity(b)
         IN  /\ Timed(r) /\ nextCapacityRecovery(r) > 0
             /\ r.lastRateLimit = b.lastRateLimit /\ r.rateLimitMode = b.rateLimitMode
<1> DEFINE full == b.rateLimitCapacity + 1
           c == [b EXCEPT !.rateLimitCapacity = full, !.lastCapacityRecovery = RecoveryInterval,
                          !.nextRateLimitLaunch = 0]
<1>1. recoverRateLimitCapacity(b) = IF nextCapacityRecovery(b) > 0 THEN b ELSE c
  BY DEF recoverRateLimitCapacity
<1>2. CASE nextCapacityRecovery(b) > 0 BY <1>1, <1>2
<1>3. CASE ~ (nextCapacityRecovery(b) > 0)
  <2>1. /\ c.normalLaunchTimer = b.normalLaunchTimer
        /\ c.rateLimitLaunchTimer = b.rateLimitLaunchTimer
        /\ c.rateLimitMode = b.rateLimitMode /\ c.nextRateLimitLaunch = 0
        /\ c.lastRateLimit = b.lastRateLimit /\ c.lastCapacityRecovery = RecoveryInterval
        /\ c.retryReady = b.retryReady /\ c.globalRetryInterval = b.globalRetryInterval
    BY DEF Fields
  <2> HIDE DEF c
  <2>2. b.lastRateLimit = 0
    BY <1>3 DEF nextCapacityRecovery, Later, Timed, Clocks
  <2>3. Clocks(c) BY <2>1, BatchConstants DEF Timed, Clocks
  <2>4. Spaced(c) BY <2>1, <2>2, BatchConstants DEF Spaced
  <2>5. nextCapacityRecovery(c) > 0
    BY <2>1, <2>2, BatchConstants DEF nextCapacityRecovery, Later
  <2> QED BY <1>1, <1>3, <2>1, <2>3, <2>4, <2>5 DEF Timed
<1> QED BY <1>2, <1>3

(* The time until the first of the waiting tasks is ready is that of one   *)
(* of them.                                                                *)
LEMMA PendingReady ==
  ASSUME NEW b, b.retryReady \in [Task -> Nat], b.pending \in Seq(Task), b.pending # <<>>
  PROVE  /\ nextPendingReady(b) \in Nat
         /\ \E i \in 1..Len(b.pending) : nextPendingReady(b) = b.retryReady[b.pending[i]]
<1> DEFINE S == {b.retryReady[b.pending[i]] : i \in DOMAIN b.pending}
<1>1. DOMAIN b.pending = 1..Len(b.pending) /\ Len(b.pending) \in Nat /\ Len(b.pending) # 0
  OBVIOUS
<1>2. \A i \in 1..Len(b.pending) : b.pending[i] \in Task OBVIOUS
<1>3. S = {b.retryReady[b.pending[i]] : i \in 1..Len(b.pending)} BY <1>1
<1>4. 1 \in 1..Len(b.pending) BY <1>1
<1>5. S \subseteq Nat /\ S # {} BY <1>2, <1>3, <1>4
<1>6. Min(S) \in S
  <2> HIDE DEF S
  <2> QED BY <1>5, LeastElement
<1>7. nextPendingReady(b) = Min(S) BY DEF nextPendingReady
<1> HIDE DEF S
<1> QED BY <1>3, <1>5, <1>6, <1>7

LEMMA NextWakeupIsTimed ==
  ASSUME NEW b, Clocks(b), b.pending \in Seq(Task), b.pending # <<>>
  PROVE  /\ nextWakeup(b) \in Nat
         /\ isFull(b) => nextWakeup(b) = nextCapacityRecovery(b)
         /\ ~ isFull(b) /\ nextCapacityRecovery(b) > 0 /\ nextWakeup(b) = 0 =>
              b.nextRateLimitLaunch = 0 /\ nextPendingReady(b) = 0
<1>1. nextCapacityRecovery(b) \in Nat BY RecoveryIsInt
<1>2. nextPendingReady(b) \in Nat BY PendingReady DEF Clocks
<1>3. b.nextRateLimitLaunch \in Nat BY DEF Clocks
<1> QED BY <1>1, <1>2, <1>3 DEF nextWakeup, Sooner, Later

LEMMA RateLimitWakes ==
  ASSUME NEW b, Good(b, Task), b.finished \notin Over, Timed(b), b.rateLimitMode
  PROVE  LET e == scheduleRateLimitLaunch(b)
         IN  Timed(e) /\ Wakes(e) /\ OneAtATime(b, e)
<1> DEFINE c == [b EXCEPT !.rateLimitLaunchTimer = Off]
           r == recoverRateLimitCapacity(c)
           w == scheduleRateLimitWakeup(r, nextWakeup(r))
           i == SelectInSeq(r.pending, LAMBDA p : r.retryReady[p] = 0)
           t == r.pending[i]
           a == startAttempt(r, i)
           d == [a EXCEPT !.nextRateLimitLaunch = r.globalRetryInterval]
           e == scheduleNextRateLimitWakeup(d)
           Fine(x) == Timed(x) /\ Wakes(x) /\ OneAtATime(b, x)
<1>1. scheduleRateLimitLaunch(b) =
        IF c.pending = <<>> THEN c
        ELSE IF isFull(r) \/ nextWakeup(r) > 0 THEN w
        ELSE IF i = 0 THEN r ELSE e
  BY DEF scheduleRateLimitLaunch
<1>2. DOMAIN b = Fields /\ b.pending \in Seq(Task) BY DEF Good, Types
<1>3. /\ DOMAIN c = Fields /\ c.pending = b.pending /\ c.active = b.active
      /\ c.normalLaunchTimer = b.normalLaunchTimer /\ c.rateLimitLaunchTimer = Off
      /\ c.rateLimitMode = b.rateLimitMode /\ c.nextRateLimitLaunch = b.nextRateLimitLaunch
      /\ c.lastRateLimit = b.lastRateLimit /\ c.lastCapacityRecovery = b.lastCapacityRecovery
      /\ c.retryReady = b.retryReady /\ c.globalRetryInterval = b.globalRetryInterval
  BY <1>2 DEF Fields
<1>4. Same(b, c) BY <1>2 DEF Same, Fields
<1> HIDE DEF c
<1>5. Timed(c) BY <1>3 DEF Timed, Clocks, Spaced
<1>6. Good(c, Task) /\ c.finished \notin Over BY <1>4, SameIsGood DEF Same
<1>7. CASE c.pending = <<>>
  <2>1. Wakes(c) BY <1>7 DEF Wakes
  <2>2. OneAtATime(b, c) BY <1>3 DEF OneAtATime
  <2> QED BY <1>1, <1>5, <1>7, <2>1, <2>2
<1>8. CASE c.pending # <<>>
  <2>1. /\ Timed(r) /\ nextCapacityRecovery(r) > 0
        /\ r.lastRateLimit = b.lastRateLimit /\ r.rateLimitMode = b.rateLimitMode
    BY <1>3, <1>5, RecoverIsTimed
  <2>2. Same(c, r) BY <1>3, RecoverIsSame
  <2>3. Good(r, Task) /\ r.finished \notin Over BY <1>6, <2>2, SameIsGood DEF Same
  <2>4. /\ DOMAIN r = Fields /\ r.pending = b.pending /\ r.active = b.active
        /\ r.pending \in Seq(Task) /\ r.pending # <<>>
    BY <1>2, <1>3, <1>8, <2>2 DEF Same
  <2> HIDE DEF r
  <2>5. /\ nextWakeup(r) \in Nat
        /\ isFull(r) => nextWakeup(r) = nextCapacityRecovery(r)
        /\ ~ isFull(r) /\ nextWakeup(r) = 0 =>
             r.nextRateLimitLaunch = 0 /\ nextPendingReady(r) = 0
    BY <2>1, <2>4, NextWakeupIsTimed DEF Timed
  <2>6. CASE isFull(r) \/ nextWakeup(r) > 0
    <3>1. nextWakeup(r) > 0 BY <2>1, <2>5, <2>6
    <3>2. nextWakeup(r) \in Int BY <2>5
    <3>3. Clocks(w) /\ Spaced(w) /\ w.rateLimitLaunchTimer # Off
      BY <2>1, <2>4, <3>1, <3>2, WakeupIsTimed DEF Timed
    <3>4. Same(r, w) BY <2>4, WakeupIsSame
    <3> HIDE DEF w
    <3>5. Wakes(w) BY <3>3 DEF Wakes
    <3>6. OneAtATime(b, w) BY <2>4, <3>4 DEF OneAtATime, Same
    <3> QED BY <1>1, <1>8, <2>6, <3>3, <3>5, <3>6 DEF Timed
  <2>7. CASE ~ isFull(r) /\ ~ nextWakeup(r) > 0
    <3>1. r.nextRateLimitLaunch = 0 /\ nextPendingReady(r) = 0 BY <2>5, <2>7
    <3> DEFINE I == {j \in 1..Len(r.pending) : r.retryReady[r.pending[j]] = 0}
    <3>2. i = IF I # {} THEN Min(I) ELSE 0 BY DEF SelectInSeq
    <3>3. I # {}
      <4>1. r.retryReady \in [Task -> Nat] BY <2>1 DEF Timed, Clocks
      <4>2. PICK j \in 1..Len(r.pending) : nextPendingReady(r) = r.retryReady[r.pending[j]]
        BY <2>4, <4>1, PendingReady
      <4> QED BY <3>1, <4>2
    <3>4. i \in I
      <4>1. I \subseteq Nat OBVIOUS
      <4> HIDE DEF I, i
      <4> QED BY <3>2, <3>3, <4>1, LeastElement
    <3>5. i \in 1..Len(r.pending) /\ i # 0
      <4> HIDE DEF i
      <4> QED BY <3>4
    <3> HIDE DEF I, i
    <3>7. /\ r.globalRetryInterval \in Nat /\ r.globalRetryInterval >= RetryBase
          /\ r.globalRetryInterval > 0
      BY <2>1, BatchConstants DEF Timed, Clocks
    <3>8. /\ DOMAIN a = Fields /\ a.active = r.active \cup {t}
          /\ a.normalLaunchTimer = r.normalLaunchTimer
          /\ a.rateLimitLaunchTimer = r.rateLimitLaunchTimer
          /\ a.rateLimitMode = r.rateLimitMode
          /\ a.lastRateLimit = r.lastRateLimit /\ a.lastCapacityRecovery = r.lastCapacityRecovery
          /\ a.retryReady = r.retryReady /\ a.globalRetryInterval = r.globalRetryInterval
      BY <2>4 DEF startAttempt, Fields
    <3>9. Good(a, Task) /\ a.finished = r.finished BY <2>3, <3>5, StartIsGood
    <3> HIDE DEF a, t
    <3>10. a.pending \in Seq(Task) BY <3>9 DEF Good, Types
    <3>11. /\ DOMAIN d = Fields /\ d.active = a.active /\ d.pending = a.pending
           /\ d.normalLaunchTimer = r.normalLaunchTimer
           /\ d.rateLimitLaunchTimer = r.rateLimitLaunchTimer
           /\ d.rateLimitMode = r.rateLimitMode
           /\ d.nextRateLimitLaunch = r.globalRetryInterval
           /\ d.lastRateLimit = r.lastRateLimit /\ d.lastCapacityRecovery = r.lastCapacityRecovery
           /\ d.retryReady = r.retryReady /\ d.globalRetryInterval = r.globalRetryInterval
      BY <3>8 DEF Fields
    <3> HIDE DEF d
    <3>12. b.lastRateLimit <= RecoveryInterval - RetryBase
      BY <2>1, <3>1, BatchConstants DEF Timed, Spaced
    <3>13. Clocks(d) BY <2>1, <3>7, <3>11 DEF Timed, Clocks
    <3>14. Spaced(d)
      <4>1. r.lastRateLimit \in Nat /\ r.lastRateLimit <= RecoveryInterval - RetryBase
        BY <2>1, <3>12 DEF Timed, Clocks
      <4> QED BY <3>7, <3>11, <4>1, BatchConstants DEF Spaced
    <3>15. nextCapacityRecovery(d) > 0 BY <2>1, <3>11 DEF nextCapacityRecovery
    <3>16. OneAtATime(b, d) BY <2>4, <3>8, <3>11, <3>12 DEF OneAtATime
    <3>17. Timed(e) /\ Wakes(e) /\ OneAtATime(b, e)
      <4>1. CASE d.pending = <<>>
        <5>1. e = d BY <4>1 DEF scheduleNextRateLimitWakeup
        <5>2. Wakes(d) BY <4>1 DEF Wakes
        <5> QED BY <3>13, <3>14, <3>16, <5>1, <5>2 DEF Timed
      <4>2. CASE d.pending # <<>>
        <5>1. e = scheduleRateLimitWakeup(d, nextWakeup(d))
          BY <4>2 DEF scheduleNextRateLimitWakeup
        <5>2. nextWakeup(d) \in Nat /\ nextWakeup(d) > 0
          BY <3>7, <3>10, <3>11, <3>13, <3>15, <4>2, NextWakeupIsTimed
        <5>3. nextWakeup(d) \in Int BY <5>2
        <5>4. Clocks(e) /\ Spaced(e) /\ e.rateLimitLaunchTimer # Off
          BY <3>11, <3>13, <3>14, <5>1, <5>2, <5>3, WakeupIsTimed
        <5>5. Same(d, e) BY <3>11, WakeupIsSame
        <5> HIDE DEF e
        <5>6. Wakes(e) BY <5>4 DEF Wakes
        <5>7. OneAtATime(b, e) BY <3>16, <5>5 DEF OneAtATime, Same
        <5> QED BY <5>4, <5>6, <5>7 DEF Timed
      <4> QED BY <4>1, <4>2
    <3> QED BY <1>1, <1>8, <2>7, <3>5, <3>17
  <2> QED BY <2>6, <2>7
<1> QED BY <1>7, <1>8

(* In the normal phase the batch has a timer or waits for an attempt.      *)
LEMMA NormalWakes ==
  ASSUME NEW b, Good(b, Task), b.finished \notin Over, Timed(b), ~ b.rateLimitMode
  PROVE  Timed(scheduleNormalLaunch(b)) /\ Wakes(scheduleNormalLaunch(b))
         /\ ~ scheduleNormalLaunch(b).rateLimitMode
<1> DEFINE room  == IF b.given.maxConcurrency = 0 THEN Cardinality(Task)
                    ELSE Later(0, b.given.maxConcurrency - Cardinality(b.active))
           burst == Min({Later(0, InitialLaunchLimit - b.normalLaunchCount), Len(b.pending), room})
           c     == launchFirst(b, burst)
           d     == [c EXCEPT !.normalLaunchTimer = LaunchInterval]
<1>1. scheduleNormalLaunch(b) =
        IF c.pending = <<>> \/ c.normalLaunchTimer # Off \/ isAtConcurrencyLimit(c) THEN c ELSE d
  BY DEF scheduleNormalLaunch
<1>2. DOMAIN b = Fields BY DEF Good, Types
<1> HIDE DEF burst
<1>3. DOMAIN c = Fields /\ SameTimes(b, c) BY <1>2 DEF launchFirst, SameTimes, Fields
<1> HIDE DEF c
<1>4. Timed(c) /\ ~ c.rateLimitMode BY <1>3, SameTimesIsTimed DEF SameTimes
<1>5. CASE c.pending = <<>> \/ c.normalLaunchTimer # Off \/ isAtConcurrencyLimit(c)
  <2>1. Wakes(c) BY <1>4, <1>5 DEF Wakes
  <2> QED BY <1>1, <1>4, <1>5, <2>1
<1>6. CASE ~ (c.pending = <<>> \/ c.normalLaunchTimer # Off \/ isAtConcurrencyLimit(c))
  <2>1. /\ d.normalLaunchTimer = LaunchInterval
        /\ d.rateLimitLaunchTimer = c.rateLimitLaunchTimer
        /\ d.rateLimitMode = c.rateLimitMode /\ d.nextRateLimitLaunch = c.nextRateLimitLaunch
        /\ d.lastRateLimit = c.lastRateLimit /\ d.lastCapacityRecovery = c.lastCapacityRecovery
        /\ d.retryReady = c.retryReady /\ d.globalRetryInterval = c.globalRetryInterval
    BY <1>3 DEF Fields
  <2> HIDE DEF d
  <2>2. LaunchInterval \in Nat /\ LaunchInterval # Off BY BatchConstants DEF Off
  <2>3. Timed(d) BY <1>4, <2>1, <2>2 DEF Timed, Clocks, Spaced
  <2>4. Wakes(d) BY <1>4, <2>1, <2>2 DEF Wakes
  <2> QED BY <1>1, <1>4, <1>6, <2>1, <2>3, <2>4
<1> QED BY <1>5, <1>6

LEMMA FinishIsTimed ==
  ASSUME NEW b, DOMAIN b = Fields, Timed(b), NEW how \in Over, NEW res
  PROVE  LET e == finish([b EXCEPT !.results = res], how)
             c == finish(b, how)
         IN  /\ Timed(c) /\ Wakes(c) /\ c.active = {}
             /\ Timed(e) /\ Wakes(e) /\ e.active = {}
<1>1. ASSUME NEW c, DOMAIN c = Fields, Timed(c)
      PROVE  Timed(finish(c, how)) /\ Wakes(finish(c, how)) /\ finish(c, how).active = {}
  <2> DEFINE d == finish(c, how)
  <2>1. /\ d.normalLaunchTimer = Off /\ d.rateLimitLaunchTimer = Off
        /\ d.rateLimitMode = c.rateLimitMode /\ d.nextRateLimitLaunch = c.nextRateLimitLaunch
        /\ d.lastRateLimit = c.lastRateLimit /\ d.lastCapacityRecovery = c.lastCapacityRecovery
        /\ d.retryReady = c.retryReady /\ d.globalRetryInterval = c.globalRetryInterval
        /\ d.finished = how /\ d.active = {}
    BY <1>1 DEF finish, Fields
  <2> HIDE DEF d
  <2>2. Timed(d) BY <1>1, <2>1 DEF Timed, Clocks, Spaced
  <2>3. Wakes(d) BY <2>1 DEF Wakes, Over
  <2> QED BY <2>1, <2>2, <2>3 DEF d
<1> DEFINE a == [b EXCEPT !.results = res]
<1>2. DOMAIN a = Fields /\ SameTimes(b, a) BY DEF SameTimes, Fields
<1> HIDE DEF a
<1>3. Timed(a) BY <1>2, SameTimesIsTimed
<1> QED BY <1>1, <1>2, <1>3 DEF a

LEMMA ScheduleWakes ==
  ASSUME NEW b, Good(b, Task), Timed(b)
  PROVE  /\ Timed(schedule(b)) /\ Wakes(schedule(b))
         /\ b.rateLimitMode => OneAtATime(b, schedule(b))
<1>1. DOMAIN b = Fields BY DEF Good, Types
<1>2. CASE b.finished # "no"
  BY <1>2 DEF schedule, Wakes, OneAtATime
<1>3. CASE b.finished = "no"
  <2>1. b.finished \notin Over BY <1>3 DEF Over
  <2>2. Timed(finish(b, "resolved")) /\ Wakes(finish(b, "resolved"))
        /\ OneAtATime(b, finish(b, "resolved"))
    BY <1>1, FinishIsTimed DEF Over, OneAtATime
  <2>3. b.rateLimitMode => /\ Timed(scheduleRateLimitLaunch(b))
                           /\ Wakes(scheduleRateLimitLaunch(b))
                           /\ OneAtATime(b, scheduleRateLimitLaunch(b))
    BY <2>1, RateLimitWakes
  <2>4. ~ b.rateLimitMode => Timed(scheduleNormalLaunch(b)) /\ Wakes(scheduleNormalLaunch(b))
    BY <2>1, NormalWakes
  <2> QED BY <1>3, <2>2, <2>3, <2>4 DEF schedule
<1> QED BY <1>2, <1>3

(* Entering the phase, or meeting another rate limit in it, keeps the      *)
(* clocks in range.                                                        *)
LEMMA EnterIsTimed ==
  ASSUME NEW b, DOMAIN b = Fields, Clocks(b)
  PROVE  LET c == enterRateLimitMode(b)
         IN  Clocks(c) /\ c.lastRateLimit = b.lastRateLimit /\ c.rateLimitMode
<1>1. ASSUME NEW c, DOMAIN c = Fields, Clocks(c), NEW force
      PROVE  SameTimes(c, shrinkRateLimitCapacity(c, force))
  <2>1. SameTimes(c, c) BY DEF SameTimes
  <2>2. \A n, m : SameTimes(c, [c EXCEPT !.rateLimitCapacity = n, !.shrink = m])
    BY <1>1 DEF SameTimes, Fields
  <2> QED BY <2>1, <2>2 DEF shrinkRateLimitCapacity
<1>2. ASSUME NEW c, NEW d, Clocks(c), SameTimes(c, d)
      PROVE  Clocks(d) /\ d.lastRateLimit = c.lastRateLimit /\ d.rateLimitMode = c.rateLimitMode
  BY <1>2 DEF SameTimes, Clocks
<1> DEFINE next == Later(b.nextRateLimitLaunch, RetryBase)
           full == AtLeastOne(b.startedSuccessCount)
           c == [b EXCEPT !.rateLimitMode = TRUE, !.normalLaunchTimer = Off,
                          !.rateLimitCapacity = full, !.nextRateLimitLaunch = next]
<1>3. enterRateLimitMode(b) = IF b.rateLimitMode THEN shrinkRateLimitCapacity(b, FALSE)
                              ELSE shrinkRateLimitCapacity(c, TRUE)
  BY DEF enterRateLimitMode
<1>4. next \in Nat BY BatchConstants DEF Clocks, Later
<1> HIDE DEF next, full
<1>5. /\ DOMAIN c = Fields /\ c.normalLaunchTimer = Off
      /\ c.rateLimitLaunchTimer = b.rateLimitLaunchTimer
      /\ c.rateLimitMode = TRUE /\ c.nextRateLimitLaunch = next
      /\ c.lastRateLimit = b.lastRateLimit /\ c.lastCapacityRecovery = b.lastCapacityRecovery
      /\ c.retryReady = b.retryReady /\ c.globalRetryInterval = b.globalRetryInterval
  BY DEF Fields
<1> HIDE DEF c
<1>6. Clocks(c) BY <1>4, <1>5 DEF Clocks
<1> DEFINE x == shrinkRateLimitCapacity(b, FALSE)
           y == shrinkRateLimitCapacity(c, TRUE)
<1>7. SameTimes(b, x) /\ SameTimes(c, y) BY <1>1, <1>5, <1>6
<1> HIDE DEF x, y
<1>8. /\ Clocks(x) /\ x.lastRateLimit = b.lastRateLimit /\ x.rateLimitMode = b.rateLimitMode
      /\ Clocks(y) /\ y.lastRateLimit = c.lastRateLimit /\ y.rateLimitMode = c.rateLimitMode
  BY <1>2, <1>6, <1>7
<1>9. enterRateLimitMode(b) = IF b.rateLimitMode THEN x ELSE y BY <1>3 DEF x, y
<1> QED BY <1>5, <1>8, <1>9

LEMMA RequeueIsTimed ==
  ASSUME NEW t \in Task, NEW b, Types(b), Clocks(b)
  PROVE  LET q == requeueRateLimited(b, t)
         IN  /\ Timed(q) /\ q.lastRateLimit = RecoveryInterval /\ q.rateLimitMode
             /\ q.active = b.active
<1> DEFINE delay == retryDelay[b.retryCount[t]]
           ids == b.agentId \cup {t}
           counts == [b.retryCount EXCEPT ![t] = @ + 1]
           times == [b.retryReady EXCEPT ![t] = delay]
           queue == <<t>> \o b.pending
           a == [b EXCEPT !.agentId = ids, !.retryCount = counts, !.retryReady = times,
                          !.lastRateLimit = RecoveryInterval, !.pending = queue]
           c == enterRateLimitMode(a)
           interval == Later(c.globalRetryInterval * 2, delay)
           d == [c EXCEPT !.nextRateLimitLaunch = Later(@, RetryBase)]
           e == [c EXCEPT !.globalRetryInterval = interval,
                          !.nextRateLimitLaunch = Later(@, interval)]
<1>1. requeueRateLimited(b, t) = IF t \in b.ready THEN d ELSE e
  BY DEF requeueRateLimited
<1>2. DOMAIN b = Fields /\ b.retryCount[t] \in Nat BY DEF Types
<1>3. delay \in Nat BY <1>2, DelayType
<1> HIDE DEF delay
<1>4. times \in [Task -> Nat] BY <1>3 DEF Clocks
<1> HIDE DEF ids, counts, times, queue
<1>5. /\ DOMAIN a = Fields /\ a.active = b.active
      /\ a.normalLaunchTimer = b.normalLaunchTimer
      /\ a.rateLimitLaunchTimer = b.rateLimitLaunchTimer
      /\ a.rateLimitMode = b.rateLimitMode /\ a.nextRateLimitLaunch = b.nextRateLimitLaunch
      /\ a.lastRateLimit = RecoveryInterval /\ a.lastCapacityRecovery = b.lastCapacityRecovery
      /\ a.retryReady = times /\ a.globalRetryInterval = b.globalRetryInterval
  BY <1>2 DEF Fields
<1> HIDE DEF a
<1>6. Clocks(a) BY <1>4, <1>5, BatchConstants DEF Clocks
<1>7. Clocks(c) /\ c.lastRateLimit = RecoveryInterval /\ c.rateLimitMode
  BY <1>5, <1>6, EnterIsTimed
<1>8. Same(a, c) BY <1>5, EnterIsSame
<1> HIDE DEF c
<1>9. DOMAIN c = Fields /\ c.active = b.active BY <1>5, <1>8 DEF Same
<1>10. /\ c.globalRetryInterval \in Nat /\ c.globalRetryInterval >= RetryBase
       /\ c.nextRateLimitLaunch \in Nat
  BY <1>7 DEF Clocks
<1>11. interval \in Nat /\ interval >= RetryBase
  BY <1>3, <1>10, BatchConstants DEF Later
<1> HIDE DEF interval
<1> DEFINE Put(n) == Later(c.nextRateLimitLaunch, n)
<1>12. \A n \in Nat : n >= RetryBase => Put(n) \in Nat /\ Put(n) >= RetryBase
  BY <1>10, BatchConstants DEF Later
<1>13. Put(RetryBase) \in Nat /\ Put(RetryBase) >= RetryBase BY <1>12, BatchConstants
<1>14. Put(interval) \in Nat /\ Put(interval) >= RetryBase BY <1>11, <1>12
<1>15. d = [c EXCEPT !.nextRateLimitLaunch = Put(RetryBase)]
       /\ e = [c EXCEPT !.globalRetryInterval = interval, !.nextRateLimitLaunch = Put(interval)]
  OBVIOUS
<1> HIDE DEF Put
<1>16. /\ d.normalLaunchTimer = c.normalLaunchTimer
       /\ d.rateLimitLaunchTimer = c.rateLimitLaunchTimer /\ d.active = b.active
       /\ d.rateLimitMode = c.rateLimitMode /\ d.nextRateLimitLaunch = Put(RetryBase)
       /\ d.lastRateLimit = c.lastRateLimit /\ d.lastCapacityRecovery = c.lastCapacityRecovery
       /\ d.retryReady = c.retryReady /\ d.globalRetryInterval = c.globalRetryInterval
  BY <1>9, <1>15 DEF Fields
<1>17. /\ e.normalLaunchTimer = c.normalLaunchTimer
       /\ e.rateLimitLaunchTimer = c.rateLimitLaunchTimer /\ e.active = b.active
       /\ e.rateLimitMode = c.rateLimitMode /\ e.nextRateLimitLaunch = Put(interval)
       /\ e.lastRateLimit = c.lastRateLimit /\ e.lastCapacityRecovery = c.lastCapacityRecovery
       /\ e.retryReady = c.retryReady /\ e.globalRetryInterval = interval
  BY <1>9, <1>15 DEF Fields
<1> HIDE DEF d, e
<1>18. Timed(d) BY <1>7, <1>13, <1>16, BatchConstants DEF Timed, Clocks, Spaced
<1>19. Timed(e) BY <1>7, <1>11, <1>14, <1>17, BatchConstants DEF Timed, Clocks, Spaced
<1> QED BY <1>1, <1>7, <1>16, <1>17, <1>18, <1>19

LEMMA ReadyWakes ==
  ASSUME NEW b, Good(b, Task), Timed(b), Wakes(b), NEW t \in Task
  PROVE  LET c == markAttemptReady(b, t)
         IN  Timed(c) /\ Wakes(c) /\ (b.rateLimitMode => OneAtATime(b, c))
<1> DEFINE on == b.started \cup {t}
           c == [b EXCEPT !.ready = @ \cup {t}, !.started = on]
           d == [c EXCEPT !.startedSuccessCount = @ + 1]
           e == [c EXCEPT !.globalRetryInterval = RetryBase, !.nextRateLimitLaunch = RetryBase]
<1>1. markAttemptReady(b, t) =
        IF b.finished # "no" \/ t \in b.ready \/ t \notin b.active THEN b
        ELSE IF ~ b.rateLimitMode THEN d ELSE schedule(e)
  BY DEF markAttemptReady
<1>2. CASE b.finished # "no" \/ t \in b.ready \/ t \notin b.active
  BY <1>1, <1>2 DEF OneAtATime
<1>3. CASE b.finished = "no" /\ t \notin b.ready /\ t \in b.active
  <2>1. DOMAIN b = Fields /\ on \subseteq Task BY DEF Good, Types
  <2>2. b.finished \notin Over BY <1>3 DEF Over
  <2> HIDE DEF on
  <2>3. /\ DOMAIN c = Fields /\ c.pending = b.pending /\ c.active = b.active
        /\ c.given = b.given /\ c.started = on /\ c.agentId = b.agentId
        /\ c.results = b.results /\ c.finished = b.finished /\ c.retryCount = b.retryCount
        /\ c.normalLaunchCount = b.normalLaunchCount
    BY <2>1 DEF Fields
  <2>4. SameTimes(b, c) BY <2>1 DEF SameTimes, Fields
  <2> HIDE DEF c
  <2>5. Types(c) BY <2>1, <2>3 DEF Good, Types
  <2>6. \A u \in Task : b.results[u] # "aborted/not_started" BY <2>2 DEF Good, Honest
  <2>7. Honest(c) BY <2>3, <2>6 DEF Good, Honest
  <2>8. Places(c, Task) BY <2>2, <2>3 DEF Good, Places, Waiting, Settled
  <2>9. Good(c, Task) /\ c.finished \notin Over
    BY <2>2, <2>3, <2>5, <2>7, <2>8 DEF Good, Stopped
  <2>10. Timed(c) BY <2>4, SameTimesIsTimed
  <2>11. CASE ~ b.rateLimitMode
    <3>1. SameTimes(c, d) /\ d.finished = c.finished /\ d.pending = c.pending
          /\ d.active = c.active /\ d.given = c.given
      BY <2>3 DEF SameTimes, Fields
    <3> HIDE DEF d
    <3>2. Timed(d) BY <2>10, <3>1, SameTimesIsTimed
    <3>3. Wakes(d)
      BY <2>3, <2>4, <3>1 DEF Wakes, SameTimes, isAtConcurrencyLimit
    <3> QED BY <1>1, <1>3, <2>11, <3>2, <3>3 DEF OneAtATime
  <2>12. CASE b.rateLimitMode
    <3>1. Same(c, e) BY <2>3 DEF Same, Fields
    <3>2. /\ e.normalLaunchTimer = c.normalLaunchTimer
          /\ e.rateLimitLaunchTimer = c.rateLimitLaunchTimer
          /\ e.rateLimitMode = c.rateLimitMode /\ e.nextRateLimitLaunch = RetryBase
          /\ e.lastRateLimit = c.lastRateLimit /\ e.lastCapacityRecovery = c.lastCapacityRecovery
          /\ e.retryReady = c.retryReady /\ e.globalRetryInterval = RetryBase
      BY <2>3 DEF Fields
    <3> HIDE DEF e
    <3>3. Good(e, Task) BY <2>9, <3>1, SameIsGood
    <3>4. Timed(e)
      BY <2>10, <3>2, BatchConstants DEF Timed, Clocks, Spaced
    <3>5. e.rateLimitMode /\ e.active = b.active /\ e.lastRateLimit = b.lastRateLimit
      BY <2>3, <2>4, <2>12, <3>1, <3>2 DEF Same, SameTimes
    <3>6. Timed(schedule(e)) /\ Wakes(schedule(e)) /\ OneAtATime(e, schedule(e))
      BY <3>3, <3>4, <3>5, ScheduleWakes
    <3>7. OneAtATime(b, schedule(e)) BY <3>5, <3>6 DEF OneAtATime
    <3> QED BY <1>1, <1>3, <2>12, <3>6, <3>7
  <2> QED BY <2>11, <2>12
<1> QED BY <1>2, <1>3

LEMMA OutcomeWakes ==
  ASSUME NEW b, Good(b, Task), Timed(b), Wakes(b), NEW t \in Task,
         NEW outcome \in {"completed", "failed", "rate_limited"}
  PROVE  LET s == handleAttemptOutcome(b, t, outcome)
         IN  Timed(s) /\ Wakes(s) /\ (b.rateLimitMode => OneAtATime(b, s))
<1> DEFINE c == [b EXCEPT !.active = @ \ {t}]
           d(o) == [c EXCEPT !.results[t] = o]
           q == requeueRateLimited(c, t)
           Fine(s) == Timed(s) /\ Wakes(s) /\ (b.rateLimitMode => OneAtATime(b, s))
<1>1. handleAttemptOutcome(b, t, outcome) =
        IF t \notin b.active THEN b
        ELSE IF outcome # "rate_limited" THEN schedule(d(outcome))
        ELSE IF isOnlyUnfinishedTask(c, t) THEN schedule(d("failed"))
        ELSE schedule(q)
  BY DEF handleAttemptOutcome
<1>2. CASE t \notin b.active BY <1>1, <1>2 DEF OneAtATime
<1>3. CASE t \in b.active
  <2>1. /\ Types(c) /\ Honest(c) /\ Places(c, Task \ {t}) /\ c.finished \notin Over
        /\ c.active = b.active \ {t}
    <3>1. /\ Types(c) /\ Honest(c) /\ Places(c, Task \ {t}) /\ c.finished = b.finished
          /\ b.finished \notin Over /\ c.active = b.active \ {t}
      BY <1>3, ReleaseIsGood
    <3> HIDE DEF c
    <3> QED BY <3>1
  <2>2. SameTimes(b, c)
    <3>1. DOMAIN b = Fields BY DEF Good, Types
    <3> QED BY <3>1 DEF SameTimes, Fields
  <2> HIDE DEF c
  <2>3. DOMAIN c = Fields BY <2>1 DEF Types
  <2>4. Timed(c) BY <2>2, SameTimesIsTimed
  <2>5. ASSUME NEW o \in {"completed", "failed"} PROVE Fine(schedule(d(o)))
    <3>1. Good(d(o), Task) BY <2>1, <2>5, ResultIsGood
    <3>2. SameTimes(c, d(o)) /\ d(o).active = c.active BY <2>3 DEF SameTimes, Fields
    <3> HIDE DEF d
    <3>3. Timed(d(o)) BY <2>4, <3>2, SameTimesIsTimed
    <3>4. /\ Timed(schedule(d(o))) /\ Wakes(schedule(d(o)))
          /\ d(o).rateLimitMode => OneAtATime(d(o), schedule(d(o)))
      BY <3>1, <3>3, ScheduleWakes
    <3>5. /\ d(o).rateLimitMode = b.rateLimitMode /\ d(o).lastRateLimit = b.lastRateLimit
          /\ d(o).active \subseteq b.active
      BY <2>1, <2>2, <3>2 DEF SameTimes
    <3> DEFINE s == schedule(d(o))
    <3> HIDE DEF s
    <3>6. OneAtATime(d(o), s) => OneAtATime(b, s) BY <3>5 DEF OneAtATime
    <3> QED BY <3>4, <3>5, <3>6 DEF s
  <2>6. Fine(schedule(q))
    <3>1. Good(q, Task) BY <2>1, RequeueIsGood
    <3>2. /\ Timed(q) /\ q.lastRateLimit = RecoveryInterval /\ q.rateLimitMode
          /\ q.active = c.active
      BY <2>1, <2>4, RequeueIsTimed DEF Timed
    <3> HIDE DEF q
    <3>3. Timed(schedule(q)) /\ Wakes(schedule(q)) /\ OneAtATime(q, schedule(q))
      BY <3>1, <3>2, ScheduleWakes
    <3>4. ~ (RecoveryInterval <= RecoveryInterval - RetryBase) BY BatchConstants
    <3>5. OneAtATime(b, schedule(q)) BY <2>1, <3>2, <3>3, <3>4 DEF OneAtATime
    <3> QED BY <3>3, <3>5
  <2> SUFFICES Fine(handleAttemptOutcome(b, t, outcome)) OBVIOUS
  <2> HIDE DEF d, q, Fine
  <2>7. CASE outcome # "rate_limited" BY <1>1, <1>3, <2>5, <2>7
  <2>8. CASE outcome = "rate_limited" BY <1>1, <1>3, <2>5, <2>6, <2>8
  <2> QED BY <2>7, <2>8
<1> QED BY <1>2, <1>3

-----------------------------------------------------------------------------
LEMMA InitInv == Init => Inv
<1> SUFFICES ASSUME Init PROVE Inv OBVIOUS
<1> USE DEF Init, Off
<1>1. /\ DOMAIN batch = Fields /\ batch.given \in [maxConcurrency : Nat, rateLimits : Nat]
      /\ batch.pending = [t \in Task |-> t] /\ batch.active = {} /\ batch.started = {}
      /\ batch.agentId = {} /\ batch.results = [t \in Task |-> None]
      /\ batch.finished = "not_run" /\ batch.normalLaunchCount = 0
      /\ batch.retryCount = [t \in Task |-> 0]
  BY BatchConstants DEF Fields
<1> DEFINE q == [t \in Task |-> t]
<1>2. q \in Seq(Task) /\ Len(q) = NumTasks
  BY BatchConstants DEF Task
<1>3. IsInjective(q) BY DEF IsInjective
<1>4. Elems(q) = Task
  <2>1. \A t \in 1..NumTasks : q[t] = t BY DEF Task
  <2> HIDE DEF q
  <2>2. Elems(q) = {q[t] : t \in 1..NumTasks} BY <1>2 DEF Elems
  <2> QED BY <2>1, <2>2 DEF Task
<1> HIDE DEF q
<1>5. batch.pending = q BY <1>1 DEF q
<1>6. Types(batch) BY <1>1, <1>2, <1>3, <1>5 DEF Types
<1>7. Honest(batch) /\ Stopped(batch) BY <1>1 DEF Honest, Stopped, None, Over
<1>8. Waiting(batch) = Task /\ Settled(batch) = {} BY <1>1, <1>4, <1>5 DEF Waiting, Settled
<1>9. Places(batch, Task) BY <1>1, <1>8 DEF Places
<1> QED BY <1>6, <1>7, <1>9 DEF Inv, Good

LEMMA NextInv == Inv /\ [Next]_vars => Inv' /\ Final(batch, batch')
<1> SUFFICES ASSUME Inv, [Next]_vars PROVE Inv' /\ Final(batch, batch') OBVIOUS
<1>1. Good(batch, Task) BY DEF Inv
<1>2. (Inv' <=> Good(batch', Task)) BY DEF Inv, Good, Types, Honest, Stopped, Places, Waiting,
                                     Settled, Elems, IsInjective
<1>3. DOMAIN batch = Fields BY <1>1 DEF Good, Types
<1>4. CASE run
  <2> DEFINE b == [batch EXCEPT !.finished = "no"]
  <2>1. batch' = schedule(b) BY <1>4 DEF run, Become
  <2>2. batch.finished \notin Over BY <1>4 DEF run, Over
  <2>3. /\ DOMAIN b = Fields /\ b.pending = batch.pending /\ b.active = batch.active
        /\ b.given = batch.given /\ b.started = batch.started /\ b.agentId = batch.agentId
        /\ b.results = batch.results /\ b.finished = "no"
        /\ b.retryCount = batch.retryCount /\ b.normalLaunchCount = batch.normalLaunchCount
    BY <1>3 DEF Fields
  <2> HIDE DEF b
  <2>4. Types(b) BY <1>1, <2>3 DEF Good, Types
  <2>5. Honest(b) BY <1>1, <2>2, <2>3 DEF Good, Honest
  <2>6. Places(b, Task) BY <1>1, <2>2, <2>3 DEF Good, Places, Waiting, Settled
  <2>7. Good(b, Task) BY <2>3, <2>4, <2>5, <2>6 DEF Good, Stopped, Over
  <2>8. Final(batch, b) BY <2>2, <2>3 DEF Final
  <2> QED BY <1>2, <2>1, <2>2, <2>7, <2>8, ScheduleIsFinal
<1>5. CASE abort
  <2>1. batch.finished \notin Over BY <1>5 DEF abort, Over
  <2>2. CASE batch' = finishWithUserCancellation(batch)
    BY <1>1, <1>2, <2>1, <2>2, CancelIsGood
  <2>3. CASE batch' = finish(batch, "rejected")
    <3>1. Good(batch', Task) /\ batch'.results = batch.results
      BY <1>1, <2>3, FinishIsGood DEF Good, Over
    <3> QED BY <1>2, <2>1, <3>1 DEF Final
  <2> QED BY <1>5, <2>2, <2>3 DEF abort
<1>6. CASE tick
  <2>1. batch.finished \notin Over BY <1>6 DEF tick, Over
  <2>2. Same(batch, batch') BY <1>3, <1>6 DEF tick, Same, Fields
  <2> QED BY <1>1, <1>2, <2>1, <2>2, SameIsFinal
<1>7. CASE normalLaunchTimer
  <2> DEFINE b == [batch EXCEPT !.normalLaunchTimer = Off]
  <2>1. batch' = IF b.pending = <<>> \/ isAtConcurrencyLimit(b) THEN b
                 ELSE schedule(launchFirst(b, 1))
    BY <1>7 DEF normalLaunchTimer, Become
  <2>2. batch.finished \notin Over
    <3>1. batch.normalLaunchTimer # Off BY <1>7 DEF normalLaunchTimer, Off
    <3> QED BY <1>1, <3>1 DEF Good, Stopped
  <2>3. Same(batch, b) BY <1>3 DEF Same, Fields
  <2>4. Good(b, Task) /\ Final(batch, b) BY <1>1, <2>2, <2>3, SameIsFinal
  <2>5. b.finished \notin Over BY <2>2, <2>3 DEF Same
  <2> HIDE DEF b
  <2>6. CASE b.pending = <<>> \/ isAtConcurrencyLimit(b) BY <1>2, <2>1, <2>4, <2>6
  <2>7. CASE b.pending # <<>> /\ ~ isAtConcurrencyLimit(b)
    <3>1. 1 <= Len(b.pending)
      <4>1. b.pending \in Seq(Task) BY <2>4 DEF Good, Types
      <4> QED BY <2>7, <4>1
    <3> DEFINE l == launchFirst(b, 1)
    <3>2. Good(l, Task) /\ l.results = b.results /\ l.finished = b.finished
      BY <2>4, <2>5, <3>1, LaunchIsGood
    <3> HIDE DEF l
    <3>3. Final(batch, l) BY <2>2, <2>4, <3>2 DEF Final
    <3>4. Good(schedule(l), Task) /\ Final(batch, schedule(l))
      BY <2>2, <3>2, <3>3, ScheduleIsFinal
    <3> QED BY <1>2, <2>1, <2>7, <3>4 DEF l
  <2> QED BY <2>6, <2>7
<1>8. CASE rateLimitLaunchTimer
  <2>1. batch' = schedule(batch) BY <1>8 DEF rateLimitLaunchTimer, Become
  <2>2. batch.finished \notin Over
    <3>1. batch.rateLimitLaunchTimer # Off BY <1>8 DEF rateLimitLaunchTimer, Off
    <3> QED BY <1>1, <3>1 DEF Good, Stopped
  <2>3. Final(batch, batch) BY DEF Final
  <2> QED BY <1>1, <1>2, <2>1, <2>2, <2>3, ScheduleIsFinal
<1>9. ASSUME NEW t \in Task, handle(t) PROVE Inv' /\ Final(batch, batch')
  <2> DEFINE ids == batch.agentId \cup {t}
             b == [batch EXCEPT !.agentId = ids]
  <2>1. batch' = b BY <1>9 DEF handle
  <2>2. ids \subseteq Task /\ \A u \in batch.agentId : u \in ids
    BY <1>1 DEF Good, Types
  <2> HIDE DEF ids
  <2>3. /\ DOMAIN b = Fields /\ b.pending = batch.pending /\ b.active = batch.active
        /\ b.given = batch.given /\ b.started = batch.started /\ b.agentId = ids
        /\ b.results = batch.results /\ b.finished = batch.finished
        /\ b.retryCount = batch.retryCount /\ b.normalLaunchCount = batch.normalLaunchCount
        /\ b.normalLaunchTimer = batch.normalLaunchTimer
        /\ b.rateLimitLaunchTimer = batch.rateLimitLaunchTimer
    BY <1>3 DEF Fields
  <2> HIDE DEF b
  <2>4. Types(b) BY <1>1, <2>2, <2>3 DEF Good, Types
  <2>5. Honest(b) BY <1>1, <2>2, <2>3 DEF Good, Honest
  <2>6. Stopped(b) BY <1>1, <2>3 DEF Good, Stopped
  <2>7. b.finished \notin Over => Places(b, Task)
    BY <1>1, <2>3 DEF Good, Places, Waiting, Settled
  <2>8. Final(batch, b) BY <2>3 DEF Final
  <2> QED BY <1>2, <2>1, <2>4, <2>5, <2>6, <2>7, <2>8 DEF Good
<1>10. ASSUME NEW t \in Task, onReady(t) PROVE Inv' /\ Final(batch, batch')
  <2>1. batch' = markAttemptReady(batch, t) BY <1>10 DEF onReady, Become
  <2> QED BY <1>1, <1>2, <2>1, ReadyIsGood
<1>11. ASSUME NEW t \in Task, NEW outcome \in {"completed", "failed", "rate_limited"},
              settle(t, outcome)
       PROVE  Inv' /\ Final(batch, batch')
  <2>1. batch' = handleAttemptOutcome(batch, t, outcome) BY <1>11 DEF settle
  <2> QED BY <1>1, <1>2, <2>1, OutcomeIsGood
<1>12. ASSUME NEW t \in Task, attemptSettles(t) PROVE Inv' /\ Final(batch, batch')
  BY <1>11, <1>12 DEF attemptSettles
<1>13. ASSUME NEW t \in Task, attemptRateLimited(t) PROVE Inv' /\ Final(batch, batch')
  BY <1>11, <1>13 DEF attemptRateLimited
<1>14. CASE UNCHANGED vars
  <2>1. batch' = batch BY <1>14 DEF vars
  <2>2. Final(batch, batch) BY DEF Final
  <2> QED BY <1>1, <1>2, <2>1, <2>2
<1> QED BY <1>4, <1>5, <1>6, <1>7, <1>8, <1>9, <1>10, <1>12, <1>13, <1>14 DEF Next

-----------------------------------------------------------------------------
(* Each task waits, runs or has its result, a task with a retry is known   *)
(* to have an agent, and a batch that is over has nothing active: the      *)
(* inductive invariant, kept by every method (subagent-batch.ts:204-612).  *)
THEOREM BatchIsGood == Spec => []Inv
<1>1. Init => Inv BY InitInv
<1>2. Inv /\ [Next]_vars => Inv' BY NextInv
<1> QED BY <1>1, <1>2, PTL DEF Spec

(* No task is lost and none is run twice at a time, whatever answers, rate *)
(* limits, timers and cancellations meet (subagent-batch.ts:388-445).      *)
THEOREM NoTaskIsLost == Spec => []EachTaskHasOnePlace
<1>1. Inv => EachTaskHasOnePlace
  <2> SUFFICES ASSUME Inv, batch.finished = "no"
               PROVE  /\ IsInjective(batch.pending)
                      /\ Range(batch.pending) \cup batch.active \cup Settled(batch) = Task
                      /\ Range(batch.pending) \cap batch.active = {}
                      /\ (Range(batch.pending) \cup batch.active) \cap Settled(batch) = {}
    BY DEF EachTaskHasOnePlace, Settled
  <2>1. Types(batch) /\ Places(batch, Task) BY DEF Inv, Good, Over
  <2>2. Range(batch.pending) = Waiting(batch)
    BY <2>1, ElemsAreRange DEF Types, Waiting
  <2> QED BY <2>1, <2>2 DEF Types, Places
<1> QED BY <1>1, BatchIsGood, PTL

(* Answers that come after a result or after the end change neither        *)
(* (subagent-batch.ts:388-390 and 583-609).                                *)
THEOREM ResultsStay == Spec => ResultsAreFinal
<1> DEFINE Keeps == /\ \A t \in Task : batch.results[t] # None => batch'.results[t] = batch.results[t]
                    /\ batch.finished \in Over =>
                         batch'.results = batch.results /\ batch'.finished = batch.finished
<1>1. Inv /\ [Next]_vars => [Keeps]_vars BY NextInv DEF Final
<1>2. (/\ \A t \in Task : batch.results[t] # None => batch'.results[t] = batch.results[t]
       /\ batch.finished \in {"resolved", "rejected"} =>
            batch'.results = batch.results /\ batch'.finished = batch.finished) <=> Keeps
  BY DEF Over
<1> QED BY <1>1, <1>2, BatchIsGood, PTL DEF Spec, ResultsAreFinal

-----------------------------------------------------------------------------
(* Tasks the launcher has given an agent.                                  *)

(* An attempt in flight is active, one with a handle is in flight, and the *)
(* batch knows of an agent only of a task with a handle, a retry or a      *)
(* result.                                                                 *)
AgentInv ==
  /\ spawned \subseteq running
  /\ batch.finished \notin Over =>
       /\ running \subseteq batch.active /\ spawned \subseteq batch.agentId
       /\ \A t \in batch.agentId :
            t \in spawned \/ batch.retryCount[t] > 0 \/ batch.results[t] # None

(* A step of the scheduler from b to c launches, and no more.              *)
Ahead(b, c) ==
  /\ DOMAIN c = Fields
  /\ c.agentId = b.agentId /\ c.retryCount = b.retryCount /\ c.results = b.results
  /\ c.finished \notin Over => b.finished \notin Over /\ b.active \subseteq c.active

LEMMA SameIsAhead ==
  ASSUME NEW a, NEW b, NEW c, Same(b, c) PROVE Ahead(b, c) /\ (Ahead(a, b) => Ahead(a, c))
BY DEF Same, Ahead

LEMMA AheadIsTransitive ==
  ASSUME NEW a, NEW b, NEW c, Ahead(a, b), Ahead(b, c) PROVE Ahead(a, c)
BY DEF Ahead

LEMMA LaunchIsAhead ==
  ASSUME NEW b, DOMAIN b = Fields
  PROVE  /\ \A k : Ahead(b, launchFirst(b, k))
         /\ \A i : Ahead(b, startAttempt(b, i))
         /\ \A how \in Over : Ahead(b, finish(b, how))
<1>1. ASSUME NEW k PROVE Ahead(b, launchFirst(b, k))
  <2> DEFINE rest == SubSeq(b.pending, k + 1, Len(b.pending))
             act == b.active \cup Range(SubSeq(b.pending, 1, k))
             n == b.normalLaunchCount + k
             c == [b EXCEPT !.pending = rest, !.active = act, !.normalLaunchCount = n]
  <2>1. launchFirst(b, k) = c BY DEF launchFirst
  <2>2. b.active \subseteq act OBVIOUS
  <2> HIDE DEF rest, act, n
  <2>3. /\ DOMAIN c = Fields /\ c.agentId = b.agentId /\ c.retryCount = b.retryCount
        /\ c.results = b.results /\ c.finished = b.finished /\ c.active = act
    BY DEF Fields
  <2> HIDE DEF c
  <2> QED BY <2>1, <2>2, <2>3 DEF Ahead
<1>2. ASSUME NEW i PROVE Ahead(b, startAttempt(b, i))
  <2> DEFINE rest == RemoveAt(b.pending, i)
             act == b.active \cup {b.pending[i]}
             on == b.ready \ {b.pending[i]}
             c == [b EXCEPT !.pending = rest, !.active = act, !.ready = on]
  <2>1. startAttempt(b, i) = c BY DEF startAttempt
  <2>2. b.active \subseteq act OBVIOUS
  <2> HIDE DEF rest, act, on
  <2>3. /\ DOMAIN c = Fields /\ c.agentId = b.agentId /\ c.retryCount = b.retryCount
        /\ c.results = b.results /\ c.finished = b.finished /\ c.active = act
    BY DEF Fields
  <2> HIDE DEF c
  <2> QED BY <2>1, <2>2, <2>3 DEF Ahead
<1>3. ASSUME NEW how \in Over PROVE Ahead(b, finish(b, how))
  <2> DEFINE c == finish(b, how)
  <2>1. /\ DOMAIN c = Fields /\ c.agentId = b.agentId /\ c.retryCount = b.retryCount
        /\ c.results = b.results /\ c.finished = how
    BY DEF Fields, finish
  <2> HIDE DEF c
  <2> QED BY <2>1, <1>3 DEF Ahead, c
<1> QED BY <1>1, <1>2, <1>3

LEMMA NormalIsAhead ==
  ASSUME NEW b, DOMAIN b = Fields PROVE Ahead(b, scheduleNormalLaunch(b))
<1>1. PICK k : LET c == launchFirst(b, k)
               IN  scheduleNormalLaunch(b) \in {c, [c EXCEPT !.normalLaunchTimer = LaunchInterval]}
  BY DEF scheduleNormalLaunch
<1> DEFINE c == launchFirst(b, k)
           d == [c EXCEPT !.normalLaunchTimer = LaunchInterval]
<1>2. Ahead(b, c) BY LaunchIsAhead
<1> HIDE DEF c
<1>3. Same(c, d) BY <1>2 DEF Ahead, Same, Fields
<1>4. Ahead(b, d) BY <1>2, <1>3, SameIsAhead
<1> HIDE DEF d
<1> QED BY <1>1, <1>2, <1>4 DEF c, d

LEMMA RateLimitIsAhead ==
  ASSUME NEW b, DOMAIN b = Fields PROVE Ahead(b, scheduleRateLimitLaunch(b))
<1> DEFINE c == [b EXCEPT !.rateLimitLaunchTimer = Off]
           r == recoverRateLimitCapacity(c)
           w == scheduleRateLimitWakeup(r, nextWakeup(r))
           i == SelectInSeq(r.pending, LAMBDA p : r.retryReady[p] = 0)
           a == startAttempt(r, i)
           d == [a EXCEPT !.nextRateLimitLaunch = r.globalRetryInterval]
           e == scheduleNextRateLimitWakeup(d)
<1>1. scheduleRateLimitLaunch(b) =
        IF c.pending = <<>> THEN c
        ELSE IF isFull(r) \/ nextWakeup(r) > 0 THEN w
        ELSE IF i = 0 THEN r ELSE e
  BY DEF scheduleRateLimitLaunch
<1>2. Same(b, c) BY DEF Same, Fields
<1>3. DOMAIN c = Fields BY <1>2 DEF Same
<1> HIDE DEF c
<1>4. Same(c, r) BY <1>3, RecoverIsSame
<1>5. Same(b, r) /\ DOMAIN r = Fields BY <1>2, <1>4, SameIsTransitive DEF Same
<1> HIDE DEF r, i
<1>6. Same(b, w) BY <1>5, WakeupIsSame, SameIsTransitive
<1>7. Ahead(r, a) BY <1>5, LaunchIsAhead
<1> HIDE DEF a, w
<1>8. Same(a, d) BY <1>7 DEF Ahead, Same, Fields
<1>9. DOMAIN d = Fields BY <1>8 DEF Same
<1> HIDE DEF d
<1>10. Same(d, e) BY <1>9, WakeupIsSame
<1> HIDE DEF e
<1>11. Ahead(r, e) BY <1>7, <1>8, <1>10, SameIsAhead
<1>12. Ahead(b, e) BY <1>5, <1>11 DEF Ahead, Same
<1>13. Ahead(b, c) /\ Ahead(b, r) /\ Ahead(b, w) BY <1>2, <1>5, <1>6, SameIsAhead
<1> QED BY <1>1, <1>12, <1>13

LEMMA ScheduleIsAhead ==
  ASSUME NEW b, DOMAIN b = Fields PROVE Ahead(b, schedule(b))
<1>1. Ahead(b, b) BY DEF Ahead
<1>2. Ahead(b, finish(b, "resolved")) BY LaunchIsAhead DEF Over
<1> QED BY <1>1, <1>2, NormalIsAhead, RateLimitIsAhead DEF schedule

LEMMA ReadyIsAhead ==
  ASSUME NEW b, DOMAIN b = Fields, NEW t PROVE Ahead(b, markAttemptReady(b, t))
<1> DEFINE on == b.started \cup {t}
           set == b.ready \cup {t}
           c == [b EXCEPT !.ready = set, !.started = on]
           d == [c EXCEPT !.startedSuccessCount = @ + 1]
           e == [c EXCEPT !.globalRetryInterval = RetryBase, !.nextRateLimitLaunch = RetryBase]
<1>1. markAttemptReady(b, t) =
        IF b.finished # "no" \/ t \in b.ready \/ t \notin b.active THEN b
        ELSE IF ~ b.rateLimitMode THEN d ELSE schedule(e)
  BY DEF markAttemptReady
<1> HIDE DEF on, set
<1>2. /\ DOMAIN c = Fields /\ c.agentId = b.agentId /\ c.retryCount = b.retryCount
      /\ c.results = b.results /\ c.finished = b.finished /\ c.active = b.active
  BY DEF Fields
<1> HIDE DEF c
<1>3. Same(c, d) /\ Same(c, e) /\ DOMAIN e = Fields BY <1>2 DEF Same, Fields
<1>4. Ahead(b, c) /\ Ahead(b, b) BY <1>2 DEF Ahead
<1> HIDE DEF d, e
<1>5. Ahead(b, d) /\ Ahead(b, e) BY <1>3, <1>4, SameIsAhead
<1>6. Ahead(b, schedule(e)) BY <1>3, <1>5, ScheduleIsAhead, AheadIsTransitive
<1> QED BY <1>1, <1>4, <1>5, <1>6

(* What an attempt of t comes to: before the scheduler runs again, t has a *)
(* result or a retry, and nothing else is told of any task.                *)
Released(b, t, x) ==
  /\ DOMAIN x = Fields /\ x.active = b.active \ {t} /\ x.finished = b.finished
  /\ b.agentId \subseteq x.agentId /\ x.agentId \subseteq b.agentId \cup {t}
  /\ \A u \in Task \ {t} : x.retryCount[u] = b.retryCount[u] /\ x.results[u] = b.results[u]
  /\ x.retryCount[t] > 0 \/ x.results[t] # None
  /\ x.results[t] \in {None, "completed", "failed"}

LEMMA OutcomeReleases ==
  ASSUME NEW b, Good(b, Task), NEW t \in b.active,
         NEW outcome \in {"completed", "failed", "rate_limited"}
  PROVE  \E x : Released(b, t, x) /\ handleAttemptOutcome(b, t, outcome) = schedule(x)
<1> DEFINE act == b.active \ {t}
           c == [b EXCEPT !.active = act]
           res(o) == [b.results EXCEPT ![t] = o]
           d(o) == [c EXCEPT !.results = res(o)]
           q == requeueRateLimited(c, t)
<1>1. DOMAIN b = Fields /\ b.results \in [Task -> {None} \cup Statuses]
      /\ b.retryCount \in [Task -> Nat] /\ t \in Task
  BY DEF Good, Types
<1>2. b.results[t] = None BY ReleaseIsGood
<1> HIDE DEF act
<1>3. /\ DOMAIN c = Fields /\ c.active = act /\ c.finished = b.finished
      /\ c.agentId = b.agentId /\ c.retryCount = b.retryCount /\ c.results = b.results
  BY <1>1 DEF Fields
<1>4. \A o : d(o) = [c EXCEPT !.results[t] = o] BY <1>3
<1>5. handleAttemptOutcome(b, t, outcome) =
        IF outcome # "rate_limited" THEN schedule(d(outcome))
        ELSE IF isOnlyUnfinishedTask(c, t) THEN schedule(d("failed"))
        ELSE schedule(q)
  <2> DEFINE e == [b EXCEPT !.active = @ \ {t}]
  <2>1. e = c BY DEF act
  <2>2. handleAttemptOutcome(b, t, outcome) =
          IF outcome # "rate_limited" THEN schedule([e EXCEPT !.results[t] = outcome])
          ELSE IF isOnlyUnfinishedTask(e, t) THEN schedule([e EXCEPT !.results[t] = "failed"])
          ELSE schedule(requeueRateLimited(e, t))
    BY DEF handleAttemptOutcome
  <2> HIDE DEF e, c, d
  <2> QED BY <1>4, <2>1, <2>2
<1> HIDE DEF c
<1>6. ASSUME NEW o \in {"completed", "failed"} PROVE Released(b, t, d(o))
  <2> DEFINE r == res(o)
             e == [c EXCEPT !.results = r]
  <2>1. r[t] = o /\ \A u \in Task \ {t} : r[u] = b.results[u] BY <1>1
  <2> HIDE DEF r
  <2>2. /\ DOMAIN e = Fields /\ e.active = act /\ e.finished = b.finished
        /\ e.agentId = b.agentId /\ e.retryCount = b.retryCount /\ e.results = r
    BY <1>3 DEF Fields
  <2>3. e = d(o) BY DEF r
  <2> HIDE DEF e
  <2>4. o # None BY DEF None
  <2> HIDE DEF d
  <2> QED BY <1>6, <2>1, <2>2, <2>3, <2>4 DEF Released, act
<1>7. Released(b, t, q)
  <2> DEFINE ids == c.agentId \cup {t}
             n == c.retryCount[t] + 1
             counts == [c.retryCount EXCEPT ![t] = n]
             ready == [c.retryReady EXCEPT ![t] = retryDelay[c.retryCount[t]]]
             queue == <<t>> \o c.pending
             a == [c EXCEPT !.agentId = ids, !.retryCount = counts, !.retryReady = ready,
                            !.lastRateLimit = RecoveryInterval, !.pending = queue]
             f == enterRateLimitMode(a)
  <2> DEFINE m == Later(f.nextRateLimitLaunch, RetryBase)
             k == Later(f.globalRetryInterval * 2, retryDelay[c.retryCount[t]])
             l == Later(f.nextRateLimitLaunch, k)
             g == [f EXCEPT !.nextRateLimitLaunch = m]
             h == [f EXCEPT !.globalRetryInterval = k, !.nextRateLimitLaunch = l]
  <2>1. q \in {g, h} BY DEF requeueRateLimited
  <2> HIDE DEF m, k, l
  <2>2. counts[t] > 0 /\ \A u \in Task \ {t} : counts[u] = b.retryCount[u]
    BY <1>1, <1>3
  <2>3. ids = b.agentId \cup {t} BY <1>3
  <2> HIDE DEF ids, counts, ready, queue, n
  <2>4. /\ DOMAIN a = Fields /\ a.active = act /\ a.finished = b.finished
        /\ a.agentId = ids /\ a.retryCount = counts /\ a.results = b.results
    BY <1>3 DEF Fields
  <2> HIDE DEF a
  <2>5. Same(a, f) BY <2>4, EnterIsSame
  <2> HIDE DEF f, q
  <2>6. Same(f, g) /\ Same(f, h) BY <2>5 DEF Same, Fields
  <2> HIDE DEF g, h
  <2>7. Same(f, q) BY <2>1, <2>6
  <2>8. Same(a, q) BY <2>5, <2>7, SameIsTransitive
  <2> QED BY <1>2, <2>2, <2>3, <2>4, <2>8 DEF Released, Same, act
<1> HIDE DEF d, q
<1> QED BY <1>5, <1>6, <1>7

Told == \A t \in Task : batch.results[t] = None =>
          /\ batch'.results[t] = "aborted/started" => HadAgent(t)
          /\ batch'.results[t] = "aborted/not_started" => ~ HadAgent(t)

LEMMA BecomeIsTold ==
  ASSUME AgentInv, NEW b, Ahead(batch, b), Become(b) PROVE AgentInv' /\ Told
<1>1. /\ batch' = b /\ running' = running \cup (b.active \ batch.active)
      /\ spawned' = spawned
  BY DEF Become
<1>2. Told BY <1>1 DEF Told, Ahead, None
<1>3. spawned' \subseteq running' BY <1>1 DEF AgentInv
<1>4. ASSUME b.finished \notin Over
      PROVE  /\ running' \subseteq b.active /\ spawned \subseteq b.agentId
             /\ \A t \in b.agentId : t \in spawned \/ b.retryCount[t] > 0 \/ b.results[t] # None
  BY <1>1, <1>4 DEF AgentInv, Ahead
<1> QED BY <1>1, <1>2, <1>3, <1>4 DEF AgentInv

LEMMA SettleIsTold ==
  ASSUME Inv, AgentInv, NEW t \in running, NEW outcome \in {"completed", "failed", "rate_limited"},
         settle(t, outcome)
  PROVE  AgentInv' /\ Told
<1> DEFINE b == handleAttemptOutcome(batch, t, outcome)
<1>1. /\ batch' = b
      /\ running' = (running \ {t}) \cup (b.active \ (batch.active \ {t}))
      /\ spawned' = spawned \ {t}
  BY DEF settle
<1>2. spawned' \subseteq running' BY <1>1 DEF AgentInv
<1>3. CASE t \notin batch.active
  <2>1. b = batch BY <1>3 DEF handleAttemptOutcome
  <2>2. batch.finished \in Over BY <1>3 DEF AgentInv
  <2>3. Told BY <1>1, <2>1 DEF Told, None
  <2> HIDE DEF b
  <2> QED BY <1>1, <1>2, <2>1, <2>2, <2>3 DEF AgentInv
<1>4. CASE t \in batch.active
  <2>1. PICK x : Released(batch, t, x) /\ b = schedule(x)
    BY <1>4, OutcomeReleases DEF Inv
  <2> HIDE DEF b
  <2>2. Ahead(x, b) BY <2>1, ScheduleIsAhead DEF Released
  <2>3. batch.finished \notin Over BY <1>4 DEF Inv, Good, Stopped
  <2>4. Told BY <1>1, <2>1, <2>2 DEF Told, Ahead, Released, None
  <2>5. ASSUME b.finished \notin Over PROVE running' \subseteq b.active
    BY <1>1, <2>1, <2>2, <2>3, <2>5 DEF AgentInv, Ahead, Released
  <2>6. spawned' \subseteq b.agentId
    BY <1>1, <2>1, <2>2, <2>3 DEF AgentInv, Ahead, Released
  <2>7. ASSUME NEW u \in b.agentId
        PROVE  u \in spawned' \/ b.retryCount[u] > 0 \/ b.results[u] # None
    <3>1. CASE u = t BY <2>1, <2>2, <3>1 DEF Ahead, Released
    <3>2. CASE u # t
      <4>1. u \in batch.agentId BY <2>1, <2>2, <2>7, <3>2 DEF Ahead, Released
      <4>2. u \in Task BY <4>1 DEF Inv, Good, Types
      <4>3. u \in spawned \/ batch.retryCount[u] > 0 \/ batch.results[u] # None
        BY <2>3, <4>1 DEF AgentInv
      <4>4. b.retryCount[u] = batch.retryCount[u] /\ b.results[u] = batch.results[u]
        BY <2>1, <2>2, <3>2, <4>2 DEF Ahead, Released
      <4> QED BY <1>1, <3>2, <4>3, <4>4
    <3> QED BY <3>1, <3>2
  <2> QED BY <1>1, <1>2, <2>4, <2>5, <2>6, <2>7 DEF AgentInv
<1> QED BY <1>3, <1>4

LEMMA CancelIsTold ==
  ASSUME Inv, AgentInv, abort PROVE AgentInv' /\ Told
<1>1. batch.finished \notin Over /\ running' = running /\ spawned' = spawned
  BY DEF abort, Over
<1>2. DOMAIN batch = Fields /\ batch.agentId \subseteq Task /\ batch.retryCount \in [Task -> Nat]
  BY DEF Inv, Good, Types
<1>3. CASE batch' = finish(batch, "rejected")
  <2>1. batch'.finished = "rejected" /\ batch'.results = batch.results
    BY <1>2, <1>3 DEF finish, Fields
  <2>2. Told BY <2>1 DEF Told, None
  <2> QED BY <1>1, <2>1, <2>2 DEF AgentInv, Over
<1>4. CASE batch' = finishWithUserCancellation(batch)
  <2> DEFINE res == [t \in Task |-> IF batch.results[t] # None THEN batch.results[t]
                                    ELSE IF t \in batch.started \cup batch.agentId
                                      THEN "aborted/started"
                                    ELSE "aborted/not_started"]
             c == [batch EXCEPT !.results = res]
  <2>1. batch' = finish(c, "resolved") BY <1>4 DEF finishWithUserCancellation
  <2>2. \A t \in Task : batch.results[t] = None =>
          res[t] = IF t \in batch.started \cup batch.agentId THEN "aborted/started"
                   ELSE "aborted/not_started"
    OBVIOUS
  <2> HIDE DEF res
  <2>3. DOMAIN c = Fields /\ c.results = res BY <1>2 DEF Fields
  <2> HIDE DEF c
  <2>4. batch'.finished = "resolved" /\ batch'.results = res
    BY <2>1, <2>3 DEF finish, Fields
  <2>5. ASSUME NEW t \in Task, batch.results[t] = None
        PROVE  t \in batch.started \cup batch.agentId <=> HadAgent(t)
    <3>1. t \in batch.agentId => t \in spawned \/ batch.retryCount[t] > 0
      BY <1>1, <2>5 DEF AgentInv
    <3>2. t \in spawned \/ batch.retryCount[t] > 0 => t \in batch.agentId
      BY <1>1, <2>5 DEF AgentInv, Inv, Good, Honest
    <3> QED BY <3>1, <3>2 DEF HadAgent
  <2>6. Told BY <2>2, <2>4, <2>5 DEF Told
  <2> QED BY <1>1, <2>4, <2>6 DEF AgentInv, Over
<1> QED BY <1>3, <1>4 DEF abort

LEMMA NextIsTold == Inv /\ AgentInv /\ [Next]_vars => AgentInv' /\ Told
<1> SUFFICES ASSUME Inv, AgentInv, [Next]_vars PROVE AgentInv' /\ Told OBVIOUS
<1>1. DOMAIN batch = Fields BY DEF Inv, Good, Types
<1>2. CASE run
  <2> DEFINE b == [batch EXCEPT !.finished = "no"]
  <2>1. Become(schedule(b)) /\ batch.finished \notin Over BY <1>2 DEF run, Over
  <2>2. DOMAIN b = Fields /\ Ahead(batch, b) BY <1>1, <2>1 DEF Ahead, Fields, Over
  <2> HIDE DEF b
  <2>3. Ahead(batch, schedule(b)) BY <2>2, ScheduleIsAhead, AheadIsTransitive
  <2> QED BY <2>1, <2>3, BecomeIsTold
<1>3. CASE abort BY <1>3, CancelIsTold
<1>4. CASE tick
  <2>1. Same(batch, batch') BY <1>1, <1>4 DEF tick, Same, Fields
  <2>2. running' = running /\ spawned' = spawned BY <1>4 DEF tick
  <2>3. AgentInv' BY <2>1, <2>2 DEF AgentInv, Same
  <2>4. Told BY <2>1 DEF Told, Same, None
  <2> QED BY <2>3, <2>4
<1>5. CASE normalLaunchTimer
  <2> DEFINE b == [batch EXCEPT !.normalLaunchTimer = Off]
             c == launchFirst(b, 1)
  <2>1. Become(b) \/ Become(schedule(c)) BY <1>5 DEF normalLaunchTimer
  <2>2. DOMAIN b = Fields /\ Ahead(batch, b) BY <1>1 DEF Ahead, Fields
  <2> HIDE DEF b
  <2>3. Ahead(b, c) BY <2>2, LaunchIsAhead
  <2> HIDE DEF c
  <2>4. Ahead(c, schedule(c)) BY <2>3, ScheduleIsAhead DEF Ahead
  <2>5. Ahead(batch, schedule(c)) BY <2>2, <2>3, <2>4, AheadIsTransitive
  <2> QED BY <2>1, <2>2, <2>5, BecomeIsTold
<1>6. CASE rateLimitLaunchTimer
  BY <1>1, <1>6, ScheduleIsAhead, BecomeIsTold DEF rateLimitLaunchTimer
<1>7. ASSUME NEW t \in Task, handle(t) PROVE AgentInv' /\ Told
  <2>1. /\ batch' = [batch EXCEPT !.agentId = batch.agentId \cup {t}]
        /\ spawned' = spawned \cup {t} /\ running' = running /\ t \in running
    BY <1>7 DEF handle
  <2>2. /\ batch'.agentId = batch.agentId \cup {t} /\ batch'.active = batch.active
        /\ batch'.results = batch.results /\ batch'.retryCount = batch.retryCount
        /\ batch'.finished = batch.finished
    BY <1>1, <2>1 DEF Fields
  <2>3. AgentInv' BY <2>1, <2>2 DEF AgentInv
  <2>4. Told BY <2>2 DEF Told, None
  <2> QED BY <2>3, <2>4
<1>8. ASSUME NEW t \in Task, onReady(t) PROVE AgentInv' /\ Told
  BY <1>1, <1>8, ReadyIsAhead, BecomeIsTold DEF onReady
<1>9. ASSUME NEW t \in Task, attemptSettles(t) PROVE AgentInv' /\ Told
  BY <1>9, SettleIsTold DEF attemptSettles
<1>10. ASSUME NEW t \in Task, attemptRateLimited(t) PROVE AgentInv' /\ Told
  <2>1. t \in running BY <1>10 DEF attemptRateLimited, AgentInv
  <2> QED BY <1>10, <2>1, SettleIsTold DEF attemptRateLimited
<1>11. CASE UNCHANGED vars BY <1>11 DEF vars, AgentInv, Told, None
<1> QED BY <1>2, <1>3, <1>4, <1>5, <1>6, <1>7, <1>8, <1>9, <1>10, <1>11 DEF Next

(* When the user cancels, a task without a result is reported as started   *)
(* exactly if the launcher has said of an attempt of it that there is an   *)
(* agent (subagent-batch.ts:29 and 553-581).                               *)
THEOREM NotStartedIsTrue == Spec => Classified
<1>1. Init => AgentInv
  <2> SUFFICES ASSUME Init PROVE AgentInv OBVIOUS
  <2>1. running = {} /\ spawned = {} /\ batch.agentId = {} /\ batch.active = {}
    BY DEF Init
  <2> QED BY <2>1 DEF AgentInv
<1>2. Inv /\ AgentInv /\ [Next]_vars => AgentInv' /\ [Told]_vars BY NextIsTold
<1>3. Told <=> \A t \in Task : batch.results[t] = None =>
                 /\ batch'.results[t] = "aborted/started" => HadAgent(t)
                 /\ batch'.results[t] = "aborted/not_started" => ~ HadAgent(t)
  BY DEF Told
<1> QED BY <1>1, <1>2, <1>3, BatchIsGood, PTL DEF Spec, Classified

-----------------------------------------------------------------------------
(* That waiting tasks are woken, and when.                                 *)

LEMMA InitTimed == Init => Timed(batch) /\ Wakes(batch)
<1> SUFFICES ASSUME Init PROVE Timed(batch) /\ Wakes(batch) OBVIOUS
<1>1. /\ batch.normalLaunchTimer = Off /\ batch.rateLimitLaunchTimer = Off
      /\ batch.rateLimitMode = FALSE /\ batch.nextRateLimitLaunch = 0
      /\ batch.lastRateLimit = 0 /\ batch.lastCapacityRecovery = 0
      /\ batch.retryReady = [t \in Task |-> 0] /\ batch.globalRetryInterval = RetryBase
      /\ batch.finished = "not_run"
  BY DEF Init
<1>2. Clocks(batch)
  <2>1. batch.retryReady \in [Task -> Nat] BY <1>1
  <2>2. 0 \in Nat /\ RetryBase \in Nat /\ RetryBase >= RetryBase /\ 0 <= RecoveryInterval
    BY BatchConstants
  <2> QED BY <1>1, <2>1, <2>2 DEF Clocks
<1>3. Spaced(batch) BY <1>1, BatchConstants DEF Spaced
<1> QED BY <1>1, <1>2, <1>3 DEF Timed, Wakes

TimedInv == Inv /\ Timed(batch) /\ Wakes(batch)

LEMMA NextTimed ==
  TimedInv /\ [Next]_vars =>
    Timed(batch') /\ Wakes(batch') /\ (batch.rateLimitMode => OneAtATime(batch, batch'))
<1> DEFINE Fine(c) == Timed(c) /\ Wakes(c) /\ (batch.rateLimitMode => OneAtATime(batch, c))
<1> SUFFICES ASSUME TimedInv, [Next]_vars PROVE Fine(batch') OBVIOUS
<1>1. Good(batch, Task) /\ Timed(batch) /\ Wakes(batch) BY DEF TimedInv, Inv
<1>2. DOMAIN batch = Fields BY <1>1 DEF Good, Types
<1>3. CASE run
  <2> DEFINE b == [batch EXCEPT !.finished = "no"]
  <2>1. batch' = schedule(b) BY <1>3 DEF run, Become
  <2>2. batch.finished \notin Over BY <1>3 DEF run, Over
  <2>3. /\ DOMAIN b = Fields /\ b.pending = batch.pending /\ b.active = batch.active
        /\ b.given = batch.given /\ b.started = batch.started /\ b.agentId = batch.agentId
        /\ b.results = batch.results /\ b.finished = "no"
        /\ b.retryCount = batch.retryCount /\ b.normalLaunchCount = batch.normalLaunchCount
    BY <1>2 DEF Fields
  <2>4. SameTimes(batch, b) BY <1>2 DEF SameTimes, Fields
  <2> HIDE DEF b
  <2>5. Types(b) BY <1>1, <2>3 DEF Good, Types
  <2>6. Honest(b) BY <1>1, <2>2, <2>3 DEF Good, Honest
  <2>7. Places(b, Task) BY <1>1, <2>2, <2>3 DEF Good, Places, Waiting, Settled
  <2>8. Good(b, Task) BY <2>3, <2>5, <2>6, <2>7 DEF Good, Stopped, Over
  <2>9. Timed(b) BY <1>1, <2>4, SameTimesIsTimed
  <2>10. /\ Timed(schedule(b)) /\ Wakes(schedule(b))
         /\ b.rateLimitMode => OneAtATime(b, schedule(b))
    BY <2>8, <2>9, ScheduleWakes
  <2> QED BY <2>1, <2>3, <2>4, <2>10 DEF OneAtATime, SameTimes
<1>4. CASE abort
  <2> DEFINE res == [t \in Task |-> IF batch.results[t] # None THEN batch.results[t]
                                    ELSE IF t \in batch.started \cup batch.agentId
                                      THEN "aborted/started"
                                      ELSE "aborted/not_started"]
             e == finish([batch EXCEPT !.results = res], "resolved")
             c == finish(batch, "rejected")
  <2>1. batch' = e \/ batch' = c
    BY <1>4 DEF abort, finishWithUserCancellation
  <2> HIDE DEF res
  <2>2. Timed(c) /\ Wakes(c) /\ c.active = {} BY <1>1, <1>2, FinishIsTimed DEF Over
  <2>3. Timed(e) /\ Wakes(e) /\ e.active = {} BY <1>1, <1>2, FinishIsTimed DEF Over
  <2> HIDE DEF c, e
  <2> QED BY <2>1, <2>2, <2>3 DEF OneAtATime
<1>5. CASE tick
  <2>1. \A n \in Nat : Elapse(n) \in Nat /\ Elapse(n) <= n BY DEF Elapse
  <2>2. Elapse(Off) = Off BY DEF Elapse, Off
  <2> DEFINE times == [t \in Task |-> Elapse(batch.retryReady[t])]
  <2>3. times \in [Task -> Nat] BY <1>1, <2>1 DEF Timed, Clocks
  <2> HIDE DEF times
  <2>4. /\ batch'.normalLaunchTimer = Elapse(batch.normalLaunchTimer)
        /\ batch'.rateLimitLaunchTimer = Elapse(batch.rateLimitLaunchTimer)
        /\ batch'.rateLimitMode = batch.rateLimitMode
        /\ batch'.nextRateLimitLaunch = Elapse(batch.nextRateLimitLaunch)
        /\ batch'.lastRateLimit = Elapse(batch.lastRateLimit)
        /\ batch'.lastCapacityRecovery = Elapse(batch.lastCapacityRecovery)
        /\ batch'.retryReady = times
        /\ batch'.globalRetryInterval = batch.globalRetryInterval
        /\ batch'.active = batch.active /\ batch'.finished = batch.finished
        /\ batch'.pending = batch.pending /\ batch'.given = batch.given
    BY <1>2, <1>5 DEF tick, Fields, times
  <2>5. \A n \in Nat \cup {Off} : /\ Elapse(n) \in Nat \cup {Off}
                                  /\ n # Off <=> Elapse(n) # Off
    BY <2>1, <2>2 DEF Off
  <2>6. Clocks(batch')
    <3>1. batch.lastRateLimit \in Nat /\ batch.lastRateLimit <= RecoveryInterval
          /\ RecoveryInterval \in Nat
      BY <1>1, BatchConstants DEF Timed, Clocks
    <3>2. Elapse(batch.lastRateLimit) <= RecoveryInterval BY <2>1, <3>1
    <3>3. batch.rateLimitMode => Elapse(batch.normalLaunchTimer) = Off
      BY <1>1, <2>2 DEF Timed, Clocks
    <3> QED BY <1>1, <2>1, <2>3, <2>4, <2>5, <3>2, <3>3 DEF Timed, Clocks
  <2>7. Spaced(batch')
    <3>1. /\ batch.lastRateLimit \in Nat /\ batch.nextRateLimitLaunch \in Nat
          /\ batch.lastRateLimit <= batch.nextRateLimitLaunch + (RecoveryInterval - RetryBase)
      BY <1>1 DEF Timed, Clocks, Spaced
    <3>2. RecoveryInterval - RetryBase \in Nat BY BatchConstants
    <3>3. Elapse(batch.lastRateLimit) <=
            Elapse(batch.nextRateLimitLaunch) + (RecoveryInterval - RetryBase)
      BY <3>1, <3>2 DEF Elapse
    <3> QED BY <2>4, <3>3 DEF Spaced
  <2>8. Wakes(batch')
    <3>1. /\ batch.normalLaunchTimer \in Nat \cup {Off}
          /\ batch.rateLimitLaunchTimer \in Nat \cup {Off}
      BY <1>1 DEF Timed, Clocks
    <3>2. isAtConcurrencyLimit(batch') <=> isAtConcurrencyLimit(batch)
      BY <2>4 DEF isAtConcurrencyLimit
    <3> QED BY <1>1, <2>4, <2>5, <3>1, <3>2 DEF Wakes
  <2> QED BY <2>4, <2>6, <2>7, <2>8 DEF Timed, OneAtATime
<1>6. CASE normalLaunchTimer
  <2> DEFINE b == [batch EXCEPT !.normalLaunchTimer = Off]
  <2>1. batch' = IF b.pending = <<>> \/ isAtConcurrencyLimit(b) THEN b
                 ELSE schedule(launchFirst(b, 1))
    BY <1>6 DEF normalLaunchTimer, Become
  <2>2. batch.normalLaunchTimer # Off BY <1>6 DEF normalLaunchTimer, Off
  <2>3. batch.finished \notin Over BY <1>1, <2>2 DEF Good, Stopped
  <2>4. ~ batch.rateLimitMode BY <1>1, <2>2 DEF Timed, Clocks
  <2>5. Same(batch, b) BY <1>2 DEF Same, Fields
  <2>6. /\ b.normalLaunchTimer = Off
        /\ b.rateLimitLaunchTimer = batch.rateLimitLaunchTimer
        /\ b.rateLimitMode = batch.rateLimitMode
        /\ b.nextRateLimitLaunch = batch.nextRateLimitLaunch
        /\ b.lastRateLimit = batch.lastRateLimit
        /\ b.lastCapacityRecovery = batch.lastCapacityRecovery
        /\ b.retryReady = batch.retryReady /\ b.globalRetryInterval = batch.globalRetryInterval
    BY <1>2 DEF Fields
  <2> HIDE DEF b
  <2>7. Good(b, Task) /\ b.finished \notin Over BY <1>1, <2>3, <2>5, SameIsGood DEF Same
  <2>8. Timed(b) BY <1>1, <2>6 DEF Timed, Clocks, Spaced
  <2>9. CASE b.pending = <<>> \/ isAtConcurrencyLimit(b)
    <3>1. Wakes(b) BY <2>4, <2>6, <2>9 DEF Wakes
    <3> QED BY <2>1, <2>4, <2>8, <2>9, <3>1
  <2>10. CASE b.pending # <<>> /\ ~ isAtConcurrencyLimit(b)
    <3> DEFINE l == launchFirst(b, 1)
    <3>1. b.pending \in Seq(Task) /\ DOMAIN b = Fields BY <2>7 DEF Good, Types
    <3>2. 1 <= Len(b.pending) BY <2>10, <3>1
    <3>3. Good(l, Task) BY <2>7, <3>2, LaunchIsGood
    <3>4. SameTimes(b, l) BY <3>1 DEF launchFirst, SameTimes, Fields
    <3> HIDE DEF l
    <3>5. Timed(l) BY <2>8, <3>4, SameTimesIsTimed
    <3>6. Timed(schedule(l)) /\ Wakes(schedule(l)) BY <3>3, <3>5, ScheduleWakes
    <3> QED BY <2>1, <2>4, <2>10, <3>6 DEF l
  <2> QED BY <2>9, <2>10
<1>7. CASE rateLimitLaunchTimer
  <2>1. batch' = schedule(batch) BY <1>7 DEF rateLimitLaunchTimer, Become
  <2> QED BY <1>1, <2>1, ScheduleWakes
<1>8. ASSUME NEW t \in Task, handle(t) PROVE Fine(batch')
  <2> DEFINE b == [batch EXCEPT !.agentId = @ \cup {t}]
  <2>1. batch' = b BY <1>8 DEF handle
  <2>2. SameTimes(batch, b) /\ b.finished = batch.finished /\ b.pending = batch.pending
        /\ b.active = batch.active /\ b.given = batch.given
    BY <1>2 DEF SameTimes, Fields
  <2> HIDE DEF b
  <2>3. Timed(b) BY <1>1, <2>2, SameTimesIsTimed
  <2>4. Wakes(b) BY <1>1, <2>2 DEF Wakes, SameTimes, isAtConcurrencyLimit
  <2> QED BY <2>1, <2>2, <2>3, <2>4 DEF OneAtATime
<1>9. ASSUME NEW t \in Task, onReady(t) PROVE Fine(batch')
  <2>1. batch' = markAttemptReady(batch, t) BY <1>9 DEF onReady, Become
  <2> QED BY <1>1, <2>1, ReadyWakes
<1>10. ASSUME NEW t \in Task, NEW outcome \in {"completed", "failed", "rate_limited"},
              settle(t, outcome)
       PROVE  Fine(batch')
  <2>1. batch' = handleAttemptOutcome(batch, t, outcome) BY <1>10 DEF settle
  <2> QED BY <1>1, <2>1, OutcomeWakes
<1>11. ASSUME NEW t \in Task, attemptSettles(t) PROVE Fine(batch')
  BY <1>10, <1>11 DEF attemptSettles
<1>12. ASSUME NEW t \in Task, attemptRateLimited(t) PROVE Fine(batch')
  BY <1>10, <1>12 DEF attemptRateLimited
<1>13. CASE UNCHANGED vars
  <2>1. batch' = batch BY <1>13 DEF vars
  <2> QED BY <1>1, <2>1 DEF OneAtATime
<1> HIDE DEF Fine
<1> QED BY <1>3, <1>4, <1>5, <1>6, <1>7, <1>8, <1>9, <1>11, <1>12, <1>13 DEF Next

(* The clocks are in range, the next launch keeps its distance and someone *)
(* wakes the batch: the invariant the next two theorems need.              *)
LEMMA BatchIsTimed == Spec => []TimedInv
<1>1. Init => TimedInv BY InitInv, InitTimed DEF TimedInv
<1>2. TimedInv /\ [Next]_vars => TimedInv'
  <2> SUFFICES ASSUME TimedInv, [Next]_vars PROVE TimedInv' OBVIOUS
  <2>1. Inv' BY NextInv DEF TimedInv
  <2>2. Timed(batch') /\ Wakes(batch') BY NextTimed
  <2>3. (TimedInv' <=> Inv' /\ Timed(batch') /\ Wakes(batch'))
    BY DEF TimedInv, Timed, Clocks, Spaced, Wakes, isAtConcurrencyLimit
  <2> QED BY <2>1, <2>2, <2>3
<1> QED BY <1>1, <1>2, PTL DEF Spec

(* No schedule leaves waiting tasks without a timer or an attempt that     *)
(* will schedule again (subagent-batch.ts:204-280 and 505-540).            *)
THEOREM BatchWakes == Spec => []SomethingWillWake
<1>1. TimedInv => SomethingWillWake BY DEF TimedInv, Wakes, SomethingWillWake
<1> QED BY <1>1, BatchIsTimed, PTL

(* In the rate-limit phase one attempt is launched at a time, and none     *)
(* within the base delay of a rate limit, however the capacity recovers    *)
(* (subagent-batch.ts:245-280 and 420-503).                                *)
THEOREM LaunchesAreApart == Spec => LaunchesKeepDistance
<1> DEFINE Apart ==
      batch.rateLimitMode /\ Launches =>
        /\ Cardinality(batch'.active \ batch.active) = 1
        /\ batch.lastRateLimit <= RecoveryInterval - RetryBase
<1>1. TimedInv /\ [Next]_vars => [Apart]_vars
  <2> SUFFICES ASSUME TimedInv, [Next]_vars, batch.rateLimitMode, Launches
               PROVE  /\ Cardinality(batch'.active \ batch.active) = 1
                      /\ batch.lastRateLimit <= RecoveryInterval - RetryBase
    OBVIOUS
  <2>1. OneAtATime(batch, batch') BY NextTimed
  <2>2. PICK u : /\ batch'.active \subseteq batch.active \cup {u}
                 /\ batch.lastRateLimit <= RecoveryInterval - RetryBase
    BY <2>1 DEF OneAtATime, Launches
  <2>3. batch'.active \ batch.active = {u} BY <2>2 DEF Launches
  <2>4. Cardinality({u}) = 1 BY FS_Singleton
  <2> QED BY <2>2, <2>3, <2>4
<1> QED BY <1>1, BatchIsTimed, PTL DEF Spec, LaunchesKeepDistance
=============================================================================
