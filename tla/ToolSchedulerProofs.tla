------------------------ MODULE ToolSchedulerProofs -------------------------
(***************************************************************************)
(* What the tool scheduler guarantees for every number of calls and every  *)
(* choice of accesses.  The inductive invariant is                         *)
(*                                                                         *)
(*   SchedulerTypeOK /\ ActiveDisjoint /\ QueuedIsBlocked                  *)
(***************************************************************************)
EXTENDS ToolScheduler, TLAPS, WellFoundedInduction

USE NumTasksAssumption DEF Task, Declared

(* The order of two calls does not matter to conflict: the scheduler asks  *)
(* only the later call about the earlier ones.                             *)
LEMMA ConflictSymmetric ==
  ASSUME NEW d, NEW e, conflict(d, e)
  PROVE  conflict(e, d)
<1>1. PICK l \in d, r \in e : resourceAccessesConflict(l, r)
  BY DEF conflict
<1>2. resourceAccessesConflict(r, l)
  BY <1>1 DEF resourceAccessesConflict, fileOperationsConflict,
              fileAccessesOverlap
<1> QED
  BY <1>2 DEF conflict

(* Of two prefixes of one path, one is a prefix of the other.              *)
LEMMA PrefixesCompare ==
  ASSUME NEW p \in Seq(Segment), NEW q \in Seq(Segment),
         NEW f \in Seq(Segment), IsPrefix(p, f), IsPrefix(q, f)
  PROVE  IsPrefix(p, q) \/ IsPrefix(q, p)
<1>1. CASE Len(p) <= Len(q)
  BY <1>1 DEF IsPrefix
<1>2. CASE Len(q) <= Len(p)
  BY <1>2 DEF IsPrefix
<1> QED
  BY <1>1, <1>2

(* A call that may change a file conflicts with every call that may touch  *)
(* the same file, so keeping conflicting calls apart protects each file.   *)
LEMMA SharedFileConflicts ==
  ASSUME NEW d, NEW e, NEW f \in Seq(Segment),
         \A access \in d : WellFormed(access),
         \A access \in e : WellFormed(access),
         MayChange(d, f), MayTouch(e, f)
  PROVE  conflict(d, e)
<1>1. PICK l \in d : /\ Reaches(l, f)
                     /\ l.kind = "all" \/ l.operation \in {"write", "readwrite"}
  BY DEF MayChange
<1>2. PICK r \in e : Reaches(r, f)
  BY DEF MayTouch
<1>3. CASE l.kind = "all" \/ r.kind = "all"
  BY <1>3 DEF conflict, resourceAccessesConflict
<1>4. CASE l.kind # "all" /\ r.kind # "all"
  <2>1. l # AllAccess /\ r # AllAccess
    BY <1>4 DEF AllAccess
  <2> DEFINE p == normalizePath(l.path)
             q == normalizePath(r.path)
  <2>2. /\ p \in Seq(Segment) /\ q \in Seq(Segment)
        /\ l.recursive \in BOOLEAN /\ r.recursive \in BOOLEAN
    BY <2>1 DEF WellFormed
  <2>3. /\ f = p \/ (l.recursive /\ IsPrefix(p, f))
        /\ f = q \/ (r.recursive /\ IsPrefix(q, f))
    BY <1>1, <1>2, <1>4 DEF Reaches
  <2> HIDE DEF p, q
  <2>4. \/ p = q
        \/ l.recursive /\ IsStrictPrefix(p, q)
        \/ r.recursive /\ IsStrictPrefix(q, p)
    BY <2>2, <2>3, PrefixesCompare DEF IsStrictPrefix
  <2>5. fileAccessesOverlap(l, r)
    BY <2>4 DEF fileAccessesOverlap, p, q
  <2>6. fileOperationsConflict(l.operation, r.operation)
    BY <1>1, <1>4 DEF fileOperationsConflict, fileOperationWrites
  <2> QED
    BY <2>5, <2>6 DEF conflict, resourceAccessesConflict
<1> QED
  BY <1>3, <1>4

(* A non-empty set of naturals has a least element.                        *)
LEMMA LeastElement ==
  ASSUME NEW S, S \subseteq Nat, S # {}
  PROVE  \E m \in S : \A n \in S : m <= n
<1> DEFINE R == OpToRel(<, Nat)
<1>1. IsWellFoundedOn(R, Nat)
  BY NatLessThanWellFounded
<1> HIDE DEF R
<1>2. PICK m \in S : \A n \in S : ~ (<<n, m>> \in R)
  BY <1>1, WFMin
<1>3. \A n \in S : <<n, m>> \in R <=> n < m
  BY DEF R, OpToRel
<1>4. \A n \in S : m <= n
  <2> TAKE n \in S
  <2>1. ~ (n < m)
    BY <1>2, <1>3
  <2>2. m \in Nat /\ n \in Nat
    OBVIOUS
  <2> QED
    BY <2>1, <2>2
<1> QED
  BY <1>4

-----------------------------------------------------------------------------
(* The scheduler starts in its type.                                       *)
LEMMA TypeInit == SchedulerInit => SchedulerTypeOK
BY DEF SchedulerInit, SchedulerTypeOK

(* Every step of the scheduler keeps its type.                             *)
LEMMA TypeInductive ==
  SchedulerTypeOK /\ [Next]_schedulerVars => SchedulerTypeOK'
<1> SUFFICES ASSUME SchedulerTypeOK, [Next]_schedulerVars
             PROVE  SchedulerTypeOK'
  OBVIOUS
<1> USE DEF SchedulerTypeOK
<1>1. ASSUME NEW declared \in Declared, add(declared)
      PROVE  SchedulerTypeOK'
  <2>1. /\ added' = added + 1
        /\ added' \in 0..NumTasks
        /\ added + 1 \in Task
    BY <1>1 DEF add
  <2>2. accesses' \in [Task -> AccessSets \cup {{}}]
    BY <1>1, <2>1 DEF add
  <2>3. /\ activeTasks' \subseteq activeTasks \cup {added + 1}
        /\ queuedTasks' \subseteq queuedTasks \cup {added + 1}
        /\ added + 1 \notin activeTasks' \cap queuedTasks'
        /\ settledTasks' = settledTasks
    BY <1>1 DEF add
  <2>4. 1..added' = (1..added) \cup {added + 1}
    BY <2>1
  <2>5. added + 1 \notin 1..added
    OBVIOUS
  <2> QED
    BY <2>1, <2>2, <2>3, <2>4, <2>5
<1>2. ASSUME NEW t \in Task, settle(t)
      PROVE  SchedulerTypeOK'
  BY <1>2 DEF settle
<1>3. ASSUME NEW t \in Task, finish(t)
      PROVE  SchedulerTypeOK'
  BY <1>3 DEF finish, startQueuedTasks
<1>4. CASE UNCHANGED schedulerVars
  BY <1>4 DEF schedulerVars
<1> QED
  BY <1>1, <1>2, <1>3, <1>4 DEF Next

(* Every variable keeps its type, and no call is in two of the scheduler's *)
(* collections at once.                                                    *)
THEOREM TypeCorrect == Spec => []SchedulerTypeOK
BY TypeInit, TypeInductive, PTL DEF Spec

(* No two active calls conflict.                                           *)
ActiveDisjoint ==
  \A t, u \in activeTasks : t # u => ~ Conflicting(t, u)

SchedulerInv == SchedulerTypeOK /\ ActiveDisjoint /\ QueuedIsBlocked

(* What add() leaves alone: the accesses of the calls it knew before.      *)
LEMMA AddKeepsAccesses ==
  ASSUME SchedulerTypeOK, NEW declared \in Declared, add(declared)
  PROVE  /\ \A t \in activeTasks \cup queuedTasks :
              accesses'[t] = accesses[t] /\ t < added + 1
         /\ accesses'[added + 1] = declared
<1>1. added + 1 \in Task
  BY DEF add, SchedulerTypeOK
<1>2. \A t \in activeTasks \cup queuedTasks : t \in Task /\ t < added + 1
  BY DEF SchedulerTypeOK
<1> QED
  BY <1>1, <1>2 DEF add, SchedulerTypeOK

(* startQueuedTasks() starts a call only when nothing active and nothing   *)
(* queued before it conflicts with it.                                     *)
LEMMA StartedIsFree ==
  ASSUME NEW left, NEW t \in startQueuedTasks(left)
  PROVE  /\ t \in queuedTasks
         /\ \A u \in left : ~ Conflicting(t, u)
         /\ \A u \in queuedTasks : u < t => ~ Conflicting(t, u)
BY DEF startQueuedTasks, isBlocked, conflictsWithAny, Conflicting

(* ... and leaves in the queue only calls that something conflicts with.   *)
LEMMA LeftIsBlocked ==
  ASSUME NEW left, NEW t \in queuedTasks \ startQueuedTasks(left)
  PROVE  \/ \E u \in left : Conflicting(t, u)
         \/ \E u \in queuedTasks : u < t /\ Conflicting(t, u)
BY DEF startQueuedTasks, isBlocked, conflictsWithAny, Conflicting

LEMMA InvInductive ==
  SchedulerInv /\ SchedulerTypeOK' /\ [Next]_schedulerVars => SchedulerInv'
<1> SUFFICES ASSUME SchedulerInv, SchedulerTypeOK', [Next]_schedulerVars
             PROVE  ActiveDisjoint' /\ QueuedIsBlocked'
  BY DEF SchedulerInv
<1> USE DEF SchedulerInv
<1>1. ASSUME NEW declared \in Declared, add(declared)
      PROVE  ActiveDisjoint' /\ QueuedIsBlocked'
  <2>0. PICK new \in Task : new = added + 1
    BY <1>1 DEF add, SchedulerTypeOK
  <2>1. /\ \A t \in activeTasks \cup queuedTasks :
             accesses'[t] = accesses[t] /\ t < new
        /\ accesses'[new] = declared
    BY <1>1, <2>0, AddKeepsAccesses
  <2>2. \A t, u \in activeTasks \cup queuedTasks :
          Conflicting(t, u)' <=> Conflicting(t, u)
    BY <2>1 DEF Conflicting
  <2>3. CASE isBlocked(declared, activeTasks, queuedTasks)
    <3>1. activeTasks' = activeTasks /\ queuedTasks' = queuedTasks \cup {new}
      BY <1>1, <2>0, <2>3 DEF add
    <3>2. PICK u \in activeTasks \cup queuedTasks : conflict(declared, accesses[u])
      BY <2>3 DEF isBlocked, conflictsWithAny
    <3>3. Conflicting(new, u)' /\ u < new
      BY <2>1, <3>2 DEF Conflicting
    <3>4. ActiveDisjoint'
      BY <2>2, <3>1 DEF ActiveDisjoint
    <3>5. QueuedIsBlocked'
      BY <2>2, <3>1, <3>2, <3>3 DEF QueuedIsBlocked
    <3> QED
      BY <3>4, <3>5
  <2>4. CASE ~ isBlocked(declared, activeTasks, queuedTasks)
    <3>1. activeTasks' = activeTasks \cup {new} /\ queuedTasks' = queuedTasks
      BY <1>1, <2>0, <2>4 DEF add
    <3>2. \A u \in activeTasks : ~ Conflicting(new, u)'
      BY <2>1, <2>4 DEF isBlocked, conflictsWithAny, Conflicting
    <3>3. \A u \in activeTasks : ~ Conflicting(u, new)'
      BY <3>2, ConflictSymmetric DEF Conflicting
    <3>4. ActiveDisjoint'
      BY <2>2, <3>1, <3>2, <3>3 DEF ActiveDisjoint
    <3>5. QueuedIsBlocked'
      BY <2>2, <3>1 DEF QueuedIsBlocked
    <3> QED
      BY <3>4, <3>5
  <2> QED
    BY <2>3, <2>4
<1>2. ASSUME NEW t \in Task, settle(t)
      PROVE  ActiveDisjoint' /\ QueuedIsBlocked'
  BY <1>2 DEF settle, ActiveDisjoint, QueuedIsBlocked, Conflicting
<1>3. ASSUME NEW t \in Task, finish(t)
      PROVE  ActiveDisjoint' /\ QueuedIsBlocked'
  <2> DEFINE left    == activeTasks \ {t}
             started == startQueuedTasks(left)
  <2>1. /\ activeTasks' = left \cup started
        /\ queuedTasks' = queuedTasks \ started
        /\ \A u, v : Conflicting(u, v)' <=> Conflicting(u, v)
    BY <1>3 DEF finish, Conflicting
  <2> HIDE DEF left, started
  <2>2. \A u \in started : /\ u \in queuedTasks
                           /\ \A v \in left : ~ Conflicting(u, v)
                           /\ \A v \in queuedTasks : v < u => ~ Conflicting(u, v)
    BY StartedIsFree DEF started
  <2>3. ActiveDisjoint'
    <3> SUFFICES ASSUME NEW u \in left \cup started, NEW v \in left \cup started,
                        u # v, Conflicting(u, v)
                 PROVE  FALSE
      BY <2>1 DEF ActiveDisjoint
    <3>1. Conflicting(v, u)
      BY ConflictSymmetric DEF Conflicting
    <3>2. CASE u \in left /\ v \in left
      BY <3>2 DEF left, ActiveDisjoint
    <3>3. CASE u \in started /\ v \in left
      BY <2>2, <3>3
    <3>4. CASE u \in left /\ v \in started
      BY <2>2, <3>1, <3>4
    <3>5. CASE u \in started /\ v \in started
      <4>1. u \in queuedTasks /\ v \in queuedTasks
        BY <2>2, <3>5
      <4>2. u \in Int /\ v \in Int
        BY <4>1 DEF SchedulerTypeOK
      <4> QED
        BY <2>2, <3>1, <3>5, <4>1, <4>2
    <3> QED
      BY <3>2, <3>3, <3>4, <3>5
  <2>4. QueuedIsBlocked'
    <3> SUFFICES ASSUME NEW u \in queuedTasks \ started
                 PROVE  \/ \E v \in left \cup started : Conflicting(u, v)
                        \/ \E v \in queuedTasks \ started : v < u /\ Conflicting(u, v)
      BY <2>1 DEF QueuedIsBlocked
    <3>1. \/ \E v \in left : Conflicting(u, v)
          \/ \E v \in queuedTasks : v < u /\ Conflicting(u, v)
      BY LeftIsBlocked DEF started
    <3> QED
      BY <3>1
  <2> QED
    BY <2>3, <2>4
<1>4. CASE UNCHANGED schedulerVars
  BY <1>4 DEF schedulerVars, ActiveDisjoint, QueuedIsBlocked, Conflicting
<1> QED
  BY <1>1, <1>2, <1>3, <1>4 DEF Next

LEMMA InvInit == SchedulerInit => SchedulerInv
BY TypeInit DEF SchedulerInit, SchedulerInv, ActiveDisjoint, QueuedIsBlocked

(* The inductive invariant holds of every behaviour of the scheduler.      *)
THEOREM InvHolds == Spec => []SchedulerInv
BY InvInit, InvInductive, TypeCorrect, PTL DEF Spec

-----------------------------------------------------------------------------
(* No lost wake-up, for any number of calls.                               *)
THEOREM NoLostWakeup == Spec => []QueuedIsBlocked
<1>1. SchedulerInv => QueuedIsBlocked
  BY DEF SchedulerInv
<1> QED
  BY <1>1, InvHolds, PTL

(* While a call waits, some call runs: the first call in the queue waits   *)
(* for an active one.                                                      *)
THEOREM QueueServed == Spec => []QueueHasRunner
<1>1. SchedulerInv => QueueHasRunner
  <2> SUFFICES ASSUME SchedulerInv, queuedTasks # {}
               PROVE  activeTasks # {}
    BY DEF QueueHasRunner
  <2>1. queuedTasks \subseteq Nat
    BY DEF SchedulerInv, SchedulerTypeOK
  <2>2. PICK first \in queuedTasks : \A t \in queuedTasks : first <= t
    BY <2>1, LeastElement
  <2>3. \A t \in queuedTasks : ~ (t < first)
    BY <2>1, <2>2
  <2> QED
    BY <2>2, <2>3 DEF SchedulerInv, QueuedIsBlocked
<1> QED
  BY <1>1, InvHolds, PTL

(* No call changes a file while another call that may touch it is active,  *)
(* whatever the files, the accesses and the number of calls.               *)
THEOREM FilesProtected == Spec => []NoTornFile
<1>1. SchedulerInv => NoTornFile
  <2> SUFFICES ASSUME SchedulerInv,
                      NEW t \in activeTasks, NEW u \in activeTasks, NEW f \in File,
                      t # u, MayChange(accesses[t], f), MayTouch(accesses[u], f)
               PROVE  FALSE
    BY DEF NoTornFile
  <2>1. t \in Task /\ u \in Task
    BY DEF SchedulerInv, SchedulerTypeOK
  <2>2. \A v \in Task : \A access \in accesses[v] : WellFormed(access)
    BY AccessSetsAssumption DEF SchedulerInv, SchedulerTypeOK
  <2>3. Conflicting(t, u)
    BY <2>1, <2>2, SharedFileConflicts, AccessSetsAssumption DEF Conflicting
  <2> QED
    BY <2>3 DEF SchedulerInv, ActiveDisjoint
<1> QED
  BY <1>1, InvHolds, PTL

-----------------------------------------------------------------------------
(* A step that starts a call leaves every earlier call it conflicts with   *)
(* finished; every other change moves a call along its life cycle.         *)
LEMMA StepRefines ==
  SchedulerInv /\ SchedulerTypeOK' /\ [Next]_schedulerVars
    => [Serial!Step]_(Serial!svars)
<1> SUFFICES ASSUME SchedulerInv, SchedulerTypeOK', [Next]_schedulerVars
             PROVE  Serial!Step \/ UNCHANGED Serial!svars
  OBVIOUS
<1> USE DEF SchedulerInv
<1>1. ASSUME NEW declared \in Declared, add(declared)
      PROVE  Serial!Step
  <2>1. PICK new \in Task : new = added + 1
    BY <1>1 DEF add, SchedulerTypeOK
  <2>2. added \in Nat /\ added' = new
    BY <1>1, <2>1 DEF add, SchedulerTypeOK
  <2>3. \A t \in Task \ {new} : accesses'[t] = accesses[t]
    BY <1>1, <2>1 DEF add, SchedulerTypeOK
  <2>4. \A t \in Task \ {new} : status'[t] = status[t]
    BY <1>1, <2>1, <2>2 DEF add, status
  <2>5. new \notin activeTasks /\ new \notin queuedTasks
    BY <2>1, <2>2 DEF SchedulerTypeOK
  <2>6. status[new] = "absent" /\ status'[new] \in {"waiting", "running"}
    BY <1>1, <2>1, <2>2, <2>5 DEF add, status
  <2>7. \A t \in Task : status'[t] \in Serial!After(status[t])
    BY <2>4, <2>6 DEF Serial!After, status
  <2>8. \A t, u \in Task : status[t] # "absent" /\ status[u] # "absent"
          => (u \in rival'[t] <=> u \in rival[t])
    BY <2>3, <2>6 DEF rival, Conflicting
  <2>9. ASSUME NEW t \in Task, status[t] # "running", status'[t] = "running",
               NEW u \in rival'[t], u < t
        PROVE  status'[u] = "finished"
    <3>1. t = new
      BY <2>4, <2>9
    <3>2. u \in Task /\ u <= added /\ u # new
      BY <2>1, <2>2, <2>9, <3>1 DEF rival
    <3>3. ~ isBlocked(declared, activeTasks, queuedTasks)
      BY <1>1, <2>1, <2>2, <2>9, <3>1 DEF add, status
    <3>4. conflict(declared, accesses[u])
      <4>1. accesses'[new] = declared
        BY <1>1, <2>1 DEF add, SchedulerTypeOK
      <4> QED
        BY <2>3, <2>9, <3>1, <3>2, <4>1 DEF rival, Conflicting
    <3>5. u \notin activeTasks /\ u \notin queuedTasks
      BY <3>3, <3>4 DEF isBlocked, conflictsWithAny
    <3>6. status[u] = "finished"
      BY <2>2, <3>2, <3>5 DEF status
    <3> QED
      BY <2>4, <3>2, <3>6
  <2> QED
    BY <2>7, <2>8, <2>9 DEF Serial!Step
<1>2. ASSUME NEW t \in Task, settle(t)
      PROVE  UNCHANGED Serial!svars
  BY <1>2 DEF settle, Serial!svars, status, rival, Conflicting
<1>3. ASSUME NEW t \in Task, finish(t)
      PROVE  Serial!Step
  <2> DEFINE left    == activeTasks \ {t}
             started == startQueuedTasks(left)
  <2>1. /\ activeTasks' = left \cup started
        /\ queuedTasks' = queuedTasks \ started
        /\ t \in activeTasks
        /\ added' = added /\ accesses' = accesses
    BY <1>3 DEF finish
  <2> HIDE DEF started
  <2>2. \A u \in started : /\ u \in queuedTasks
                           /\ \A v \in left : ~ Conflicting(u, v)
                           /\ \A v \in queuedTasks : v < u => ~ Conflicting(u, v)
    BY StartedIsFree DEF started
  <2>3. rival' = rival
    BY <2>1 DEF rival, Conflicting
  <2>4. queuedTasks \cap activeTasks = {} /\ activeTasks \cup queuedTasks \subseteq 1..added
    BY DEF SchedulerTypeOK
  <2>5. added \in Nat
    BY DEF SchedulerTypeOK
  <2>6. status[t] = "running" /\ status'[t] = "finished"
    BY <2>1, <2>2, <2>4, <2>5 DEF status
  <2>7. ASSUME NEW u \in started
        PROVE  status[u] = "waiting" /\ status'[u] = "running"
    <3>1. u \in queuedTasks /\ u \in activeTasks' /\ u \notin queuedTasks'
      BY <2>1, <2>2
    <3>2. u \in Task /\ u <= added
      BY <3>1 DEF SchedulerTypeOK
    <3> QED
      BY <2>1, <2>5, <3>1, <3>2 DEF status
  <2>8. \A u \in Task : u # t /\ u \notin started => status'[u] = status[u]
    BY <2>1 DEF status
  <2>9. \A u \in Task : status'[u] \in Serial!After(status[u])
    BY <2>6, <2>7, <2>8 DEF Serial!After, status
  <2>10. ASSUME NEW u \in Task, status[u] # "running", status'[u] = "running",
                NEW v \in rival'[u], v < u
         PROVE  status'[v] = "finished"
    <3>1. u \in started
      BY <2>6, <2>8, <2>10
    <3>2. v \in Task /\ Conflicting(u, v)
      BY <2>3, <2>10 DEF rival
    <3>3. v \notin left /\ v \notin queuedTasks
      BY <2>2, <2>10, <3>1, <3>2
    <3>4. v \notin activeTasks' /\ v \notin queuedTasks'
      BY <2>1, <2>2, <3>3
    <3>5. v <= added'
      BY <2>1, <2>2, <2>4, <2>5, <2>10, <3>1, <3>2
    <3> QED
      BY <3>2, <3>4, <3>5, <2>1, <2>5 DEF status
  <2> QED
    BY <2>3, <2>9, <2>10 DEF Serial!Step
<1>4. CASE UNCHANGED schedulerVars
  BY <1>4 DEF schedulerVars, Serial!svars, status, rival, Conflicting
<1> QED
  BY <1>1, <1>2, <1>3, <1>4 DEF Next

(* The scheduler implements SerialOrder: conflicting calls run one at a    *)
(* time in provider order.                                                 *)
THEOREM Refines == Spec => SerialSpec
<1>1. SchedulerInit => Serial!Init
  BY DEF SchedulerInit, Serial!Init, status
<1> QED
  BY <1>1, StepRefines, InvHolds, TypeCorrect, PTL DEF Spec, SerialSpec, Serial!Spec

=============================================================================
