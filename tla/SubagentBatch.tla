---------------------------- MODULE SubagentBatch ----------------------------
(***************************************************************************)
(* A batch of subagents (SubagentBatch in                                  *)
(* packages/agent-core/src/session/subagent-batch.ts): a ramp of launches, *)
(* and, from the first rate limit of the provider on, a capacity that      *)
(* shrinks and recovers and launches that keep their distance.             *)
(*                                                                         *)
(* The batch is a record, its methods operators on it.  Times are kept as  *)
(* the ticks that are left: 0 is now or earlier.                           *)
(***************************************************************************)
EXTENDS Integers, Sequences, FiniteSets, SequencesExt, FiniteSetsExt

CONSTANTS NumTasks,           \* tasks of the batch
          InitialLaunchLimit, \* launched at once
          LaunchInterval,     \* then one after each of these
          RetryBase, ShrinkInterval, RecoveryInterval,
          Batches

(* A batch may have a cap on the active attempts of its normal phase, 0    *)
(* for none.  rateLimits bounds how often the provider reports one.        *)

ASSUME BatchConstants ==
  /\ NumTasks \in Nat \ {0}
  /\ InitialLaunchLimit \in Nat \ {0} /\ LaunchInterval \in Nat \ {0}
  /\ RetryBase \in Nat \ {0} /\ ShrinkInterval \in Nat /\ RecoveryInterval \in Nat
  /\ RetryBase < RecoveryInterval
  /\ Batches \subseteq [maxConcurrency : Nat, rateLimits : Nat]

Task == 1..NumTasks

VARIABLES batch,       \* the SubagentBatch
          running,     \* tasks with an attempt whose promise has not settled
          spawned      \* those of them whose handle the launcher has returned

vars == <<batch, running, spawned>>

Off == -1
None == "none"
Statuses == {"completed", "failed", "aborted/started", "aborted/not_started"}

Init ==
  /\ \E given \in Batches :
     batch = [given |-> given, pending |-> [t \in Task |-> t], active |-> {}, ready |-> {},
              started |-> {}, agentId |-> {},
              results |-> [t \in Task |-> None], finished |-> "not_run",
              normalLaunchCount |-> 0, normalLaunchTimer |-> Off,
              rateLimitLaunchTimer |-> Off, rateLimitMode |-> FALSE,
              startedSuccessCount |-> 0, rateLimitCapacity |-> 1,
              globalRetryInterval |-> RetryBase, nextRateLimitLaunch |-> 0,
              retryCount |-> [t \in Task |-> 0], retryReady |-> [t \in Task |-> 0],
              shrink |-> 0,    \* until the capacity may shrink again
              lastRateLimit |-> 0, lastCapacityRecovery |-> 0] \* quiet windows still open
  /\ running = {}
  /\ spawned = {}

AtLeastOne_zero(n) == IF n < 0 THEN 0 ELSE n

AtLeastOne(n) == IF n < 1 THEN 1 ELSE n

Later(m, n)   == IF m < n THEN n ELSE m
Sooner(m, n)  == IF m < n THEN m ELSE n

-----------------------------------------------------------------------------
(* Scheduling.                                                             *)

startAttempt_shiftsHead(b, i) ==
  [b EXCEPT !.pending = Tail(@),
            !.active = @ \cup {b.pending[i]}, !.ready = @ \ {b.pending[i]}]

startAttempt(b, i) ==
  [b EXCEPT !.pending = RemoveAt(@, i),
            !.active = @ \cup {b.pending[i]}, !.ready = @ \ {b.pending[i]}]

isAtConcurrencyLimit(b) ==
  b.given.maxConcurrency > 0 /\ Cardinality(b.active) >= b.given.maxConcurrency

launchFirst(b, k) ==
  [b EXCEPT !.pending = SubSeq(@, k + 1, Len(@)),
            !.active = @ \cup Range(SubSeq(b.pending, 1, k)),
            !.normalLaunchCount = @ + k]

scheduleNormalLaunch(b) ==
  LET room  == IF b.given.maxConcurrency = 0 THEN Cardinality(Task)
               ELSE Later(0, b.given.maxConcurrency - Cardinality(b.active))
      burst == Min({Later(0, InitialLaunchLimit - b.normalLaunchCount), Len(b.pending), room})
      c     == launchFirst(b, burst)
  IN  IF c.pending = <<>> \/ c.normalLaunchTimer # Off \/ isAtConcurrencyLimit(c) THEN c
      ELSE [c EXCEPT !.normalLaunchTimer = LaunchInterval]

nextPendingReady(b) == Min({b.retryReady[b.pending[i]] : i \in DOMAIN b.pending})

nextCapacityRecovery(b) == Later(b.lastRateLimit, b.lastCapacityRecovery)

recoverRateLimitCapacity_never(b) ==
  IF nextCapacityRecovery(b) > 0 THEN b
  ELSE [b EXCEPT !.lastCapacityRecovery = RecoveryInterval, !.nextRateLimitLaunch = 0]

recoverRateLimitCapacity(b) ==
  IF nextCapacityRecovery(b) > 0 THEN b
  ELSE [b EXCEPT !.rateLimitCapacity = @ + 1, !.lastCapacityRecovery = RecoveryInterval,
                 !.nextRateLimitLaunch = 0]

scheduleRateLimitWakeup(b, wakeup) ==
  IF wakeup <= 0 THEN b ELSE [b EXCEPT !.rateLimitLaunchTimer = wakeup]

isFull(b) == Cardinality(b.active) >= b.rateLimitCapacity

(* When there is something to launch, or capacity recovers.                *)
nextWakeup(b) ==
  IF isFull(b) THEN nextCapacityRecovery(b)
  ELSE Sooner(Later(b.nextRateLimitLaunch, nextPendingReady(b)), nextCapacityRecovery(b))

scheduleNextRateLimitWakeup_onlyIfRoom(b) ==
  IF b.pending = <<>> \/ isFull(b) THEN b ELSE scheduleRateLimitWakeup(b, nextWakeup(b))

scheduleNextRateLimitWakeup(b) ==
  IF b.pending = <<>> THEN b ELSE scheduleRateLimitWakeup(b, nextWakeup(b))

scheduleRateLimitLaunch(b) ==
  LET c == [b EXCEPT !.rateLimitLaunchTimer = Off]
      r == recoverRateLimitCapacity(c)
      i == SelectInSeq(r.pending, LAMBDA p : r.retryReady[p] = 0)
  IN  IF c.pending = <<>> THEN c
      ELSE IF isFull(r) \/ nextWakeup(r) > 0 THEN scheduleRateLimitWakeup(r, nextWakeup(r))
      ELSE IF i = 0 THEN r
      ELSE scheduleNextRateLimitWakeup(
             [startAttempt(r, i) EXCEPT !.nextRateLimitLaunch = r.globalRetryInterval])

(* cleanup(): no timers, no active attempts; what is in flight is on its   *)
(* own.                                                                    *)
finish(b, how) ==
  [b EXCEPT !.finished = how, !.active = {}, !.ready = {},
            !.normalLaunchTimer = Off, !.rateLimitLaunchTimer = Off]

schedule(b) ==
  IF b.finished # "no" THEN b
  ELSE IF \A t \in Task : b.results[t] # None THEN finish(b, "resolved")
  ELSE IF b.rateLimitMode THEN scheduleRateLimitLaunch(b)
  ELSE scheduleNormalLaunch(b)

-----------------------------------------------------------------------------
(* Rate limits.                                                            *)

shrinkRateLimitCapacity(b, force) ==
  IF ~ force /\ b.shrink > 0 THEN b
  ELSE [b EXCEPT !.rateLimitCapacity = AtLeastOne(@ - 1), !.shrink = ShrinkInterval]

enterRateLimitMode(b) ==
  IF b.rateLimitMode THEN shrinkRateLimitCapacity(b, FALSE)
  ELSE shrinkRateLimitCapacity(
         [b EXCEPT !.rateLimitMode = TRUE, !.normalLaunchTimer = Off,
                   !.rateLimitCapacity = AtLeastOne(b.startedSuccessCount),
                   !.nextRateLimitLaunch = Later(@, RetryBase)],
         TRUE)

(* The delay of a task doubles with each rate limit it has met.            *)
retryDelay[n \in Nat] == IF n = 0 THEN RetryBase ELSE 2 * retryDelay[n - 1]

requeueRateLimited_keepsLaunchTime(b, t) ==
  LET delay == retryDelay[b.retryCount[t]]
  IN  enterRateLimitMode([b EXCEPT !.agentId = @ \cup {t},
                                   !.retryCount[t] = @ + 1,
                                   !.retryReady[t] = delay,
                                   !.lastRateLimit = RecoveryInterval,
                                   !.pending = <<t>> \o @])

(* An attempt that was not ready has been refused at once: the interval    *)
(* between launches grows.                                                 *)
requeueRateLimited(b, t) ==
  LET delay    == retryDelay[b.retryCount[t]]
      c        == enterRateLimitMode([b EXCEPT !.agentId = @ \cup {t},
                                               !.retryCount[t] = @ + 1,
                                               !.retryReady[t] = delay,
                                               !.lastRateLimit = RecoveryInterval,
                                               !.pending = <<t>> \o @])
      interval == Later(c.globalRetryInterval * 2, delay)
  IN  IF t \in b.ready
        THEN [c EXCEPT !.nextRateLimitLaunch = Later(@, RetryBase)]
        ELSE [c EXCEPT !.globalRetryInterval = interval,
                       !.nextRateLimitLaunch = Later(@, interval)]

isOnlyUnfinishedTask(b, t) == \A u \in Task \ {t} : b.results[u] # None

markAttemptReady(b, t) ==
  IF b.finished # "no" \/ t \in b.ready \/ t \notin b.active THEN b
  ELSE LET c == [b EXCEPT !.ready = @ \cup {t}, !.started = @ \cup {t}]
       IN  IF ~ b.rateLimitMode THEN [c EXCEPT !.startedSuccessCount = @ + 1]
           ELSE schedule([c EXCEPT !.globalRetryInterval = RetryBase,
                                   !.nextRateLimitLaunch = RetryBase])

handleAttemptOutcome_late(b, t, outcome) ==
  schedule([b EXCEPT !.active = @ \ {t},
                     !.results[t] = IF outcome = "rate_limited" THEN "failed" ELSE outcome])

handleAttemptOutcome_noSchedule(b, t, outcome) ==
  LET c == [b EXCEPT !.active = @ \ {t}]
  IN  IF t \notin b.active THEN b
      ELSE IF outcome # "rate_limited" THEN [c EXCEPT !.results[t] = outcome]
      ELSE IF isOnlyUnfinishedTask(c, t) THEN schedule([c EXCEPT !.results[t] = "failed"])
      ELSE schedule(requeueRateLimited(c, t))

handleAttemptOutcome(b, t, outcome) ==
  LET c == [b EXCEPT !.active = @ \ {t}]
  IN  IF t \notin b.active THEN b
      ELSE IF outcome # "rate_limited" THEN schedule([c EXCEPT !.results[t] = outcome])
      ELSE IF isOnlyUnfinishedTask(c, t) THEN schedule([c EXCEPT !.results[t] = "failed"])
      ELSE schedule(requeueRateLimited(c, t))

finishWithUserCancellation_readyOnly(b) ==
  finish([b EXCEPT !.results =
            [t \in Task |-> IF @[t] # None THEN @[t]
                            ELSE IF t \in b.started THEN "aborted/started"
                            ELSE "aborted/not_started"]],
         "resolved")

finishWithUserCancellation(b) ==
  finish([b EXCEPT !.results =
            [t \in Task |-> IF @[t] # None THEN @[t]
                            ELSE IF t \in b.started \cup b.agentId THEN "aborted/started"
                            ELSE "aborted/not_started"]],
         "resolved")

-----------------------------------------------------------------------------
(* What happens to a batch.  Attempts newly active are in flight.          *)

Become(b) == /\ batch' = b
             /\ running' = running \cup (b.active \ batch.active)
             /\ UNCHANGED spawned

run == /\ batch.finished = "not_run"
       /\ Become(schedule([batch EXCEPT !.finished = "no"]))

(* The launcher returns a handle.                                          *)
handle(t) ==
  /\ t \in running \ spawned
  /\ spawned' = spawned \cup {t}
  /\ batch' = [batch EXCEPT !.agentId = @ \cup {t}]
  /\ UNCHANGED running

(* The first request of the attempt has been answered.                     *)
onReady(t) ==
  /\ t \in spawned
  /\ markAttemptReady(batch, t) # batch
  /\ Become(markAttemptReady(batch, t))

(* The attempt settles; the task may be in flight again at once.           *)
settle(t, outcome) ==
  LET b == handleAttemptOutcome(batch, t, outcome)
  IN  /\ batch' = b
      /\ running' = (running \ {t}) \cup (b.active \ (batch.active \ {t}))
      /\ spawned' = spawned \ {t}

(* An attempt that fails after its launch counts as one that completes.    *)
attemptSettles(t) ==
  /\ t \in running
  /\ settle(t, IF t \in spawned THEN "completed" ELSE "failed")

RateLimits == FoldFunction(+, 0, batch.retryCount)

attemptRateLimited(t) ==
  /\ t \in spawned
  /\ RateLimits < batch.given.rateLimits
  /\ settle(t, "rate_limited")

(* The signal of the batch is aborted, by the user or otherwise.           *)
abort ==
  /\ batch.finished \in {"no", "not_run"}
  /\ \/ batch' = finishWithUserCancellation(batch)
     \/ batch' = finish(batch, "rejected")
  /\ UNCHANGED <<running, spawned>>

normalLaunchTimer ==
  /\ batch.normalLaunchTimer = 0
  /\ LET b == [batch EXCEPT !.normalLaunchTimer = Off]
     IN  Become(IF b.pending = <<>> \/ isAtConcurrencyLimit(b) THEN b
                ELSE schedule(launchFirst(b, 1)))

rateLimitLaunchTimer ==
  /\ batch.rateLimitLaunchTimer = 0
  /\ Become(schedule(batch))

(* A tick; a timer that is due fires before.                               *)
Elapse(n) == IF n > 0 THEN n - 1 ELSE n

tick ==
  /\ batch.normalLaunchTimer # 0 /\ batch.rateLimitLaunchTimer # 0
  /\ batch.finished = "no"
  /\ batch' = [batch EXCEPT !.normalLaunchTimer = Elapse(@),
                            !.rateLimitLaunchTimer = Elapse(@),
                            !.nextRateLimitLaunch = Elapse(@),
                            !.retryReady = [t \in Task |-> Elapse(@[t])],
                            !.shrink = Elapse(@), !.lastRateLimit = Elapse(@),
                            !.lastCapacityRecovery = Elapse(@)]
  /\ batch' # batch
  /\ UNCHANGED <<running, spawned>>

Next ==
  \/ run \/ abort \/ tick \/ normalLaunchTimer \/ rateLimitLaunchTimer
  \/ \E t \in Task : handle(t) \/ onReady(t) \/ attemptSettles(t) \/ attemptRateLimited(t)

Spec == Init /\ [][Next]_vars

(* Time passes and timers fire.  Attempts may take for ever.               *)
TimerSpec ==
  Spec /\ WF_vars(run) /\ WF_vars(tick) /\ WF_vars(normalLaunchTimer)
       /\ WF_vars(rateLimitLaunchTimer)

-----------------------------------------------------------------------------
(* Until the batch is over each task waits, runs or has its result: none   *)
(* is lost and none is run twice at a time.                                *)
EachTaskHasOnePlace ==
  LET waiting == Range(batch.pending)
      settled == {t \in Task : batch.results[t] # None}
  IN  batch.finished = "no" =>
        /\ IsInjective(batch.pending)
        /\ waiting \cup batch.active \cup settled = Task
        /\ waiting \cap batch.active = {} /\ (waiting \cup batch.active) \cap settled = {}

(* Queued work is never forgotten: an attempt that is active will schedule *)
(* again when it settles, or a timer is set.  In the rate-limit phase one  *)
(* is set even then, for active attempts may take for ever.                *)
SomethingWillWake ==
  batch.finished = "no" /\ batch.pending # <<>> =>
    \/ batch.rateLimitLaunchTimer # Off
    \/ ~ batch.rateLimitMode
         /\ (batch.normalLaunchTimer # Off \/ isAtConcurrencyLimit(batch))

Launches == batch'.active \ batch.active # {}

(* In the rate-limit phase at most one attempt is launched at a time, never*)
(* within the base delay of a rate limit.                                  *)
LaunchesKeepDistance ==
  [][batch.rateLimitMode /\ Launches =>
       /\ Cardinality(batch'.active \ batch.active) = 1
       /\ batch.lastRateLimit <= RecoveryInterval - RetryBase]_vars

(* A result is final, and so is the end of the batch, whatever settles     *)
(* later.                                                                  *)
ResultsAreFinal ==
  [][/\ \A t \in Task : batch.results[t] # None => batch'.results[t] = batch.results[t]
     /\ batch.finished \in {"resolved", "rejected"} =>
          batch'.results = batch.results /\ batch'.finished = batch.finished]_vars

(* A batch with nothing running and tasks to launch waits for the next     *)
(* launch and the first retry only, never for capacity to come back: the   *)
(* capacity does not fall to zero, however many rate limits come.          *)
IdleBatchHasRoom ==
  batch.finished = "no" /\ batch.rateLimitMode /\ batch.active = {} /\ batch.pending # <<>> =>
    /\ batch.rateLimitLaunchTimer # Off
    /\ batch.rateLimitLaunchTimer <= Later(batch.nextRateLimitLaunch, nextPendingReady(batch))

(* When the user cancels, a task without a result is reported as started   *)
(* if the launcher has said of some attempt of it that there is an agent:  *)
(* it has returned a handle, or the attempt was ready or rate limited; and *)
(* otherwise as not started (subagent-batch.ts:29).                        *)
HadAgent(t) == t \in spawned \/ t \in batch.started \/ batch.retryCount[t] > 0

Classified ==
  [][\A t \in Task : batch.results[t] = None =>
       /\ batch'.results[t] = "aborted/started" => HadAgent(t)
       /\ batch'.results[t] = "aborted/not_started" => ~ HadAgent(t)]_vars

(* Without a cap the queue runs empty, even if attempts take for ever: the *)
(* capacity recovers, and the provider reports finitely many rate limits.  *)
EveryTaskIsTried ==
  []<>(\/ batch.pending = <<>> \/ batch.finished \in {"resolved", "rejected"}
       \/ batch.given.maxConcurrency > 0)

(* If some attempt settles as long as there are any, and since rate limits *)
(* stop, the batch ends, with a cap too.                                   *)
AttemptsSettle == WF_vars(\E t \in Task : attemptSettles(t))

BatchEnds == AttemptsSettle => <>(batch.finished \in {"resolved", "rejected"})
=============================================================================
