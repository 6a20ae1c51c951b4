------------------------- MODULE ConnectivityProofs -------------------------
(***************************************************************************)
(* Proofs about the cellular recovery of Connectivity: it gives up after   *)
(* exactly Limit recoveries, and each of them starts when its delay has    *)
(* passed, at most one pass late, wherever the wrap of millis() falls.     *)
(***************************************************************************)
EXTENDS Connectivity, TLAPS

Pc == {"boot", "pass", "recover", "sample", "drain", "post"}
Recovering == {"RECONNECT_PDP", "RESTART_MODEM"}

\* The variables the two properties depend on have their types.
ConnTypeOK ==
    /\ state \in State /\ failures \in 0..255 /\ attempts \in Nat
    /\ pc \in Pc
    /\ now \in 0..(TimeMod - 1) /\ deadline \in 0..(TimeMod - 1)
    /\ stall \in 0..MaxStall /\ since \in 0..SinceCap

\* Where the firmware is and what the policy says of it.
PolicyInStep ==
    /\ pc = "boot" <=> state = "IDLE"
    /\ pc = "recover" <=> state \in Recovering
    /\ pc = "post" => state = "READY"

\* The failures of the policy and the recoveries it began, state by state.
Tally ==
    /\ state \in {"IDLE", "READY"} => failures = 0 /\ attempts = 0
    /\ state = "BACKOFF" => failures \in 1..Limit /\ attempts = failures - 1
    /\ state \in Recovering => failures \in 1..Limit /\ attempts = failures
    /\ state = "FAILED" => failures = Limit + 1 /\ attempts = Limit

CountInv == ConnTypeOK /\ PolicyInStep /\ Tally

\* During a backoff the clock stands where the time since it began puts it,
\* up to one turn of the counter either way.
ClockInStep ==
    state = "BACKOFF" =>
        \E turn \in {-TimeMod, 0, TimeMod} :
            now - deadline = since - Delay(failures) + turn

\* How late the backoff can be: the pass that starts late began at most one
\* pass after the deadline, and once a pass has ticked the deadline is ahead.
Lateness ==
    state = "BACKOFF" =>
        /\ pc = "pass" => since <= Delay(failures) - 1 + MaxStall + stall
        /\ pc # "pass" => since <= Delay(failures) - 1 + stall

ScheduleInv == CountInv /\ ClockInStep /\ Lateness /\ NoEarlyRecovery

-----------------------------------------------------------------------------
(* The arithmetic of the clock.                                            *)

\* A value below the modulus is its own remainder.
LEMMA ModSmall ==
    ASSUME NEW c \in Nat \ {0}, NEW x \in Nat, x < c
    PROVE  x % c = x
  BY SMT

\* A value in the second turn comes back by one modulus.
LEMMA ModOnce ==
    ASSUME NEW c \in Nat \ {0}, NEW x \in Nat, c <= x, x < 2 * c
    PROVE  x % c = x - c
  BY SMT

\* The facts of the two assumptions that the proofs use: millis() wraps, and
\* half a turn is longer than the longest wait.
LEMMA Clock ==
    /\ TimeMod \in Nat \ {0} /\ MaxStall \in Nat \ {0}
    /\ MaxDelay \in Nat \ {0} /\ Limit \in 1..254
    /\ SinceCap \in Nat /\ SinceCap = MaxDelay + 2 * MaxStall
    /\ 2 * SinceCap < TimeMod
  BY PolicyAssumption, ClockAssumption DEF SinceCap

\* delay(): between one millisecond and CELLULAR_RECOVERY_MAX_MS for every
\* failure count that still leads to a backoff; base << shift does not wrap.
LEMMA DelayBounds ==
    ASSUME NEW f \in 1..Limit
    PROVE  Delay(f) \in 1..MaxDelay
<1> DEFINE d == Base * 2^Shift(f)
<1>1. d \in 1..(TimeMod - 1)  BY ClockAssumption
<1>2. Delay(f) = IF d > MaxDelay THEN MaxDelay ELSE d  BY DEF Delay
<1> HIDE DEF d
<1> QED BY <1>1, <1>2, Clock

\* A counter value in the first two turns wraps at most once.
LEMMA WrapOnce ==
    ASSUME NEW x \in Nat, x < 2 * TimeMod
    PROVE  x % TimeMod = IF x < TimeMod THEN x ELSE x - TimeMod
<1>1. CASE x < TimeMod  BY <1>1, ModSmall, Clock
<1>2. CASE ~(x < TimeMod)
  <2>1. TimeMod <= x /\ TimeMod \in Nat \ {0}  BY <1>2, Clock
  <2>2. x % TimeMod = x - TimeMod  BY <2>1, ModOnce
  <2> QED BY <1>2, <2>2
<1> QED BY <1>1, <1>2

\* due() compares times, not counter values: a deadline less than half a turn
\* away is due exactly when it has passed, wherever the wrap falls.
LEMMA DueIsPassed ==
    ASSUME NEW t \in 0..(TimeMod - 1), NEW d \in 0..(TimeMod - 1), NEW x \in Int,
           -SinceCap <= x, x < SinceCap,
           NEW turn \in {-TimeMod, 0, TimeMod}, t - d = x + turn
    PROVE  due(t, d) <=> x >= 0
<1> DEFINE y == t - d + TimeMod
<1>1. y \in Nat /\ y < 2 * TimeMod  BY Clock
<1>2. y % TimeMod = IF y < TimeMod THEN y ELSE y - TimeMod
  <2> HIDE DEF y
  <2> QED BY <1>1, WrapOnce
<1>3. y % TimeMod = IF x >= 0 THEN x ELSE x + TimeMod
  BY <1>1, <1>2, Clock
<1>4. due(t, d) <=> y % TimeMod < TimeMod \div 2  BY DEF due
<1> HIDE DEF y
<1> QED BY <1>3, <1>4, Clock

-----------------------------------------------------------------------------
(* The events of the policy.                                               *)

\* TRANSPORT_FAILURE with attempts still left starts a backoff of the delay of
\* its count, and with none left gives up; the counter never saturates.
LEMMA FailureCases ==
    ASSUME Failure, failures \in 0..Limit, now \in 0..(TimeMod - 1)
    PROVE  /\ failures' = failures + 1 /\ attempts' = attempts
           /\ \/ /\ failures < Limit /\ state' = "BACKOFF" /\ since' = 0
                 /\ Delay(failures') \in 1..MaxDelay
                 /\ deadline' = (now + Delay(failures')) % TimeMod
              \/ /\ failures = Limit /\ state' = "FAILED"
                 /\ deadline' = deadline /\ since' = since
<1>1. failures' = failures + 1 /\ attempts' = attempts
  BY Clock DEF Failure
<1>2. CASE failures < Limit
  <2>1. state' = "BACKOFF" /\ since' = 0 /\ deadline' = (now + Delay(failures')) % TimeMod
    BY <1>1, <1>2, Clock DEF Failure
  <2>2. Delay(failures') \in 1..MaxDelay
    BY <1>1, <1>2, DelayBounds, Clock
  <2> QED BY <1>1, <1>2, <2>1, <2>2
<1>3. CASE failures = Limit
  <2>1. state' = "FAILED" /\ deadline' = deadline /\ since' = since
    BY <1>1, <1>3, Clock DEF Failure
  <2> QED BY <1>1, <1>3, <2>1
<1> QED BY <1>2, <1>3, Clock

\* What a failure reported by a call that ends at time now does to the part of
\* the state the properties look at.
LEMMA FailureKeeps ==
    ASSUME CountInv, Failure, failures \in 0..Limit, attempts = failures,
           now' = now, stall' \in 0..MaxStall,
           pc' \in {"pass", "sample"}
    PROVE  CountInv' /\ ClockInStep' /\ Lateness' /\ NoEarlyRecovery'
<1>1. now \in 0..(TimeMod - 1)  BY DEF CountInv, ConnTypeOK
<1>2. CASE state' = "BACKOFF"
  <2>1. /\ failures' = failures + 1 /\ attempts' = attempts /\ failures < Limit
        /\ since' = 0 /\ Delay(failures') \in 1..MaxDelay
        /\ deadline' = (now + Delay(failures')) % TimeMod
    BY <1>1, <1>2, FailureCases
  <2> DEFINE d == Delay(failures')
  <2>2. deadline' = IF now + d < TimeMod THEN now + d ELSE (now + d) - TimeMod
    <3>1. d \in 1..MaxDelay  BY <2>1
    <3> HIDE DEF d
    <3> DEFINE y == now + d
    <3>2. y \in Nat /\ y < 2 * TimeMod  BY <1>1, <3>1, Clock
    <3> HIDE DEF y
    <3>3. y % TimeMod = IF y < TimeMod THEN y ELSE y - TimeMod  BY <3>2, WrapOnce
    <3>4. deadline' = y % TimeMod  BY <2>1 DEF d, y
    <3>5. deadline' = IF y < TimeMod THEN y ELSE y - TimeMod  BY <3>3, <3>4
    <3> QED BY <3>5 DEF y
  <2>3. deadline' \in 0..(TimeMod - 1)
    <3> HIDE DEF d
    <3> QED BY <1>1, <2>1, <2>2, Clock DEF d
  <2>4. CountInv'
    BY <1>2, <2>1, <2>3, Clock DEF CountInv, ConnTypeOK, PolicyInStep, Tally, State,
       Pc, Recovering
  <2>5. ClockInStep'
    <3>1. \E turn \in {-TimeMod, 0, TimeMod} : now' - deadline' = 0 - d + turn
      <4> HIDE DEF d
      <4> QED BY <1>1, <2>1, <2>2, Clock DEF d
    <3> QED BY <2>1, <3>1 DEF ClockInStep
  <2>6. Lateness'
    BY <2>1, Clock DEF Lateness
  <2>7. NoEarlyRecovery'  BY DEF NoEarlyRecovery
  <2> QED BY <2>4, <2>5, <2>6, <2>7
<1>3. CASE state' # "BACKOFF"
  <2>1. /\ failures' = failures + 1 /\ attempts' = attempts /\ failures = Limit
        /\ state' = "FAILED" /\ deadline' = deadline /\ since' = since
    BY <1>1, <1>3, FailureCases
  <2>2. CountInv'
    BY <2>1, Clock DEF CountInv, ConnTypeOK, PolicyInStep, Tally, State,
       Pc, Recovering
  <2>3. ClockInStep' /\ Lateness' /\ NoEarlyRecovery'
    BY <2>1 DEF ClockInStep, Lateness, NoEarlyRecovery
  <2> QED BY <2>2, <2>3
<1> QED BY <1>2, <1>3

\* UPLOAD_SUCCESS and PDP_OK forget every failure.
LEMMA SuccessKeeps ==
    ASSUME CountInv, Success, now' = now, stall' \in 0..MaxStall,
           pc' \in {"pass", "sample"}
    PROVE  CountInv' /\ ClockInStep' /\ Lateness' /\ NoEarlyRecovery'
  BY Clock DEF Success, CountInv, ConnTypeOK, PolicyInStep, Tally, State, Pc, Recovering,
     ClockInStep, Lateness, NoEarlyRecovery

\* A step that leaves the policy and the clock alone and stays in the pass.
LEMMA PassKeeps ==
    ASSUME ScheduleInv, UNCHANGED <<state, failures, deadline, now, since, attempts>>,
           pc \in {"sample", "drain", "post"},
           \/ pc \in {"sample", "drain"} /\ pc' \in {"drain", "sample"} /\ stall' = stall
           \/ pc' = "post" /\ state = "READY" /\ stall' = stall
           \/ pc' = "pass" /\ stall' = 0
    PROVE  ScheduleInv'
<1> USE DEF ScheduleInv
<1>1. CountInv'
  BY Clock DEF CountInv, ConnTypeOK, PolicyInStep, Tally, Pc, Recovering, State
<1>2. ClockInStep'  BY DEF ClockInStep
<1>3. Lateness'
  <2> SUFFICES ASSUME state = "BACKOFF"
               PROVE  /\ pc' = "pass" => since <= Delay(failures) - 1 + MaxStall + stall'
                      /\ pc' # "pass" => since <= Delay(failures) - 1 + stall'
    BY DEF Lateness
  <2>1. Delay(failures) \in 1..MaxDelay  BY DelayBounds DEF CountInv, Tally
  <2>2. stall \in 0..MaxStall /\ since \in Nat  BY Clock DEF CountInv, ConnTypeOK
  <2>3. since <= Delay(failures) - 1 + stall  BY DEF Lateness
  <2> QED BY <2>1, <2>2, <2>3, Clock
<1>4. NoEarlyRecovery'
  BY DEF NoEarlyRecovery, CountInv, PolicyInStep, Recovering
<1> QED BY <1>1, <1>2, <1>3, <1>4

-----------------------------------------------------------------------------
(* The steps.                                                              *)

\* The policy is powered up idle: nothing has failed and no wait is running.
LEMMA ScheduleInit == ConnInit => ScheduleInv
  BY Clock DEF ConnInit, ScheduleInv, CountInv, ConnTypeOK, PolicyInStep, Tally, State, Pc,
     Recovering, ClockInStep, Lateness, NoEarlyRecovery

\* Inside a backoff the time since it began is below the cap of the ghost, and
\* less than half a turn away from the deadline.
LEMMA BackoffBounds ==
    ASSUME ScheduleInv, state = "BACKOFF"
    PROVE  /\ pc \in {"pass", "sample", "drain"}
           /\ Delay(failures) \in 1..MaxDelay
           /\ since < Delay(failures) + 2 * MaxStall
           /\ since < SinceCap
           /\ due(now, deadline) <=> since >= Delay(failures)
<1> USE DEF ScheduleInv
<1>1. pc \in {"pass", "sample", "drain"}
  BY DEF CountInv, ConnTypeOK, PolicyInStep, Pc, Recovering
<1>2. Delay(failures) \in 1..MaxDelay
  BY DelayBounds DEF CountInv, Tally
<1>3. stall \in 0..MaxStall /\ since \in Nat  BY Clock DEF CountInv, ConnTypeOK
<1>4. since < Delay(failures) + 2 * MaxStall
  BY <1>2, <1>3, Clock DEF Lateness
<1>5. due(now, deadline) <=> since >= Delay(failures)
  <2> DEFINE x == since - Delay(failures)
  <2>1. PICK turn \in {-TimeMod, 0, TimeMod} : now - deadline = x + turn
    BY DEF ClockInStep
  <2>2. /\ now \in 0..(TimeMod - 1) /\ deadline \in 0..(TimeMod - 1)
        /\ x \in Int /\ -SinceCap <= x /\ x < SinceCap
    BY <1>2, <1>3, <1>4, Clock DEF CountInv, ConnTypeOK
  <2>3. x >= 0 <=> since >= Delay(failures)  BY <1>2, <1>3
  <2> HIDE DEF x
  <2>4. due(now, deadline) <=> x >= 0  BY <2>1, <2>2, DueIsPassed
  <2> QED BY <2>3, <2>4
<1> QED BY <1>1, <1>2, <1>3, <1>4, <1>5, Clock

\* tick() finds nothing due: a backoff that goes on has its deadline ahead.
LEMMA TickNoneKeeps == ASSUME ScheduleInv, TickNone PROVE ScheduleInv'
<1> USE DEF ScheduleInv
<1>1. CountInv'
  BY DEF TickNone, CountInv, ConnTypeOK, PolicyInStep, Tally, Pc, Recovering, State
<1>2. ClockInStep'  BY DEF TickNone, ClockInStep
<1>3. Lateness'
  <2> SUFFICES ASSUME state = "BACKOFF"
               PROVE  since <= Delay(failures) - 1 + stall
    BY DEF Lateness, TickNone
  <2>1. ~(since >= Delay(failures)) /\ Delay(failures) \in 1..MaxDelay
    BY BackoffBounds DEF TickNone
  <2>2. stall \in 0..MaxStall /\ since \in Nat  BY Clock DEF CountInv, ConnTypeOK
  <2> QED BY <2>1, <2>2, Clock
<1>4. NoEarlyRecovery'  BY DEF NoEarlyRecovery, TickNone
<1> QED BY <1>1, <1>2, <1>3, <1>4

\* A recovery begins: only once its delay has passed.
LEMMA TickRecoverKeeps == ASSUME ScheduleInv, TickRecover PROVE ScheduleInv'
<1> USE DEF ScheduleInv
<1>1. state' \in Recovering  BY DEF TickRecover, Recovering
<1>2. CountInv'
  BY <1>1, Clock DEF TickRecover, CountInv, ConnTypeOK, PolicyInStep, Tally, Pc, Recovering, State
<1>3. ClockInStep' /\ Lateness'
  BY <1>1 DEF ClockInStep, Lateness, Recovering
<1>4. NoEarlyRecovery'
  BY BackoffBounds DEF NoEarlyRecovery, TickRecover
<1> QED BY <1>2, <1>3, <1>4

\* One tick of millis() moves the clock and the time since the backoff alike;
\* the watchdog bounds what a pass can add.
LEMMA ElapseKeeps == ASSUME ScheduleInv, Elapse PROVE ScheduleInv'
<1> USE DEF ScheduleInv
<1> now \in 0..(TimeMod - 1) /\ stall \in 0..MaxStall /\ since \in 0..SinceCap
  BY DEF CountInv, ConnTypeOK
<1>1. now' = IF now + 1 < TimeMod THEN now + 1 ELSE (now + 1) - TimeMod
  <2> DEFINE y == now + 1
  <2>1. y \in Nat /\ y < 2 * TimeMod  BY Clock
  <2> HIDE DEF y
  <2>2. y % TimeMod = IF y < TimeMod THEN y ELSE y - TimeMod  BY <2>1, WrapOnce
  <2>3. now' = y % TimeMod  BY DEF y, Elapse
  <2>4. now' = IF y < TimeMod THEN y ELSE y - TimeMod  BY <2>2, <2>3
  <2> QED BY <2>4 DEF y
<1>2. /\ now' \in 0..(TimeMod - 1)
      /\ stall' \in 0..MaxStall /\ since' \in 0..SinceCap /\ since' >= since
  BY <1>1, Clock DEF Elapse
<1>3. CountInv'
  BY <1>2, Clock DEF Elapse, CountInv, ConnTypeOK, PolicyInStep, Tally, Pc, Recovering, State
<1>4. ASSUME state = "BACKOFF"
      PROVE  ClockInStep' /\ Lateness'
  <2>1. /\ pc \in {"pass", "sample", "drain"} /\ since < SinceCap
        /\ Delay(failures) \in 1..MaxDelay
    BY <1>4, BackoffBounds
  <2>2. since' = since + 1 /\ stall' = stall + 1 /\ pc' = pc /\ failures' = failures
    BY <2>1 DEF Elapse, Unwatched
  <2>3. PICK turn \in {-TimeMod, 0, TimeMod} :
          now - deadline = since - Delay(failures) + turn
    BY <1>4 DEF ClockInStep
  <2>4. deadline' = deadline /\ deadline \in 0..(TimeMod - 1)
    BY DEF Elapse, CountInv, ConnTypeOK
  <2>5. \E u \in {-TimeMod, 0, TimeMod} :
          now' - deadline = (since + 1) - Delay(failures) + u
    <3>1. CASE now + 1 < TimeMod
      <4>1. now' = now + 1 /\ turn \in Int  BY <1>1, <3>1, Clock
      <4>2. {now, deadline, since, Delay(failures)} \subseteq Int  BY <2>1, <2>4, Clock
      <4>3. now' - deadline = (since + 1) - Delay(failures) + turn
        BY <2>3, <4>1, <4>2
      <4> QED BY <4>3
    <3>2. CASE ~(now + 1 < TimeMod)
      <4>1. turn # -TimeMod  BY <2>1, <2>3, <2>4, <3>2, Clock
      <4> QED BY <1>1, <2>1, <2>3, <2>4, <3>2, <4>1, Clock
    <3> QED BY <3>1, <3>2
  <2>6. ClockInStep'  BY <2>2, <2>4, <2>5 DEF ClockInStep
  <2>7. Lateness'  BY <1>4, <2>1, <2>2, Clock DEF Lateness
  <2> QED BY <2>6, <2>7
<1>5. ASSUME state # "BACKOFF"
      PROVE  ClockInStep' /\ Lateness'
  BY <1>5 DEF Elapse, ClockInStep, Lateness
<1>6. NoEarlyRecovery'
  <2> SUFFICES ASSUME pc = "recover" PROVE since' >= Delay(failures)
    BY DEF NoEarlyRecovery, Elapse
  <2>1. Delay(failures) \in 1..MaxDelay
    BY DelayBounds DEF CountInv, Tally, PolicyInStep
  <2>2. since >= Delay(failures)  BY DEF NoEarlyRecovery
  <2> QED BY <1>2, <2>1, <2>2, Clock
<1> QED BY <1>3, <1>4, <1>5, <1>6

\* Every step of the tracker keeps the invariant, one case per action.
LEMMA ScheduleStep == ScheduleInv /\ [ConnNext]_cvars => ScheduleInv'
<1> SUFFICES ASSUME ScheduleInv, [ConnNext]_cvars PROVE ScheduleInv'
  OBVIOUS
<1>0. /\ CountInv /\ stall \in 0..MaxStall /\ 0 \in 0..MaxStall
      /\ Limit \in 1..254
  BY Clock DEF ScheduleInv, CountInv, ConnTypeOK
<1>1. CASE Setup
  <2>1. failures = 0 /\ attempts = 0
    BY <1>0, <1>1 DEF Setup, CountInv, Tally, PolicyInStep
  <2>2. now' = now /\ stall' \in 0..MaxStall /\ pc' \in {"pass", "sample"}
    BY <1>0, <1>1 DEF Setup
  <2>3. failures \in 0..Limit /\ attempts = failures  BY <2>1, <1>0
  <2>4. CASE Success  BY <1>0, <2>2, <2>4, SuccessKeeps DEF ScheduleInv
  <2>5. CASE Failure  BY <1>0, <2>2, <2>3, <2>5, FailureKeeps DEF ScheduleInv
  <2> QED BY <1>1, <2>4, <2>5 DEF Setup
<1>2. CASE TickNone  BY <1>2, TickNoneKeeps
<1>3. CASE TickRecover  BY <1>3, TickRecoverKeeps
<1>4. CASE Recovered
  <2>1. Success /\ now' = now /\ stall' \in 0..MaxStall /\ pc' \in {"pass", "sample"}
    BY <1>0, <1>4 DEF Recovered
  <2> QED BY <1>0, <2>1, SuccessKeeps DEF ScheduleInv
<1>5. CASE RecoveryFails
  <2>1. Failure /\ now' = now /\ stall' \in 0..MaxStall /\ pc' \in {"pass", "sample"}
    BY <1>0, <1>5 DEF RecoveryFails
  <2>2. failures \in 0..Limit /\ attempts = failures
    BY <1>0, <1>5 DEF RecoveryFails, CountInv, PolicyInStep, Tally
  <2> QED BY <1>0, <2>1, <2>2, FailureKeeps DEF ScheduleInv
<1>6. CASE Sample
  BY <1>6, PassKeeps DEF Sample
<1>7. CASE NoDrain
  BY <1>7, PassKeeps DEF NoDrain
<1>8. CASE Drain
  BY <1>8, PassKeeps DEF Drain, ready
<1>9. CASE PostSent
  <2>1. Success /\ now' = now /\ stall' \in 0..MaxStall /\ pc' \in {"pass", "sample"}
    BY <1>0, <1>9 DEF PostSent
  <2> QED BY <1>0, <2>1, SuccessKeeps DEF ScheduleInv
<1>10. CASE PostFails
  <2>1. Failure /\ now' = now /\ stall' \in 0..MaxStall /\ pc' \in {"pass", "sample"}
    BY <1>0, <1>10 DEF PostFails
  <2>2. failures \in 0..Limit /\ attempts = failures
    BY <1>0, <1>10 DEF PostFails, CountInv, PolicyInStep, Tally
  <2> QED BY <1>0, <2>1, <2>2, FailureKeeps DEF ScheduleInv
<1>11. CASE PostRefused
  BY <1>11, PassKeeps DEF PostRefused
<1>12. CASE Elapse  BY <1>12, ElapseKeeps
<1>13. CASE CoverageChanges
  BY <1>13 DEF CoverageChanges, ScheduleInv, CountInv, ConnTypeOK, PolicyInStep, Tally,
     ClockInStep, Lateness, NoEarlyRecovery
<1>14. CASE Reboot
  BY <1>14, Clock DEF Reboot, ScheduleInv, CountInv, ConnTypeOK, PolicyInStep, Tally, State,
     Pc, Recovering, ClockInStep, Lateness, NoEarlyRecovery
<1>15. CASE UNCHANGED cvars
  BY <1>15 DEF cvars, ScheduleInv, CountInv, ConnTypeOK, PolicyInStep, Tally,
     ClockInStep, Lateness, NoEarlyRecovery
<1> QED BY <1>1, <1>2, <1>3, <1>4, <1>5, <1>6, <1>7, <1>8, <1>9, <1>10, <1>11, <1>12,
           <1>13, <1>14, <1>15 DEF ConnNext, Tick, Post

\* In every behaviour the policy, its counters and the clock stay in step.
LEMMA ScheduleInvariance == ConnSpec => []ScheduleInv
  BY ScheduleInit, ScheduleStep, PTL DEF ConnSpec

-----------------------------------------------------------------------------
(* The theorems.                                                           *)

\* README, "max 6 attempts": for every base, maximum and limit the policy gives
\* up after exactly Limit recoveries, and each failure counted in a backoff
\* but the first is a recovery that failed.
THEOREM GivesUpAfterLimit == ConnSpec => []AttemptsCounted
<1>1. ScheduleInv => AttemptsCounted
  BY DEF ScheduleInv, CountInv, Tally, AttemptsCounted
<1> QED BY <1>1, ScheduleInvariance, PTL

\* delay(), due() and tick(): no recovery starts before the delay of its failure
\* count has passed and none more than one pass late, for every delay, watchdog
\* and width of millis() that keep the longest wait under half a turn.
THEOREM RecoveriesKeepSchedule == ConnSpec => []RecoveryOnSchedule
<1>1. ScheduleInv => RecoveryOnSchedule
  BY BackoffBounds DEF ScheduleInv, RecoveryOnSchedule, RecoveryOnTime
<1> QED BY <1>1, ScheduleInvariance, PTL

=============================================================================
