--------------------------- MODULE SamplingProofs ---------------------------
(***************************************************************************)
(* Proofs about Sampling, for all intervals, speeds, thresholds, queue     *)
(* sizes and every width of millis().                                      *)
(***************************************************************************)
EXTENDS Sampling, TLAPS

-----------------------------------------------------------------------------
(* Invariants.                                                             *)

Clock == 0..(TimeMod - 1)

ClockType ==
    /\ now \in Clock /\ lastPoll \in Clock /\ sentAt \in Clock /\ tsChange \in Clock
    /\ interval \in 1..MaxPoll
    /\ pc \in {"pass", "drain", "post"}
    /\ stall \in Nat /\ tsAge \in Nat /\ quiet \in Nat /\ unpolled \in Nat
    /\ hasPoll \in BOOLEAN /\ hasTs \in BOOLEAN /\ hasSent \in BOOLEAN /\ gps \in BOOLEAN

\* What each flag of the policy says of the others, and how far a pass or an
\* upload has got.
Stages ==
    /\ hasTs => hasPoll
    /\ hasSent => hasTs
    /\ ~hasSent => queue = <<>>
    /\ pc = "post" => hasSent
    /\ pc = "pass" => stall <= MaxStall
    /\ pc = "post" => stall <= MaxPost

\* The policy's own clock for a repeated timestamp is right although it wraps.
StampAge ==
    /\ hasTs => Since(tsChange) = tsAge
    /\ tsAge <= MaxStuck

\* Once there is a timestamp, the last poll, real or as notifyGpsReenabled() has
\* it, is never a turn of the clock ago.
PollAge == hasTs => Since(lastPoll) <= tsAge + interval

\* Time since GNSS was polled, before the first fix, before the first timestamp,
\* and after it.
PollGap ==
    /\ ~hasPoll =>
          /\ pc = "drain" => unpolled = 0
          /\ pc = "pass" => unpolled <= stall
    /\ hasPoll /\ ~hasTs =>
          /\ pc = "drain" => /\ unpolled <= (interval - 1) + MaxStall
                             /\ Since(lastPoll) >= interval => unpolled = 0
          /\ pc = "pass" => /\ unpolled <= ((interval - 1) + MaxStall) + stall
                            /\ Since(lastPoll) >= interval + stall => unpolled <= stall
          /\ unpolled <= Since(lastPoll) + MaxStall
    /\ hasTs =>
          /\ pc = "drain" => unpolled <= interval - 1
          /\ pc = "post" => unpolled <= (interval - 1) + stall
          /\ pc = "pass" => unpolled <= ((interval - 1) + MaxPost) + stall
          /\ unpolled <= Since(lastPoll) \/ Since(lastPoll) >= interval

\* The silence of a tracker at rest is no longer than the poll gap, or it is
\* counted by the policy, but for the one gap in which its clock came round.
Silence ==
    \/ quiet <= unpolled
    \/ /\ hasSent
       /\ quiet <= Since(sentAt) + Gap
       /\ Since(sentAt) <= (Heartbeat - 1) + unpolled

TimeInv == ClockType /\ Stages /\ StampAge /\ PollAge /\ PollGap /\ Silence

\* The ghost runs cover what the hysteresis has counted.
RunsCover ==
    /\ state \in Motion /\ candidate \in Motion /\ count \in Nat
    /\ fastRun \in 0..Confirm /\ slowRun \in 0..Confirm
    /\ count < Confirm
    /\ candidate = "UNKNOWN" => count = 0
    /\ candidate = "MOVING" => state # "MOVING" /\ count <= fastRun
    /\ candidate = "STATIONARY" => state # "STATIONARY" /\ count <= slowRun

-----------------------------------------------------------------------------
(* The arithmetic of the clock and of the cadence.                         *)

\* A value below the modulus is its own remainder.
LEMMA ModSmall ==
    ASSUME NEW c \in Nat \ {0}, NEW x \in Nat, x < c
    PROVE  x % c = x
  BY SMT

\* A value in the second turn comes back by one modulus.
LEMMA ModOnce ==
    ASSUME NEW c \in Nat \ {0}, NEW x \in Nat, c <= x, x < 2 * c
    PROVE  x % c = x - c
  BY SMT

\* The facts of the assumptions that the proofs use.
LEMMA Bounds ==
    /\ TimeMod \in Nat \ {0} /\ MaxStuck \in Nat /\ MaxPoll \in Nat \ {0}
    /\ MaxStall \in Nat \ {0} /\ MaxPost \in Nat \ {0} /\ Heartbeat \in Nat \ {0}
    /\ Gap \in Nat /\ Gap = ((MaxPoll - 1) + MaxStall) + MaxPost
    /\ Late \in Nat /\ Late = (Heartbeat - 1) + 2 * Gap
    /\ TimeMod > Late + 1 /\ TimeMod > MaxStuck + MaxPoll
<1>1. /\ MaxPoll \in Nat \ {0} /\ MaxStall \in Nat \ {0} /\ MaxPost \in Nat \ {0}
      /\ Heartbeat \in Nat \ {0}
  BY SamplingAssumption
<1>2. Gap \in Nat /\ Gap = ((MaxPoll - 1) + MaxStall) + MaxPost  BY <1>1 DEF Gap
<1>3. Late \in Nat /\ Late = (Heartbeat - 1) + 2 * Gap  BY <1>1, <1>2 DEF Late
<1> QED BY <1>1, <1>2, <1>3, SamplingClock

\* The time since t, at n.
Ago(n, t) == (n - t + TimeMod) % TimeMod

\* The unsigned difference, without the division.
LEMMA AgoCases ==
    ASSUME NEW n \in Clock, NEW t \in Clock
    PROVE  /\ Ago(n, t) \in Clock
           /\ n >= t => Ago(n, t) = n - t
           /\ n < t => Ago(n, t) = (n - t) + TimeMod
<1> DEFINE x == n - t + TimeMod
<1>1. TimeMod \in Nat \ {0} /\ n \in Int /\ t \in Int /\ 0 <= n /\ n < TimeMod /\ 0 <= t /\ t < TimeMod
  BY Bounds DEF Clock
<1>2. x = (n - t) + TimeMod /\ x \in Nat /\ x < 2 * TimeMod  BY <1>1
<1>3. Ago(n, t) = x % TimeMod  BY DEF Ago
<1>4. CASE n >= t
  <2>1. TimeMod <= x  BY <1>1, <1>2, <1>4
  <2> HIDE DEF x
  <2>2. x % TimeMod = x - TimeMod  BY <1>1, <1>2, <2>1, ModOnce
  <2> QED BY <1>1, <1>2, <1>3, <1>4, <2>2 DEF Clock
<1>5. CASE n < t
  <2>1. x < TimeMod  BY <1>1, <1>2, <1>5
  <2> HIDE DEF x
  <2>2. x % TimeMod = x  BY <1>1, <1>2, <2>1, ModSmall
  <2> QED BY <1>1, <1>2, <1>3, <1>5, <2>2 DEF Clock
<1> QED BY <1>1, <1>4, <1>5

\* A millisecond on, the difference has grown by one or come round to zero.
LEMMA AgoTick ==
    ASSUME NEW n \in Clock, NEW t \in Clock, NEW k, k = (n + 1) % TimeMod
    PROVE  /\ k \in Clock
           /\ Ago(n, t) < TimeMod - 1 => Ago(k, t) = Ago(n, t) + 1
           /\ Ago(n, t) = TimeMod - 1 => Ago(k, t) = 0
<1>1. TimeMod \in Nat \ {0} /\ n \in Int /\ t \in Int /\ 0 <= n /\ n < TimeMod /\ 0 <= t /\ t < TimeMod
  BY Bounds DEF Clock
<1>2. k = IF n + 1 = TimeMod THEN 0 ELSE n + 1
  <2>1. CASE n + 1 = TimeMod
    <3>1. n + 1 \in Nat /\ TimeMod <= n + 1 /\ n + 1 < 2 * TimeMod  BY <1>1, <2>1
    <3>2. (n + 1) % TimeMod = (n + 1) - TimeMod  BY <1>1, <3>1, ModOnce
    <3> QED BY <1>1, <2>1, <3>2
  <2>2. CASE n + 1 # TimeMod
    <3>1. n + 1 \in Nat /\ n + 1 < TimeMod  BY <1>1, <2>2
    <3> QED BY <1>1, <2>2, <3>1, ModSmall
  <2> QED BY <2>1, <2>2
<1>3. k \in Clock  BY <1>1, <1>2 DEF Clock
<1>4. /\ n >= t => Ago(n, t) = n - t
      /\ n < t => Ago(n, t) = (n - t) + TimeMod
  BY AgoCases
<1>5. /\ k >= t => Ago(k, t) = k - t
      /\ k < t => Ago(k, t) = (k - t) + TimeMod
  BY <1>3, AgoCases
<1> QED BY <1>1, <1>2, <1>3, <1>4, <1>5

\* Since at this and at the next state.
LEMMA SinceAgo ==
    /\ Since(lastPoll) = Ago(now, lastPoll) /\ Since(lastPoll)' = Ago(now', lastPoll')
    /\ Since(sentAt) = Ago(now, sentAt) /\ Since(sentAt)' = Ago(now', sentAt')
    /\ Since(tsChange) = Ago(now, tsChange) /\ Since(tsChange)' = Ago(now', tsChange')
  BY DEF Since, Ago

\* What is stamped now is no time ago.
LEMMA AgoNow ==
    ASSUME NEW n \in Clock
    PROVE  Ago(n, n) = 0
<1>1. n \in Int  BY Bounds DEF Clock
<1> QED BY <1>1, AgoCases

\* What is set back by an interval is that long ago.
LEMMA AgoBack ==
    ASSUME NEW n \in Clock, NEW d \in 1..MaxPoll, NEW t, t = (n - d + TimeMod) % TimeMod
    PROVE  t \in Clock /\ Ago(n, t) = d
<1>1. TimeMod \in Nat \ {0} /\ n \in Int /\ 0 <= n /\ n < TimeMod /\ d \in Int /\ 0 < d /\ d < TimeMod
  BY Bounds DEF Clock
<1>2. d \in Clock  BY <1>1 DEF Clock
<1>3. t = Ago(n, d)  BY DEF Ago
<1>4. /\ t \in Clock
      /\ n >= d => t = n - d
      /\ n < d => t = (n - d) + TimeMod
  BY <1>2, <1>3, AgoCases
<1>5. /\ n >= t => Ago(n, t) = n - t
      /\ n < t => Ago(n, t) = (n - t) + TimeMod
  BY <1>4, AgoCases
<1>6. t \in Int  BY <1>1, <1>4
<1>7. CASE n >= d  BY <1>1, <1>4, <1>5, <1>6, <1>7
<1>8. CASE n < d  BY <1>1, <1>4, <1>5, <1>6, <1>8
<1> QED BY <1>1, <1>4, <1>7, <1>8

\* Every cadence is between one millisecond and MAX_POLL_MS.
LEMMA IntervalBounds ==
    ASSUME NEW v \in Speeds, NEW o
    PROVE  NextInterval(o, v) \in 1..MaxPoll
<1>1. /\ MinPoll \in Nat \ {0} /\ MaxPoll \in Nat \ {0} /\ UnknownPoll \in Nat \ {0}
      /\ MinPoll <= MaxPoll /\ UnknownPoll <= MaxPoll /\ Spacing \in Nat \ {0} /\ v \in Int
  BY SamplingAssumption
<1>2. intervalForSpeed(v) \in 1..MaxPoll
  <2>1. CASE ~finite(v) \/ v <= 0  BY <1>1, <2>1 DEF intervalForSpeed
  <2>2. CASE finite(v) /\ v > 0
    <3> DEFINE raw == (2 * Spacing + v) \div (2 * v)
    <3>1. 2 * Spacing + v \in Int /\ 2 * v \in Nat \ {0}  BY <1>1, <2>2
    <3>2. raw \in Int  BY <3>1
    <3>3. intervalForSpeed(v) =
             IF raw <= MinPoll THEN MinPoll ELSE IF raw >= MaxPoll THEN MaxPoll ELSE raw
      BY <1>1, <2>2 DEF intervalForSpeed
    <3> HIDE DEF raw
    <3> QED BY <1>1, <3>2, <3>3
  <2> QED BY <1>1, <2>1, <2>2
<1> QED BY <1>1, <1>2 DEF NextInterval

-----------------------------------------------------------------------------
(* Time: every step keeps TimeInv.                                         *)

\* The invariant at power on.
LEMMA TimeInit == SamplingInit => TimeInv
<1> SUFFICES ASSUME SamplingInit PROVE TimeInv  OBVIOUS
<1>1. UnknownPoll \in 1..MaxPoll  BY SamplingAssumption
<1>c. 0 \in Clock  BY Bounds DEF Clock
<1>2. ClockType  BY <1>1, <1>c DEF SamplingInit, ClockType
<1>3. Stages  BY Bounds DEF SamplingInit, Stages
<1>4. StampAge /\ PollAge  BY Bounds DEF SamplingInit, StampAge, PollAge
<1>5. PollGap  BY DEF SamplingInit, PollGap
<1>6. Silence  BY DEF SamplingInit, Silence
<1> QED BY <1>2, <1>3, <1>4, <1>5, <1>6 DEF TimeInv

\* Integer facts of a state of the invariant, with names for the three ages.
LEMMA Ages ==
    ASSUME ClockType
    PROVE  /\ Since(lastPoll) \in Nat /\ Since(sentAt) \in Nat /\ Since(tsChange) \in Nat
           /\ Since(lastPoll) < TimeMod /\ Since(sentAt) < TimeMod
           /\ interval \in Nat /\ 1 <= interval /\ interval <= MaxPoll
           /\ now \in Int /\ lastPoll \in Int
           /\ now >= lastPoll => Since(lastPoll) = now - lastPoll
<1>1. Ago(now, lastPoll) \in Clock /\ Ago(now, sentAt) \in Clock /\ Ago(now, tsChange) \in Clock
  BY AgoCases DEF ClockType
<1>2. now >= lastPoll => Ago(now, lastPoll) = now - lastPoll  BY AgoCases DEF ClockType
<1> QED BY <1>1, <1>2, SinceAgo, Bounds DEF ClockType, Clock

\* When the policy is not due there was a poll less than an interval ago.
LEMMA NotDueAge ==
    ASSUME ClockType, ~fixDue
    PROVE  hasPoll /\ Since(lastPoll) < interval
  BY Ages DEF fixDue

\* A step on which no time passes, and the stamps the ages are taken from stay.
LEMMA AgesStay ==
    ASSUME UNCHANGED <<now, lastPoll, sentAt, tsChange>>
    PROVE  /\ Since(lastPoll)' = Since(lastPoll) /\ Since(sentAt)' = Since(sentAt)
           /\ Since(tsChange)' = Since(tsChange)
  BY DEF Since

\* Timestamps: a new one is seen now, an old one keeps its age.
LEMMA StampStep ==
    ASSUME TimeInv, now' = now, NEW fresh \in BOOLEAN, Timestamp(fresh),
           tsAge' = IF ~hasTs \/ fresh THEN 0 ELSE tsAge
    PROVE  StampAge' /\ tsChange' \in Clock /\ tsAge' \in Nat
<1>1. /\ now \in Clock /\ tsChange \in Clock /\ tsAge \in Nat /\ StampAge
  BY DEF TimeInv, ClockType
<1>2. CASE ~hasTs \/ fresh
  <2>1. tsChange' = now /\ tsAge' = 0  BY <1>2 DEF Timestamp
  <2>2. Ago(now', tsChange') = 0  BY <1>1, <2>1, AgoNow
  <2> QED BY <1>1, <2>1, <2>2, SinceAgo, Bounds DEF StampAge
<1>3. CASE hasTs /\ ~fresh
  <2>1. tsChange' = tsChange /\ tsAge' = tsAge  BY <1>3 DEF Timestamp
  <2>2. Since(tsChange)' = Since(tsChange)  BY <2>1 DEF Since
  <2> QED BY <1>1, <1>3, <2>1, <2>2 DEF StampAge
<1> QED BY <1>2, <1>3

\* A poll that reached the policy: the ages start again, whatever else it did.
LEMMA PolledStep ==
    ASSUME TimeInv, hasPoll' = TRUE, lastPoll' = now, now' = now, unpolled' = 0,
           pc' = "drain", interval' \in 1..MaxPoll, tsAge' \in Nat
    PROVE  /\ lastPoll' \in Clock /\ Since(lastPoll)' = 0 /\ PollAge' /\ PollGap'
<1>1. now \in Clock  BY DEF TimeInv, ClockType
<1>2. Ago(now', lastPoll') = 0  BY <1>1, AgoNow
<1>3. Since(lastPoll)' = 0  BY <1>2, SinceAgo
<1>4. /\ interval' \in Nat /\ 1 <= interval' /\ MaxStall \in Nat
      /\ 0 <= tsAge' + interval' /\ 0 <= interval' - 1 /\ 0 <= (interval' - 1) + MaxStall
  <2> DEFINE d == interval'
             a == tsAge'
  <2>1. d \in 1..MaxPoll /\ a \in Nat /\ MaxPoll \in Nat /\ MaxStall \in Nat  BY Bounds
  <2> HIDE DEF d, a
  <2>2. d \in Nat /\ 1 <= d /\ 0 <= a + d /\ 0 <= d - 1 /\ 0 <= (d - 1) + MaxStall  BY <2>1
  <2> QED BY <2>1, <2>2 DEF d, a
<1>5. PollAge'  BY <1>3, <1>4 DEF PollAge
<1>6. PollGap'
  <2>1. ~(Since(lastPoll)' >= interval') /\ 0 <= Since(lastPoll)' + MaxStall  BY <1>3, <1>4
  <2>2. /\ unpolled' <= interval' - 1 /\ unpolled' <= (interval' - 1) + MaxStall
        /\ unpolled' <= Since(lastPoll)' + MaxStall /\ unpolled' <= Since(lastPoll)'
    <3> DEFINE d == interval'
               u == unpolled'
               s == Since(lastPoll)'
    <3>1. u = 0 /\ s = 0 /\ d \in Nat /\ 1 <= d /\ MaxStall \in Nat  BY <1>3, <1>4
    <3> HIDE DEF d, u, s
    <3>2. u <= d - 1 /\ u <= (d - 1) + MaxStall /\ u <= s + MaxStall /\ u <= s  BY <3>1
    <3> QED BY <3>2 DEF d, u, s
  <2>3. pc' # "pass" /\ pc' # "post" /\ hasPoll'  OBVIOUS
  <2> QED BY <2>1, <2>2, <2>3, Zenon DEF PollGap
<1> QED BY <1>1, <1>3, <1>5, <1>6

\* A fix that is accepted: a heartbeat that is not due is one the policy has counted
\* since the last upload, but for one gap if its clock has come round.
LEMMA AcceptTime ==
    ASSUME TimeInv, NEW v \in Speeds, NEW place \in Places, NEW fresh \in BOOLEAN,
           AcceptFix(v, place, fresh)
    PROVE  TimeInv'
<1> DEFINE o == observed(v)
           up == shouldUpload(o, place)
<1>a. /\ ClockType /\ Stages /\ StampAge /\ PollAge /\ PollGap /\ Silence
  BY DEF TimeInv
<1>b. /\ pc = "pass" /\ hasPoll' = TRUE /\ lastPoll' = now /\ unpolled' = 0 /\ pc' = "drain"
      /\ UNCHANGED <<hasOpened, lastOpen, gps, now, stall>>
  BY DEF AcceptFix, radio
<1>1. StampAge' /\ tsChange' \in Clock /\ tsAge' \in Nat /\ hasTs' = TRUE
  BY <1>b, StampStep DEF AcceptFix, Timestamp
<1>2. interval' \in 1..MaxPoll
  <2>1. interval' = NextInterval(observed(v), v)  BY DEF AcceptFix
  <2> QED BY <2>1, IntervalBounds
<1>3. lastPoll' \in Clock /\ Since(lastPoll)' = 0 /\ PollAge' /\ PollGap'
  BY <1>b, <1>1, <1>2, PolledStep
<1>4. \/ up /\ queue' # queue /\ hasSent' = TRUE /\ sentAt' = now
      \/ up /\ hasSent' = TRUE /\ sentAt' = now
      \/ UNCHANGED <<queue, hasSent, sentAt>>
  BY DEF AcceptFix, OnUploadResult, sent
<1>5. quiet' = IF up \/ o # "STATIONARY" THEN 0 ELSE quiet  BY DEF AcceptFix
<1>6. CASE up \/ o # "STATIONARY"
  <2>1. quiet' = 0  BY <1>5, <1>6
  <2>2. Silence'  BY <1>b, <2>1 DEF Silence
  <2>3. Stages'  BY <1>a, <1>b, <1>1, <1>4 DEF Stages
  <2>4. ClockType'  BY <1>a, <1>b, <1>1, <1>2, <1>3, <1>4, <2>1 DEF ClockType
  <2> QED BY <1>1, <1>3, <2>2, <2>3, <2>4 DEF TimeInv
<1>7. CASE ~up /\ o = "STATIONARY"
  <2>1. quiet' = quiet /\ UNCHANGED <<queue, hasSent, sentAt>>  BY <1>4, <1>5, <1>7
  <2>2. hasSent /\ ~HeartbeatDue  BY <1>7 DEF shouldUpload
  <2>3. Since(sentAt) < Heartbeat /\ Since(sentAt)' = Since(sentAt)
    BY <1>a, <1>b, <2>1, <2>2, Ages, Bounds DEF HeartbeatDue, Since
  <2>4. /\ unpolled \in Nat /\ unpolled <= Gap /\ quiet \in Nat
    <3>1. unpolled <= ((interval - 1) + MaxPost) + stall /\ stall <= MaxStall
      BY <1>a, <1>b, <2>2 DEF PollGap, Stages
    <3>2. /\ unpolled \in Nat /\ stall \in Nat /\ quiet \in Nat
          /\ interval \in Nat /\ interval <= MaxPoll
      BY <1>a, Ages DEF ClockType
    <3> QED BY <3>1, <3>2, Bounds
  <2>5. Since(sentAt) \in Nat /\ Heartbeat \in Nat /\ Gap \in Nat  BY <1>a, Ages, Bounds
  <2>6. quiet <= Since(sentAt) + Gap
    <3>1. CASE quiet <= unpolled  BY <2>4, <2>5, <3>1
    <3> QED BY <1>a, <3>1 DEF Silence
  <2>7. Since(sentAt) <= (Heartbeat - 1) + 0  BY <2>3, <2>5
  <2>8. Silence'  BY <1>b, <2>1, <2>2, <2>3, <2>6, <2>7 DEF Silence
  <2>9. Stages'  BY <1>a, <1>b, <1>1, <2>1 DEF Stages
  <2>10. ClockType'  BY <1>a, <1>b, <1>1, <1>2, <1>3, <2>1 DEF ClockType
  <2> QED BY <1>1, <1>3, <2>8, <2>9, <2>10 DEF TimeInv
<1> QED BY <1>6, <1>7

\* A fix that is refused counts as a poll and excuses the silence.
LEMMA RejectTime ==
    ASSUME TimeInv, NEW fresh \in BOOLEAN, RejectFix(fresh)
    PROVE  TimeInv'
<1>a. /\ ClockType /\ Stages /\ StampAge /\ PollAge /\ PollGap /\ Silence
  BY DEF TimeInv
<1>b. /\ pc = "pass" /\ hasPoll' = TRUE /\ lastPoll' = now /\ unpolled' = 0 /\ pc' = "drain"
      /\ quiet' = 0 /\ UNCHANGED <<interval, hasSent, sentAt, queue, gps, now, stall>>
  BY DEF RejectFix, radio, motion, sent
<1>1. StampAge' /\ tsChange' \in Clock /\ tsAge' \in Nat /\ hasTs' \in BOOLEAN /\ (hasTs => hasTs')
  <2>1. CASE UNCHANGED <<hasTs, tsChange, tsAge>>
    <3>1. Since(tsChange)' = Since(tsChange)  BY <1>b, <2>1 DEF Since
    <3> QED BY <1>a, <2>1, <3>1 DEF StampAge, ClockType
  <2>2. CASE Timestamp(fresh) /\ tsAge' = IF ~hasTs \/ fresh THEN 0 ELSE tsAge
    BY <1>b, <2>2, StampStep DEF Timestamp
  <2> QED BY <2>1, <2>2 DEF RejectFix
<1>2. interval' \in 1..MaxPoll  BY <1>a, <1>b DEF ClockType
<1>3. lastPoll' \in Clock /\ Since(lastPoll)' = 0 /\ PollAge' /\ PollGap'
  BY <1>b, <1>1, <1>2, PolledStep
<1>4. Silence'  BY <1>b DEF Silence
<1>5. Stages'  BY <1>a, <1>b, <1>1 DEF Stages
<1>6. ClockType'  BY <1>a, <1>b, <1>1, <1>2, <1>3 DEF ClockType
<1> QED BY <1>1, <1>3, <1>4, <1>5, <1>6 DEF TimeInv

\* A poll without a fix leaves the stamps alone, so the next pass polls again.
LEMMA NoFixTime == TimeInv /\ NoFix => TimeInv'
<1> SUFFICES ASSUME TimeInv, NoFix PROVE TimeInv'  OBVIOUS
<1>a. /\ ClockType /\ Stages /\ StampAge /\ PollAge /\ PollGap /\ Silence
  BY DEF TimeInv
<1>b. /\ pc = "pass" /\ unpolled' = 0 /\ quiet' = 0 /\ pc' = "drain"
      /\ UNCHANGED <<interval, hasPoll, lastPoll, hasSent, sentAt, hasTs, tsChange, queue,
                     gps, now, stall, tsAge>>
  BY DEF NoFix, radio, motion, sent
<1>1. Since(lastPoll)' = Since(lastPoll) /\ Since(tsChange)' = Since(tsChange)  BY <1>b, AgesStay
<1>2. StampAge' /\ PollAge'  BY <1>a, <1>b, <1>1 DEF StampAge, PollAge
<1>3. PollGap'
  <2>1. Since(lastPoll) \in Nat /\ interval \in Nat /\ 1 <= interval /\ MaxStall \in Nat
    BY <1>a, Ages, Bounds
  <2> QED BY <1>b, <1>1, <2>1 DEF PollGap
<1>4. Silence'  BY <1>b DEF Silence
<1>5. Stages' /\ ClockType'  BY <1>a, <1>b DEF Stages, ClockType
<1> QED BY <1>2, <1>3, <1>4, <1>5 DEF TimeInv

\* A pass that is not due is less than an interval after the poll the gap is
\* counted from, unless the clock came round before the first timestamp.
LEMMA NotDueTime == TimeInv /\ NotDue => TimeInv'
<1> SUFFICES ASSUME TimeInv, NotDue PROVE TimeInv'  OBVIOUS
<1>a. /\ ClockType /\ Stages /\ StampAge /\ PollAge /\ PollGap /\ Silence
  BY DEF TimeInv
<1>b. /\ pc = "pass" /\ pc' = "drain" /\ ~fixDue
      /\ UNCHANGED <<interval, hasPoll, lastPoll, hasSent, sentAt, hasTs, tsChange, queue,
                     gps, now, stall, tsAge, quiet, unpolled>>
  BY DEF NotDue, radio, motion, sent
<1>1. /\ Since(lastPoll)' = Since(lastPoll) /\ Since(tsChange)' = Since(tsChange)
      /\ Since(sentAt)' = Since(sentAt)
  BY <1>b, AgesStay
<1>2. StampAge' /\ PollAge'  BY <1>a, <1>b, <1>1 DEF StampAge, PollAge
<1>3. PollGap'
  <2>1. /\ Since(lastPoll) \in Nat /\ interval \in Nat /\ MaxStall \in Nat /\ unpolled \in Nat
        /\ hasPoll /\ Since(lastPoll) < interval
    BY <1>a, <1>b, Ages, NotDueAge, Bounds DEF ClockType
  <2>2. CASE hasTs
    <3>1. unpolled <= Since(lastPoll)  BY <1>a, <2>1, <2>2 DEF PollGap
    <3>2. unpolled <= interval - 1  BY <2>1, <3>1
    <3> QED BY <1>b, <1>1, <2>1, <2>2, <3>1, <3>2 DEF PollGap
  <2>3. CASE ~hasTs
    <3>1. unpolled <= Since(lastPoll) + MaxStall  BY <1>a, <2>1, <2>3 DEF PollGap
    <3>2. unpolled <= (interval - 1) + MaxStall  BY <2>1, <3>1
    <3>3. ~(Since(lastPoll) >= interval)  BY <2>1
    <3> QED BY <1>b, <1>1, <2>1, <2>3, <3>1, <3>2, <3>3 DEF PollGap
  <2> QED BY <2>2, <2>3
<1>4. Silence'  BY <1>a, <1>b, <1>1 DEF Silence
<1>5. Stages' /\ ClockType'  BY <1>a, <1>b DEF Stages, ClockType
<1> QED BY <1>2, <1>3, <1>4, <1>5 DEF TimeInv

\* A drain that ends, or an open radio, takes no time of its own.
LEMMA DrainTime ==
    ASSUME TimeInv, pc = "drain", stall' = 0,
           pc' = "pass" \/ (pc' = "post" /\ queue # <<>>), gps' \in BOOLEAN,
           UNCHANGED <<interval, hasPoll, lastPoll, hasSent, sentAt, hasTs, tsChange, queue,
                       now, tsAge, quiet, unpolled>>
    PROVE  TimeInv'
<1>a. /\ ClockType /\ Stages /\ StampAge /\ PollAge /\ PollGap /\ Silence
  BY DEF TimeInv
<1>1. /\ Since(lastPoll)' = Since(lastPoll) /\ Since(tsChange)' = Since(tsChange)
      /\ Since(sentAt)' = Since(sentAt)
  BY AgesStay
<1>2. StampAge' /\ PollAge'  BY <1>a, <1>1 DEF StampAge, PollAge
<1>3. Stages'  BY <1>a, Bounds DEF Stages
<1>4. /\ Since(lastPoll) \in Nat /\ interval \in Nat /\ 1 <= interval
      /\ MaxStall \in Nat /\ MaxPost \in Nat /\ unpolled \in Nat
  BY <1>a, Ages, Bounds DEF ClockType
<1>5. PollGap'
  <2>1. CASE ~hasPoll
    <3>1. unpolled = 0 /\ ~hasTs /\ pc' = "pass"  BY <1>a, <2>1 DEF PollGap, Stages
    <3> QED BY <2>1, <3>1 DEF PollGap
  <2>2. CASE hasPoll /\ ~hasTs
    <3>1. pc' = "pass"  BY <1>a, <2>2 DEF Stages
    <3>2. /\ unpolled <= (interval - 1) + MaxStall
          /\ Since(lastPoll) >= interval => unpolled = 0
          /\ unpolled <= Since(lastPoll) + MaxStall
      BY <1>a, <2>2 DEF PollGap
    <3>3. /\ unpolled <= ((interval - 1) + MaxStall) + 0
          /\ Since(lastPoll) >= interval + 0 => unpolled <= 0
      BY <1>4, <3>2
    <3> QED BY <1>1, <2>2, <3>1, <3>2, <3>3 DEF PollGap
  <2>3. CASE hasTs
    <3>1. /\ unpolled <= interval - 1
          /\ unpolled <= Since(lastPoll) \/ Since(lastPoll) >= interval
      BY <1>a, <2>3 DEF PollGap
    <3>2. unpolled <= (interval - 1) + 0 /\ unpolled <= ((interval - 1) + MaxPost) + 0
      BY <1>4, <3>1
    <3>3. hasPoll  BY <1>a, <2>3 DEF Stages
    <3> QED BY <1>1, <2>3, <3>1, <3>2, <3>3 DEF PollGap
  <2> QED BY <1>a, <2>1, <2>2, <2>3 DEF ClockType
<1>6. Silence'  BY <1>a, <1>1 DEF Silence
<1>7. ClockType'  BY <1>a DEF ClockType
<1> QED BY <1>2, <1>3, <1>5, <1>6, <1>7 DEF TimeInv

\* The end of an upload: with the receiver on again the next poll is due at
\* once; with the receiver still off the last poll keeps its age.
LEMMA PostTime ==
    ASSUME TimeInv, pc = "post", NotifyGpsReenabled, pc' = "pass", stall' = 0,
           \/ hasSent' = TRUE /\ sentAt' = now /\ quiet' = 0
           \/ UNCHANGED <<hasSent, sentAt>> /\ quiet' \in {quiet, 0},
           UNCHANGED <<interval, hasPoll, hasTs, tsChange, now, tsAge, unpolled>>
    PROVE  TimeInv'
<1>a. /\ ClockType /\ Stages /\ StampAge /\ PollAge /\ PollGap /\ Silence
  BY DEF TimeInv
<1>b. hasSent /\ hasTs /\ hasPoll /\ stall <= MaxPost  BY <1>a DEF Stages
<1>1. StampAge'
  <2>1. Since(tsChange)' = Since(tsChange)  BY DEF Since
  <2> QED BY <1>a, <2>1 DEF StampAge
<1>2. Stages'
  <2>1. hasSent' /\ hasTs' /\ hasPoll'  BY <1>b, Zenon
  <2>2. 0 <= MaxStall  BY Bounds
  <2> QED BY <2>1, <2>2 DEF Stages
<1>3. /\ Since(lastPoll) \in Nat /\ interval \in Nat /\ 1 <= interval
      /\ MaxPost \in Nat /\ unpolled \in Nat /\ tsAge \in Nat /\ stall \in Nat
  BY <1>a, Ages, Bounds DEF ClockType
<1>4. unpolled <= ((interval - 1) + MaxPost) + 0
  <2>1. unpolled <= (interval - 1) + stall  BY <1>a, <1>b DEF PollGap
  <2> QED BY <1>b, <1>3, <2>1
<1>5. /\ lastPoll' \in Clock /\ gps' \in BOOLEAN
      /\ \/ Since(lastPoll)' = interval
         \/ Since(lastPoll)' = Since(lastPoll)
  <2>1. CASE gps' = TRUE /\ lastPoll' = (now - interval + TimeMod) % TimeMod
    <3>1. now \in Clock /\ interval \in 1..MaxPoll  BY <1>a DEF ClockType
    <3>2. lastPoll' \in Clock /\ Ago(now, lastPoll') = interval  BY <2>1, <3>1, AgoBack
    <3>3. Since(lastPoll)' = Ago(now', lastPoll')  BY SinceAgo
    <3> QED BY <2>1, <3>2, <3>3
  <2>2. CASE gps' = FALSE /\ UNCHANGED lastPoll
    <3>1. Since(lastPoll)' = Since(lastPoll)  BY <2>2 DEF Since
    <3> QED BY <1>a, <2>2, <3>1 DEF ClockType
  <2> QED BY <2>1, <2>2 DEF NotifyGpsReenabled
<1>6. PollAge'  BY <1>a, <1>3, <1>5 DEF PollAge
<1>7. PollGap'
  <2>1. unpolled <= Since(lastPoll)' \/ Since(lastPoll)' >= interval
    BY <1>a, <1>b, <1>3, <1>5 DEF PollGap
  <2> QED BY <1>b, <1>4, <2>1 DEF PollGap
<1>8. Silence'
  <2>1. CASE quiet' = 0  BY <1>3, <2>1 DEF Silence
  <2>2. CASE quiet' = quiet /\ UNCHANGED <<hasSent, sentAt>>
    <3>1. Since(sentAt)' = Since(sentAt)  BY <2>2 DEF Since
    <3> QED BY <1>a, <2>2, <3>1 DEF Silence
  <2> QED BY <2>1, <2>2
<1>9. ClockType'
  <2>0. hasSent \in BOOLEAN /\ sentAt \in Clock /\ now \in Clock /\ quiet \in Nat
    BY <1>a DEF ClockType
  <2>1. hasSent' \in BOOLEAN /\ sentAt' \in Clock /\ quiet' \in Nat
    <3>1. CASE hasSent' = TRUE /\ sentAt' = now /\ quiet' = 0  BY <2>0, <3>1
    <3>2. CASE UNCHANGED <<hasSent, sentAt>> /\ quiet' \in {quiet, 0}  BY <2>0, <3>2
    <3> QED BY <3>1, <3>2
  <2>2. 0 \in Nat  OBVIOUS
  <2> QED BY <1>a, <1>5, <2>1, <2>2, Zenon DEF ClockType
<1> QED BY <1>1, <1>2, <1>6, <1>7, <1>8, <1>9 DEF TimeInv

\* How long the poll gap and the silence are in any state of the invariant.
LEMMA GapBounds ==
    ASSUME TimeInv
    PROVE  /\ unpolled <= ((MaxPoll - 1) + 2 * MaxStall) + MaxPost
           /\ hasTs => unpolled <= Gap
           /\ quiet <= Late /\ unpolled <= Late
<1>a. /\ ClockType /\ Stages /\ StampAge /\ PollAge /\ PollGap /\ Silence
  BY DEF TimeInv
<1>b. /\ Since(sentAt) \in Nat /\ interval \in Nat /\ 1 <= interval /\ interval <= MaxPoll
      /\ unpolled \in Nat /\ stall \in Nat /\ quiet \in Nat /\ pc \in {"pass", "drain", "post"}
      /\ hasPoll \in BOOLEAN /\ hasTs \in BOOLEAN
  BY <1>a, Ages DEF ClockType
<1>1. CASE hasTs
  <2>1. unpolled <= Gap
    <3>1. CASE pc = "drain"  BY <1>a, <1>b, <1>1, <3>1, Bounds DEF PollGap
    <3>2. CASE pc = "post"  BY <1>a, <1>b, <1>1, <3>2, Bounds DEF PollGap, Stages
    <3>3. CASE pc = "pass"  BY <1>a, <1>b, <1>1, <3>3, Bounds DEF PollGap, Stages
    <3> QED BY <1>b, <3>1, <3>2, <3>3
  <2>2. unpolled <= ((MaxPoll - 1) + 2 * MaxStall) + MaxPost  BY <1>b, <2>1, Bounds
  <2>3. unpolled <= Late  BY <1>b, <2>1, Bounds
  <2>4. quiet <= Late
    <3>1. CASE quiet <= unpolled  BY <1>b, <2>3, <3>1, Bounds
    <3>2. CASE /\ quiet <= Since(sentAt) + Gap
               /\ Since(sentAt) <= (Heartbeat - 1) + unpolled
      BY <1>b, <2>1, <3>2, Bounds
    <3> QED BY <1>a, <3>1, <3>2 DEF Silence
  <2> QED BY <2>1, <2>2, <2>3, <2>4
<1>2. CASE ~hasTs
  <2>1. ~hasSent /\ pc # "post"  BY <1>a, <1>2 DEF Stages
  <2>2. unpolled <= (MaxPoll - 1) + 2 * MaxStall
    <3>1. CASE ~hasPoll
      <4>1. unpolled <= MaxStall  BY <1>a, <1>b, <2>1, <3>1, Bounds DEF PollGap, Stages
      <4> QED BY <1>b, <4>1, Bounds
    <3>2. CASE hasPoll
      <4>1. CASE pc = "drain"  BY <1>a, <1>b, <1>2, <3>2, <4>1, Bounds DEF PollGap
      <4>2. CASE pc = "pass"
        <5>1. unpolled <= ((interval - 1) + MaxStall) + stall /\ stall <= MaxStall
          BY <1>a, <1>2, <3>2, <4>2 DEF PollGap, Stages
        <5> QED BY <1>b, <5>1, Bounds
      <4> QED BY <1>b, <2>1, <4>1, <4>2
    <3> QED BY <1>b, <3>1, <3>2
  <2>3. unpolled <= ((MaxPoll - 1) + 2 * MaxStall) + MaxPost  BY <1>b, <2>2, Bounds
  <2>4. unpolled <= Late  BY <1>b, <2>2, Bounds
  <2>5. quiet <= unpolled  BY <1>a, <2>1 DEF Silence
  <2>6. quiet <= Late  BY <1>b, <2>4, <2>5, Bounds
  <2> QED BY <1>2, <2>3, <2>4, <2>6
<1> QED BY <1>b, <1>1, <1>2

\* A millisecond passes: no age that a bound depends on comes round, and the one that
\* may, before the first timestamp, does so within a pass of a poll.
LEMMA ElapseTime == TimeInv /\ Elapse => TimeInv'
<1> SUFFICES ASSUME TimeInv, Elapse PROVE TimeInv'  OBVIOUS
<1> DEFINE p == Since(lastPoll)
           h == Since(sentAt)
           z == Since(tsChange)
<1>a. /\ ClockType /\ Stages /\ StampAge /\ PollAge /\ PollGap /\ Silence
  BY DEF TimeInv
<1>b. /\ pc \in {"pass", "post"} /\ tsAge < MaxStuck
      /\ pc = "pass" => stall < MaxStall /\ stall + 1 <= MaxStall
      /\ pc = "post" => stall < MaxPost /\ stall + 1 <= MaxPost
      /\ now' = (now + 1) % TimeMod /\ stall' = stall + 1
      /\ tsAge' = IF hasTs THEN tsAge + 1 ELSE 0
      /\ quiet' = Capped(quiet, Late + 1) /\ unpolled' = Capped(unpolled, Late)
      /\ UNCHANGED <<interval, hasPoll, lastPoll, hasSent, sentAt, hasTs, tsChange, queue,
                     gps, pc>>
  <2>1. stall \in Nat /\ MaxStall \in Nat /\ MaxPost \in Nat  BY <1>a, Bounds DEF ClockType
  <2> QED BY <2>1 DEF Elapse, radio, motion, sent
<1>c. /\ p \in Nat /\ h \in Nat /\ z \in Nat /\ p < TimeMod /\ h < TimeMod
      /\ interval \in Nat /\ 1 <= interval /\ interval <= MaxPoll
      /\ stall \in Nat /\ tsAge \in Nat /\ quiet \in Nat /\ unpolled \in Nat
  BY <1>a, Ages DEF ClockType
<1>1. /\ now' \in Clock
      /\ p < TimeMod - 1 => Since(lastPoll)' = p + 1
      /\ p = TimeMod - 1 => Since(lastPoll)' = 0
      /\ h < TimeMod - 1 => Since(sentAt)' = h + 1
      /\ z < TimeMod - 1 => Since(tsChange)' = z + 1
  <2>1. now \in Clock /\ lastPoll \in Clock /\ sentAt \in Clock /\ tsChange \in Clock
    BY <1>a DEF ClockType
  <2> DEFINE k == now'
  <2>2. k = (now + 1) % TimeMod  BY <1>b
  <2> HIDE DEF k
  <2>3. /\ k \in Clock
        /\ Ago(now, lastPoll) < TimeMod - 1 => Ago(k, lastPoll) = Ago(now, lastPoll) + 1
        /\ Ago(now, lastPoll) = TimeMod - 1 => Ago(k, lastPoll) = 0
    BY <2>1, <2>2, AgoTick
  <2>4. Ago(now, sentAt) < TimeMod - 1 => Ago(k, sentAt) = Ago(now, sentAt) + 1
    BY <2>1, <2>2, AgoTick
  <2>5. Ago(now, tsChange) < TimeMod - 1 => Ago(k, tsChange) = Ago(now, tsChange) + 1
    BY <2>1, <2>2, AgoTick
  <2>6. /\ Since(lastPoll)' = Ago(k, lastPoll) /\ Since(sentAt)' = Ago(k, sentAt)
        /\ Since(tsChange)' = Ago(k, tsChange)
    BY <1>b, SinceAgo DEF k
  <2> QED BY <2>3, <2>4, <2>5, <2>6, SinceAgo DEF k
<1> HIDE DEF p, h, z
<1>2. quiet' = quiet + 1
  <2>1. quiet <= Late  BY GapBounds
  <2>2. quiet < Late + 1  BY <1>c, <2>1, Bounds
  <2> QED BY <1>b, <2>2 DEF Capped
<1>3. unpolled' = unpolled + 1 /\ (hasTs => unpolled + 1 <= Gap)
  <2>1. CASE hasTs
    <3>1. unpolled + 1 <= Gap
      <4>1. CASE pc = "pass"
        <5>1. unpolled <= ((interval - 1) + MaxPost) + stall /\ stall + 1 <= MaxStall
          BY <1>a, <1>b, <2>1, <4>1 DEF PollGap
        <5> QED BY <1>c, <5>1, Bounds
      <4>2. CASE pc = "post"
        <5>1. unpolled <= (interval - 1) + stall /\ stall + 1 <= MaxPost
          BY <1>a, <1>b, <2>1, <4>2 DEF PollGap
        <5> QED BY <1>c, <5>1, Bounds
      <4> QED BY <1>b, <4>1, <4>2
    <3>2. unpolled < Late  BY <1>c, <3>1, Bounds
    <3> QED BY <1>b, <3>1, <3>2 DEF Capped
  <2>2. CASE ~hasTs
    <3>1. pc = "pass" /\ stall + 1 <= MaxStall  BY <1>a, <1>b, <2>2 DEF Stages
    <3>2. unpolled <= ((interval - 1) + MaxStall) + stall
      <4>1. CASE ~hasPoll
        <5>1. unpolled <= stall  BY <1>a, <3>1, <4>1 DEF PollGap
        <5> QED BY <1>c, <5>1, Bounds
      <4>2. CASE hasPoll  BY <1>a, <2>2, <3>1, <4>2 DEF PollGap
      <4> QED BY <4>1, <4>2
    <3>3. unpolled < Late  BY <1>c, <3>1, <3>2, Bounds
    <3> QED BY <1>b, <2>2, <3>3 DEF Capped
  <2> QED BY <2>1, <2>2
<1>4. StampAge'
  <2>1. CASE hasTs
    <3>1. z = tsAge /\ tsAge' = tsAge + 1  BY <1>a, <1>b, <2>1 DEF StampAge, z
    <3>2. z < TimeMod - 1  BY <1>b, <1>c, <3>1, Bounds
    <3>3. Since(tsChange)' = tsAge'  BY <1>1, <3>1, <3>2
    <3>4. tsAge' <= MaxStuck  BY <1>b, <1>c, <3>1, Bounds
    <3> QED BY <3>3, <3>4 DEF StampAge
  <2>2. CASE ~hasTs
    <3>1. tsAge' = 0 /\ ~hasTs'  BY <1>b, <2>2
    <3> QED BY <3>1, Bounds DEF StampAge
  <2> QED BY <2>1, <2>2
<1>5. ASSUME hasTs PROVE p + 1 <= (tsAge + 1) + interval /\ Since(lastPoll)' = p + 1
  <2>1. p <= tsAge + interval  BY <1>a, <1>5 DEF PollAge, p
  <2>2. p < TimeMod - 1  BY <1>b, <1>c, <2>1, Bounds
  <2>3. p + 1 <= (tsAge + 1) + interval  BY <1>c, <2>1
  <2> QED BY <1>1, <2>2, <2>3
<1>6. PollAge'  BY <1>b, <1>5 DEF PollAge
<1>7. PollGap'
  <2>1. CASE ~hasPoll
    <3>1. ~hasTs /\ pc = "pass"  BY <1>a, <1>b, <2>1 DEF Stages
    <3>2. unpolled <= stall  BY <1>a, <2>1, <3>1 DEF PollGap
    <3>3. unpolled' <= stall'  BY <1>b, <1>c, <1>3, <3>2
    <3>4. ~hasPoll' /\ ~hasTs' /\ pc' = "pass"  BY <1>b, <2>1, <3>1
    <3> QED BY <3>3, <3>4 DEF PollGap
  <2>2. CASE hasPoll /\ ~hasTs
    <3>1. pc = "pass"  BY <1>a, <1>b, <2>2 DEF Stages
    <3>2. /\ unpolled <= ((interval - 1) + MaxStall) + stall
          /\ p >= interval + stall => unpolled <= stall
          /\ unpolled <= p + MaxStall
      BY <1>a, <2>2, <3>1 DEF PollGap, p
    <3>3. unpolled + 1 <= ((interval - 1) + MaxStall) + (stall + 1)  BY <1>c, <3>2, Bounds
    <3>4. CASE p < TimeMod - 1
      <4>1. Since(lastPoll)' = p + 1  BY <1>1, <3>4
      <4>2. p + 1 >= interval + (stall + 1) => unpolled + 1 <= stall + 1  BY <1>c, <3>2
      <4>3. unpolled + 1 <= (p + 1) + MaxStall  BY <1>c, <3>2, Bounds
      <4> QED BY <1>b, <1>3, <2>2, <3>1, <3>3, <4>1, <4>2, <4>3 DEF PollGap
    <3>5. CASE p = TimeMod - 1
      <4>1. Since(lastPoll)' = 0  BY <1>1, <3>5
      <4>2. p >= interval + stall
        <5>1. stall + 1 <= MaxStall  BY <1>b, <3>1
        <5> QED BY <1>c, <3>5, <5>1, Bounds
      <4>3. unpolled + 1 <= 0 + MaxStall
        <5>1. stall + 1 <= MaxStall  BY <1>b, <3>1
        <5> QED BY <1>c, <3>2, <4>2, <5>1, Bounds
      <4>4. ~(0 >= interval + (stall + 1))  BY <1>c
      <4> QED BY <1>b, <1>3, <2>2, <3>1, <3>3, <4>1, <4>3, <4>4 DEF PollGap
    <3> QED BY <1>c, <3>4, <3>5, Bounds
  <2>3. CASE hasTs
    <3>1. p >= unpolled \/ p >= interval  BY <1>a, <1>c, <2>3 DEF PollGap, p
    <3>2. Since(lastPoll)' = p + 1  BY <1>5, <2>3
    <3>3. unpolled + 1 <= p + 1 \/ p + 1 >= interval  BY <1>c, <3>1
    <3>4. hasPoll  BY <1>a, <2>3 DEF Stages
    <3>5. CASE pc = "pass"
      <4>1. unpolled <= ((interval - 1) + MaxPost) + stall  BY <1>a, <2>3, <3>5 DEF PollGap
      <4>2. unpolled + 1 <= ((interval - 1) + MaxPost) + (stall + 1)  BY <1>c, <4>1, Bounds
      <4> QED BY <1>b, <1>3, <2>3, <3>2, <3>3, <3>4, <3>5, <4>2 DEF PollGap
    <3>6. CASE pc = "post"
      <4>1. unpolled <= (interval - 1) + stall  BY <1>a, <2>3, <3>6 DEF PollGap
      <4>2. unpolled + 1 <= (interval - 1) + (stall + 1)  BY <1>c, <4>1, Bounds
      <4> QED BY <1>b, <1>3, <2>3, <3>2, <3>3, <3>4, <3>6, <4>2 DEF PollGap
    <3> QED BY <1>b, <3>5, <3>6
  <2> QED BY <2>1, <2>2, <2>3
<1>8. Silence'
  <2>1. CASE quiet <= unpolled
    <3>1. quiet + 1 <= unpolled + 1  BY <1>c, <2>1
    <3> QED BY <1>2, <1>3, <3>1 DEF Silence
  <2>2. CASE hasSent /\ quiet <= h + Gap /\ h <= (Heartbeat - 1) + unpolled
    <3>1. hasTs  BY <1>a, <2>2 DEF Stages
    <3>2. unpolled + 1 <= Gap  BY <1>3, <3>1
    <3>3. h < TimeMod - 1  BY <1>c, <2>2, <3>2, Bounds
    <3>4. Since(sentAt)' = h + 1  BY <1>1, <3>3
    <3>5. quiet + 1 <= (h + 1) + Gap /\ h + 1 <= (Heartbeat - 1) + (unpolled + 1)
      BY <1>c, <2>2, Bounds
    <3> QED BY <1>b, <1>2, <1>3, <2>2, <3>4, <3>5 DEF Silence
  <2> QED BY <1>a, <2>1, <2>2 DEF Silence, h
<1>9. Stages'  BY <1>a, <1>b DEF Stages
<1>10. ClockType'
  <2>1. tsAge' \in Nat /\ stall' \in Nat /\ quiet' \in Nat /\ unpolled' \in Nat
    BY <1>b, <1>c, <1>2, <1>3
  <2> QED BY <1>a, <1>b, <1>1, <2>1 DEF ClockType
<1> QED BY <1>4, <1>6, <1>7, <1>8, <1>9, <1>10 DEF TimeInv

\* Every step of the loop, and every millisecond, keeps the ages in their bounds.
LEMMA TimeStep == TimeInv /\ [SamplingNext]_svars => TimeInv'
<1> SUFFICES ASSUME TimeInv, [SamplingNext]_svars PROVE TimeInv'  OBVIOUS
<1>1. ASSUME NEW v \in Speeds, NEW place \in Places, NEW fresh \in BOOLEAN,
             AcceptFix(v, place, fresh)
      PROVE  TimeInv'
  BY <1>1, AcceptTime
<1>2. ASSUME NEW fresh \in BOOLEAN, RejectFix(fresh) PROVE TimeInv'
  BY <1>2, RejectTime
<1>3. CASE NoFix  BY <1>3, NoFixTime
<1>4. CASE NotDue  BY <1>4, NotDueTime
<1>g. gps \in BOOLEAN  BY DEF TimeInv, ClockType
<1>5. CASE PassEnds
  <2>1. /\ pc = "drain" /\ pc' = "pass" /\ stall' = 0 /\ gps' = gps
        /\ UNCHANGED <<interval, hasPoll, lastPoll, hasSent, sentAt, hasTs, tsChange, queue,
                       now, tsAge, quiet, unpolled>>
    BY <1>5 DEF PassEnds, motion, sent, radio
  <2> QED BY <1>g, <2>1, DrainTime
<1>6. CASE OpenRadio
  <2>1. /\ pc = "drain" /\ (pc' = "pass" \/ (pc' = "post" /\ queue # <<>>)) /\ stall' = 0
        /\ gps' \in BOOLEAN
        /\ UNCHANGED <<interval, hasPoll, lastPoll, hasSent, sentAt, hasTs, tsChange, queue,
                       now, tsAge, quiet, unpolled>>
    BY <1>g, <1>6 DEF OpenRadio, radioDue, motion, sent
  <2> QED BY <2>1, DrainTime
<1>7. CASE PostSent
  <2>1. /\ pc = "post" /\ NotifyGpsReenabled /\ pc' = "pass" /\ stall' = 0
        /\ UNCHANGED <<interval, hasPoll, hasTs, tsChange, now, tsAge, unpolled>>
    BY <1>7 DEF PostSent, motion
  <2>2. \/ hasSent' = TRUE /\ sentAt' = now /\ quiet' = 0
        \/ UNCHANGED <<hasSent, sentAt>> /\ quiet' \in {quiet, 0}
    BY <1>7 DEF PostSent, OnUploadResult, sent
  <2> QED BY <2>1, <2>2, PostTime
<1>8. CASE PostFails
  <2>1. /\ pc = "post" /\ NotifyGpsReenabled /\ pc' = "pass" /\ stall' = 0
        /\ UNCHANGED <<hasSent, sentAt>> /\ quiet' \in {quiet, 0}
        /\ UNCHANGED <<interval, hasPoll, hasTs, tsChange, now, tsAge, unpolled>>
    BY <1>8 DEF PostFails, motion, sent
  <2> QED BY <2>1, PostTime
<1>9. CASE Elapse  BY <1>9, ElapseTime
<1>10. CASE UNCHANGED svars
  BY <1>10 DEF svars, TimeInv, ClockType, Stages, StampAge, PollAge, PollGap, Silence, Since
<1> QED BY <1>1, <1>2, <1>3, <1>4, <1>5, <1>6, <1>7, <1>8, <1>9, <1>10 DEF SamplingNext

\* The ages stay in their bounds for ever.
LEMMA TimeInvariance == SamplingSpec => []TimeInv
<1> QED BY TimeInit, TimeStep, PTL DEF SamplingSpec

\* SampledOnTime: neither the polls nor the heartbeats of a tracker at rest fall
\* behind, for all intervals and clock widths, across every wrap of millis().
THEOREM SamplesOnTime == SamplingSpec => []SampledOnTime
<1>1. TimeInv => SampledOnTime
  <2> SUFFICES ASSUME TimeInv PROVE SampledOnTime  OBVIOUS
  <2>1. unpolled <= ((MaxPoll - 1) + 2 * MaxStall) + MaxPost /\ quiet <= Late  BY GapBounds
  <2>2. unpolled \in Nat  BY DEF TimeInv, ClockType
  <2>3. unpolled <= (MaxPoll + 2 * MaxStall) + MaxPost  BY <2>1, <2>2, Bounds
  <2> QED BY <2>1, <2>3 DEF SampledOnTime, PolledOnTime, HeartbeatOnTime
<1> QED BY <1>1, TimeInvariance, PTL

\* EnqueuesFresh: no point is enqueued from a receiver that has repeated its
\* timestamp for longer than MAX_FIX_AGE_MS, also across the wrap of millis().
THEOREM FrozenFixesAreRefused == SamplingSpec => EnqueuesFresh
<1>1. TimeInv /\ [SamplingNext]_svars =>
        [(pc = "pass" /\ sent' # sent /\ MaxFixAge > 0) => tsAge' <= MaxFixAge]_svars
  <2> SUFFICES ASSUME TimeInv, SamplingNext, pc = "pass", sent' # sent, MaxFixAge > 0
               PROVE  tsAge' <= MaxFixAge
    BY DEF svars, sent
  <2>1. PICK v \in Speeds, place \in Places, fresh \in BOOLEAN : AcceptFix(v, place, fresh)
    BY DEF SamplingNext, RejectFix, NoFix, NotDue, PassEnds, OpenRadio, PostSent, PostFails,
           Elapse, sent
  <2>2. ~Stagnant(fresh) /\ tsAge' = IF ~hasTs \/ fresh THEN 0 ELSE tsAge
    BY <2>1 DEF AcceptFix
  <2>3. MaxFixAge \in Nat /\ tsAge \in Nat /\ (hasTs => Since(tsChange) = tsAge)
    BY SamplingAssumption DEF TimeInv, ClockType, StampAge
  <2>4. CASE ~hasTs \/ fresh  BY <2>2, <2>3, <2>4
  <2>5. CASE hasTs /\ ~fresh
    <3>1. ~(Since(tsChange) > MaxFixAge)  BY <2>2, <2>5 DEF Stagnant
    <3> QED BY <2>2, <2>3, <2>5, <3>1
  <2> QED BY <2>4, <2>5
<1> QED BY <1>1, TimeInvariance, PTL DEF SamplingSpec, EnqueuesFresh

-----------------------------------------------------------------------------
(* The hysteresis.                                                         *)

\* What an observation other than the state says of the fix it came from.
LEMMA Observation ==
    ASSUME NEW v \in Speeds, RunsCover
    PROVE  /\ observed(v) \in Motion
           /\ observed(v) # state => observed(v) # "UNKNOWN"
           /\ observed(v) = "MOVING" /\ state # "MOVING" => finite(v) /\ v >= Enter
           /\ observed(v) = "STATIONARY" /\ state # "STATIONARY" =>
                 finite(v) /\ v < Enter /\ (state = "MOVING" => v >= 0 /\ v <= Exit)
<1>1. v \in Int /\ Enter \in Nat /\ Exit \in Nat /\ Exit < Enter  BY SamplingAssumption
<1>2. state \in Motion  BY DEF RunsCover
<1> QED BY <1>1, <1>2 DEF observed, validSpeed, Motion

\* One accepted fix: a run covers the count, and a change needs a full run.
LEMMA AcceptRuns ==
    ASSUME RunsCover, NEW v \in Speeds, Hysteresis(observed(v)), Count(v)
    PROVE  /\ RunsCover'
           /\ state' # state =>
                 /\ state' = "MOVING" => fastRun' = Confirm
                 /\ state' = "STATIONARY" => slowRun' = Confirm
<1> DEFINE o == observed(v)
           n == IF candidate # o THEN 1 ELSE IF count < 255 THEN count + 1 ELSE count
<1>1. /\ o \in Motion
      /\ o # state => o # "UNKNOWN"
      /\ o = "MOVING" /\ state # "MOVING" => finite(v) /\ v >= Enter
      /\ o = "STATIONARY" /\ state # "STATIONARY" =>
            finite(v) /\ v < Enter /\ (state = "MOVING" => v >= 0 /\ v <= Exit)
  BY Observation
<1>2. /\ Confirm \in Nat /\ 1 <= Confirm /\ Confirm <= 255
      /\ count \in Nat /\ count < Confirm
      /\ fastRun \in Nat /\ fastRun <= Confirm /\ slowRun \in Nat /\ slowRun <= Confirm
  BY SamplingAssumption DEF RunsCover
<1>3. /\ fastRun' \in 0..Confirm /\ slowRun' \in 0..Confirm
  BY <1>2 DEF Count, Capped
<1>4. /\ o = state => state' = state /\ candidate' = "UNKNOWN" /\ count' = 0
      /\ o # state /\ n >= Confirm => state' = o /\ candidate' = "UNKNOWN" /\ count' = 0
      /\ o # state /\ ~(n >= Confirm) => state' = state /\ candidate' = o /\ count' = n
  BY DEF Hysteresis
<1>5. /\ candidate # o => n = 1
      /\ candidate = o => n = count + 1
  BY <1>2
<1> HIDE DEF n, o
<1>6. CASE o = state
  BY <1>2, <1>3, <1>4, <1>6 DEF RunsCover, Motion
<1>7. ASSUME o # state, o = "MOVING"
      PROVE  n \in Nat /\ n <= Confirm /\ n <= fastRun'
  <2>1. fastRun' = IF fastRun < Confirm THEN fastRun + 1 ELSE fastRun
    BY <1>1, <1>7 DEF Count, Capped
  <2>2. CASE candidate # o  BY <1>2, <1>5, <2>1, <2>2
  <2>3. CASE candidate = o
    <3>1. count <= fastRun  BY <1>7, <2>3 DEF RunsCover
    <3> QED BY <1>2, <1>5, <2>1, <2>3, <3>1
  <2> QED BY <2>2, <2>3
<1>8. ASSUME o # state, o = "STATIONARY"
      PROVE  n \in Nat /\ n <= Confirm /\ n <= slowRun'
  <2>1. slowRun' = IF slowRun < Confirm THEN slowRun + 1 ELSE slowRun
    BY <1>1, <1>8 DEF Count, Capped
  <2>2. CASE candidate # o  BY <1>2, <1>5, <2>1, <2>2
  <2>3. CASE candidate = o
    <3>1. count <= slowRun  BY <1>8, <2>3 DEF RunsCover
    <3> QED BY <1>2, <1>5, <2>1, <2>3, <3>1
  <2> QED BY <2>2, <2>3
<1>9. CASE o # state /\ n >= Confirm
  <2>1. o \in {"MOVING", "STATIONARY"}  BY <1>1, <1>9 DEF Motion
  <2>2. o = "MOVING" => fastRun' = Confirm  BY <1>2, <1>3, <1>7, <1>9
  <2>3. o = "STATIONARY" => slowRun' = Confirm  BY <1>2, <1>3, <1>8, <1>9
  <2> QED BY <1>1, <1>2, <1>3, <1>4, <1>9, <2>1, <2>2, <2>3 DEF RunsCover, Motion
<1>10. CASE o # state /\ ~(n >= Confirm)
  <2>1. state' = state /\ candidate' = o /\ count' = n  BY <1>4, <1>10
  <2>2. CASE o = "MOVING"
    <3>1. n \in Nat /\ n < Confirm /\ n <= fastRun'  BY <1>2, <1>7, <1>10, <2>2
    <3> QED BY <1>3, <1>10, <2>1, <2>2, <3>1 DEF RunsCover, Motion
  <2>3. CASE o = "STATIONARY"
    <3>1. n \in Nat /\ n < Confirm /\ n <= slowRun'  BY <1>2, <1>8, <1>10, <2>3
    <3> QED BY <1>3, <1>10, <2>1, <2>3, <3>1 DEF RunsCover, Motion
  <2> QED BY <1>1, <1>10, <2>2, <2>3 DEF Motion
<1> QED BY <1>6, <1>9, <1>10

\* The hysteresis and the runs over every step.
LEMMA RunsStep ==
    RunsCover /\ [SamplingNext]_svars =>
        /\ RunsCover'
        /\ state' # state =>
              /\ state' = "MOVING" => fastRun' = Confirm
              /\ state' = "STATIONARY" => slowRun' = Confirm
<1> SUFFICES ASSUME RunsCover, [SamplingNext]_svars
             PROVE  /\ RunsCover'
                    /\ state' # state =>
                          /\ state' = "MOVING" => fastRun' = Confirm
                          /\ state' = "STATIONARY" => slowRun' = Confirm
  OBVIOUS
<1>1. ASSUME NEW v \in Speeds, NEW place \in Places, NEW fresh \in BOOLEAN,
             AcceptFix(v, place, fresh)
      PROVE  /\ RunsCover'
             /\ state' # state =>
                   /\ state' = "MOVING" => fastRun' = Confirm
                   /\ state' = "STATIONARY" => slowRun' = Confirm
  <2>1. Hysteresis(observed(v)) /\ Count(v)  BY <1>1 DEF AcceptFix
  <2> QED BY <2>1, AcceptRuns
<1>2. CASE UNCHANGED <<state, candidate, count, fastRun, slowRun>>
  BY <1>2 DEF RunsCover
<1>3. \/ \E v \in Speeds, place \in Places, fresh \in BOOLEAN : AcceptFix(v, place, fresh)
      \/ UNCHANGED <<state, candidate, count, fastRun, slowRun>>
  BY DEF SamplingNext, RejectFix, NoFix, NotDue, PassEnds, OpenRadio, PostSent, PostFails,
         Elapse, motion, runs, svars
<1> QED BY <1>1, <1>2, <1>3

\* SwitchesConfirmed: the motion state changes only after Confirm accepted fixes
\* in a row that ask for it, for every threshold and confirmation count.
THEOREM SwitchesAreConfirmed == SamplingSpec => SwitchesConfirmed
<1>1. SamplingInit => RunsCover
  BY SamplingAssumption DEF SamplingInit, RunsCover, Motion
<1>2. RunsCover /\ [SamplingNext]_svars => RunsCover'  BY RunsStep
<1>3. RunsCover /\ [SamplingNext]_svars =>
        [state' # state => /\ state' = "MOVING" => fastRun' = Confirm
                           /\ state' = "STATIONARY" => slowRun' = Confirm]_svars
  BY RunsStep
<1> QED BY <1>1, <1>2, <1>3, PTL DEF SamplingSpec, SwitchesConfirmed

=============================================================================
