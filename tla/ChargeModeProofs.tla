-------------------------- MODULE ChargeModeProofs --------------------------
(***************************************************************************)
(* Proofs about charge-only mode: a mode is left only after a full         *)
(* debounce, and VBUS causes at most one restart per change.               *)
(***************************************************************************)
EXTENDS ChargeMode, TLAPS

Policy == [stable : BOOLEAN, cand : BOOLEAN, init : BOOLEAN, since : 0..(TimeMod - 1)]

ChargeTypeOK ==
    /\ mode \in Mode /\ policy \in Policy /\ startup \in Level /\ vbus \in Level
    /\ startedAt \in 0..(TimeMod - 1) /\ now \in 0..(TimeMod - 1)
    /\ restarts \in Nat /\ transients \in Nat /\ steady \in 0..Debounce

\* Until the debounce time is reached, the ghost and the policy's own timer
\* measure the same time; after that the timer may wrap and start again.
TimerInStep == steady < Debounce => Elapsed(now, policy.since) = steady

\* What the policy knows in each mode: nothing at boot, the one sample of
\* setup() while it waits, and the mode itself afterwards.
ModeInStep ==
    /\ mode = "boot" => policy = Fresh
    /\ mode = "debounce" =>
          /\ ~policy.stable
          /\ policy.cand <=> startup = "present"
          /\ startup # "gap" => policy.init /\ policy.since = startedAt
    /\ mode \in {"enter", "charge"} => policy.stable
    /\ mode \in {"start", "track"} => ~policy.stable

DebounceInv == ChargeTypeOK /\ TimerInStep /\ ModeInStep

\* A level of VBUS at which the firmware, left alone, restarts once more.
OwesRestart ==
    \/ mode = "debounce" /\ startup = "present" /\ vbus = "absent"
    \/ mode = "debounce" /\ startup # "present" /\ vbus = "present"
    \/ /\ mode \in {"enter", "charge"}
       /\ vbus = "absent" \/ (vbus = "gap" /\ ~policy.cand)
    \/ /\ mode \in {"start", "track"}
       /\ vbus = "present" \/ (vbus = "gap" /\ policy.cand)

\* The restarts done and the one still owed are paid for by the last change of
\* the level and by the transient zeros.
Budget ==
    /\ restarts <= 1 + transients
    /\ OwesRestart => restarts <= transients

RestartInv == DebounceInv /\ Budget

-----------------------------------------------------------------------------
(* The arithmetic of the clock.                                            *)

\* A value below the modulus is its own remainder.
LEMMA ModSmall ==
    ASSUME NEW c \in Nat \ {0}, NEW x \in Nat, x < c
    PROVE  x % c = x
  BY SMT

\* A value in the second turn comes back by one modulus.
LEMMA ModOnce ==
    ASSUME NEW c \in Nat \ {0}, NEW x \in Nat, c <= x, x < 2 * c
    PROVE  x % c = x - c
  BY SMT

\* A counter value in the first two turns wraps at most once.
LEMMA WrapOnce ==
    ASSUME NEW x \in Nat, x < 2 * TimeMod
    PROVE  x % TimeMod = IF x < TimeMod THEN x ELSE x - TimeMod
<1>0. TimeMod \in Nat \ {0}  BY ChargeAssumption
<1>1. CASE x < TimeMod  BY <1>0, <1>1, ModSmall
<1>2. CASE ~(x < TimeMod)
  <2>1. TimeMod <= x  BY <1>0, <1>2
  <2>2. x % TimeMod = x - TimeMod  BY <1>0, <2>1, ModOnce
  <2> QED BY <1>2, <2>2
<1> QED BY <1>1, <1>2

\* One tick of millis().
LEMMA TickCases ==
    ASSUME NEW t \in 0..(TimeMod - 1)
    PROVE  (t + 1) % TimeMod = IF t + 1 < TimeMod THEN t + 1 ELSE 0
<1> DEFINE y == t + 1
<1>1. y \in Nat /\ y < 2 * TimeMod /\ y <= TimeMod /\ TimeMod \in Nat
  BY ChargeAssumption
<1> HIDE DEF y
<1>2. y % TimeMod = IF y < TimeMod THEN y ELSE y - TimeMod  BY <1>1, WrapOnce
<1>3. y % TimeMod = IF y < TimeMod THEN y ELSE 0  BY <1>1, <1>2
<1> QED BY <1>3 DEF y

\* The unsigned difference of two times is the time from one to the other.
LEMMA ElapsedCases ==
    ASSUME NEW t \in 0..(TimeMod - 1), NEW s \in 0..(TimeMod - 1)
    PROVE  /\ Elapsed(t, s) = IF t >= s THEN t - s ELSE (t - s) + TimeMod
           /\ Elapsed(t, s) \in 0..(TimeMod - 1)
<1> DEFINE y == (t - s) + TimeMod
<1>1. y \in Nat /\ y < 2 * TimeMod /\ TimeMod \in Nat  BY ChargeAssumption
<1>2. y % TimeMod = IF y < TimeMod THEN y ELSE y - TimeMod
  <2> HIDE DEF y
  <2> QED BY <1>1, WrapOnce
<1>3. Elapsed(t, s) = y % TimeMod  BY DEF Elapsed
<1>4. Elapsed(t, s) = IF y < TimeMod THEN y ELSE y - TimeMod
  <2> HIDE DEF y
  <2> QED BY <1>2, <1>3
<1> QED BY <1>1, <1>4

\* A timer below the last value of the counter advances with the clock.
LEMMA ElapsedTick ==
    ASSUME NEW t \in 0..(TimeMod - 1), NEW s \in 0..(TimeMod - 1),
           Elapsed(t, s) + 1 < TimeMod
    PROVE  /\ (t + 1) % TimeMod \in 0..(TimeMod - 1)
           /\ Elapsed((t + 1) % TimeMod, s) = Elapsed(t, s) + 1
<1> DEFINE u == (t + 1) % TimeMod
<1>1. u = IF t + 1 < TimeMod THEN t + 1 ELSE 0  BY TickCases
<1>2. u \in 0..(TimeMod - 1) /\ TimeMod \in Nat
  <2> HIDE DEF u
  <2> QED BY <1>1, ChargeAssumption
<1>3. Elapsed(t, s) = IF t >= s THEN t - s ELSE (t - s) + TimeMod  BY ElapsedCases
<1> HIDE DEF u
<1>4. Elapsed(u, s) = IF u >= s THEN u - s ELSE (u - s) + TimeMod
  BY <1>2, ElapsedCases
<1>5. Elapsed(u, s) = Elapsed(t, s) + 1
  BY <1>1, <1>2, <1>3, <1>4
<1> QED BY <1>2, <1>5 DEF u

-----------------------------------------------------------------------------
(* update().                                                               *)

\* A reading that contradicts the candidate becomes the candidate and restarts
\* the timer, so it never changes the stable state by itself.
LEMMA UpdateContradicted ==
    ASSUME NEW p \in Policy, NEW t \in 0..(TimeMod - 1), NEW v \in Level,
           Contradicts(p, v)
    PROVE  /\ update(p, t, v) \in Policy
           /\ update(p, t, v).cand = (v = "present")
           /\ update(p, t, v).init = TRUE
           /\ update(p, t, v).since = t
           /\ update(p, t, v).stable = p.stable
<1> DEFINE b == (v = "present")
           q == Candidate(p, t, v)
           r == update(p, t, v)
<1>0. b \in BOOLEAN  OBVIOUS
<1>1. r = IF Elapsed(t, q.since) >= Debounce THEN [q EXCEPT !.stable = q.cand] ELSE q
  BY DEF update
<1>2. q = [p EXCEPT !.cand = b, !.since = t, !.init = TRUE]  BY DEF Candidate
<1> HIDE DEF b
<1>3. /\ q \in Policy /\ q.cand = b /\ q.since = t /\ q.init = TRUE
      /\ q.stable = p.stable
  <2> HIDE DEF q
  <2> QED BY <1>0, <1>2, Zenon DEF Policy
<1>4. Elapsed(t, t) = 0
  <2>1. Elapsed(t, t) = t - t  BY ElapsedCases, ChargeAssumption
  <2> QED BY <2>1, ChargeAssumption
<1>5. ~(Elapsed(t, q.since) >= Debounce)  BY <1>3, <1>4, ChargeAssumption
<1>6. r = q
  <2> HIDE DEF q, r
  <2> QED BY <1>1, <1>5
<1> HIDE DEF q, r
<1>7. r \in Policy /\ r.cand = b /\ r.init = TRUE /\ r.since = t /\ r.stable = p.stable
  BY <1>3, <1>6
<1> QED BY <1>7, Zenon DEF r, b

\* A reading that agrees, or that lies in the gap, lets the timer run: once it
\* has run out the candidate becomes the stable state.
LEMMA UpdateAgreed ==
    ASSUME NEW p \in Policy, NEW t \in 0..(TimeMod - 1), NEW v \in Level,
           ~Contradicts(p, v)
    PROVE  /\ update(p, t, v) \in Policy
           /\ update(p, t, v).cand = p.cand
           /\ update(p, t, v).init = p.init
           /\ update(p, t, v).since = p.since
           /\ Elapsed(t, p.since) >= Debounce => update(p, t, v).stable = p.cand
           /\ ~(Elapsed(t, p.since) >= Debounce) => update(p, t, v).stable = p.stable
<1> DEFINE r == update(p, t, v)
<1>1. r = IF Elapsed(t, p.since) >= Debounce THEN [p EXCEPT !.stable = p.cand] ELSE p
  BY DEF update, Candidate
<1> HIDE DEF r
<1>2. CASE Elapsed(t, p.since) >= Debounce
  <2>1. r = [p EXCEPT !.stable = p.cand]  BY <1>1, <1>2
  <2>2. /\ r \in Policy /\ r.cand = p.cand /\ r.init = p.init /\ r.since = p.since
        /\ r.stable = p.cand
    BY <2>1, Zenon DEF Policy
  <2> QED BY <1>2, <2>2, Zenon DEF r
<1>3. CASE ~(Elapsed(t, p.since) >= Debounce)
  <2>1. r = p  BY <1>1, <1>3
  <2> QED BY <1>3, <2>1, Zenon DEF r
<1> QED BY <1>2, <1>3

\* update() keeps the type of the policy's fields.
LEMMA UpdateType ==
    ASSUME NEW p \in Policy, NEW t \in 0..(TimeMod - 1), NEW v \in Level
    PROVE  update(p, t, v) \in Policy
  BY UpdateContradicted, UpdateAgreed, Zenon

\* A call of update() keeps the ghost and the timer together.
LEMMA ObserveKeeps ==
    ASSUME ChargeTypeOK, TimerInStep, NEW v \in Level,
           policy' = update(policy, now, v), now' = now,
           steady' = IF Contradicts(policy, v) THEN 0 ELSE steady
    PROVE  policy' \in Policy /\ steady' \in 0..Debounce /\ TimerInStep'
<1>0. /\ policy \in Policy /\ now \in 0..(TimeMod - 1) /\ steady \in 0..Debounce
      /\ Debounce \in Nat /\ TimeMod \in Nat
  BY ChargeAssumption DEF ChargeTypeOK
<1>1. policy' \in Policy  BY <1>0, UpdateType
<1>2. CASE Contradicts(policy, v)
  <2>1. policy'.since = now /\ steady' = 0  BY <1>0, <1>2, UpdateContradicted, ZenonT(30)
  <2>2. Elapsed(now, now) = 0
    <3>1. Elapsed(now, now) = now - now  BY <1>0, ElapsedCases
    <3> QED BY <3>1, <1>0
  <2> QED BY <1>0, <1>1, <2>1, <2>2 DEF TimerInStep
<1>3. CASE ~Contradicts(policy, v)
  <2>1. policy'.since = policy.since /\ steady' = steady  BY <1>0, <1>3, UpdateAgreed, ZenonT(30)
  <2> QED BY <1>0, <1>1, <2>1 DEF TimerInStep
<1> QED BY <1>2, <1>3

-----------------------------------------------------------------------------
(* The steps.                                                              *)

\* ESP.restart() forgets the policy, its timer and the clock together.
LEMMA ResetKeeps ==
    ASSUME Reset, vbus' \in Level, restarts' \in Nat, transients' \in Nat
    PROVE  DebounceInv' /\ ~OwesRestart'
<1>1. /\ mode' = "boot" /\ policy' = Fresh /\ startup' = "absent" /\ startedAt' = 0
      /\ now' = 0 /\ steady' = 0
  BY DEF Reset
<1>2. Fresh \in Policy /\ Fresh.since = 0 /\ 0 \in 0..(TimeMod - 1) /\ Debounce \in Nat
      /\ TimeMod \in Nat /\ 0 \in 0..Debounce
  BY ChargeAssumption DEF Fresh, Policy
<1>3. ChargeTypeOK'
  BY <1>1, <1>2 DEF ChargeTypeOK, Mode, Level
<1>4. TimerInStep'
  <2>1. Elapsed(0, 0) = 0
    <3>1. Elapsed(0, 0) = 0 - 0  BY <1>2, ElapsedCases
    <3> QED BY <3>1
  <2> QED BY <1>1, <1>2, <2>1 DEF TimerInStep
<1>5. ModeInStep' /\ ~OwesRestart'
  BY <1>1 DEF ModeInStep, OwesRestart
<1> QED BY <1>3, <1>4, <1>5 DEF DebounceInv

\* The first boot.
LEMMA RestartInit == ChargeInit => RestartInv
<1> SUFFICES ASSUME ChargeInit PROVE RestartInv  OBVIOUS
<1>1. /\ mode = "boot" /\ policy = Fresh /\ startup = "absent" /\ startedAt = 0
      /\ now = 0 /\ steady = 0 /\ vbus \in Level /\ restarts = 0 /\ transients = 0
  BY DEF ChargeInit
<1>2. Fresh \in Policy /\ Fresh.since = 0 /\ 0 \in 0..(TimeMod - 1) /\ Debounce \in Nat
      /\ TimeMod \in Nat /\ 0 \in 0..Debounce
  BY ChargeAssumption DEF Fresh, Policy
<1>3. ChargeTypeOK
  BY <1>1, <1>2 DEF ChargeTypeOK, Mode, Level
<1>4. TimerInStep
  <2>1. Elapsed(0, 0) = 0
    <3>1. Elapsed(0, 0) = 0 - 0  BY <1>2, ElapsedCases
    <3> QED BY <3>1
  <2> QED BY <1>1, <1>2, <2>1 DEF TimerInStep
<1>5. ModeInStep /\ ~OwesRestart
  BY <1>1 DEF ModeInStep, OwesRestart
<1> QED BY <1>1, <1>3, <1>4, <1>5 DEF RestartInv, DebounceInv, Budget

\* The budget after a step that restarts nothing.
LEMMA BudgetKept ==
    ASSUME RestartInv, restarts' = restarts, transients' \in Nat,
           \/ transients' = transients /\ (OwesRestart' => OwesRestart)
           \/ transients' = transients + 1
    PROVE  Budget'
<1>1. restarts \in Nat /\ transients \in Nat  BY DEF RestartInv, DebounceInv, ChargeTypeOK
<1>2. restarts <= 1 + transients /\ (OwesRestart => restarts <= transients)
  BY DEF RestartInv, Budget
<1>3. restarts' <= 1 + transients'
  <2>1. transients' = transients \/ transients' = transients + 1  OBVIOUS
  <2>2. restarts <= 1 + transients  BY <1>2
  <2>3. CASE transients' = transients  BY <2>2, <2>3
  <2>4. CASE transients' = transients + 1
    <3>1. restarts <= 1 + (transients + 1)  BY <1>1, <2>2
    <3> QED BY <2>4, <3>1
  <2> QED BY <2>1, <2>3, <2>4
<1>4. OwesRestart' => restarts' <= transients'
  <2>1. CASE transients' = transients + 1
    <3>1. restarts' <= transients'  BY <1>1, <1>2, <2>1
    <3> QED BY <3>1
  <2>2. CASE transients' = transients /\ (OwesRestart' => OwesRestart)
    BY <1>2, <2>2
  <2> QED BY <2>1, <2>2
<1> QED BY <1>3, <1>4 DEF Budget

\* setup() samples VBUS: only a transient zero can make it misjudge the level.
LEMMA BootSampleKeeps == ASSUME RestartInv, BootSample PROVE RestartInv'
<1>0. ChargeTypeOK /\ TimerInStep /\ ModeInStep  BY DEF RestartInv, DebounceInv
<1>1. /\ policy = Fresh /\ startup' \in Level /\ startedAt' = now /\ mode' = "debounce"
      /\ now' = now /\ vbus' = vbus /\ restarts' = restarts /\ transients' \in Nat
      /\ policy' = update(policy, now, startup')
      /\ steady' = IF Contradicts(policy, startup') THEN 0 ELSE steady
  BY <1>0 DEF BootSample, Observe, ModeInStep, ChargeTypeOK, Level
<1>2. policy' \in Policy /\ steady' \in 0..Debounce /\ TimerInStep'
  BY <1>0, <1>1, ObserveKeeps
<1>3. ChargeTypeOK'
  BY <1>0, <1>1, <1>2 DEF ChargeTypeOK, Mode
<1>4. /\ ~policy'.stable /\ (policy'.cand <=> startup' = "present")
      /\ startup' # "gap" => policy'.init /\ policy'.since = startedAt'
  <2>1. policy.stable = FALSE /\ policy.cand = FALSE /\ policy.init = FALSE
    BY <1>1 DEF Fresh
  <2>2. policy \in Policy /\ now \in 0..(TimeMod - 1)  BY <1>0 DEF ChargeTypeOK
  <2>3. CASE startup' = "gap"
    <3>1. ~Contradicts(policy, startup')  BY <2>3 DEF Contradicts
    <3>2. policy'.cand = policy.cand /\ (policy'.stable = policy.cand \/ policy'.stable = policy.stable)
      BY <1>1, <2>2, <3>1, UpdateAgreed, ZenonT(30)
    <3> QED BY <2>1, <2>3, <3>2
  <2>4. CASE startup' # "gap"
    <3>1. Contradicts(policy, startup')  BY <2>1, <2>4 DEF Contradicts
    <3> DEFINE v == startup'
    <3>2. v \in Level /\ Contradicts(policy, v) /\ policy' = update(policy, now, v)
      BY <1>1, <3>1
    <3> HIDE DEF v
    <3>3. /\ policy'.cand = (v = "present") /\ policy'.init = TRUE
          /\ policy'.since = now /\ policy'.stable = policy.stable
      BY <2>2, <3>2, UpdateContradicted, ZenonT(30)
    <3> QED BY <1>1, <2>1, <2>4, <3>3 DEF v
  <2> QED BY <2>3, <2>4
<1>5. ModeInStep'  BY <1>1, <1>4 DEF ModeInStep
<1>6. \/ transients' = transients /\ (OwesRestart' => OwesRestart)
      \/ transients' = transients + 1
  BY <1>1 DEF BootSample, OwesRestart
<1>7. Budget'  BY <1>1, <1>6, BudgetKept
<1> QED BY <1>2, <1>3, <1>5, <1>7 DEF RestartInv, DebounceInv

\* setup() decides from the sample it took, which has then been stable for the
\* whole debounce time.
LEMMA BootDecideKeeps == ASSUME RestartInv, BootDecide PROVE RestartInv'
<1>0. ChargeTypeOK /\ TimerInStep /\ ModeInStep  BY DEF RestartInv, DebounceInv
<1>1. /\ mode = "debounce" /\ Elapsed(now, startedAt) >= Debounce
      /\ startup' = startup /\ startedAt' = now /\ now' = now /\ vbus' = vbus
      /\ restarts' = restarts /\ transients' = transients
      /\ policy' = update(policy, now, startup)
      /\ mode' = IF policy'.stable THEN "enter" ELSE "start"
      /\ steady' = IF Contradicts(policy, startup) THEN 0 ELSE steady
  BY DEF BootDecide, Observe
<1>2. policy' \in Policy /\ steady' \in 0..Debounce /\ TimerInStep'
  BY <1>0, <1>1, ObserveKeeps DEF ChargeTypeOK
<1>3. ChargeTypeOK'
  BY <1>0, <1>1, <1>2 DEF ChargeTypeOK, Mode
<1>4. ModeInStep'  BY <1>1 DEF ModeInStep
<1>5. /\ policy'.cand = policy.cand /\ (policy'.stable <=> startup = "present")
      /\ policy.cand <=> startup = "present"
  <2>1. /\ ~policy.stable /\ (policy.cand <=> startup = "present")
        /\ startup # "gap" => policy.init /\ policy.since = startedAt
    BY <1>0, <1>1 DEF ModeInStep
  <2>2. policy \in Policy /\ now \in 0..(TimeMod - 1) /\ startup \in Level
    BY <1>0 DEF ChargeTypeOK
  <2>3. policy.cand \in BOOLEAN /\ policy.init \in BOOLEAN /\ policy.stable \in BOOLEAN
    BY <2>2 DEF Policy
  <2>4. ~Contradicts(policy, startup)
    BY <2>1, <2>3 DEF Contradicts
  <2>5. /\ policy'.cand = policy.cand
        /\ Elapsed(now, policy.since) >= Debounce => policy'.stable = policy.cand
        /\ ~(Elapsed(now, policy.since) >= Debounce) => policy'.stable = policy.stable
    BY <1>1, <2>2, <2>4, UpdateAgreed, ZenonT(30)
  <2>6. CASE startup = "gap"  BY <2>1, <2>3, <2>5, <2>6
  <2>7. CASE startup # "gap"
    <3>1. Elapsed(now, policy.since) >= Debounce  BY <1>1, <2>1, <2>7
    <3> QED BY <2>1, <2>3, <2>5, <3>1
  <2> QED BY <2>6, <2>7
<1>6. OwesRestart' => OwesRestart
  BY <1>1, <1>5 DEF OwesRestart
<1>7. Budget'  BY <1>0, <1>1, <1>6, BudgetKept DEF ChargeTypeOK
<1> QED BY <1>2, <1>3, <1>4, <1>7 DEF RestartInv, DebounceInv

\* A poll or a pass that stays in its mode: reading the level can only bring
\* the candidate closer to it.
LEMMA StayKeeps ==
    ASSUME RestartInv, mode \in {"charge", "track"},
           policy' = update(policy, now, vbus), policy'.stable = policy.stable,
           Observe(vbus), startedAt' \in {startedAt, now},
           UNCHANGED <<mode, startup, now, vbus, transients, restarts>>
    PROVE  RestartInv'
<1>0. ChargeTypeOK /\ TimerInStep /\ ModeInStep  BY DEF RestartInv, DebounceInv
<1>1. steady' = IF Contradicts(policy, vbus) THEN 0 ELSE steady  BY DEF Observe
<1>2. policy' \in Policy /\ steady' \in 0..Debounce /\ TimerInStep'
  BY <1>0, <1>1, ObserveKeeps DEF ChargeTypeOK
<1>3. ChargeTypeOK'  BY <1>0, <1>2 DEF ChargeTypeOK
<1>4. ModeInStep'  BY <1>0 DEF ModeInStep
<1>5. vbus = "gap" => policy'.cand = policy.cand
  <2> SUFFICES ASSUME vbus = "gap" PROVE policy'.cand = policy.cand  OBVIOUS
  <2>1. ~Contradicts(policy, vbus)  BY DEF Contradicts
  <2>2. policy \in Policy /\ now \in 0..(TimeMod - 1) /\ vbus \in Level
    BY <1>0 DEF ChargeTypeOK
  <2> QED BY <2>1, <2>2, UpdateAgreed, ZenonT(30)
<1>6. OwesRestart' => OwesRestart
  BY <1>5 DEF OwesRestart
<1>7. Budget'  BY <1>0, <1>6, BudgetKept DEF ChargeTypeOK
<1> QED BY <1>2, <1>3, <1>4, <1>7 DEF RestartInv, DebounceInv

\* A mode is left only when the timer of a settled candidate has run out.
LEMMA LeavingIsSettled ==
    ASSUME RestartInv, mode \in {"charge", "track"},
           update(policy, now, vbus).stable # policy.stable
    PROVE  OwesRestart /\ steady >= Debounce
<1>0. ChargeTypeOK /\ TimerInStep /\ ModeInStep  BY DEF RestartInv, DebounceInv
<1>1. /\ policy \in Policy /\ now \in 0..(TimeMod - 1) /\ vbus \in Level
      /\ steady \in Nat /\ Debounce \in Nat
  BY <1>0, ChargeAssumption DEF ChargeTypeOK
<1>2. ~Contradicts(policy, vbus)
  BY <1>1, UpdateContradicted, ZenonT(30)
<1>3. Elapsed(now, policy.since) >= Debounce /\ policy.cand # policy.stable
  BY <1>1, <1>2, UpdateAgreed, ZenonT(30)
<1>4. steady >= Debounce
  <2> SUFFICES ASSUME steady < Debounce PROVE FALSE  BY <1>1
  <2>1. Elapsed(now, policy.since) = steady  BY <1>0 DEF TimerInStep
  <2> QED BY <1>1, <1>3, <2>1
<1>5. policy.cand \in BOOLEAN /\ policy.init \in BOOLEAN /\ policy.stable \in BOOLEAN
  BY <1>1 DEF Policy
<1>6. vbus # "gap" => policy.cand = (vbus = "present")
  BY <1>2, <1>5 DEF Contradicts
<1>7. OwesRestart
  <2>1. CASE mode = "charge"
    <3>1. policy.stable /\ ~policy.cand  BY <1>0, <1>3, <1>5, <2>1 DEF ModeInStep
    <3>2. vbus = "absent" \/ vbus = "gap"  BY <1>1, <1>6, <3>1 DEF Level
    <3> QED BY <2>1, <3>1, <3>2 DEF OwesRestart
  <2>2. CASE mode = "track"
    <3>1. ~policy.stable /\ policy.cand  BY <1>0, <1>3, <1>5, <2>2 DEF ModeInStep
    <3>2. vbus = "present" \/ vbus = "gap"  BY <1>1, <1>6, <3>1 DEF Level
    <3> QED BY <2>2, <3>1, <3>2 DEF OwesRestart
  <2> QED BY <2>1, <2>2
<1> QED BY <1>4, <1>7

\* A restart pays the one that was owed.
LEMMA LeaveKeeps ==
    ASSUME RestartInv, OwesRestart, Restart
    PROVE  RestartInv'
<1>0. /\ vbus \in Level /\ restarts \in Nat /\ transients \in Nat
  BY DEF RestartInv, DebounceInv, ChargeTypeOK
<1>1. /\ Reset /\ vbus' = vbus /\ transients' = transients
      /\ restarts' \in Nat /\ restarts' <= restarts + 1
  BY <1>0 DEF Restart
<1>2. DebounceInv' /\ ~OwesRestart'  BY <1>0, <1>1, ResetKeeps
<1>3. restarts <= transients  BY DEF RestartInv, Budget
<1>4. restarts' <= 1 + transients'  BY <1>0, <1>1, <1>3
<1>5. Budget'  BY <1>0, <1>1, <1>2, <1>4 DEF Budget
<1> QED BY <1>2, <1>5 DEF RestartInv

\* Time passes: below the debounce time the timer advances with the ghost.
LEMMA ElapseKeeps == ASSUME RestartInv, Elapse PROVE RestartInv'
<1>0. ChargeTypeOK /\ TimerInStep /\ ModeInStep  BY DEF RestartInv, DebounceInv
<1>1. /\ now' = (now + 1) % TimeMod
      /\ steady' = IF steady < Debounce THEN steady + 1 ELSE steady
      /\ UNCHANGED <<mode, policy, startup, startedAt, vbus, transients, restarts>>
  BY DEF Elapse
<1>2. /\ now \in 0..(TimeMod - 1) /\ steady \in 0..Debounce /\ Debounce \in Nat
      /\ policy.since \in 0..(TimeMod - 1) /\ TimeMod \in Nat /\ Debounce + 1 < TimeMod
  BY <1>0, ChargeAssumption DEF ChargeTypeOK, Policy
<1>3. now' \in 0..(TimeMod - 1)
  <2>1. now' = IF now + 1 < TimeMod THEN now + 1 ELSE 0  BY <1>1, <1>2, TickCases
  <2> QED BY <1>2, <2>1
<1>4. steady' \in 0..Debounce  BY <1>1, <1>2
<1>5. ChargeTypeOK'  BY <1>0, <1>1, <1>3, <1>4 DEF ChargeTypeOK
<1>6. TimerInStep'
  <2> SUFFICES ASSUME steady' < Debounce PROVE Elapsed(now', policy.since) = steady'
    BY <1>1 DEF TimerInStep
  <2>1. steady < Debounce /\ steady' = steady + 1  BY <1>1, <1>2
  <2>2. Elapsed(now, policy.since) = steady  BY <1>0, <2>1 DEF TimerInStep
  <2>3. Elapsed(now, policy.since) + 1 < TimeMod  BY <1>2, <2>1, <2>2
  <2>4. Elapsed((now + 1) % TimeMod, policy.since) = Elapsed(now, policy.since) + 1
    BY <1>2, <2>3, ElapsedTick
  <2> QED BY <1>1, <2>1, <2>2, <2>4
<1>7. ModeInStep'  BY <1>0, <1>1 DEF ModeInStep
<1>8. OwesRestart' => OwesRestart  BY <1>1 DEF OwesRestart
<1>9. Budget'  BY <1>0, <1>1, <1>8, BudgetKept DEF ChargeTypeOK
<1> QED BY <1>5, <1>6, <1>7, <1>9 DEF RestartInv, DebounceInv

\* Every step keeps the invariant, one case per action.
LEMMA RestartStep == RestartInv /\ [ChargeNext]_gvars => RestartInv'
<1> SUFFICES ASSUME RestartInv, [ChargeNext]_gvars PROVE RestartInv'
  OBVIOUS
<1>0. /\ DebounceInv /\ ChargeTypeOK /\ TimerInStep /\ ModeInStep
      /\ vbus \in Level /\ restarts \in Nat /\ transients \in Nat
      /\ now \in 0..(TimeMod - 1) /\ policy \in Policy
  BY DEF RestartInv, DebounceInv, ChargeTypeOK
<1>u. update(policy, now, vbus).stable \in BOOLEAN /\ policy.stable \in BOOLEAN
  <2>1. update(policy, now, vbus) \in Policy  BY <1>0, UpdateType
  <2> QED BY <1>0, <2>1 DEF Policy
<1>1. CASE BootSample  BY <1>1, BootSampleKeeps
<1>2. CASE BootDecide  BY <1>2, BootDecideKeeps
<1>3. CASE BringUp
  <2>1. ChargeTypeOK'  BY <1>0, <1>3 DEF BringUp, ChargeTypeOK, Mode
  <2>2. TimerInStep' /\ ModeInStep'  BY <1>0, <1>3 DEF BringUp, TimerInStep, ModeInStep
  <2>3. OwesRestart' => OwesRestart  BY <1>3 DEF BringUp, OwesRestart
  <2>4. Budget'  BY <1>0, <1>3, <2>3, BudgetKept DEF BringUp
  <2> QED BY <2>1, <2>2, <2>4 DEF RestartInv, DebounceInv
<1>4. CASE BringUpFails
  <2>1. Reset /\ UNCHANGED <<vbus, transients, restarts>>  BY <1>4 DEF BringUpFails
  <2>2. DebounceInv' /\ ~OwesRestart'  BY <1>0, <2>1, ResetKeeps
  <2>3. Budget'  BY <1>0, <2>1, <2>2, BudgetKept
  <2> QED BY <2>2, <2>3 DEF RestartInv
<1>5. CASE ChargePollStays
  <2>1. policy.stable  BY <1>0, <1>5 DEF ChargePollStays, ModeInStep
  <2>2. policy'.stable = policy.stable  BY <1>u, <1>5, <2>1 DEF ChargePollStays
  <2> QED BY <1>5, <2>2, StayKeeps DEF ChargePollStays
<1>6. CASE ChargePollLeaves
  <2>1. policy.stable  BY <1>0, <1>6 DEF ChargePollLeaves, ModeInStep
  <2>2. update(policy, now, vbus).stable # policy.stable
    BY <1>u, <1>6, <2>1 DEF ChargePollLeaves
  <2>3. OwesRestart  BY <1>6, <2>2, LeavingIsSettled DEF ChargePollLeaves
  <2> QED BY <1>6, <2>3, LeaveKeeps DEF ChargePollLeaves
<1>7. CASE TrackPass
  <2>1. ~policy.stable  BY <1>0, <1>7 DEF TrackPass, ModeInStep
  <2>2. policy'.stable = policy.stable  BY <1>u, <1>7, <2>1 DEF TrackPass
  <2> QED BY <1>7, <2>2, StayKeeps DEF TrackPass
<1>8. CASE TrackLeaves
  <2>1. ~policy.stable  BY <1>0, <1>8 DEF TrackLeaves, ModeInStep
  <2>2. update(policy, now, vbus).stable # policy.stable
    BY <1>u, <1>8, <2>1 DEF TrackLeaves
  <2>3. OwesRestart  BY <1>8, <2>2, LeavingIsSettled DEF TrackLeaves
  <2> QED BY <1>8, <2>3, LeaveKeeps DEF TrackLeaves
<1>9. CASE Elapse  BY <1>9, ElapseKeeps
<1>10. CASE VbusChanges
  <2>1. ChargeTypeOK'  BY <1>0, <1>10 DEF VbusChanges, ChargeTypeOK
  <2>2. TimerInStep' /\ ModeInStep'  BY <1>0, <1>10 DEF VbusChanges, TimerInStep, ModeInStep
  <2>3. restarts' = 0 /\ transients' = transients  BY <1>10 DEF VbusChanges
  <2>5. Budget'  BY <1>0, <2>3 DEF Budget
  <2> QED BY <2>1, <2>2, <2>5 DEF RestartInv, DebounceInv
<1>11. CASE UNCHANGED gvars
  BY <1>11 DEF gvars, RestartInv, DebounceInv, ChargeTypeOK, TimerInStep, ModeInStep,
     Budget, OwesRestart
<1> QED BY <1>1, <1>2, <1>3, <1>4, <1>5, <1>6, <1>7, <1>8, <1>9, <1>10, <1>11
        DEF ChargeNext, Firmware

\* In every behaviour the policy, its timer and the restarts stay in step.
LEMMA RestartInvariance == ChargeSpec => []RestartInv
  BY RestartInit, RestartStep, PTL DEF ChargeSpec

-----------------------------------------------------------------------------
(* The theorems.                                                           *)

\* iot/README.md, "exactly one restart": for every debounce time, poll interval
\* and clock, VBUS makes the firmware restart at most once after its last
\* change, plus once for each transient zero setup() fell for.
THEOREM RestartsArePaidFor == ChargeSpec => []OneRestartPerChange
<1>1. RestartInv => OneRestartPerChange
  BY DEF RestartInv, Budget, OneRestartPerChange
<1> QED BY <1>1, RestartInvariance, PTL

\* update(): charge-only mode and tracking are left only when no reading
\* contradicted the new state for the whole debounce time, for every width of
\* millis() that exceeds the debounce time.
THEOREM NoHastyRestart == ChargeSpec => LeavesDebounced
<1>1. RestartInv /\ [ChargeNext]_gvars =>
        [(mode \in {"charge", "track"} /\ mode' = "boot") => steady >= Debounce]_gvars
  <2> SUFFICES ASSUME RestartInv, ChargeNext, mode \in {"charge", "track"}, mode' = "boot"
               PROVE  steady >= Debounce
    BY DEF gvars
  <2>0. /\ ModeInStep /\ vbus \in Level /\ now \in 0..(TimeMod - 1) /\ policy \in Policy
    BY DEF RestartInv, DebounceInv, ChargeTypeOK
  <2>u. update(policy, now, vbus).stable \in BOOLEAN /\ policy.stable \in BOOLEAN
    <3>1. update(policy, now, vbus) \in Policy  BY <2>0, UpdateType
    <3> QED BY <2>0, <3>1 DEF Policy
  <2>1. ChargePollLeaves \/ TrackLeaves
    BY DEF ChargeNext, Firmware, BootSample, BootDecide, BringUp, BringUpFails,
       ChargePollStays, TrackPass, Elapse, VbusChanges
  <2>2. update(policy, now, vbus).stable # policy.stable
    BY <2>0, <2>u, <2>1 DEF ChargePollLeaves, TrackLeaves, ModeInStep
  <2> QED BY <2>2, LeavingIsSettled
<1> QED BY <1>1, RestartInvariance, PTL DEF ChargeSpec, LeavesDebounced

=============================================================================
