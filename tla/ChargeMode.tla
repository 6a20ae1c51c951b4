----------------------------- MODULE ChargeMode -----------------------------
(***************************************************************************)
(* USB-C charge-only mode of the tracker: ChargeModePolicy                 *)
(* (iot/lib/charge_mode) and its three callers in iot/src/main.cpp: the    *)
(* decision setup() takes at boot, the poll of runChargeOnlyMode(), and    *)
(* the check at the top of loop().  Both modes are left only by            *)
(* ESP.restart(), which loses the policy's state.                          *)
(*                                                                         *)
(* A reading of VBUS is one of three levels: at most the absent threshold, *)
(* at least the present threshold, or in the hysteresis gap between them.  *)
(***************************************************************************)
EXTENDS Integers

CONSTANTS
    Debounce,      \* VBUS_STATE_DEBOUNCE_MS
    Poll,          \* CHARGE_MODE_POLL_MS
    TimeMod,       \* millis() counts modulo this
    MaxStall,      \* the longest time between two calls of update()
    MaxChanges,    \* bound: times the cable is plugged, unplugged or wobbles
    MaxTransients, \* bound: boots at which the PMU still reads zero
    MaxFaults      \* bound: hardware bring-ups that fail

ASSUME ChargeAssumption ==
    /\ Debounce \in Nat \ {0} /\ Poll \in Nat \ {0}
    /\ MaxChanges \in Nat /\ MaxTransients \in Nat /\ MaxFaults \in Nat
    /\ MaxStall \in Nat /\ MaxStall >= Poll /\ MaxStall >= Debounce
    /\ TimeMod \in Nat /\ TimeMod > Debounce + 2 * MaxStall

VARIABLES
    mode,        \* where the firmware is, see Mode
    policy,      \* the fields of ChargeModePolicy
    startup,     \* startupVbusMv
    startedAt,   \* decisionStarted, and then nextPollMs
    now,         \* millis()
    vbus,        \* the real level of VBUS
    changes,     \* ghost: changes of vbus so far
    transients,  \* ghost: transient zeros so far
    faults,      \* ghost: failed bring-ups so far
    restarts,    \* ghost: restarts VBUS caused since it changed last
    stall,       \* ghost: time since the last call of update() or change of mode
    steady       \* ghost: time since a reading contradicted the candidate

gvars == <<mode, policy, startup, startedAt, now, vbus, changes, transients,
           faults, restarts, stall, steady>>

\* setup() before its first sample, while it waits, and while it brings one of
\* the two modes up; charge-only mode; the loop of the tracker.
Mode == {"boot", "debounce", "enter", "start", "charge", "track"}
Level == {"absent", "gap", "present"}
Fresh == [stable |-> FALSE, cand |-> FALSE, init |-> FALSE, since |-> 0]

Elapsed(t, from) == (t - from + TimeMod) % TimeMod

-----------------------------------------------------------------------------
(* ChargeModePolicy::update(nowMs, vbusMv).                                *)

Contradicts(p, v) == v # "gap" /\ (~p.init \/ p.cand # (v = "present"))

Candidate(p, t, v) ==
    IF Contradicts(p, v)
    THEN [p EXCEPT !.cand = (v = "present"), !.since = t, !.init = TRUE]
    ELSE p

\* Mutant of update: a contradicting reading does not restart the timer.
UpdateKeepsTimer(p, t, v) ==
    LET q == [Candidate(p, t, v) EXCEPT !.since = IF p.init THEN p.since ELSE t]
    IN  IF Elapsed(t, q.since) >= Debounce THEN [q EXCEPT !.stable = q.cand] ELSE q

update(p, t, v) ==
    LET q == Candidate(p, t, v)
    IN  IF Elapsed(t, q.since) >= Debounce THEN [q EXCEPT !.stable = q.cand] ELSE q

\* The ghost that goes with a call of update().
Observe(v) ==
    /\ steady' = IF Contradicts(policy, v) THEN 0 ELSE steady
    /\ stall' = 0

-----------------------------------------------------------------------------
(* ESP.restart(): RAM and millis() start again.                            *)

Reset ==
    /\ mode' = "boot" /\ policy' = Fresh
    /\ startup' = "absent" /\ startedAt' = 0 /\ now' = 0
    /\ stall' = 0 /\ steady' = 0

Restart ==
    /\ Reset
    /\ restarts' = IF restarts < 3 THEN restarts + 1 ELSE restarts
    /\ UNCHANGED <<vbus, changes, transients, faults>>

\* setup(): the first sample is kept for the whole decision.  The PMU may still
\* read zero right after its begin().
BootSample ==
    /\ mode = "boot"
    /\ \/ startup' = vbus /\ UNCHANGED transients
       \/ /\ transients < MaxTransients
          /\ startup' = "absent" /\ transients' = transients + 1
    /\ policy' = update(policy, now, startup')
    /\ Observe(startup')
    /\ startedAt' = now
    /\ mode' = "debounce"
    /\ UNCHANGED <<now, vbus, changes, faults, restarts>>

\* Mutant of BootDecide: the decision is taken from the debounced state of the
\* first update alone, so a cable that is there is never seen at boot.
BootIgnoresVbus ==
    /\ mode = "debounce" /\ Elapsed(now, startedAt) >= Debounce
    /\ mode' = IF policy.stable THEN "enter" ELSE "start"
    /\ Observe(startup)
    /\ startedAt' = now
    /\ UNCHANGED <<policy, startup, now, vbus, changes, transients, faults, restarts>>

\* setup(): the same sample again, after the debounce time.
BootDecide ==
    /\ mode = "debounce" /\ Elapsed(now, startedAt) >= Debounce
    /\ policy' = update(policy, now, startup)
    /\ Observe(startup)
    /\ mode' = IF policy'.stable THEN "enter" ELSE "start"
    /\ startedAt' = now
    /\ UNCHANGED <<startup, now, vbus, changes, transients, faults, restarts>>

\* enterChargeOnlyPowerState(), nextPollMs = millis(); or beginTrackerHardware().
BringUp ==
    /\ \/ mode = "enter" /\ mode' = "charge"
       \/ mode = "start" /\ mode' = "track"
    /\ startedAt' = now /\ stall' = 0
    /\ UNCHANGED <<policy, startup, now, vbus, changes, transients, faults, restarts,
                   steady>>

\* Either of them fails: ESP.restart().
BringUpFails ==
    /\ mode \in {"enter", "start"} /\ faults < MaxFaults
    /\ Reset
    /\ faults' = faults + 1
    /\ UNCHANGED <<vbus, changes, transients, restarts>>

\* runChargeOnlyMode(): one poll.
ChargePollStays ==
    /\ mode = "charge" /\ Elapsed(now, startedAt) >= Poll
    /\ update(policy, now, vbus).stable
    /\ policy' = update(policy, now, vbus)
    /\ Observe(vbus)
    /\ startedAt' = now
    /\ UNCHANGED <<mode, startup, now, vbus, changes, transients, faults, restarts>>

ChargePollLeaves ==
    /\ mode = "charge" /\ Elapsed(now, startedAt) >= Poll
    /\ ~update(policy, now, vbus).stable
    /\ Restart

\* loop(): the check at the top of every pass.
TrackPass ==
    /\ mode = "track"
    /\ ~update(policy, now, vbus).stable
    /\ policy' = update(policy, now, vbus)
    /\ Observe(vbus)
    /\ UNCHANGED <<mode, startup, startedAt, now, vbus, changes, transients,
                   faults, restarts>>

TrackLeaves ==
    /\ mode = "track"
    /\ update(policy, now, vbus).stable
    /\ Restart

-----------------------------------------------------------------------------
(* The environment.                                                        *)

Elapse ==
    /\ stall < MaxStall
    /\ now' = (now + 1) % TimeMod
    /\ stall' = stall + 1
    /\ steady' = IF steady < Debounce THEN steady + 1 ELSE steady
    /\ UNCHANGED <<mode, policy, startup, startedAt, vbus, changes, transients,
                   faults, restarts>>

VbusChanges ==
    /\ changes < MaxChanges
    /\ changes' = changes + 1
    /\ \E l \in Level \ {vbus} : vbus' = l
    /\ restarts' = 0
    /\ UNCHANGED <<mode, policy, startup, startedAt, now, transients, faults, stall, steady>>

ChargeInit ==
    /\ mode = "boot" /\ policy = Fresh /\ startup = "absent" /\ startedAt = 0
    /\ now = 0 /\ vbus \in Level /\ changes = 0 /\ transients = 0
    /\ faults = 0 /\ restarts = 0
    /\ stall = 0 /\ steady = 0

Firmware ==
    \/ BootSample \/ BootDecide \/ BringUp \/ BringUpFails
    \/ ChargePollStays \/ ChargePollLeaves
    \/ TrackPass \/ TrackLeaves

ChargeNext == Firmware \/ Elapse \/ VbusChanges

ChargeSpec == ChargeInit /\ [][ChargeNext]_gvars

\* Time passes and the firmware keeps polling.
ChargeFairSpec == ChargeSpec /\ WF_gvars(Elapse) /\ WF_gvars(Firmware)

-----------------------------------------------------------------------------
(* Properties.                                                             *)

\* iot/README.md, "a 2000 ms debounce": a mode is left only when no reading
\* contradicted the new state for the whole debounce time, also across the wrap
\* of millis(), and however the level wobbles through the hysteresis gap.
LeavesDebounced ==
    [][(mode \in {"charge", "track"} /\ mode' = "boot") => steady >= Debounce]_gvars

\* iot/README.md, "unplug -> exactly one restart -> tracker, hot-plug -> exactly
\* one restart -> charge-only": after the level changed for the last time VBUS
\* makes the firmware restart at most once, unless setup() took a transient zero
\* of the PMU for its one sample; each of those costs one restart more.
OneRestartPerChange == restarts <= 1 + transients

\* A cable that stays in ends in charge-only mode, a cable that stays out ends
\* in tracking; the restarts in between come to an end.
ModeFollowsVbus ==
    /\ <>[](vbus = "present") => <>[](mode = "charge")
    /\ <>[](vbus = "absent") => <>[](mode = "track")

=============================================================================
