---------------------------- MODULE Connectivity ----------------------------
(***************************************************************************)
(* The cellular recovery of the tracker: the state machine                 *)
(* ConnectivityPolicy (iot/lib/connectivity_policy), its driver            *)
(* CellularManager (iot/src/cellular_manager.cpp), and the parts of        *)
(* loop() (iot/src/main.cpp) that share the radio with it: sampling needs  *)
(* GNSS on, an upload or a recovery switches it off and on again.          *)
(*                                                                         *)
(* Time is the 32-bit millis() counter, which wraps; TimeMod stands for    *)
(* 2^32.  The modem, the network and the server are external.              *)
(***************************************************************************)
EXTENDS Integers

CONSTANTS
    Base, MaxDelay, Limit,  \* CELLULAR_RECOVERY_BASE_MS, _MAX_MS, _MAX_ATTEMPTS
    TimeMod,                \* millis() counts modulo this
    MaxStall,               \* the longest loop pass, which the watchdog bounds
    QueueCap,               \* FIX_QUEUE_CAPACITY
    BatchMax,               \* BATCH_MAX_ITEMS
    MaxGnssFaults,          \* bound: enableGPS() calls that fail
    MaxReboots              \* bound: resets of the ESP32

ASSUME PolicyAssumption ==
    /\ Base \in Nat \ {0} /\ MaxDelay \in Nat \ {0} /\ Limit \in 1..254
    /\ QueueCap \in Nat \ {0} /\ BatchMax \in Nat \ {0}
    /\ MaxGnssFaults \in Nat /\ MaxReboots \in Nat

Shift(f) == IF f > 6 THEN 6 ELSE f - 1

\* Neither base << shift nor the longest wait overflows the 32-bit clock.
ASSUME ClockAssumption ==
    /\ TimeMod \in Nat /\ MaxStall \in Nat \ {0}
    /\ \A f \in 1..Limit : Base * 2^Shift(f) \in 1..(TimeMod - 1)
    /\ 2 * (MaxDelay + 2 * MaxStall) < TimeMod

VARIABLES
    state,      \* ConnectivityPolicy::_state
    failures,   \* ConnectivityPolicy::_failures, a uint8_t
    deadline,   \* ConnectivityPolicy::_deadline
    now,        \* millis()
    pc,         \* where the firmware is: setup, a loop pass, a blocking call
    gnss,       \* the modem's GNSS receiver is on
    queue,      \* fixStore.size()
    coverage,   \* external: the network can be reached
    gnssFaults, \* ghost: enableGPS() calls that failed
    reboots,    \* ghost: resets so far
    attempts,   \* ghost: recoveries begun since the policy was last READY
    stall,      \* ghost: time since the current pass began
    since       \* ghost: time since the last backoff began

cvars == <<state, failures, deadline, now, pc, gnss, queue, coverage,
           gnssFaults, reboots, attempts, stall, since>>

State == {"IDLE", "READY", "BACKOFF", "RECONNECT_PDP", "RESTART_MODEM", "FAILED"}
SinceCap == MaxDelay + 2 * MaxStall

-----------------------------------------------------------------------------
(* ConnectivityPolicy.                                                     *)

\* Mutant of due: the comparison without the wrap.
DueUnwrapped(t, d) == t >= d

\* static_cast<int32_t>(now - deadline) >= 0
due(t, d) == (t - d + TimeMod) % TimeMod < TimeMod \div 2

Delay(f) ==
    IF Base * 2^Shift(f) > MaxDelay THEN MaxDelay ELSE Base * 2^Shift(f)

\* event(UPLOAD_SUCCESS) and event(PDP_OK)
Success ==
    /\ failures' = 0 /\ state' = "READY" /\ deadline' = now
    /\ attempts' = 0 /\ UNCHANGED since

\* event(TRANSPORT_FAILURE)
Failure ==
    LET f == IF failures < 255 THEN failures + 1 ELSE failures IN
    /\ failures' = f
    /\ IF f > Limit
         THEN state' = "FAILED" /\ UNCHANGED <<deadline, since>>
         ELSE /\ state' = "BACKOFF"
              /\ deadline' = (now + Delay(f)) % TimeMod
              /\ since' = 0
    /\ UNCHANGED attempts

ready == state = "READY"

-----------------------------------------------------------------------------
(* setup(): the first connection attempt, then enableGps().                *)

\* enableGPS(): it may fail, and then GNSS stays off.
EnableGps ==
    \/ gnss' = TRUE /\ UNCHANGED gnssFaults
    \/ /\ gnssFaults < MaxGnssFaults
       /\ gnss' = FALSE /\ gnssFaults' = gnssFaults + 1

Setup ==
    /\ pc = "boot"
    /\ \/ coverage /\ Success
       \/ Failure
    /\ EnableGps
    /\ pc' = "pass" /\ stall' = 0
    /\ UNCHANGED <<now, queue, coverage, reboots>>

-----------------------------------------------------------------------------
(* A pass of loop(): cellularManager.tick(), sampling, then the drain.     *)

\* tick() finds nothing due.
TickNone ==
    /\ pc = "pass"
    /\ state # "BACKOFF" \/ ~due(now, deadline)
    /\ pc' = "sample"
    /\ UNCHANGED <<state, failures, deadline, now, gnss, queue, coverage,
                   gnssFaults, stall, since, reboots, attempts>>

\* The deadline has passed: GNSS goes off, or disableGPS() fails and is ignored.
TickRecover ==
    /\ pc = "pass"
    /\ state = "BACKOFF" /\ due(now, deadline)
    /\ state' = IF failures >= 3 THEN "RESTART_MODEM" ELSE "RECONNECT_PDP"
    /\ gnss' \in {FALSE, gnss}
    /\ attempts' = attempts + 1
    /\ pc' = "recover"
    /\ UNCHANGED <<failures, deadline, now, queue, coverage, gnssFaults, stall, since,
                   reboots>>

\* gprsConnect(), after a modem restart or not, brought the PDP context up.
Recovered ==
    /\ pc = "recover" /\ coverage
    /\ EnableGps
    /\ Success
    /\ pc' = "sample"
    /\ UNCHANGED <<now, queue, coverage, stall, reboots>>

\* Mutant of RecoveryFails: a failed recovery is not reported to the policy.
RecoveryFailsUnreported ==
    /\ pc = "recover"
    /\ EnableGps
    /\ pc' = "sample"
    /\ UNCHANGED <<state, failures, deadline, now, queue, coverage, stall, since,
                   reboots, attempts>>

RecoveryFails ==
    /\ pc = "recover"
    /\ EnableGps
    /\ Failure
    /\ pc' = "sample"
    /\ UNCHANGED <<now, queue, coverage, stall, reboots>>

\* A fix is accepted and pushed, the oldest one dropped when the ring is full;
\* or this pass yields no fix worth a record.
Sample ==
    /\ pc = "sample"
    /\ \/ gnss /\ queue' = IF queue < QueueCap THEN queue + 1 ELSE queue
       \/ UNCHANGED queue
    /\ pc' = "drain"
    /\ UNCHANGED <<state, failures, deadline, now, gnss, coverage, gnssFaults,
                   stall, since, reboots, attempts>>

\* The pass returns before the drain: not ready, an empty queue, radioDue()
\* says no, or disableGps() fails.
NoDrain ==
    /\ pc = "drain"
    /\ pc' = "pass" /\ stall' = 0
    /\ UNCHANGED <<state, failures, deadline, now, gnss, queue, coverage,
                   gnssFaults, since, reboots, attempts>>

\* Mutant of Drain: the gate on cellularReady is missing.
DrainUngated ==
    /\ pc = "drain" /\ queue > 0
    /\ gnss' = FALSE
    /\ pc' = "post"
    /\ UNCHANGED <<state, failures, deadline, now, queue, coverage, gnssFaults,
                   stall, since, reboots, attempts>>

Drain ==
    /\ pc = "drain" /\ ready /\ queue > 0
    /\ gnss' = FALSE
    /\ pc' = "post"
    /\ UNCHANGED <<state, failures, deadline, now, queue, coverage, gnssFaults,
                   stall, since, reboots, attempts>>

\* SENT: UPLOAD_SUCCESS, enableGps(), ackFront(toSend).
PostSent ==
    /\ pc = "post" /\ coverage
    /\ Success
    /\ EnableGps
    /\ queue' = IF queue > BatchMax THEN queue - BatchMax ELSE 0
    /\ pc' = "pass" /\ stall' = 0
    /\ UNCHANGED <<now, coverage, reboots>>

\* TRANSPORT_ERROR, TIMEOUT, HTTP_SERVER_ERROR
PostFails ==
    /\ pc = "post"
    /\ Failure
    /\ EnableGps
    /\ pc' = "pass" /\ stall' = 0
    /\ UNCHANGED <<now, queue, coverage, reboots>>

\* HTTP_CLIENT_ERROR, CONFIG_ERROR: not reported to the policy.
PostRefused ==
    /\ pc = "post"
    /\ EnableGps
    /\ pc' = "pass" /\ stall' = 0
    /\ UNCHANGED <<state, failures, deadline, now, queue, coverage, since, reboots, attempts>>

-----------------------------------------------------------------------------
(* The environment.                                                        *)

\* The calls WdtDetachGuard and setup() keep out of the watchdog's reach.
Unwatched == {"boot", "recover", "post"}

\* Time passes, but a pass that stalls is ended by the watchdog.
Elapse ==
    /\ stall < MaxStall \/ pc \in Unwatched
    /\ now' = (now + 1) % TimeMod
    /\ stall' = IF pc \in Unwatched THEN stall ELSE stall + 1
    /\ since' = IF since < SinceCap THEN since + 1 ELSE since
    /\ UNCHANGED <<state, failures, deadline, pc, gnss, queue, coverage, gnssFaults,
                   reboots, attempts>>

CoverageChanges ==
    /\ coverage' = ~coverage
    /\ UNCHANGED <<state, failures, deadline, now, pc, gnss, queue, gnssFaults,
                   stall, since, reboots, attempts>>

\* A reset of any kind: the policy starts again, the queue is in flash.
Reboot ==
    /\ pc # "boot" /\ reboots < MaxReboots
    /\ state' = "IDLE" /\ failures' = 0 /\ deadline' = 0 /\ now' = 0
    /\ gnss' = FALSE /\ pc' = "boot" /\ stall' = 0 /\ since' = 0
    /\ attempts' = 0
    /\ reboots' = reboots + 1
    /\ UNCHANGED <<queue, coverage, gnssFaults>>

ConnInit ==
    /\ state = "IDLE" /\ failures = 0 /\ deadline = 0 /\ now = 0
    /\ pc = "boot" /\ gnss = FALSE /\ queue \in 0..QueueCap
    /\ coverage \in BOOLEAN /\ gnssFaults = 0 /\ reboots = 0 /\ attempts = 0
    /\ stall = 0 /\ since = 0

Tick == TickNone \/ TickRecover
Post == PostSent \/ PostFails \/ PostRefused

ConnNext ==
    \/ Setup \/ Tick \/ Recovered \/ RecoveryFails
    \/ Sample \/ NoDrain \/ Drain \/ Post
    \/ Elapse \/ CoverageChanges \/ Reboot

ConnSpec == ConnInit /\ [][ConnNext]_cvars

\* loop() is called for ever and its blocking calls time out; time passes; a
\* drain that stays possible is due again and again (radioDue); and a server or
\* a modem that can be reached infinitely often answers one of these times.
Fairness ==
    /\ WF_cvars(Setup) /\ WF_cvars(Tick) /\ WF_cvars(Recovered \/ RecoveryFails)
    /\ WF_cvars(Sample) /\ WF_cvars(NoDrain \/ Drain) /\ WF_cvars(Post)
    /\ WF_cvars(Elapse)
    /\ SF_cvars(Drain) /\ SF_cvars(PostSent) /\ SF_cvars(Recovered)
    /\ SF_cvars(Sample /\ queue' > queue)

ConnFairSpec == ConnSpec /\ Fairness

-----------------------------------------------------------------------------
(* Properties.                                                             *)

\* The recovery never hammers the modem: a reconnect or a restart starts only
\* when the delay of its failure count has really passed, also across the wrap
\* of millis() (the signed comparison of due()).
NoEarlyRecovery ==
    pc = "recover" => since >= Delay(failures)

\* A backoff is not overslept: a pass that finds the policy in BACKOFF is at
\* most one pass late, also across the wrap of millis().
RecoveryOnTime ==
    state = "BACKOFF" => since < Delay(failures) + 2 * MaxStall

\* Recoveries keep their schedule, neither early nor late.
RecoveryOnSchedule == NoEarlyRecovery /\ RecoveryOnTime

\* README: "max 6 attempts".  Every failure but the first since the policy was
\* last READY is a recovery that failed, so it gives up after exactly Limit
\* recoveries: no upload slips in between two of them and burns an attempt.
AttemptsCounted ==
    /\ state = "BACKOFF" => attempts = failures - 1
    /\ state = "FAILED" => attempts = Limit /\ failures = Limit + 1

\* While the policy has not given up, a queue with something in it is served
\* again and again once coverage is back for good: no order of timeouts,
\* failed uploads, refusals and recoveries wedges the loop.
ServedUnlessFailed ==
    <>[]coverage =>
        \/ <>[](state = "FAILED")
        \/ []<>(queue = 0) \/ []<><<PostSent>>_cvars

\* cellular_manager.cpp, "always restore GNSS after recovery - a failed PDP
\* recovery used to leave CGNSPWR=0 forever": uploads and recoveries, failed or
\* not, never leave GNSS off for good, unless enableGPS() itself has failed
\* (it is tried once, and an empty queue gives no occasion to try again).
GnssReturns == []<>gnss \/ <>(gnssFaults > 0)

\* The loop starves neither of its two tasks, uploading and sampling.
ServesAndSamples == ServedUnlessFailed /\ GnssReturns

=============================================================================
