------------------------------ MODULE Sampling ------------------------------
(***************************************************************************)
(* Adaptive sampling of the tracker: SamplingPolicy and radioDue           *)
(* (iot/lib/sampling_policy) with their callers in loop()                  *)
(* (iot/src/main.cpp): poll GNSS when due, enqueue what is worth a record, *)
(* open the radio for the queue, and tell the policy what was uploaded.    *)
(*                                                                         *)
(* Speeds are small integers; a position is one of Places and any two of   *)
(* them are at least the target spacing apart; whether a fix is an         *)
(* impossible jump is the environment's choice.                            *)
(***************************************************************************)
EXTENDS Integers, Sequences

CONSTANTS
    MinPoll, MaxPoll, UnknownPoll,  \* MIN_, MAX_, UNKNOWN_FIX_POLL_MS
    Heartbeat,                      \* STATIONARY_HEARTBEAT_MS
    MaxFixAge,                      \* MAX_FIX_AGE_MS, 0 switches the gate off
    Spacing,                        \* TARGET_POINT_SPACING_M
    Enter, Exit,                    \* MOVING_ENTER_MPS, MOVING_EXIT_MPS
    Confirm,                        \* MOTION_STATE_CONFIRMATION_COUNT
    BatchMin, BatchMax,             \* UPLOAD_BATCH_MIN_ITEMS, BATCH_MAX_ITEMS
    FlushMoving, FlushStationary,   \* UPLOAD_FLUSH_MS_MOVING, _STATIONARY
    QueueCap,                       \* FIX_QUEUE_CAPACITY
    TimeMod,                        \* millis() counts modulo this
    Speeds,                         \* the speeds a fix may carry
    NaN,                            \* a speed that is not finite, an integer
    Places,                         \* where the tracker may be
    MaxStall,                       \* the longest time between two passes
    MaxPost,                        \* the longest upload
    MaxStuck                        \* bound: how long GNSS repeats one timestamp

ASSUME SamplingAssumption ==
    /\ MinPoll \in Nat \ {0} /\ MaxPoll \in Nat \ {0} /\ UnknownPoll \in Nat \ {0}
    /\ MinPoll <= MaxPoll /\ UnknownPoll <= MaxPoll
    /\ Heartbeat \in Nat \ {0} /\ MaxFixAge \in Nat /\ Spacing \in Nat \ {0}
    /\ Enter \in Nat /\ Exit \in Nat /\ Exit < Enter /\ Confirm \in 1..255
    /\ BatchMin \in Nat /\ BatchMax \in Nat \ {0} /\ QueueCap \in Nat \ {0}
    /\ FlushMoving \in Nat /\ FlushStationary \in Nat
    /\ Speeds \subseteq Int /\ NaN \in Int
    /\ MaxStall \in Nat \ {0} /\ MaxPost \in Nat \ {0}

Gap  == (MaxPoll - 1) + MaxStall + MaxPost    \* longest time between two polls with fixes
Late == (Heartbeat - 1) + 2 * Gap             \* longest time without a point

\* MaxStuck keeps lastPoll, which notifyGpsReenabled() may set an interval back,
\* from being a whole turn of the clock ago.
ASSUME SamplingClock ==
    /\ TimeMod \in Nat /\ MaxStuck \in Nat
    /\ TimeMod > Late + 1 /\ TimeMod > MaxStuck + MaxPoll

VARIABLES
    state, candidate, count,  \* _state, _candidate, _candidateCount
    hasPoll, lastPoll,        \* _hasPoll, _lastPollMs
    interval,                 \* _pollIntervalMs
    hasSent, sentAt, sentPlace, \* _hasSent (and _hasSentTime), _lastSentMs, _lastSent
    hasTs, tsChange,          \* _hasTimestamp, _lastTimestampChangeMs
    queue,                    \* the places of the queued records, oldest first
    hasOpened, lastOpen,      \* radioHasOpened, lastRadioOpenMs
    gps,                      \* whether the receiver is on
    now,                      \* millis()
    pc,                       \* "pass", "drain" or "post"
    stall,                    \* ghost: time since the pass or the upload began
    tsAge,                    \* ghost: how long GNSS has shown its timestamp
    quiet,                    \* ghost: time a stationary tracker enqueued nothing and
                              \* nothing was acknowledged
    unpolled,                 \* ghost: time since GNSS was polled
    fastRun, slowRun          \* ghost: consecutive accepted fixes, see Count

motion == <<state, candidate, count, interval>>
sent   == <<hasSent, sentAt, sentPlace>>
radio  == <<hasOpened, lastOpen, gps>>
runs   == <<fastRun, slowRun>>
svars  == <<state, candidate, count, hasPoll, lastPoll, interval, hasSent, sentAt,
            sentPlace, hasTs, tsChange, queue, hasOpened, lastOpen, gps, now, pc, stall,
            tsAge, quiet, unpolled, fastRun, slowRun>>

Motion == {"UNKNOWN", "STATIONARY", "MOVING"}
Since(t) == (now - t + TimeMod) % TimeMod      \* static_cast<uint32_t>(now - t)
Capped(n, cap) == IF n < cap THEN n + 1 ELSE n

-----------------------------------------------------------------------------
(* SamplingPolicy.                                                         *)

\* Mutant of fixDue: the interval since the last upload, not the last poll.
FixDueSinceSent == ~hasPoll \/ (hasSent /\ Since(sentAt) >= interval)

fixDue == ~hasPoll \/ now < lastPoll \/ Since(lastPoll) >= interval

finite(v) == v # NaN
validSpeed(v) == finite(v) /\ v >= 0

\* rawMs, rounded, between the two bounds.
intervalForSpeed(v) ==
    IF ~finite(v) \/ v <= 0 THEN UnknownPoll
    ELSE LET raw == (2 * Spacing + v) \div (2 * v)
         IN  IF raw <= MinPoll THEN MinPoll ELSE IF raw >= MaxPoll THEN MaxPoll ELSE raw

observed(v) ==
    IF state # "MOVING" /\ finite(v) /\ v >= Enter THEN "MOVING"
    ELSE IF state = "UNKNOWN" /\ finite(v) /\ v < Enter THEN "STATIONARY"
    ELSE IF state = "MOVING" /\ validSpeed(v) /\ v <= Exit THEN "STATIONARY"
    ELSE state

\* Mutant of Hysteresis: an observation that agrees with the state does not
\* clear the candidate.
HysteresisKeepsCandidate(o) ==
    LET n == IF candidate # o THEN 1 ELSE IF count < 255 THEN count + 1 ELSE count
    IN  IF o = state \/ o = "UNKNOWN" THEN UNCHANGED <<state, candidate, count>>
        ELSE IF n >= Confirm THEN state' = o /\ candidate' = "UNKNOWN" /\ count' = 0
        ELSE state' = state /\ candidate' = o /\ count' = n

\* The state changes after Confirm observations in a row.
Hysteresis(o) ==
    LET n == IF candidate # o THEN 1 ELSE IF count < 255 THEN count + 1 ELSE count
    IN  IF o = state THEN state' = state /\ candidate' = "UNKNOWN" /\ count' = 0
        ELSE IF n >= Confirm THEN state' = o /\ candidate' = "UNKNOWN" /\ count' = 0
        ELSE state' = state /\ candidate' = o /\ count' = n

\* The cadence follows the observation, not the confirmed state.
NextInterval(o, v) ==
    IF o = "STATIONARY" /\ (state' # "UNKNOWN" \/ validSpeed(v)) THEN MaxPoll
    ELSE IF o = "MOVING" THEN intervalForSpeed(v)
    ELSE UnknownPoll

HeartbeatDue == Since(sentAt) >= Heartbeat

\* shouldUpload: the first fix, distance reached, interval elapsed, heartbeat.
shouldUpload(o, place) ==
    \/ ~hasSent
    \/ o = "MOVING" /\ (place # sentPlace \/ Since(sentAt) >= interval')
    \/ o = "STATIONARY" /\ HeartbeatDue

\* The timestamp bookkeeping: a new timestamp is seen now.
Timestamp(fresh) ==
    /\ hasTs' = TRUE
    /\ tsChange' = IF ~hasTs \/ fresh THEN now ELSE tsChange

\* Mutant of Stagnant: the gate looks at the last poll.
StagnantSincePoll(fresh) == hasTs /\ ~fresh /\ MaxFixAge > 0 /\ Since(lastPoll) > MaxFixAge

Stagnant(fresh) == hasTs /\ ~fresh /\ MaxFixAge > 0 /\ Since(tsChange) > MaxFixAge

-----------------------------------------------------------------------------
(* loop(): sampling.                                                       *)

\* onUploadResult(now, fix, TRUE)
OnUploadResult(place) == hasSent' = TRUE /\ sentAt' = now /\ sentPlace' = place

\* The ghosts of one accepted fix.
Count(v) ==
    /\ fastRun' = IF finite(v) /\ v >= Enter THEN Capped(fastRun, Confirm) ELSE 0
    /\ slowRun' = IF finite(v) /\ v < Enter /\ (state = "MOVING" => v >= 0 /\ v <= Exit)
                  THEN Capped(slowRun, Confirm) ELSE 0

Push(place) == queue' = Append(IF Len(queue) = QueueCap THEN Tail(queue) ELSE queue, place)

\* A fix that onFix() accepts; it is enqueued when it is worth it.
AcceptFix(v, place, fresh) ==
    /\ pc = "pass" /\ fixDue /\ gps
    /\ ~Stagnant(fresh)
    /\ hasPoll' = TRUE /\ lastPoll' = now /\ unpolled' = 0
    /\ Timestamp(fresh) /\ tsAge' = IF ~hasTs \/ fresh THEN 0 ELSE tsAge
    /\ Hysteresis(observed(v))
    /\ interval' = NextInterval(observed(v), v)
    /\ Count(v)
    /\ \/ shouldUpload(observed(v), place) /\ Push(place) /\ OnUploadResult(place)
       \/ shouldUpload(observed(v), place) /\ UNCHANGED <<queue, sent>>  \* push() failed
       \/ ~shouldUpload(observed(v), place) /\ UNCHANGED <<queue, sent>>
    /\ quiet' = IF shouldUpload(observed(v), place) \/ observed(v) # "STATIONARY"
                THEN 0 ELSE quiet
    /\ pc' = "drain"
    /\ UNCHANGED <<radio, now, stall>>

\* onFix() refuses the fix: coordinates (before the timestamp is looked at),
\* stagnation, accuracy, satellites or an impossible jump.
RejectFix(fresh) ==
    /\ pc = "pass" /\ fixDue /\ gps
    /\ hasPoll' = TRUE /\ lastPoll' = now /\ unpolled' = 0
    /\ \/ UNCHANGED <<hasTs, tsChange>> /\ UNCHANGED tsAge
       \/ Timestamp(fresh) /\ tsAge' = IF ~hasTs \/ fresh THEN 0 ELSE tsAge
    /\ quiet' = 0
    /\ pc' = "drain"
    /\ UNCHANGED <<motion, sent, queue, radio, now, stall, runs>>

\* pollFixPayload() has no fix: the policy is not told, so the next pass polls.
NoFix ==
    /\ pc = "pass" /\ fixDue
    /\ quiet' = 0 /\ unpolled' = 0
    /\ pc' = "drain"
    /\ UNCHANGED <<motion, hasPoll, lastPoll, sent, hasTs, tsChange, queue, radio,
                   now, stall, tsAge, runs>>

NotDue ==
    /\ pc = "pass" /\ ~fixDue
    /\ pc' = "drain"
    /\ UNCHANGED <<motion, hasPoll, lastPoll, sent, hasTs, tsChange, queue, radio,
                   now, stall, tsAge, quiet, unpolled, runs>>

-----------------------------------------------------------------------------
(* loop(): the drain.                                                      *)

Flush == IF state = "MOVING" THEN FlushMoving ELSE FlushStationary

radioDue ==
    /\ queue # <<>>
    /\ \/ BatchMin > 0 /\ Len(queue) >= BatchMin
       \/ ~hasOpened
       \/ Since(lastOpen) >= Flush

\* The pass returns: not ready, an empty queue, or radioDue() says no.
PassEnds ==
    /\ pc = "drain"
    /\ pc' = "pass" /\ stall' = 0
    /\ UNCHANGED <<motion, hasPoll, lastPoll, sent, hasTs, tsChange, queue, radio,
                   now, tsAge, quiet, unpolled, runs>>

\* The open is stamped before peek() and disableGps(), either of which may end
\* it; an upload runs with the receiver off.
OpenRadio ==
    /\ pc = "drain" /\ radioDue
    /\ hasOpened' = TRUE /\ lastOpen' = now
    /\ \/ pc' = "post" /\ gps' = FALSE
       \/ pc' = "pass" /\ UNCHANGED gps
    /\ stall' = 0
    /\ UNCHANGED <<motion, hasPoll, lastPoll, sent, hasTs, tsChange, queue,
                   now, tsAge, quiet, unpolled, runs>>

\* enableGps() and notifyGpsReenabled(millis()): the next fixDue() holds at once.
NotifyGpsReenabled ==
    \/ gps' = TRUE /\ lastPoll' = (now - interval + TimeMod) % TimeMod
    \/ gps' = FALSE /\ UNCHANGED lastPoll

\* SENT: ackFront(), and onUploadResult() with the newest record of the batch.
PostSent ==
    LET n == IF Len(queue) < BatchMax THEN Len(queue) ELSE BatchMax IN
    /\ pc = "post"
    /\ NotifyGpsReenabled
    /\ \/ /\ queue' = SubSeq(queue, n + 1, Len(queue)) /\ OnUploadResult(queue[n])
          /\ quiet' = 0
       \/ /\ UNCHANGED <<queue, sent>>      \* ackFront() could not commit
          /\ quiet' = IF gps' THEN quiet ELSE 0
    /\ pc' = "pass" /\ stall' = 0
    /\ UNCHANGED <<motion, hasPoll, hasTs, tsChange, hasOpened, lastOpen, now, tsAge,
                   unpolled, runs>>

PostFails ==
    /\ pc = "post"
    /\ NotifyGpsReenabled
    /\ quiet' = IF gps' THEN quiet ELSE 0
    /\ pc' = "pass" /\ stall' = 0
    /\ UNCHANGED <<motion, hasPoll, sent, hasTs, tsChange, queue, hasOpened, lastOpen,
                   now, tsAge, unpolled, runs>>

\* Time passes between two passes and during an upload; GNSS must not repeat a
\* timestamp for a whole turn of the clock.
Elapse ==
    /\ \/ pc = "pass" /\ stall < MaxStall
       \/ pc = "post" /\ stall < MaxPost
    /\ tsAge < MaxStuck
    /\ now' = (now + 1) % TimeMod /\ stall' = stall + 1
    /\ tsAge' = IF hasTs THEN tsAge + 1 ELSE 0
    /\ quiet' = Capped(quiet, Late + 1) /\ unpolled' = Capped(unpolled, Late)
    /\ UNCHANGED <<motion, hasPoll, lastPoll, sent, hasTs, tsChange, queue, radio, pc, runs>>

SamplingInit ==
    /\ state = "UNKNOWN" /\ candidate = "UNKNOWN" /\ count = 0
    /\ hasPoll = FALSE /\ lastPoll = 0 /\ interval = UnknownPoll
    /\ hasSent = FALSE /\ sentAt = 0 /\ sentPlace \in Places /\ hasTs = FALSE /\ tsChange = 0
    /\ queue = <<>> /\ hasOpened = FALSE /\ lastOpen = 0 /\ gps = TRUE
    /\ now = 0 /\ pc = "pass" /\ stall = 0 /\ tsAge = 0 /\ quiet = 0 /\ unpolled = 0
    /\ fastRun = 0 /\ slowRun = 0

SamplingNext ==
    \/ \E v \in Speeds, p \in Places, fresh \in BOOLEAN : AcceptFix(v, p, fresh)
    \/ \E fresh \in BOOLEAN : RejectFix(fresh)
    \/ NoFix \/ NotDue \/ PassEnds \/ OpenRadio \/ PostSent \/ PostFails \/ Elapse

SamplingSpec == SamplingInit /\ [][SamplingNext]_svars

-----------------------------------------------------------------------------
(* Properties.                                                             *)

\* iot/README.md, "3-fix confirmation count before switching states": the state
\* becomes MOVING only after Confirm accepted fixes in a row at the enter speed,
\* and STATIONARY only after Confirm in a row below it, all at most the exit speed
\* when it was MOVING; one neutral fix in between starts the count again.
SwitchesConfirmed ==
    [][state' # state =>
          /\ state' = "MOVING" => fastRun' = Confirm
          /\ state' = "STATIONARY" => slowRun' = Confirm]_svars

\* A frozen receiver is noticed: a point is enqueued only when its timestamp
\* was new at most MaxFixAge ago, also across the wrap of millis().
EnqueuesFresh ==
    [][pc = "pass" /\ sent' # sent /\ MaxFixAge > 0 => tsAge' <= MaxFixAge]_svars

\* GNSS is polled at least every MaxPoll, plus one pass and one upload, whatever
\* speeds, wraps, gaps and uploads do to the interval and to the last poll.
PolledOnTime == unpolled <= MaxPoll + 2 * MaxStall + MaxPost

\* iot/README.md, "stationary motion polls every 15 s and sends one heartbeat
\* every 5 minutes": while fixes are accepted and say stationary, a point is
\* enqueued every Heartbeat, plus a poll, one pass and one upload.  The clock
\* starts again with every acknowledged batch, which onUploadResult() counts as
\* sent now: a failed upload or a lost commit must not do that too.  Late has
\* room for a second poll: when push() fails for a whole turn of millis(), the
\* last upload looks recent again and the heartbeat that was due is put off.
HeartbeatOnTime == quiet <= Late

\* Neither the polls nor the heartbeats of a tracker at rest fall behind.
SampledOnTime == PolledOnTime /\ HeartbeatOnTime

=============================================================================
