------------------------------ MODULE FixStore ------------------------------
(***************************************************************************)
(* The flash-backed FIFO of GNSS fixes of the tracker firmware: the class  *)
(* PersistentFixStore (iot/src/persistent_fix_store.cpp) over the pure     *)
(* ring helpers of iot/lib/fix_queue, driven by the loop of                *)
(* iot/src/main.cpp (begin once per boot, then push, or peek followed by   *)
(* ackFront).                                                              *)
(*                                                                         *)
(* Flash survives a power cut, RAM does not.  Each write of a file is a    *)
(* step of its own, so that a cut can fall before, inside or after it.     *)
(* LittleFS is external: what a failed, cut or unflushed write may leave   *)
(* behind is the constant Faults.                                          *)
(***************************************************************************)
EXTENDS Integers, Sequences, FiniteSets

CONSTANTS
    Capacities,   \* the values FIX_QUEUE_CAPACITY takes over firmware builds
    BatchMax,     \* BATCH_MAX_ITEMS, the most records one peek returns
    MaxFix,       \* bound: fixes the loop tries to push
    MaxBoots,     \* bound: power cuts and restarts
    Faults,       \* what the file system may do, a subset of FaultKinds
    Blank,        \* a slot of the data file never written
    Torn          \* file content whose CRC check fails

\* fail: an open or a write fails and says so; torn: an interrupted or failed
\* write may leave a bad CRC; silent: write() succeeds but the flush, whose
\* result the code cannot see, does not; format: LittleFS.begin(true) finds
\* an unmountable volume and formats it; truncate: open("r+") fails on the data
\* file although it is there, and the fallback open("w") succeeds.
FaultKinds == {"fail", "torn", "silent", "format", "truncate"}

ASSUME CapacitiesAssumption == Capacities \subseteq Nat \ {0} /\ Capacities # {}
ASSUME BoundsAssumption == BatchMax \in Nat \ {0} /\ MaxFix \in Nat /\ MaxBoots \in Nat
ASSUME FaultsAssumption == Faults \subseteq FaultKinds

\* A FixRecord: its sequence_id, and the fix it carries (every other field).
Record == [seq : Nat, fix : Nat]

Slot == UNION {0..(c - 1) : c \in Capacities}

\* FixQueueMeta; its crc is the distinction between a Meta and Torn.
Meta == [generation : Nat, capacity : Nat, head : Nat, tail : Nat,
         count : Nat, next_seq : Nat, lost_count : Nat]

ASSUME SentinelAssumption ==
    Blank \notin Record \cup Meta /\ Torn \notin Record \cup Meta /\ Blank # Torn

MetaFile == {"A", "B"}    \* META_A_PATH, META_B_PATH

VARIABLES
    flashMeta,    \* flash: content of the two meta files
    data,         \* flash: the slots of DATA_PATH
    meta,         \* RAM: PersistentFixStore::meta
    nextSlot,     \* RAM: the meta file the next commit writes
    queueCapacity,\* RAM: the capacity begin() was called with
    pc,           \* where the firmware is between two I/O operations
    op,           \* the operation whose write is pending
    batch,        \* RAM: the records peek() returned to the drain
    fixes,        \* ghost: fixes pushed so far, the identity of the next one
    boots,        \* ghost: power cuts so far
    wasReset      \* ghost: reset() has dropped a queue

flash == <<flashMeta, data>>
ram   == <<meta, nextSlot, queueCapacity, batch>>
vars  == <<flashMeta, data, meta, nextSlot, queueCapacity, pc, op, batch,
           fixes, boots, wasReset>>

-----------------------------------------------------------------------------
(* Ring arithmetic and meta selection (fix_queue.cpp).                     *)

fixQueueAdvance(index, capacity) ==
    IF capacity = 0 THEN 0 ELSE (index + 1) % capacity

\* The rollback's inverse of fixQueueAdvance.
Retreat(index, capacity) == IF index = 0 THEN capacity - 1 ELSE index - 1

fixQueueIsFull(m) == m.count >= m.capacity

fixQueueMetaFresh(capacity) ==
    [generation |-> 0, capacity |-> capacity, head |-> 0, tail |-> 0,
     count |-> 0, next_seq |-> 1, lost_count |-> 0]

\* The static initialiser of the member: FixQueueMeta meta{}.
ZeroMeta == [fixQueueMetaFresh(0) EXCEPT !.next_seq = 0]

MetaEncodable(m) ==
    /\ m.capacity # 0
    /\ m.head < m.capacity
    /\ m.tail < m.capacity
    /\ m.count <= m.capacity

\* readMeta: the file is there, complete, its CRC matches and decode accepts it.
Readable(m) == m \in Meta /\ MetaEncodable(m) /\ m.next_seq # 0

\* Mutant of fixQueueMetaPick: the comparison turned round.
PickOldest(a, b) ==
    IF Readable(a) /\ Readable(b) THEN IF b.generation < a.generation THEN "B" ELSE "A"
    ELSE IF Readable(a) THEN "A" ELSE "B"

\* The file that wins at boot when at least one is readable.
fixQueueMetaPick(a, b) ==
    IF Readable(a) /\ Readable(b) THEN IF b.generation > a.generation THEN "B" ELSE "A"
    ELSE IF Readable(a) THEN "A" ELSE "B"

Other(f) == IF f = "A" THEN "B" ELSE "A"

AnyReadable == \E f \in MetaFile : Readable(flashMeta[f])
Winner      == fixQueueMetaPick(flashMeta["A"], flashMeta["B"])

-----------------------------------------------------------------------------
(* LittleFS, as the store uses it: what a file holds after a write.        *)

AfterWrite(old, new) == {new} \cup (IF "silent" \in Faults THEN {old} ELSE {})
AfterError(old)      == {old} \cup (IF "torn" \in Faults THEN {Torn} ELSE {})
AfterCut(old, new)   == {new} \cup AfterError(old)

-----------------------------------------------------------------------------
(* Operations.  Kinds of op: "begin" (a commit made by begin() before the  *)
(* probe), "short" (begin()'s own reset of an unreadable front), "corrupt" *)
(* (peek()'s reset, whose result is ignored), "push" and "ack".            *)

OpKind == {"none", "begin", "short", "corrupt", "push", "ack"}
NoRec == [seq |-> 0, fix |-> 0]
NoOp == [kind |-> "none", rec |-> NoRec, wasFull |-> FALSE, n |-> 0]
Pc == {"off", "mounted", "probe", "idle", "data", "commit", "sending", "down"}

\* meta = fixQueueMetaFresh(queueCapacity); nextSlot = 0; commitMeta() is next.
reset(kind) ==
    /\ meta' = fixQueueMetaFresh(queueCapacity)
    /\ nextSlot' = "A"
    /\ op' = [NoOp EXCEPT !.kind = kind]
    /\ pc' = "commit"

\* begin(): mount.  readyState is false until the probe.
Mount(cap) ==
    /\ pc = "off"
    /\ queueCapacity' = cap
    /\ pc' = "mounted"
    /\ \/ UNCHANGED flash
       \/ /\ "format" \in Faults
          /\ flashMeta' = [f \in MetaFile |-> Blank]
          /\ data' = [i \in Slot |-> Blank]
    /\ UNCHANGED <<meta, nextSlot, op, batch, fixes, boots, wasReset>>

\* begin() returns false: queueReady stays false until the next boot.
MountFails ==
    /\ pc = "off" /\ "fail" \in Faults
    /\ pc' = "down"
    /\ UNCHANGED <<flash, ram, op, fixes, boots, wasReset>>

RecoverFresh ==
    /\ pc = "mounted" /\ ~AnyReadable
    /\ reset("begin")
    /\ UNCHANGED <<flash, queueCapacity, batch, fixes, boots, wasReset>>

RecoverOtherCapacity ==
    /\ pc = "mounted" /\ AnyReadable
    /\ flashMeta[Winner].capacity # queueCapacity
    /\ reset("begin")
    /\ wasReset' = TRUE
    /\ UNCHANGED <<flash, queueCapacity, batch, fixes, boots>>

Recover ==
    /\ pc = "mounted" /\ AnyReadable
    /\ flashMeta[Winner].capacity = queueCapacity
    /\ meta' = flashMeta[Winner]
    /\ nextSlot' = Other(Winner)
    /\ pc' = "probe"
    /\ UNCHANGED <<flash, queueCapacity, op, batch, fixes, boots, wasReset>>

-----------------------------------------------------------------------------
(* peek(): decode up to max records from the tail.                         *)

SlotAt(m, i) == (m.tail + i - 1) % m.capacity      \* slot of the i-th live record
Contents(m)  == [i \in 1..m.count |-> data[SlotAt(m, i)]]

Limit(max) == IF meta.count < max THEN meta.count ELSE max

\* A slot past the end of the file reads short; a hole reads as zeros, which
\* the version byte rejects.
ReadsShort(s)   == data[s] = Blank /\ \A t \in Slot : t > s => data[t] = Blank
ReadsCorrupt(s) == data[s] \notin Record /\ ~ReadsShort(s)

\* The loop of peek(out, max) reads n records and then stops: it has enough,
\* or the next slot does not decode.
Reads(n, max) ==
    /\ n \in 0..Limit(max)
    /\ \A i \in 1..n : data[SlotAt(meta, i)] \in Record
    /\ n < Limit(max) => data[SlotAt(meta, n + 1)] \notin Record

HitsCorrupt(max) ==
    \E n \in 0..Limit(max) :
        Reads(n, max) /\ n < Limit(max) /\ ReadsCorrupt(SlotAt(meta, n + 1))

\* begin(): the data file exists, readyState = true, the front is probed.
ProbeOk ==
    /\ pc = "probe"
    /\ meta.count > 0 => Reads(1, 1)
    /\ pc' = "idle" /\ op' = NoOp
    /\ UNCHANGED <<flash, ram, fixes, boots, wasReset>>

ProbeCorrupt ==
    /\ pc = "probe"
    /\ meta.count > 0 /\ HitsCorrupt(1)
    /\ reset("corrupt")
    /\ wasReset' = TRUE
    /\ UNCHANGED <<flash, queueCapacity, batch, fixes, boots>>

ProbeShort ==
    /\ pc = "probe"
    /\ meta.count > 0
    /\ \/ Reads(0, 1) /\ ~HitsCorrupt(1)
       \/ "fail" \in Faults
    /\ reset("short")
    /\ wasReset' = TRUE
    /\ UNCHANGED <<flash, queueCapacity, batch, fixes, boots>>

\* begin() cannot create a missing data file.
CreateDataFails ==
    /\ pc = "probe" /\ "fail" \in Faults
    /\ \A s \in Slot : data[s] = Blank
    /\ pc' = "down" /\ op' = NoOp
    /\ UNCHANGED <<flash, ram, fixes, boots, wasReset>>

-----------------------------------------------------------------------------
(* push(): data first, then meta.                                          *)

Push ==
    /\ pc = "idle" /\ fixes < MaxFix
    /\ fixes' = fixes + 1
    /\ op' = [NoOp EXCEPT !.kind = "push",
                          !.rec = [seq |-> meta.next_seq, fix |-> fixes + 1]]
    /\ pc' = "data"
    /\ UNCHANGED <<flash, ram, boots, wasReset>>

\* Mutants of Published: the tail stays when the oldest record is dropped;
\* next_seq is not advanced.
PublishedKeepsTail(m, rec) ==
    [m EXCEPT !.lost_count = IF fixQueueIsFull(m) THEN @ + 1 ELSE @,
              !.count = IF fixQueueIsFull(m) THEN @ ELSE @ + 1,
              !.head = fixQueueAdvance(@, m.capacity),
              !.next_seq = IF rec.seq >= @ THEN rec.seq + 1 ELSE @]
PublishedKeepsSeq(m, rec) ==
    [m EXCEPT !.tail = IF fixQueueIsFull(m) THEN fixQueueAdvance(@, m.capacity) ELSE @,
              !.lost_count = IF fixQueueIsFull(m) THEN @ + 1 ELSE @,
              !.count = IF fixQueueIsFull(m) THEN @ ELSE @ + 1,
              !.head = fixQueueAdvance(@, m.capacity)]

Published(m, rec) ==
    [m EXCEPT !.tail = IF fixQueueIsFull(m) THEN fixQueueAdvance(@, m.capacity) ELSE @,
              !.lost_count = IF fixQueueIsFull(m) THEN @ + 1 ELSE @,
              !.count = IF fixQueueIsFull(m) THEN @ ELSE @ + 1,
              !.head = fixQueueAdvance(@, m.capacity),
              !.next_seq = IF rec.seq >= @ THEN rec.seq + 1 ELSE @]

PushWritesData ==
    /\ pc = "data"
    /\ \E v \in AfterWrite(data[meta.head], op.rec) : data' = [data EXCEPT ![meta.head] = v]
    /\ op' = [op EXCEPT !.wasFull = fixQueueIsFull(meta)]
    /\ meta' = Published(meta, op.rec)
    /\ pc' = "commit"
    /\ UNCHANGED <<flashMeta, nextSlot, queueCapacity, batch, fixes, boots, wasReset>>

\* The fallback for "a freshly created empty file" empties the one there is.
PushTruncates ==
    /\ pc = "data" /\ "truncate" \in Faults
    /\ data' = [s \in Slot |-> IF s = meta.head THEN op.rec ELSE Blank]
    /\ op' = [op EXCEPT !.wasFull = fixQueueIsFull(meta)]
    /\ meta' = Published(meta, op.rec)
    /\ pc' = "commit"
    /\ UNCHANGED <<flashMeta, nextSlot, queueCapacity, batch, fixes, boots, wasReset>>

PushDataFails ==
    /\ pc = "data" /\ "fail" \in Faults
    /\ \E v \in AfterError(data[meta.head]) : data' = [data EXCEPT ![meta.head] = v]
    /\ pc' = "idle" /\ op' = NoOp
    /\ UNCHANGED <<flashMeta, ram, fixes, boots, wasReset>>

-----------------------------------------------------------------------------
(* The drain of loop(): peek, transmit, ackFront on SENT.                  *)

Peek ==
    /\ pc = "idle" /\ meta.count > 0
    /\ ~HitsCorrupt(BatchMax)
    /\ \E n \in 1..Limit(BatchMax) :
          /\ Reads(n, BatchMax)
          /\ batch' = [i \in 1..n |-> data[SlotAt(meta, i)]]
    /\ pc' = "sending"
    /\ UNCHANGED <<flash, meta, nextSlot, queueCapacity, op, fixes, boots, wasReset>>

PeekCorrupt ==
    /\ pc = "idle" /\ meta.count > 0
    /\ HitsCorrupt(BatchMax)
    /\ reset("corrupt")
    /\ wasReset' = TRUE
    /\ UNCHANGED <<flash, queueCapacity, batch, fixes, boots>>

\* A pass of loop() that drains nothing: no queue, an empty one, no radio, or
\* a peek that reads nothing.
LoopIdle ==
    /\ pc \in {"idle", "down"}
    /\ UNCHANGED vars

\* Any result but SENT: the points stay queued.
NotSent ==
    /\ pc = "sending"
    /\ pc' = "idle" /\ batch' = <<>>
    /\ UNCHANGED <<flash, meta, nextSlot, queueCapacity, op, fixes, boots, wasReset>>

Acked(m, n) ==
    [m EXCEPT !.tail = (@ + n) % m.capacity, !.count = @ - n]

ackFront ==
    /\ pc = "sending"
    /\ meta' = Acked(meta, Len(batch))
    /\ op' = [NoOp EXCEPT !.kind = "ack", !.n = Len(batch)]
    /\ pc' = "commit"
    /\ batch' = <<>>
    /\ UNCHANGED <<flash, nextSlot, queueCapacity, fixes, boots, wasReset>>

-----------------------------------------------------------------------------
(* commitMeta(): generation + 1, encode, write the file that did not win.  *)

Committed == [meta EXCEPT !.generation = @ + 1]

CommitMeta ==
    /\ pc = "commit" /\ MetaEncodable(meta)
    /\ meta' = Committed
    /\ \E v \in AfterWrite(flashMeta[nextSlot], Committed) :
          flashMeta' = [flashMeta EXCEPT ![nextSlot] = v]
    /\ nextSlot' = Other(nextSlot)
    /\ pc' = IF op.kind = "begin" THEN "probe" ELSE "idle"
    /\ op' = NoOp
    /\ UNCHANGED <<data, queueCapacity, batch, fixes, boots, wasReset>>

\* Mutant of RolledBack: the change stays in RAM although it is not in flash.
NotRolledBack == meta

\* What the caller of a failed commitMeta() restores.  next_seq keeps its value.
RolledBack ==
    CASE op.kind = "push" /\ op.wasFull ->
            [meta EXCEPT !.tail = Retreat(@, meta.capacity), !.lost_count = @ - 1,
                         !.head = Retreat(@, meta.capacity)]
      [] op.kind = "push" /\ ~op.wasFull ->
            [meta EXCEPT !.count = @ - 1, !.head = Retreat(@, meta.capacity)]
      [] op.kind = "ack" ->
            [meta EXCEPT !.tail = (@ + meta.capacity - op.n) % meta.capacity,
                         !.count = @ + op.n]
      [] OTHER -> meta

CommitFails ==
    /\ pc = "commit"
    /\ "fail" \in Faults \/ ~MetaEncodable(meta)
    /\ \E v \in AfterError(flashMeta[nextSlot]) :
          flashMeta' = [flashMeta EXCEPT ![nextSlot] = v]
    /\ meta' = RolledBack
    /\ pc' = IF op.kind \in {"begin", "short"} THEN "down" ELSE "idle"
    /\ op' = NoOp
    /\ UNCHANGED <<data, nextSlot, queueCapacity, batch, fixes, boots, wasReset>>

-----------------------------------------------------------------------------
(* A power cut, a watchdog reset or ESP.restart(): RAM is lost, a pending  *)
(* write may have happened, not happened, or been torn.                    *)

PowerCut ==
    /\ pc # "off" /\ boots < MaxBoots
    /\ boots' = boots + 1
    /\ IF pc = "commit" /\ MetaEncodable(meta)
         THEN \E v \in AfterCut(flashMeta[nextSlot], Committed) :
                 flashMeta' = [flashMeta EXCEPT ![nextSlot] = v]
         ELSE UNCHANGED flashMeta
    /\ IF pc = "data"
         THEN \E v \in AfterCut(data[meta.head], op.rec) :
                 data' = [data EXCEPT ![meta.head] = v]
         ELSE UNCHANGED data
    /\ meta' = ZeroMeta /\ nextSlot' = "A" /\ queueCapacity' = 0
    /\ batch' = <<>> /\ op' = NoOp /\ pc' = "off"
    /\ UNCHANGED <<fixes, wasReset>>

-----------------------------------------------------------------------------
Init ==
    /\ flashMeta = [f \in MetaFile |-> Blank]
    /\ data = [i \in Slot |-> Blank]
    /\ meta = ZeroMeta /\ nextSlot = "A" /\ queueCapacity = 0
    /\ pc = "off" /\ op = NoOp /\ batch = <<>>
    /\ fixes = 0 /\ boots = 0 /\ wasReset = FALSE

Begin ==
    \/ \E cap \in Capacities : Mount(cap)
    \/ MountFails
    \/ RecoverFresh \/ RecoverOtherCapacity \/ Recover
    \/ ProbeOk \/ ProbeCorrupt \/ ProbeShort \/ CreateDataFails

Loop ==
    \/ Push \/ PushWritesData \/ PushTruncates \/ PushDataFails
    \/ Peek \/ PeekCorrupt \/ LoopIdle \/ NotSent \/ ackFront

Next == Begin \/ Loop \/ CommitMeta \/ CommitFails \/ PowerCut

Spec == Init /\ [][Next]_vars

-----------------------------------------------------------------------------
(* Properties.                                                             *)

\* Every variable stays in its type: in particular every commit leaves an
\* encodable meta behind (fixQueueMetaEncode never refuses), although the
\* rollbacks of push() and ackFront() undo modular steps by hand.
TypeOK ==
    /\ flashMeta \in [MetaFile -> Meta \cup {Blank, Torn}]
    /\ data \in [Slot -> Record \cup {Blank, Torn}]
    /\ meta \in Meta
    /\ nextSlot \in MetaFile
    /\ queueCapacity \in Capacities \cup {0}
    /\ pc \in Pc
    /\ op \in [kind : OpKind, rec : Record, wasFull : BOOLEAN, n : Nat]
    /\ batch \in Seq(Record)
    /\ fixes \in Nat /\ boots \in Nat /\ wasReset \in BOOLEAN

\* A meta describes a ring: head is count slots after tail, modulo capacity.
RingShape(m) ==
    /\ MetaEncodable(m)
    /\ m.capacity \in Capacities
    /\ m.head = (m.tail + m.count) % m.capacity

\* Whatever fails, is cut or is torn, the meta in RAM and every meta a boot
\* could read describe a ring, so push() never writes outside the live window
\* of a ring that is not full (push, ackFront and their rollbacks).
RingsAreSound ==
    /\ pc \in {"probe", "idle", "data", "commit", "sending"} => RingShape(meta)
    /\ \A f \in MetaFile : Readable(flashMeta[f]) => RingShape(flashMeta[f])

\* What an operation in progress remembers about the meta it is about to
\* commit: enough to undo the change if the commit fails.
PendingOp ==
    /\ pc \in {"mounted", "probe", "idle", "data", "commit", "sending"} =>
          queueCapacity \in Capacities
    /\ pc = "data" => op.kind = "push"
    /\ pc = "sending" => Len(batch) <= meta.count
    /\ pc = "commit" =>
          /\ op.kind = "push" /\ op.wasFull =>
                meta.count = meta.capacity /\ meta.lost_count > 0
          /\ op.kind = "push" /\ ~op.wasFull => meta.count > 0
          /\ op.kind = "ack" => meta.count + op.n <= meta.capacity

\* What a boot at this instant would recover.
Durable == IF AnyReadable THEN flashMeta[Winner] ELSE ZeroMeta

\* As long as the store has not reset itself, every successful and every
\* failed push() and ackFront() leaves the RAM meta equal to the one a boot
\* would pick: the rollbacks keep "size() consistent with flash", and the A/B
\* alternation never leaves the stale file winning.  Only next_seq may run ahead.
RamMatchesFlash ==
    pc \in {"idle", "sending"} /\ ~wasReset /\ "silent" \notin Faults =>
        meta = [Durable EXCEPT !.next_seq = meta.next_seq]
        /\ meta.next_seq >= Durable.next_seq

\* While the store has not reset itself, a commit never overwrites the file a
\* boot depends on: with a write torn at any instant the other file still wins.
NeverLastCopy ==
    pc \in {"idle", "data", "commit", "sending"} /\ ~wasReset
    /\ op.kind \notin {"begin", "short", "corrupt"} =>
        Readable(flashMeta[Other(nextSlot)]) /\ Winner = Other(nextSlot)

\* Live records carry sequence ids in the order they were pushed, all below
\* next_seq, whatever is cut, torn or fails; only the oldest slot of a full
\* ring, which push() overwrites before it commits, is exempt.
SequencesIncrease ==
    ~wasReset /\ "silent" \notin Faults =>
        LET c == Contents(Durable)
            spoilt == IF fixQueueIsFull(Durable) THEN {1} ELSE {}
            sound == (1..Durable.count) \ spoilt
        IN  \A i \in sound :
               /\ c[i] \in Record
               /\ c[i].seq < Durable.next_seq
               /\ \A j \in sound : i < j => c[i].seq < c[j].seq /\ c[i].fix < c[j].fix

\* Every boot finds a queue it can use: a meta file that decides, and behind it
\* the records in their order (commitMeta, push, begin).
FlashIsRecoverable == NeverLastCopy /\ SequencesIncrease

\* A boot that follows a power cut recovers a queue that differs from the one
\* before the cut by at most one completed push or acknowledgement.
Fifo == INSTANCE DurableFifo WITH
            q <- Contents(Durable), cap <- Durable.capacity,
            lost <- Durable.lost_count, trusted <- ~wasReset

\* The store implements the durable FIFO its header describes.
ImplementsFifo == Fifo!FifoSpec

=============================================================================
