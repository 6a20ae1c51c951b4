--------------------------- MODULE FixStoreProofs ---------------------------
(***************************************************************************)
(* Proofs about FixStore and Delivery, for every set of capacities and     *)
(* every bound.  Types, rings and what the backend stores of an            *)
(* acknowledged batch hold under every combination of file system faults;  *)
(* that RAM, flash and the FIFO agree and that ids are fresh needs the     *)
(* faults that destroy data without the store noticing to be absent, which *)
(* each theorem says.                                                      *)
(***************************************************************************)
EXTENDS Delivery, WellFoundedInduction, TLAPS

-----------------------------------------------------------------------------
(* Arithmetic of the ring: every index the store reduces modulo the        *)
(* capacity is below twice the capacity.                                   *)

\* Reducing an index already inside the ring changes nothing.
LEMMA ModSmall ==
    ASSUME NEW c \in Nat \ {0}, NEW x \in Nat, x < c
    PROVE  x % c = x
  BY SMT

\* An index that went round the ring once comes back by one capacity.
LEMMA ModOnce ==
    ASSUME NEW c \in Nat \ {0}, NEW x \in Nat, c <= x, x < 2 * c
    PROVE  x % c = x - c
  BY SMT

\* fixQueueAdvance as a comparison instead of a division.
LEMMA AdvanceCases ==
    ASSUME NEW c \in Nat \ {0}, NEW x \in Nat, x < c
    PROVE  fixQueueAdvance(x, c) = IF x + 1 = c THEN 0 ELSE x + 1
<1>1. CASE x + 1 = c
  <2>1. c < 2 * c OBVIOUS
  <2>2. (x + 1) % c = (x + 1) - c  BY <1>1, <2>1, ModOnce
  <2> QED BY <1>1, <2>2 DEF fixQueueAdvance
<1>2. CASE x + 1 # c
  <2>1. (x + 1) % c = x + 1  BY <1>2, ModSmall
  <2> QED BY <1>2, <2>1 DEF fixQueueAdvance
<1> QED BY <1>1, <1>2

\* RingShape without the division.
LEMMA RingCases ==
    ASSUME NEW m \in Meta, MetaEncodable(m)
    PROVE  (m.tail + m.count) % m.capacity
             = IF m.tail + m.count < m.capacity
               THEN m.tail + m.count ELSE m.tail + m.count - m.capacity
<1> DEFINE c == m.capacity
           x == m.tail + m.count
<1>1. c \in Nat \ {0} /\ x \in Nat /\ x < 2 * c  BY DEF Meta, MetaEncodable
<1>2. CASE x < c  BY <1>1, <1>2, ModSmall
<1>3. CASE ~(x < c)
  <2>1. c <= x BY <1>1, <1>3
  <2>2. x % c = x - c BY <1>1, <2>1, ModOnce
  <2> QED BY <1>1, <1>3, <2>2 DEF Meta
<1> QED BY <1>2, <1>3
-----------------------------------------------------------------------------
(* The functions on metas keep the ring a ring.                            *)

\* A fresh meta is an empty ring.
LEMMA FreshSound ==
    ASSUME NEW c \in Capacities
    PROVE  fixQueueMetaFresh(c) \in Meta /\ RingShape(fixQueueMetaFresh(c))
<1>1. c \in Nat \ {0} BY CapacitiesAssumption
<1>2. 0 % c = 0 BY <1>1, ModSmall
<1> QED BY <1>1, <1>2 DEF fixQueueMetaFresh, Meta, RingShape, MetaEncodable

\* A commit changes the generation only.
LEMMA GenerationSound ==
    ASSUME NEW m \in Meta, RingShape(m)
    PROVE  /\ [m EXCEPT !.generation = @ + 1] \in Meta
           /\ RingShape([m EXCEPT !.generation = @ + 1])
  BY DEF Meta, RingShape, MetaEncodable

\* push() publishes a ring, full before or not.
LEMMA PublishedSound ==
    ASSUME NEW m \in Meta, RingShape(m), NEW rec \in Record
    PROVE  /\ Published(m, rec) \in Meta
           /\ RingShape(Published(m, rec))
           /\ fixQueueIsFull(m) => /\ Published(m, rec).count = Published(m, rec).capacity
                                   /\ Published(m, rec).lost_count > 0
           /\ ~fixQueueIsFull(m) => Published(m, rec).count > 0
<1> DEFINE p == Published(m, rec)
           c == m.capacity
<1>1. /\ m.head \in Nat /\ m.tail \in Nat /\ m.count \in Nat /\ c \in Nat \ {0}
      /\ m.lost_count \in Nat /\ m.next_seq \in Nat /\ m.generation \in Nat
      /\ m.head < c /\ m.tail < c /\ m.count <= c /\ rec.seq \in Nat
  BY DEF Meta, RingShape, MetaEncodable, Record
<1>2. fixQueueAdvance(m.head, c) = IF m.head + 1 = c THEN 0 ELSE m.head + 1
  BY <1>1, AdvanceCases
<1>3. fixQueueAdvance(m.tail, c) = IF m.tail + 1 = c THEN 0 ELSE m.tail + 1
  BY <1>1, AdvanceCases
<1>4. m.head = IF m.tail + m.count < c THEN m.tail + m.count ELSE m.tail + m.count - c
  BY RingCases DEF RingShape
<1>5. /\ p.head = fixQueueAdvance(m.head, c) /\ p.capacity = c
      /\ p.generation = m.generation
      /\ p.tail = IF fixQueueIsFull(m) THEN fixQueueAdvance(m.tail, c) ELSE m.tail
      /\ p.count = IF fixQueueIsFull(m) THEN m.count ELSE m.count + 1
      /\ p.lost_count = IF fixQueueIsFull(m) THEN m.lost_count + 1 ELSE m.lost_count
      /\ p.next_seq = IF rec.seq >= m.next_seq THEN rec.seq + 1 ELSE m.next_seq
  BY DEF Published, Meta
<1>6. p \in Meta
  <2>1. /\ p.head \in Nat /\ p.tail \in Nat /\ p.count \in Nat /\ p.capacity \in Nat
        /\ p.generation \in Nat /\ p.lost_count \in Nat /\ p.next_seq \in Nat
    BY <1>1, <1>2, <1>3, <1>5
  <2> QED BY <2>1, <1>1 DEF Published, Meta
<1>7. MetaEncodable(p)
  BY <1>1, <1>2, <1>3, <1>5 DEF MetaEncodable, fixQueueIsFull
<1>8. p.head = IF p.tail + p.count < c THEN p.tail + p.count ELSE p.tail + p.count - c
  BY <1>1, <1>2, <1>3, <1>4, <1>5 DEF fixQueueIsFull
<1>9. RingShape(p)
  BY <1>5, <1>6, <1>7, <1>8, RingCases DEF RingShape
<1> QED BY <1>1, <1>5, <1>6, <1>9 DEF fixQueueIsFull

\* ackFront() drops a prefix of the ring.
LEMMA AckedSound ==
    ASSUME NEW m \in Meta, RingShape(m), NEW n \in Nat, n <= m.count
    PROVE  /\ Acked(m, n) \in Meta
           /\ RingShape(Acked(m, n))
           /\ Acked(m, n).count + n <= Acked(m, n).capacity
<1> DEFINE p == Acked(m, n)
           c == m.capacity
<1>1. /\ m.head \in Nat /\ m.tail \in Nat /\ m.count \in Nat /\ c \in Nat \ {0}
      /\ m.lost_count \in Nat /\ m.next_seq \in Nat /\ m.generation \in Nat
      /\ m.head < c /\ m.tail < c /\ m.count <= c
  BY DEF Meta, RingShape, MetaEncodable
<1>2. (m.tail + n) % c = IF m.tail + n < c THEN m.tail + n ELSE m.tail + n - c
  <2> DEFINE x == m.tail + n
  <2>0. x \in Nat /\ x < 2 * c BY <1>1
  <2>1. CASE x < c BY <1>1, <2>0, <2>1, ModSmall
  <2>2. CASE ~(x < c)
    <3>1. c <= x BY <1>1, <2>0, <2>2
    <3>2. x % c = x - c BY <1>1, <2>0, <3>1, ModOnce
    <3> QED BY <1>1, <2>0, <2>2, <3>2
  <2> QED BY <2>1, <2>2
<1>3. m.head = IF m.tail + m.count < c THEN m.tail + m.count ELSE m.tail + m.count - c
  BY RingCases DEF RingShape
<1>4. /\ p.head = m.head /\ p.capacity = c /\ p.generation = m.generation
      /\ p.tail = (m.tail + n) % c /\ p.count = m.count - n
      /\ p.lost_count = m.lost_count /\ p.next_seq = m.next_seq
  BY DEF Acked, Meta
<1>5. p \in Meta
  <2>1. p.tail \in Nat /\ p.count \in Nat BY <1>1, <1>2, <1>4
  <2> QED BY <2>1, <1>1, <1>4 DEF Acked, Meta
<1>6. MetaEncodable(p)
  BY <1>1, <1>2, <1>4 DEF MetaEncodable
<1>7. p.head = IF p.tail + p.count < c THEN p.tail + p.count ELSE p.tail + p.count - c
  BY <1>1, <1>2, <1>3, <1>4
<1>8. RingShape(p)
  BY <1>4, <1>5, <1>6, <1>7, RingCases DEF RingShape
<1> QED BY <1>1, <1>4, <1>5, <1>8

\* The rollbacks after a failed commit restore a ring, for each caller.
LEMMA RolledBackSound ==
    ASSUME TypeOK, RingShape(meta), PendingOp, pc = "commit"
    PROVE  RolledBack \in Meta /\ RingShape(RolledBack)
<1> DEFINE r == RolledBack
           c == meta.capacity
<1>1. /\ meta \in Meta
      /\ meta.head \in Nat /\ meta.tail \in Nat /\ meta.count \in Nat /\ c \in Nat \ {0}
      /\ meta.lost_count \in Nat /\ meta.next_seq \in Nat /\ meta.generation \in Nat
      /\ meta.head < c /\ meta.tail < c /\ meta.count <= c
      /\ op.n \in Nat /\ op.wasFull \in BOOLEAN
  BY DEF TypeOK, Meta, RingShape, MetaEncodable
<1>2. meta.head = IF meta.tail + meta.count < c
                  THEN meta.tail + meta.count ELSE meta.tail + meta.count - c
  BY <1>1, RingCases DEF RingShape
<1>3. SUFFICES /\ r \in Meta /\ r.capacity = c /\ MetaEncodable(r)
               /\ r.head = IF r.tail + r.count < c
                           THEN r.tail + r.count ELSE r.tail + r.count - c
  BY RingCases DEF RingShape
<1>4. CASE op.kind = "push" /\ op.wasFull
  <2>1. r = [meta EXCEPT !.tail = Retreat(@, c), !.lost_count = @ - 1, !.head = Retreat(@, c)]
    BY <1>4 DEF RolledBack
  <2>2. /\ r.head = Retreat(meta.head, c) /\ r.tail = Retreat(meta.tail, c)
        /\ r.count = meta.count /\ r.capacity = c /\ r.lost_count = meta.lost_count - 1
    BY <1>1, <2>1 DEF Meta
  <2>3. meta.count = c /\ meta.lost_count > 0 BY <1>4 DEF PendingOp
  <2>4. r.head \in Nat /\ r.tail \in Nat /\ r.lost_count \in Nat /\ r.head < c /\ r.tail < c
    BY <1>1, <2>2, <2>3 DEF Retreat
  <2>5. r \in Meta BY <1>1, <2>1, <2>2, <2>4 DEF Meta
  <2> QED BY <1>1, <1>2, <2>2, <2>3, <2>4, <2>5 DEF Retreat, MetaEncodable
<1>5. CASE op.kind = "push" /\ ~op.wasFull
  <2>1. r = [meta EXCEPT !.count = @ - 1, !.head = Retreat(@, c)]
    BY <1>5 DEF RolledBack
  <2>2. /\ r.head = Retreat(meta.head, c) /\ r.tail = meta.tail
        /\ r.count = meta.count - 1 /\ r.capacity = c
    BY <1>1, <2>1 DEF Meta
  <2>3. meta.count > 0 BY <1>5 DEF PendingOp
  <2>4. r.head \in Nat /\ r.count \in Nat /\ r.head < c
    BY <1>1, <2>2, <2>3 DEF Retreat
  <2>5. r \in Meta BY <1>1, <2>1, <2>2, <2>4 DEF Meta
  <2> QED BY <1>1, <1>2, <2>2, <2>3, <2>4, <2>5 DEF Retreat, MetaEncodable
<1>6. CASE op.kind = "ack"
  <2>1. r = [meta EXCEPT !.tail = (@ + c - op.n) % c, !.count = @ + op.n]
    BY <1>6 DEF RolledBack
  <2>2. /\ r.head = meta.head /\ r.tail = (meta.tail + c - op.n) % c
        /\ r.count = meta.count + op.n /\ r.capacity = c
    BY <1>1, <2>1 DEF Meta
  <2>3. meta.count + op.n <= c BY <1>6 DEF PendingOp
  <2> DEFINE x == meta.tail + c - op.n
  <2>4. x \in Nat /\ x < 2 * c BY <1>1, <2>3
  <2>5. x % c = IF x < c THEN x ELSE x - c
    <3>1. CASE x < c BY <1>1, <2>4, <3>1, ModSmall
    <3>2. CASE ~(x < c)
      <4>1. c <= x BY <1>1, <2>4, <3>2
      <4>2. x % c = x - c BY <1>1, <2>4, <4>1, ModOnce
      <4> QED BY <3>2, <4>2
    <3> QED BY <3>1, <3>2
  <2>6. r.tail \in Nat /\ r.tail < c /\ r.count \in Nat
    BY <1>1, <2>2, <2>3, <2>4, <2>5
  <2>7. r \in Meta BY <1>1, <2>1, <2>2, <2>6 DEF Meta
  <2> QED BY <1>1, <1>2, <2>2, <2>3, <2>5, <2>6, <2>7 DEF MetaEncodable
<1>7. CASE op.kind \notin {"push", "ack"}
  <2>1. r = meta BY <1>7 DEF RolledBack
  <2> QED BY <1>1, <1>2, <2>1 DEF RingShape
<1> QED BY <1>1, <1>4, <1>5, <1>6, <1>7

-----------------------------------------------------------------------------
(* The inductive invariant: types, rings, and what an operation in         *)
(* progress remembers.                                                     *)

IndInv == TypeOK /\ RingsAreSound /\ PendingOp

\* A blank flash and the static initialisers of the store satisfy it.
LEMMA InitInd == Init => IndInv
<1> SUFFICES ASSUME Init PROVE IndInv OBVIOUS
<1>1. ZeroMeta \in Meta BY DEF ZeroMeta, fixQueueMetaFresh, Meta
<1>2. NoRec \in Record BY DEF NoRec, Record
<1>3. NoOp \in [kind : OpKind, rec : Record, wasFull : BOOLEAN, n : Nat]
  BY <1>2 DEF NoOp, OpKind
<1>4. <<>> \in Seq(Record) OBVIOUS
<1>5. TypeOK BY <1>1, <1>3, <1>4 DEF Init, TypeOK, MetaFile, Pc
<1>6. Blank \notin Meta BY SentinelAssumption
<1> QED BY <1>5, <1>6 DEF Init, IndInv, RingsAreSound, PendingOp, Readable, MetaFile

\* A file holds what it held, what was written, or nothing readable.
LEMMA WriteOutcomes ==
    ASSUME NEW old, NEW new
    PROVE  /\ \A v \in AfterWrite(old, new) : v = old \/ v = new
           /\ \A v \in AfterError(old) : v = old \/ v = Torn
           /\ \A v \in AfterCut(old, new) : v = old \/ v = new \/ v = Torn
  BY DEF AfterWrite, AfterError, AfterCut

\* Writing a ring, or a torn image, to a meta file keeps both files sound.
LEMMA MetaWriteSound ==
    ASSUME TypeOK, RingsAreSound, NEW new \in Meta, RingShape(new),
           NEW v, v = flashMeta[nextSlot] \/ v = new \/ v = Torn
    PROVE  LET g == [flashMeta EXCEPT ![nextSlot] = v]
           IN  /\ g \in [MetaFile -> Meta \cup {Blank, Torn}]
               /\ \A f \in MetaFile : Readable(g[f]) => RingShape(g[f])
<1> DEFINE g == [flashMeta EXCEPT ![nextSlot] = v]
<1>1. v \in Meta \cup {Blank, Torn} BY DEF TypeOK
<1>2. g \in [MetaFile -> Meta \cup {Blank, Torn}] BY <1>1 DEF TypeOK
<1>3. ASSUME NEW f \in MetaFile, Readable(g[f]) PROVE RingShape(g[f])
  <2>1. CASE f # nextSlot BY <1>3, <2>1 DEF TypeOK, RingsAreSound
  <2>2. CASE f = nextSlot
    <3>1. g[f] = v BY <2>2 DEF TypeOK
    <3>2. CASE v = Torn BY <1>3, <3>1, <3>2, SentinelAssumption DEF Readable
    <3>3. CASE v = new BY <3>1, <3>3
    <3>4. CASE v = flashMeta[nextSlot] BY <1>3, <2>2, <3>1, <3>4 DEF RingsAreSound
    <3> QED BY <3>2, <3>3, <3>4
  <2> QED BY <2>1, <2>2
<1> QED BY <1>2, <1>3

\* reset() leaves an empty ring of the capacity begin() was given.
LEMMA ResetSound ==
    ASSUME IndInv, NEW kind \in {"begin", "short", "corrupt"}, reset(kind),
           queueCapacity \in Capacities,
           UNCHANGED <<flash, queueCapacity, batch, fixes, boots>>,
           wasReset' \in BOOLEAN
    PROVE  IndInv'
<1>1. meta' \in Meta /\ RingShape(meta') BY FreshSound DEF reset
<1>2. op' \in [kind : OpKind, rec : Record, wasFull : BOOLEAN, n : Nat]
      /\ op'.kind = kind
  BY DEF reset, NoOp, OpKind, NoRec, Record
<1>3. TypeOK' BY <1>1, <1>2 DEF IndInv, TypeOK, reset, flash, MetaFile, Pc
<1>4. RingsAreSound' BY <1>1 DEF IndInv, RingsAreSound, flash
<1>5. PendingOp' BY <1>2 DEF PendingOp, reset
<1> QED BY <1>3, <1>4, <1>5 DEF IndInv

\* Publishing a record, whatever its data write left behind, keeps the ring
\* and remembers enough to roll the push back.
LEMMA PublishStepSound ==
    ASSUME IndInv, pc = "data",
           data' \in [Slot -> Record \cup {Blank, Torn}],
           op' = [op EXCEPT !.wasFull = fixQueueIsFull(meta)],
           meta' = Published(meta, op.rec),
           pc' = "commit",
           UNCHANGED <<flashMeta, nextSlot, queueCapacity, batch, fixes, boots, wasReset>>
    PROVE  IndInv'
<1> USE DEF IndInv
<1>1. op.rec \in Record BY DEF TypeOK
<1>2. meta \in Meta /\ RingShape(meta) BY DEF TypeOK, RingsAreSound
<1>3. meta' \in Meta /\ RingShape(meta') BY <1>1, <1>2, PublishedSound
<1>4. op' \in [kind : OpKind, rec : Record, wasFull : BOOLEAN, n : Nat]
      /\ op'.kind = "push" /\ op'.wasFull = fixQueueIsFull(meta)
  <2> DEFINE b == fixQueueIsFull(meta)
  <2>1. b \in BOOLEAN BY DEF fixQueueIsFull
  <2>2. op' = [op EXCEPT !.wasFull = b] /\ op.kind = "push" BY DEF PendingOp
  <2>3. op \in [kind : OpKind, rec : Record, wasFull : BOOLEAN, n : Nat] BY DEF TypeOK
  <2> HIDE DEF b
  <2>4. op' \in [kind : OpKind, rec : Record, wasFull : BOOLEAN, n : Nat]
        /\ op'.kind = "push" /\ op'.wasFull = b
    BY <2>1, <2>2, <2>3, Zenon
  <2> QED BY <2>4 DEF b
<1>5. TypeOK' BY <1>3, <1>4 DEF TypeOK, Pc
<1>6. RingsAreSound' BY <1>3 DEF RingsAreSound
<1>7. PendingOp'
  <2>1. fixQueueIsFull(meta) => meta'.count = meta'.capacity /\ meta'.lost_count > 0
    BY <1>1, <1>2, PublishedSound
  <2>2. ~fixQueueIsFull(meta) => meta'.count > 0
    BY <1>1, <1>2, PublishedSound
  <2> QED BY <1>4, <2>1, <2>2 DEF PendingOp
<1> QED BY <1>5, <1>6, <1>7

\* Every step of the store keeps the inductive invariant: begin() and its
\* recovery, push, peek, ackFront, commitMeta and its rollback, a power cut.
LEMMA NextInd == IndInv /\ [Next]_vars => IndInv'
<1> SUFFICES ASSUME IndInv, [Next]_vars PROVE IndInv'
  OBVIOUS
<1> USE DEF IndInv
<1>n. NoOp \in [kind : OpKind, rec : Record, wasFull : BOOLEAN, n : Nat] /\ NoOp.kind = "none"
  BY DEF NoOp, OpKind, NoRec, Record
<1>1. CASE UNCHANGED vars
  BY <1>1 DEF vars, TypeOK, RingsAreSound, RingShape, MetaEncodable, Readable, PendingOp
<1>2. ASSUME NEW cap \in Capacities, Mount(cap) PROVE IndInv'
  <2>1. CASE UNCHANGED flash
    BY <1>2, <2>1 DEF Mount, flash, TypeOK, Pc, RingsAreSound, PendingOp
  <2>2. CASE flashMeta' = [f \in MetaFile |-> Blank] /\ data' = [i \in Slot |-> Blank]
    <3>1. TypeOK' BY <1>2, <2>2 DEF Mount, TypeOK, Pc
    <3>2. RingsAreSound' BY <1>2, <2>2, SentinelAssumption DEF Mount, RingsAreSound, Readable
    <3>3. PendingOp' BY <1>2, <2>2 DEF Mount, PendingOp
    <3> QED BY <3>1, <3>2, <3>3
  <2> QED BY <1>2, <2>1, <2>2 DEF Mount
<1>3. CASE MountFails
  BY <1>3 DEF MountFails, flash, ram, TypeOK, Pc, RingsAreSound, PendingOp
<1>4. CASE RecoverFresh
  BY <1>4, ResetSound DEF RecoverFresh, PendingOp, TypeOK
<1>5. CASE RecoverOtherCapacity
  BY <1>5, ResetSound DEF RecoverOtherCapacity, PendingOp, TypeOK
<1>6. CASE Recover
  <2>1. Winner \in MetaFile /\ Other(Winner) \in MetaFile
    BY DEF Winner, fixQueueMetaPick, MetaFile, Other
  <2>2. Readable(flashMeta[Winner])
    BY <1>6 DEF Recover, AnyReadable, Winner, fixQueueMetaPick, MetaFile
  <2>3. meta' \in Meta /\ RingShape(meta')
    BY <1>6, <2>1, <2>2 DEF Recover, Readable, RingsAreSound
  <2>4. TypeOK' BY <1>6, <2>1, <2>3 DEF Recover, TypeOK, flash, Pc
  <2>5. RingsAreSound' BY <1>6, <2>3 DEF Recover, RingsAreSound, flash
  <2>6. PendingOp' BY <1>6 DEF Recover, PendingOp
  <2> QED BY <2>4, <2>5, <2>6
<1>7. CASE ProbeOk
  BY <1>7, <1>n DEF ProbeOk, flash, ram, TypeOK, Pc, RingsAreSound, PendingOp
<1>8. CASE ProbeCorrupt
  BY <1>8, ResetSound DEF ProbeCorrupt, PendingOp, TypeOK
<1>9. CASE ProbeShort
  BY <1>9, ResetSound DEF ProbeShort, PendingOp, TypeOK
<1>10. CASE CreateDataFails
  BY <1>10, <1>n DEF CreateDataFails, flash, ram, TypeOK, Pc, RingsAreSound, PendingOp
<1>11. CASE Push
  <2>1. meta.next_seq \in Nat BY DEF TypeOK, Meta
  <2> DEFINE r == [seq |-> meta.next_seq, fix |-> fixes + 1]
  <2>3. r \in Record BY <2>1 DEF TypeOK, Record
  <2>4. op' = [kind |-> "push", rec |-> r, wasFull |-> FALSE, n |-> 0]
    BY <1>11 DEF Push, NoOp
  <2>2. op' \in [kind : OpKind, rec : Record, wasFull : BOOLEAN, n : Nat] /\ op'.kind = "push"
    <3> HIDE DEF r
    <3> QED BY <2>3, <2>4 DEF OpKind
  <2> QED BY <1>11, <2>2 DEF Push, flash, ram, TypeOK, Pc, RingsAreSound, PendingOp
<1>12. CASE PushWritesData
  <2>1. PICK v \in AfterWrite(data[meta.head], op.rec) : data' = [data EXCEPT ![meta.head] = v]
    BY <1>12 DEF PushWritesData
  <2>2. v = data[meta.head] \/ v = op.rec BY WriteOutcomes
  <2>3. data' \in [Slot -> Record \cup {Blank, Torn}] BY <2>1, <2>2 DEF TypeOK
  <2> QED BY <1>12, <2>3, PublishStepSound DEF PushWritesData
<1>22. CASE PushTruncates
  <2>1. data' \in [Slot -> Record \cup {Blank, Torn}]
    BY <1>22 DEF PushTruncates, TypeOK
  <2> QED BY <1>22, <2>1, PublishStepSound DEF PushTruncates
<1>13. CASE PushDataFails
  <2>1. data' \in [Slot -> Record \cup {Blank, Torn}]
    <3>1. PICK v \in AfterError(data[meta.head]) : data' = [data EXCEPT ![meta.head] = v]
      BY <1>13 DEF PushDataFails
    <3>2. v = data[meta.head] \/ v = Torn BY WriteOutcomes
    <3> QED BY <3>1, <3>2 DEF TypeOK
  <2>2. TypeOK' BY <1>13, <1>n, <2>1 DEF PushDataFails, ram, TypeOK, Pc
  <2> QED BY <1>13, <2>2 DEF PushDataFails, ram, RingsAreSound, PendingOp
<1>14. CASE Peek
  <2>1. PICK n \in 1..Limit(BatchMax) :
           Reads(n, BatchMax) /\ batch' = [i \in 1..n |-> data[SlotAt(meta, i)]]
    BY <1>14 DEF Peek
  <2>2. Limit(BatchMax) \in Nat /\ Limit(BatchMax) <= meta.count
    BY BoundsAssumption DEF Limit, TypeOK, Meta
  <2>3. n \in Nat /\ n <= meta.count BY <2>1, <2>2 DEF TypeOK, Meta
  <2>4. batch' \in Seq(Record) /\ Len(batch') = n
    BY <2>1, <2>3 DEF Reads
  <2>5. TypeOK' BY <1>14, <2>4 DEF Peek, flash, TypeOK, Pc
  <2> QED BY <1>14, <2>3, <2>4, <2>5 DEF Peek, flash, RingsAreSound, PendingOp
<1>15. CASE PeekCorrupt
  BY <1>15, ResetSound DEF PeekCorrupt, PendingOp, TypeOK
<1>16. CASE LoopIdle
  BY <1>1, <1>16 DEF LoopIdle
<1>17. CASE NotSent
  <2>1. TypeOK' BY <1>17 DEF NotSent, flash, TypeOK, Pc
  <2> QED BY <1>17, <2>1 DEF NotSent, flash, RingsAreSound, PendingOp
<1>18. CASE ackFront
  <2>1. Len(batch) \in Nat /\ Len(batch) <= meta.count
    BY <1>18 DEF ackFront, TypeOK, PendingOp
  <2>2. meta \in Meta /\ RingShape(meta) BY <1>18 DEF ackFront, TypeOK, RingsAreSound
  <2>3. /\ meta' \in Meta /\ RingShape(meta')
        /\ meta'.count + Len(batch) <= meta'.capacity
    BY <1>18, <2>1, <2>2, AckedSound DEF ackFront
  <2>4. op' \in [kind : OpKind, rec : Record, wasFull : BOOLEAN, n : Nat]
        /\ op'.kind = "ack" /\ op'.n = Len(batch)
    BY <1>18, <2>1 DEF ackFront, NoOp, OpKind, NoRec, Record
  <2>5. TypeOK' BY <1>18, <2>3, <2>4 DEF ackFront, flash, TypeOK, Pc
  <2>6. RingsAreSound' BY <1>18, <2>3 DEF ackFront, flash, RingsAreSound
  <2>7. PendingOp' BY <1>18, <2>3, <2>4 DEF ackFront, PendingOp
  <2> QED BY <2>5, <2>6, <2>7
<1>19. CASE CommitMeta
  <2>1. meta \in Meta /\ RingShape(meta) BY <1>19 DEF CommitMeta, TypeOK, RingsAreSound
  <2>2. Committed \in Meta /\ RingShape(Committed) BY <2>1, GenerationSound DEF Committed
  <2>3. PICK v \in AfterWrite(flashMeta[nextSlot], Committed) :
           flashMeta' = [flashMeta EXCEPT ![nextSlot] = v]
    BY <1>19 DEF CommitMeta
  <2>4. v = flashMeta[nextSlot] \/ v = Committed BY WriteOutcomes
  <2>5. /\ flashMeta' \in [MetaFile -> Meta \cup {Blank, Torn}]
        /\ \A f \in MetaFile : Readable(flashMeta'[f]) => RingShape(flashMeta'[f])
    BY <2>2, <2>3, <2>4, MetaWriteSound
  <2>6. Other(nextSlot) \in MetaFile BY DEF Other, MetaFile
  <2>7. TypeOK' BY <1>19, <1>n, <2>2, <2>5, <2>6 DEF CommitMeta, TypeOK, Pc
  <2>8. RingsAreSound' BY <1>19, <2>2, <2>5 DEF CommitMeta, RingsAreSound
  <2>9. PendingOp' BY <1>19 DEF CommitMeta, PendingOp
  <2> QED BY <2>7, <2>8, <2>9
<1>20. CASE CommitFails
  <2>1. meta \in Meta /\ RingShape(meta) BY <1>20 DEF CommitFails, TypeOK, RingsAreSound
  <2>2. RolledBack \in Meta /\ RingShape(RolledBack)
    BY <1>20, <2>1, RolledBackSound DEF CommitFails
  <2>3. PICK v \in AfterError(flashMeta[nextSlot]) :
           flashMeta' = [flashMeta EXCEPT ![nextSlot] = v]
    BY <1>20 DEF CommitFails
  <2>4. v = flashMeta[nextSlot] \/ v = Torn BY WriteOutcomes
  <2>5. /\ flashMeta' \in [MetaFile -> Meta \cup {Blank, Torn}]
        /\ \A f \in MetaFile : Readable(flashMeta'[f]) => RingShape(flashMeta'[f])
    BY <2>1, <2>3, <2>4, MetaWriteSound
  <2>6. TypeOK' BY <1>20, <1>n, <2>2, <2>5 DEF CommitFails, TypeOK, Pc
  <2>7. RingsAreSound' BY <1>20, <2>2, <2>5 DEF CommitFails, RingsAreSound
  <2>8. PendingOp' BY <1>20 DEF CommitFails, PendingOp
  <2> QED BY <2>6, <2>7, <2>8
<1>21. CASE PowerCut
  <2>1. ZeroMeta \in Meta BY DEF ZeroMeta, fixQueueMetaFresh, Meta
  <2>2. /\ flashMeta' \in [MetaFile -> Meta \cup {Blank, Torn}]
        /\ \A f \in MetaFile : Readable(flashMeta'[f]) => RingShape(flashMeta'[f])
    <3>1. CASE pc = "commit" /\ MetaEncodable(meta)
      <4>1. meta \in Meta /\ RingShape(meta) BY <3>1 DEF TypeOK, RingsAreSound
      <4>2. Committed \in Meta /\ RingShape(Committed) BY <4>1, GenerationSound DEF Committed
      <4>3. PICK v \in AfterCut(flashMeta[nextSlot], Committed) :
               flashMeta' = [flashMeta EXCEPT ![nextSlot] = v]
        BY <1>21, <3>1 DEF PowerCut
      <4>4. v = flashMeta[nextSlot] \/ v = Committed \/ v = Torn BY WriteOutcomes
      <4> QED BY <4>2, <4>3, <4>4, MetaWriteSound
    <3>2. CASE ~(pc = "commit" /\ MetaEncodable(meta))
      BY <1>21, <3>2 DEF PowerCut, TypeOK, RingsAreSound
    <3> QED BY <3>1, <3>2
  <2>3. data' \in [Slot -> Record \cup {Blank, Torn}]
    <3>1. CASE pc = "data"
      <4>1. PICK v \in AfterCut(data[meta.head], op.rec) : data' = [data EXCEPT ![meta.head] = v]
        BY <1>21, <3>1 DEF PowerCut
      <4>2. v = data[meta.head] \/ v = op.rec \/ v = Torn BY WriteOutcomes
      <4> QED BY <4>1, <4>2 DEF TypeOK
    <3>2. CASE pc # "data" BY <1>21, <3>2 DEF PowerCut, TypeOK
    <3> QED BY <3>1, <3>2
  <2>4. TypeOK' BY <1>21, <1>n, <2>1, <2>2, <2>3 DEF PowerCut, TypeOK, Pc, MetaFile
  <2>5. RingsAreSound' BY <1>21, <2>2 DEF PowerCut, RingsAreSound
  <2>6. PendingOp' BY <1>21 DEF PowerCut, PendingOp
  <2> QED BY <2>4, <2>5, <2>6
<1> QED
  BY <1>1, <1>2, <1>3, <1>4, <1>5, <1>6, <1>7, <1>8, <1>9, <1>10, <1>11, <1>12, <1>13,
     <1>14, <1>15, <1>16, <1>17, <1>18, <1>19, <1>20, <1>21, <1>22
     DEF Next, Begin, Loop

\* The variables of the store stay in their types (persistent_fix_store.cpp).
THEOREM TypeCorrect == Spec => []TypeOK
<1>1. IndInv => TypeOK BY DEF IndInv
<1> QED BY <1>1, InitInd, NextInd, PTL DEF Spec

\* Whatever the file system does and wherever power is cut, the meta in RAM
\* and every meta a boot could read describe a ring (push, ackFront, reset and
\* the rollbacks of a failed commitMeta).
THEOREM RingsStaySound == Spec => []RingsAreSound
<1>1. IndInv => RingsAreSound BY DEF IndInv
<1> QED BY <1>1, InitInd, NextInd, PTL DEF Spec

-----------------------------------------------------------------------------
(* RAM and flash agree: what the RAM meta describes between two operations *)
(* is what a boot would read from the file that the next commit spares.    *)

\* The same queue; only next_seq, which no rollback restores, may run ahead.
SameQueue(m, w) ==
    /\ m \in Meta /\ w \in Meta
    /\ m.generation = w.generation /\ m.capacity = w.capacity
    /\ m.head = w.head /\ m.tail = w.tail /\ m.count = w.count
    /\ m.lost_count = w.lost_count /\ m.next_seq >= w.next_seq

\* A boot picks the file that is not written next.
SparedWins == Readable(flashMeta[Other(nextSlot)]) /\ Winner = Other(nextSlot)

\* ... and finds the queue m there.
InFlash(m) == SparedWins /\ SameQueue(m, flashMeta[Other(nextSlot)])

\* While a commit of push() or ackFront() is pending, it is the meta that its
\* rollback would restore that flash holds; the only other commit without a
\* reset is that of the first begin(), when flash holds no queue.
Synced ==
    "silent" \notin Faults /\ ~wasReset =>
        /\ pc \in {"probe", "idle", "data", "sending"} => InFlash(meta)
        /\ pc = "commit" /\ op.kind \in {"push", "ack"} => InFlash(RolledBack)
        /\ pc = "commit" /\ op.kind \notin {"push", "ack"} =>
              op.kind = "begin" /\ ~AnyReadable /\ meta.next_seq # 0

\* The two meta files alternate.
LEMMA OtherTwice ==
    ASSUME NEW f \in MetaFile
    PROVE  Other(f) \in MetaFile /\ Other(f) # f /\ Other(Other(f)) = f
  BY DEF MetaFile, Other

\* Undoing a push step by step gives back every field but next_seq.
LEMMA PushUndone ==
    ASSUME NEW m \in Meta, RingShape(m), NEW rec \in Record, NEW r,
           r = IF fixQueueIsFull(m)
               THEN [Published(m, rec) EXCEPT !.tail = Retreat(@, m.capacity),
                                              !.lost_count = @ - 1,
                                              !.head = Retreat(@, m.capacity)]
               ELSE [Published(m, rec) EXCEPT !.count = @ - 1,
                                              !.head = Retreat(@, m.capacity)]
    PROVE  SameQueue(r, m)
<1> DEFINE p == Published(m, rec)
           c == m.capacity
<1>1. /\ m.head \in Nat /\ m.tail \in Nat /\ m.count \in Nat /\ c \in Nat \ {0}
      /\ m.lost_count \in Nat /\ m.next_seq \in Nat /\ m.generation \in Nat
      /\ m.head < c /\ m.tail < c /\ m.count <= c /\ rec.seq \in Nat
  BY DEF Meta, RingShape, MetaEncodable, Record
<1>2. fixQueueAdvance(m.head, c) = IF m.head + 1 = c THEN 0 ELSE m.head + 1
  BY <1>1, AdvanceCases
<1>3. fixQueueAdvance(m.tail, c) = IF m.tail + 1 = c THEN 0 ELSE m.tail + 1
  BY <1>1, AdvanceCases
<1>4. p \in Meta BY PublishedSound
<1>5. /\ p.head = fixQueueAdvance(m.head, c) /\ p.capacity = c
      /\ p.generation = m.generation
      /\ p.tail = IF fixQueueIsFull(m) THEN fixQueueAdvance(m.tail, c) ELSE m.tail
      /\ p.count = IF fixQueueIsFull(m) THEN m.count ELSE m.count + 1
      /\ p.lost_count = IF fixQueueIsFull(m) THEN m.lost_count + 1 ELSE m.lost_count
      /\ p.next_seq = IF rec.seq >= m.next_seq THEN rec.seq + 1 ELSE m.next_seq
  BY DEF Published, Meta
<1>6. Retreat(p.head, c) = m.head BY <1>1, <1>2, <1>5 DEF Retreat
<1>7. p.next_seq \in Nat /\ p.next_seq >= m.next_seq BY <1>1, <1>5
<1>8. CASE fixQueueIsFull(m)
  <2>1. Retreat(p.tail, c) = m.tail BY <1>1, <1>3, <1>5, <1>8 DEF Retreat
  <2>2. p.lost_count - 1 = m.lost_count BY <1>1, <1>5, <1>8
  <2> HIDE DEF p
  <2>3. r = [p EXCEPT !.tail = m.tail, !.lost_count = m.lost_count, !.head = m.head]
    BY <1>4, <1>6, <1>8, <2>1, <2>2 DEF Meta, p
  <2> QED BY <1>1, <1>4, <1>5, <1>7, <1>8, <2>3 DEF SameQueue, Meta
<1>9. CASE ~fixQueueIsFull(m)
  <2>1. p.count - 1 = m.count BY <1>1, <1>5, <1>9
  <2> HIDE DEF p
  <2>2. r = [p EXCEPT !.count = m.count, !.head = m.head]
    BY <1>4, <1>6, <1>9, <2>1 DEF Meta, p
  <2> QED BY <1>1, <1>4, <1>5, <1>7, <1>9, <2>2 DEF SameQueue, Meta
<1> QED BY <1>8, <1>9

\* Undoing an acknowledgement moves the tail back round the ring to where it was.
LEMMA AckUndone ==
    ASSUME NEW m \in Meta, RingShape(m), NEW n \in Nat, n <= m.count, NEW r,
           r = [Acked(m, n) EXCEPT !.tail = (@ + m.capacity - n) % m.capacity,
                                   !.count = @ + n]
    PROVE  SameQueue(r, m)
<1> DEFINE p == Acked(m, n)
           c == m.capacity
<1>1. /\ m.head \in Nat /\ m.tail \in Nat /\ m.count \in Nat /\ c \in Nat \ {0}
      /\ m.lost_count \in Nat /\ m.next_seq \in Nat /\ m.generation \in Nat
      /\ m.head < c /\ m.tail < c /\ m.count <= c
  BY DEF Meta, RingShape, MetaEncodable
<1>2. p \in Meta BY AckedSound
<1>3. /\ p.head = m.head /\ p.capacity = c /\ p.generation = m.generation
      /\ p.tail = (m.tail + n) % c /\ p.count = m.count - n
      /\ p.lost_count = m.lost_count /\ p.next_seq = m.next_seq
  BY DEF Acked, Meta
<1>4. (p.tail + c - n) % c = m.tail
  <2>1. CASE m.tail + n < c
    <3>1. p.tail = m.tail + n BY <1>1, <1>3, <2>1, ModSmall
    <3>2. p.tail + c - n = m.tail + c BY <1>1, <3>1
    <3>3. (m.tail + c) % c = (m.tail + c) - c
      <4>1. m.tail + c \in Nat /\ c <= m.tail + c /\ m.tail + c < 2 * c BY <1>1
      <4> QED BY <1>1, <4>1, ModOnce
    <3> QED BY <1>1, <3>2, <3>3
  <2>2. CASE ~(m.tail + n < c)
    <3>1. p.tail = m.tail + n - c
      <4>1. m.tail + n \in Nat /\ c <= m.tail + n /\ m.tail + n < 2 * c BY <1>1, <2>2
      <4> QED BY <1>1, <1>3, <4>1, ModOnce
    <3>2. p.tail + c - n = m.tail BY <1>1, <3>1
    <3> QED BY <1>1, <3>2, ModSmall
  <2> QED BY <2>1, <2>2
<1>5. p.count + n = m.count BY <1>1, <1>3
<1>6. r = [p EXCEPT !.tail = m.tail, !.count = m.count]
  <2> HIDE DEF p
  <2> QED BY <1>2, <1>4, <1>5 DEF Meta, p
<1> HIDE DEF p, c
<1>7. r \in Meta BY <1>1, <1>2, <1>6 DEF Meta
<1>8. /\ r.head = m.head /\ r.capacity = m.capacity /\ r.generation = m.generation
      /\ r.tail = m.tail /\ r.count = m.count
      /\ r.lost_count = m.lost_count /\ r.next_seq = m.next_seq
  BY <1>2, <1>3, <1>6 DEF Meta, c
<1> QED BY <1>1, <1>7, <1>8 DEF SameQueue

\* A failed or torn write of the file that is written next changes nothing for a boot.
LEMMA ErrorKeepsWinner ==
    ASSUME TypeOK, NEW m, InFlash(m),
           NEW v, v = flashMeta[nextSlot] \/ v = Torn,
           flashMeta' = [flashMeta EXCEPT ![nextSlot] = v], UNCHANGED nextSlot
    PROVE  SparedWins' /\ flashMeta'[Other(nextSlot')] = flashMeta[Other(nextSlot)]
<1>1. nextSlot \in MetaFile /\ flashMeta \in [MetaFile -> Meta \cup {Blank, Torn}]
  BY DEF TypeOK
<1>2. flashMeta'[Other(nextSlot)] = flashMeta[Other(nextSlot)] /\ flashMeta'[nextSlot] = v
  BY <1>1, OtherTwice
<1>3. CASE v = flashMeta[nextSlot]
  <2>1. flashMeta' = flashMeta BY <1>1, <1>3
  <2> QED BY <2>1 DEF InFlash, SparedWins, Winner
<1>4. CASE v = Torn
  <2>1. ~Readable(flashMeta'[nextSlot])
    BY <1>2, <1>4, SentinelAssumption DEF Readable
  <2>2. Readable(flashMeta'[Other(nextSlot)]) BY <1>2 DEF InFlash, SparedWins
  <2>3. Winner' = Other(nextSlot)
    BY <1>1, <2>1, <2>2 DEF Winner, fixQueueMetaPick, MetaFile, Other
  <2> QED BY <1>2, <2>2, <2>3 DEF SparedWins
<1> QED BY <1>3, <1>4

\* A commit that reaches flash wins the next pick: its generation is higher
\* than that of the file it spares, or no other file is readable.
LEMMA CommitWins ==
    ASSUME TypeOK, NEW new \in Meta, Readable(new),
           flashMeta' = [flashMeta EXCEPT ![nextSlot] = new],
           nextSlot' = Other(nextSlot),
           \/ ~AnyReadable
           \/ new.generation = flashMeta[Other(nextSlot)].generation + 1
    PROVE  SparedWins' /\ flashMeta'[Other(nextSlot')] = new
<1>1. nextSlot \in MetaFile /\ flashMeta \in [MetaFile -> Meta \cup {Blank, Torn}]
  BY DEF TypeOK
<1>2. /\ flashMeta'[Other(nextSlot)] = flashMeta[Other(nextSlot)] /\ flashMeta'[nextSlot] = new
      /\ Other(nextSlot') = nextSlot
  BY <1>1, OtherTwice
<1>3. Winner' = nextSlot
  <2>1. CASE ~Readable(flashMeta[Other(nextSlot)])
    BY <1>1, <1>2, <2>1 DEF Winner, fixQueueMetaPick, MetaFile, Other
  <2>2. CASE Readable(flashMeta[Other(nextSlot)])
    <3>1. flashMeta[Other(nextSlot)].generation \in Nat BY <2>2 DEF Readable, Meta
    <3>2. new.generation > flashMeta[Other(nextSlot)].generation
      BY <1>1, <2>2, <3>1, OtherTwice DEF AnyReadable
    <3>3. ~(flashMeta[Other(nextSlot)].generation > new.generation)
      BY <3>1, <3>2 DEF Meta
    <3>4. CASE nextSlot = "A"
      BY <1>2, <2>2, <3>3, <3>4 DEF Winner, fixQueueMetaPick, Other
    <3>5. CASE nextSlot = "B"
      BY <1>2, <2>2, <3>2, <3>5 DEF Winner, fixQueueMetaPick, Other
    <3> QED BY <1>1, <3>4, <3>5 DEF MetaFile
  <2> QED BY <2>1, <2>2
<1> QED BY <1>2, <1>3 DEF SparedWins

\* Two metas that describe the same queue as a third describe the same queue.
LEMMA SameQueueTrans ==
    ASSUME NEW a, NEW b, NEW d, SameQueue(a, b), SameQueue(b, d)
    PROVE  SameQueue(a, d)
  BY DEF SameQueue, Meta

\* The invariant holds on a blank flash.
LEMMA InitSynced == Init => Synced
  BY DEF Init, Synced

\* Nothing that leaves the RAM meta and the meta files alone can part them.
LEMMA QuietSynced ==
    ASSUME Synced, pc \in {"probe", "idle", "data", "sending"},
           pc' \in {"probe", "idle", "data", "sending", "off", "down"},
           UNCHANGED <<flashMeta, meta, nextSlot, wasReset>>
    PROVE  Synced'
<1> SUFFICES ASSUME "silent" \notin Faults, ~wasReset PROVE InFlash(meta)'
  BY DEF Synced
<1>1. InFlash(meta) BY DEF Synced
<1> QED BY <1>1 DEF InFlash, SparedWins, Winner

\* Once a record is published, undoing it gives what flash still holds.
LEMMA PublishSynced ==
    ASSUME IndInv, Synced, pc = "data",
           op' = [op EXCEPT !.wasFull = fixQueueIsFull(meta)],
           meta' = Published(meta, op.rec),
           pc' = "commit",
           UNCHANGED <<flashMeta, nextSlot, wasReset>>
    PROVE  Synced'
<1> SUFFICES ASSUME "silent" \notin Faults, ~wasReset PROVE op'.kind = "push" /\ InFlash(RolledBack)'
  BY DEF Synced
<1>1. InFlash(meta) BY DEF Synced
<1>2. meta \in Meta /\ RingShape(meta) /\ op.rec \in Record
  BY DEF IndInv, TypeOK, RingsAreSound
<1>3. op'.kind = "push" /\ op'.wasFull = fixQueueIsFull(meta)
  <2> DEFINE b == fixQueueIsFull(meta)
  <2>1. op' = [op EXCEPT !.wasFull = b] /\ op.kind = "push" BY DEF IndInv, PendingOp
  <2>2. op \in [kind : OpKind, rec : Record, wasFull : BOOLEAN, n : Nat] BY DEF IndInv, TypeOK
  <2> HIDE DEF b
  <2>3. op'.kind = "push" /\ op'.wasFull = b BY <2>1, <2>2, Zenon
  <2> QED BY <2>3 DEF b
<1>4. meta'.capacity = meta.capacity BY <1>2 DEF Published, Meta
<1>5. RolledBack' = IF fixQueueIsFull(meta)
                    THEN [Published(meta, op.rec) EXCEPT
                             !.tail = Retreat(@, meta.capacity), !.lost_count = @ - 1,
                             !.head = Retreat(@, meta.capacity)]
                    ELSE [Published(meta, op.rec) EXCEPT
                             !.count = @ - 1, !.head = Retreat(@, meta.capacity)]
  <2>1. CASE fixQueueIsFull(meta)
    BY <1>3, <1>4, <2>1 DEF RolledBack
  <2>2. CASE ~fixQueueIsFull(meta)
    BY <1>3, <1>4, <2>2, SMTT(20) DEF RolledBack
  <2> QED BY <2>1, <2>2
<1>6. SameQueue(RolledBack', meta) BY <1>2, <1>5, PushUndone
<1>7. SameQueue(RolledBack', flashMeta[Other(nextSlot)])
  BY <1>1, <1>6, SameQueueTrans DEF InFlash
<1> QED BY <1>1, <1>3, <1>7 DEF InFlash, SparedWins, Winner

\* Once a batch is acknowledged, undoing it gives what flash still holds.
LEMMA AckSynced == IndInv /\ Synced /\ ackFront => Synced'
<1> SUFFICES ASSUME IndInv, Synced, ackFront, "silent" \notin Faults, ~wasReset
             PROVE  op'.kind = "ack" /\ InFlash(RolledBack)'
  BY DEF Synced, ackFront
<1>1. InFlash(meta) BY DEF Synced, ackFront
<1>2. /\ meta \in Meta /\ RingShape(meta)
      /\ Len(batch) \in Nat /\ Len(batch) <= meta.count
  BY DEF IndInv, TypeOK, RingsAreSound, PendingOp, ackFront
<1>3. op'.kind = "ack" /\ op'.n = Len(batch) BY DEF ackFront, NoOp
<1>4. meta' = Acked(meta, Len(batch)) /\ meta'.capacity = meta.capacity
  BY <1>2 DEF ackFront, Acked, Meta
<1>5. RolledBack' = [Acked(meta, Len(batch)) EXCEPT
                        !.tail = (@ + meta.capacity - Len(batch)) % meta.capacity,
                        !.count = @ + Len(batch)]
  BY <1>3, <1>4 DEF RolledBack
<1>6. SameQueue(RolledBack', meta) BY <1>2, <1>5, AckUndone
<1>7. SameQueue(RolledBack', flashMeta[Other(nextSlot)])
  BY <1>1, <1>6, SameQueueTrans DEF InFlash
<1> QED BY <1>1, <1>3, <1>7 DEF InFlash, SparedWins, Winner, ackFront, flash

\* A rollback touches neither the generation nor next_seq.
LEMMA RollbackKeeps ==
    ASSUME TypeOK
    PROVE  RolledBack.generation = meta.generation /\ RolledBack.next_seq = meta.next_seq
<1>1. meta \in Meta /\ op.wasFull \in BOOLEAN BY DEF TypeOK
<1>2. CASE op.kind = "push" /\ op.wasFull BY <1>1, <1>2 DEF RolledBack, Meta
<1>3. CASE op.kind = "push" /\ ~op.wasFull BY <1>1, <1>3 DEF RolledBack, Meta
<1>4. CASE op.kind = "ack" BY <1>1, <1>4 DEF RolledBack, Meta
<1>5. CASE op.kind \notin {"push", "ack"}
  <2>1. RolledBack = meta BY <1>5 DEF RolledBack
  <2> QED BY <2>1
<1> QED BY <1>1, <1>2, <1>3, <1>4, <1>5

\* A commit that succeeds becomes the copy that the next one spares.
LEMMA CommitSynced == IndInv /\ Synced /\ CommitMeta => Synced'
<1> SUFFICES ASSUME IndInv, Synced, CommitMeta PROVE Synced'
  OBVIOUS
<1>a. pc' \in {"probe", "idle"} /\ wasReset' = wasReset BY DEF CommitMeta
<1> SUFFICES ASSUME "silent" \notin Faults, ~wasReset PROVE InFlash(meta)'
  BY <1>a DEF Synced
<1>1. meta \in Meta /\ MetaEncodable(meta) /\ TypeOK
  BY DEF IndInv, TypeOK, CommitMeta
<1>2. /\ Committed \in Meta /\ MetaEncodable(Committed)
      /\ Committed.generation = meta.generation + 1 /\ Committed.next_seq = meta.next_seq
  BY <1>1 DEF Committed, Meta, MetaEncodable
<1>3. flashMeta' = [flashMeta EXCEPT ![nextSlot] = Committed]
  BY DEF CommitMeta, AfterWrite
<1>4. /\ meta.next_seq # 0
      /\ \/ ~AnyReadable
         \/ Committed.generation = flashMeta[Other(nextSlot)].generation + 1
  <2>1. CASE op.kind \in {"push", "ack"}
    <3>1. InFlash(RolledBack) BY <2>1 DEF Synced, CommitMeta
    <3>2. /\ meta.generation = flashMeta[Other(nextSlot)].generation
          /\ meta.next_seq >= flashMeta[Other(nextSlot)].next_seq
      BY <1>1, <3>1, RollbackKeeps DEF InFlash, SameQueue
    <3>3. /\ flashMeta[Other(nextSlot)] \in Meta
          /\ flashMeta[Other(nextSlot)].next_seq # 0
      BY <3>1 DEF InFlash, SparedWins, Readable
    <3>4. meta.next_seq # 0 BY <1>1, <3>2, <3>3 DEF Meta
    <3> QED BY <1>2, <3>2, <3>4
  <2>2. CASE op.kind \notin {"push", "ack"}
    BY <2>2 DEF Synced, CommitMeta
  <2> QED BY <2>1, <2>2
<1>5. Readable(Committed) BY <1>2, <1>4 DEF Readable
<1>6. SparedWins' /\ flashMeta'[Other(nextSlot')] = Committed
  BY <1>1, <1>2, <1>3, <1>4, <1>5, CommitWins DEF CommitMeta
<1>7. meta' = Committed BY DEF CommitMeta
<1>8. SameQueue(Committed, Committed) BY <1>2 DEF SameQueue, Meta
<1> QED BY <1>6, <1>7, <1>8 DEF InFlash

\* A commit that fails leaves the spared file winning, and its caller gives
\* back the queue that is there.
LEMMA RollbackSynced == IndInv /\ Synced /\ CommitFails => Synced'
<1> SUFFICES ASSUME IndInv, Synced, CommitFails PROVE Synced'
  OBVIOUS
<1>a. /\ pc' = IF op.kind \in {"begin", "short"} THEN "down" ELSE "idle"
      /\ wasReset' = wasReset
  BY DEF CommitFails
<1> SUFFICES ASSUME "silent" \notin Faults, ~wasReset, op.kind \notin {"begin", "short"}
             PROVE  InFlash(meta)'
  BY <1>a DEF Synced
<1>1. TypeOK /\ InFlash(RolledBack) BY DEF IndInv, Synced, CommitFails
<1>2. PICK v \in AfterError(flashMeta[nextSlot]) : flashMeta' = [flashMeta EXCEPT ![nextSlot] = v]
  BY DEF CommitFails
<1>3. v = flashMeta[nextSlot] \/ v = Torn BY WriteOutcomes
<1>4. SparedWins' /\ flashMeta'[Other(nextSlot')] = flashMeta[Other(nextSlot)]
  BY <1>1, <1>2, <1>3, ErrorKeepsWinner DEF CommitFails
<1> QED BY <1>1, <1>4 DEF InFlash, CommitFails

\* A boot starts from the queue it picked.
LEMMA RecoverSynced == Recover => Synced'
<1> SUFFICES ASSUME Recover PROVE InFlash(meta)'
  BY DEF Synced, Recover
<1>1. Winner \in MetaFile BY DEF Winner, fixQueueMetaPick, MetaFile
<1>2. Readable(flashMeta[Winner])
  BY DEF Recover, AnyReadable, Winner, fixQueueMetaPick, MetaFile
<1>3. Other(nextSlot') = Winner /\ Winner' = Winner /\ flashMeta' = flashMeta
  BY <1>1, OtherTwice DEF Recover, flash, Winner
<1>4. meta' = flashMeta[Winner] BY DEF Recover
<1>5. SameQueue(flashMeta[Winner], flashMeta[Winner])
  BY <1>2 DEF SameQueue, Readable, Meta
<1> QED BY <1>2, <1>3, <1>4, <1>5 DEF InFlash, SparedWins

\* Every step keeps RAM and flash in step.
LEMMA NextSynced == IndInv /\ Synced /\ [Next]_vars => Synced'
<1> SUFFICES ASSUME IndInv, Synced, [Next]_vars PROVE Synced'
  OBVIOUS
<1>1. CASE UNCHANGED vars
  BY <1>1 DEF vars, Synced, InFlash, SparedWins, Winner, RolledBack, AnyReadable
<1>2. ASSUME NEW cap \in Capacities, Mount(cap) PROVE Synced'
  BY <1>2 DEF Mount, Synced
<1>3. CASE MountFails BY <1>3 DEF MountFails, Synced
<1>4. CASE RecoverFresh
  <2>1. op'.kind = "begin" /\ meta'.next_seq = 1
    BY <1>4 DEF RecoverFresh, reset, NoOp, fixQueueMetaFresh
  <2>2. ~AnyReadable' BY <1>4 DEF RecoverFresh, AnyReadable, flash
  <2> QED BY <1>4, <2>1, <2>2 DEF RecoverFresh, reset, Synced
<1>5. CASE RecoverOtherCapacity BY <1>5 DEF RecoverOtherCapacity, Synced
<1>6. CASE Recover BY <1>6, RecoverSynced
<1>7. CASE ProbeOk BY <1>7, QuietSynced DEF ProbeOk, flash, ram
<1>8. CASE ProbeCorrupt BY <1>8 DEF ProbeCorrupt, Synced
<1>9. CASE ProbeShort BY <1>9 DEF ProbeShort, Synced
<1>10. CASE CreateDataFails BY <1>10 DEF CreateDataFails, Synced
<1>11. CASE Push BY <1>11, QuietSynced DEF Push, flash, ram
<1>12. CASE PushWritesData BY <1>12, PublishSynced DEF PushWritesData
<1>13. CASE PushTruncates BY <1>13, PublishSynced DEF PushTruncates
<1>14. CASE PushDataFails BY <1>14, QuietSynced DEF PushDataFails, ram
<1>15. CASE Peek BY <1>15, QuietSynced DEF Peek, flash
<1>16. CASE PeekCorrupt BY <1>16 DEF PeekCorrupt, Synced
<1>17. CASE LoopIdle BY <1>1, <1>17 DEF LoopIdle
<1>18. CASE NotSent BY <1>18, QuietSynced DEF NotSent, flash
<1>19. CASE ackFront BY <1>19, AckSynced
<1>20. CASE CommitMeta BY <1>20, CommitSynced
<1>21. CASE CommitFails BY <1>21, RollbackSynced
<1>22. CASE PowerCut BY <1>22 DEF PowerCut, Synced
<1> QED
  BY <1>1, <1>2, <1>3, <1>4, <1>5, <1>6, <1>7, <1>8, <1>9, <1>10, <1>11, <1>12, <1>13,
     <1>14, <1>15, <1>16, <1>17, <1>18, <1>19, <1>20, <1>21, <1>22
     DEF Next, Begin, Loop

\* Whatever fails or is cut, as long as the store has not reset itself and the
\* flush of a write is not lost without a word, size(), the lost counter and the
\* ring in RAM are those a boot would recover (the rollbacks of push and
\* ackFront, the A/B alternation of commitMeta and fixQueueMetaPick).
THEOREM RamStaysInFlash == Spec => []RamMatchesFlash
<1>1. Synced => RamMatchesFlash
  <2> SUFFICES ASSUME Synced, pc \in {"idle", "sending"}, ~wasReset, "silent" \notin Faults
               PROVE  /\ meta = [Durable EXCEPT !.next_seq = meta.next_seq]
                      /\ meta.next_seq >= Durable.next_seq
    BY DEF RamMatchesFlash
  <2> DEFINE w == flashMeta[Other(nextSlot)]
  <2>1. InFlash(meta) BY DEF Synced
  <2>2. Durable = w
    <3>1. Other(nextSlot) \in MetaFile BY DEF Other, MetaFile
    <3> QED BY <2>1, <3>1 DEF InFlash, SparedWins, Durable, AnyReadable
  <2>3. SameQueue(meta, w) BY <2>1 DEF InFlash
  <2> HIDE DEF w
  <2>4. meta = [w EXCEPT !.next_seq = meta.next_seq] BY <2>3 DEF SameQueue, Meta
  <2> QED BY <2>2, <2>3, <2>4 DEF SameQueue
<1> QED BY <1>1, InitInd, NextInd, InitSynced, NextSynced, PTL DEF Spec

\* A commit never writes the file a boot depends on (commitMeta writes
\* META_A_PATH and META_B_PATH in turn, begin() picks): torn at any instant, the
\* other one still wins.
THEOREM LastCopySurvives ==
    ASSUME "silent" \notin Faults
    PROVE  Spec => []NeverLastCopy
<1>1. Synced => NeverLastCopy
  BY DEF Synced, NeverLastCopy, InFlash, SparedWins
<1> QED BY <1>1, InitInd, NextInd, InitSynced, NextSynced, PTL DEF Spec

-----------------------------------------------------------------------------
(* The records behind the picked meta file stay in the order they were     *)
(* pushed, and every step is one the durable FIFO of DurableFifo allows.   *)

\* The store has not been reset, and no fault outside its contract can occur:
\* a flush lost without a word, a data file emptied by the fallback of push().
Kept == "silent" \notin Faults /\ "truncate" \notin Faults /\ ~wasReset

\* The live records of m that a push under way cannot spoil.
Whole(m) == (1..m.count) \ (IF fixQueueIsFull(m) THEN {1} ELSE {})

\* The records d holds for m are in order and carry fixes up to n.
Orderly(m, d, n) ==
    \A i \in Whole(m) :
        /\ d[SlotAt(m, i)] \in Record
        /\ d[SlotAt(m, i)].seq < m.next_seq
        /\ d[SlotAt(m, i)].fix <= n
        /\ \A j \in Whole(m) : i < j =>
              /\ d[SlotAt(m, i)].seq < d[SlotAt(m, j)].seq
              /\ d[SlotAt(m, i)].fix < d[SlotAt(m, j)].fix

\* m is w after one push, full before or not.
Pushed(m, w) ==
    /\ m.generation = w.generation /\ m.capacity = w.capacity
    /\ m.head = fixQueueAdvance(w.head, w.capacity)
    /\ IF fixQueueIsFull(w)
       THEN /\ m.tail = fixQueueAdvance(w.tail, w.capacity)
            /\ m.count = w.count /\ m.lost_count = w.lost_count + 1
       ELSE m.tail = w.tail /\ m.count = w.count + 1 /\ m.lost_count = w.lost_count

\* m is w after the acknowledgement of its first n records.
Dropped(m, w, n) ==
    /\ m.generation = w.generation /\ m.capacity = w.capacity /\ m.head = w.head
    /\ n <= w.count
    /\ m.tail = (w.tail + n) % w.capacity /\ m.count = w.count - n
    /\ m.lost_count = w.lost_count /\ m.next_seq >= w.next_seq

\* What flash holds is in order, what a push is about to write comes after it,
\* and what a commit is about to publish is in order and one operation away.
OrderInv ==
    Kept =>
        /\ Orderly(Durable, data, fixes)
        /\ pc = "data" =>
              /\ op.rec.seq = meta.next_seq /\ op.rec.fix = fixes
              /\ Orderly(Durable, data, fixes - 1)
        /\ pc = "commit" =>
              /\ Orderly(meta, data, fixes)
              /\ op.kind = "push" => Pushed(meta, Durable)
              /\ op.kind = "ack" => Dropped(meta, Durable, op.n)
              /\ op.kind \notin {"push", "ack"} => meta.count = 0 /\ meta.lost_count = 0

\* The slot of a live record without the division.
LEMMA SlotCases ==
    ASSUME NEW m \in Meta, MetaEncodable(m), NEW i \in Nat, 1 <= i, i <= m.capacity
    PROVE  SlotAt(m, i) = IF m.tail + i - 1 < m.capacity
                          THEN m.tail + i - 1 ELSE m.tail + i - 1 - m.capacity
<1> DEFINE c == m.capacity
           x == m.tail + i - 1
<1>1. c \in Nat \ {0} /\ x \in Nat /\ x < 2 * c  BY DEF Meta, MetaEncodable
<1>2. CASE x < c  BY <1>1, <1>2, ModSmall DEF SlotAt
<1>3. CASE ~(x < c)
  <2>1. c <= x BY <1>1, <1>3
  <2>2. x % c = x - c BY <1>1, <2>1, ModOnce
  <2>3. SlotAt(m, i) = x % c BY DEF SlotAt
  <2> QED BY <1>1, <1>3, <2>2, <2>3 DEF Meta
<1> QED BY <1>2, <1>3

\* The slots of a ring are slots of the data file.
LEMMA SlotsExist ==
    ASSUME NEW m \in Meta, RingShape(m)
    PROVE  /\ m.head \in Slot
           /\ \A i \in 1..m.count : SlotAt(m, i) \in Slot
<1>1. /\ m.capacity \in Capacities /\ m.capacity \in Nat \ {0} /\ m.head \in 0..(m.capacity - 1)
      /\ m.tail \in Nat /\ m.tail < m.capacity /\ m.count \in Nat /\ m.count <= m.capacity
  BY DEF Meta, RingShape, MetaEncodable
<1>2. ASSUME NEW i \in 1..m.count PROVE SlotAt(m, i) \in 0..(m.capacity - 1)
  <2>1. SlotAt(m, i) = IF m.tail + i - 1 < m.capacity
                       THEN m.tail + i - 1 ELSE m.tail + i - 1 - m.capacity
    BY <1>1, SlotCases DEF RingShape
  <2> QED BY <1>1, <2>1
<1> QED BY <1>1, <1>2 DEF Slot

\* The slot a push writes is none of the live ones, but for the oldest of a full ring.
LEMMA HeadIsFree ==
    ASSUME NEW m \in Meta, RingShape(m), NEW i \in Whole(m)
    PROVE  SlotAt(m, i) # m.head
<1>1. /\ m.capacity \in Nat \ {0} /\ m.head \in Nat /\ m.head < m.capacity
      /\ m.tail \in Nat /\ m.tail < m.capacity /\ m.count \in Nat /\ m.count <= m.capacity
  BY DEF Meta, RingShape, MetaEncodable
<1>2. m.head = IF m.tail + m.count < m.capacity
               THEN m.tail + m.count ELSE m.tail + m.count - m.capacity
  BY RingCases DEF RingShape
<1>3. /\ i \in Nat /\ 1 <= i /\ i <= m.count
      /\ m.count = m.capacity => i > 1
  BY <1>1 DEF Whole, fixQueueIsFull
<1>4. SlotAt(m, i) = IF m.tail + i - 1 < m.capacity
                     THEN m.tail + i - 1 ELSE m.tail + i - 1 - m.capacity
  BY <1>1, <1>3, SlotCases DEF RingShape
<1> QED BY <1>1, <1>2, <1>3, <1>4

\* A push that was not full appends its slot; a full one also drops the first.
LEMMA PushedSlots ==
    ASSUME NEW m \in Meta, NEW w \in Meta, RingShape(w), Pushed(m, w)
    PROVE  /\ MetaEncodable(m)
           /\ SlotAt(m, m.count) = w.head
           /\ ~fixQueueIsFull(w) => \A i \in 1..w.count : SlotAt(m, i) = SlotAt(w, i)
           /\ fixQueueIsFull(w) => \A i \in 1..(w.count - 1) : SlotAt(m, i) = SlotAt(w, i + 1)
<1> DEFINE c == w.capacity
<1>1. /\ c \in Nat \ {0} /\ w.head \in Nat /\ w.head < c
      /\ w.tail \in Nat /\ w.tail < c /\ w.count \in Nat /\ w.count <= c
  BY DEF Meta, RingShape, MetaEncodable
<1>2. w.head = IF w.tail + w.count < c THEN w.tail + w.count ELSE w.tail + w.count - c
  BY RingCases DEF RingShape
<1>3. fixQueueAdvance(w.head, c) = IF w.head + 1 = c THEN 0 ELSE w.head + 1
  BY <1>1, AdvanceCases
<1>4. fixQueueAdvance(w.tail, c) = IF w.tail + 1 = c THEN 0 ELSE w.tail + 1
  BY <1>1, AdvanceCases
<1>5. /\ m.capacity = c /\ m.head = fixQueueAdvance(w.head, c)
      /\ fixQueueIsFull(w) => m.tail = fixQueueAdvance(w.tail, c) /\ m.count = w.count
      /\ ~fixQueueIsFull(w) => m.tail = w.tail /\ m.count = w.count + 1
      /\ fixQueueIsFull(w) <=> w.count = c
  BY <1>1 DEF Pushed, fixQueueIsFull
<1>6. MetaEncodable(m) BY <1>1, <1>3, <1>4, <1>5 DEF MetaEncodable
<1>7. \A i \in 1..c : SlotAt(m, i) = IF m.tail + i - 1 < c THEN m.tail + i - 1
                                     ELSE m.tail + i - 1 - c
  BY <1>1, <1>5, <1>6, SlotCases
<1>8. \A i \in 1..c : SlotAt(w, i) = IF w.tail + i - 1 < c THEN w.tail + i - 1
                                     ELSE w.tail + i - 1 - c
  BY <1>1, SlotCases DEF RingShape
<1>9. CASE fixQueueIsFull(w)
  <2>1. w.count = c /\ m.count = c /\ m.tail = IF w.tail + 1 = c THEN 0 ELSE w.tail + 1
    BY <1>4, <1>5, <1>9
  <2>2. SlotAt(m, m.count) = w.head
    <3>1. c \in 1..c BY <1>1
    <3>2. SlotAt(m, c) = IF m.tail + c - 1 < c THEN m.tail + c - 1 ELSE m.tail + c - 1 - c
      BY <1>7, <3>1
    <3> QED BY <1>1, <1>2, <2>1, <3>2
  <2>3. ASSUME NEW i \in 1..(w.count - 1) PROVE SlotAt(m, i) = SlotAt(w, i + 1)
    <3>1. i \in 1..c /\ i + 1 \in 1..c BY <1>1, <2>1
    <3>2. SlotAt(m, i) = IF m.tail + i - 1 < c THEN m.tail + i - 1 ELSE m.tail + i - 1 - c
      BY <1>7, <3>1
    <3>3. SlotAt(w, i + 1) = IF w.tail + (i + 1) - 1 < c THEN w.tail + (i + 1) - 1
                             ELSE w.tail + (i + 1) - 1 - c
      BY <1>8, <3>1
    <3> QED BY <1>1, <2>1, <3>1, <3>2, <3>3
  <2> QED BY <1>6, <1>9, <2>2, <2>3
<1>10. CASE ~fixQueueIsFull(w)
  <2>1. w.count < c /\ m.count = w.count + 1 /\ m.tail = w.tail BY <1>1, <1>5, <1>10
  <2>2. SlotAt(m, m.count) = w.head
    <3>1. m.count \in 1..c BY <1>1, <2>1
    <3>2. SlotAt(m, m.count) = IF m.tail + m.count - 1 < c THEN m.tail + m.count - 1
                               ELSE m.tail + m.count - 1 - c
      BY <1>7, <3>1
    <3> QED BY <1>1, <1>2, <2>1, <3>2
  <2>3. \A i \in 1..w.count : SlotAt(m, i) = SlotAt(w, i)
    BY <1>5, <2>1 DEF SlotAt
  <2> QED BY <1>6, <1>10, <2>2, <2>3
<1> QED BY <1>9, <1>10

\* An acknowledgement of n records shifts the slots by n.
LEMMA DroppedSlots ==
    ASSUME NEW m \in Meta, NEW w \in Meta, RingShape(w), NEW n \in Nat, Dropped(m, w, n)
    PROVE  \A i \in 1..m.count : SlotAt(m, i) = SlotAt(w, i + n)
<1> DEFINE c == w.capacity
<1>1. /\ c \in Nat \ {0} /\ w.tail \in Nat /\ w.tail < c /\ w.count \in Nat /\ w.count <= c
  BY DEF Meta, RingShape, MetaEncodable
<1>2. /\ m.capacity = c /\ m.tail = (w.tail + n) % c /\ m.count = w.count - n
      /\ n <= w.count /\ m.head = w.head
  BY DEF Dropped
<1>3. (w.tail + n) % c = IF w.tail + n < c THEN w.tail + n ELSE w.tail + n - c
  <2> DEFINE x == w.tail + n
  <2>0. x \in Nat /\ x < 2 * c BY <1>1, <1>2
  <2>1. CASE x < c BY <1>1, <2>0, <2>1, ModSmall
  <2>2. CASE ~(x < c)
    <3>1. c <= x BY <1>1, <2>0, <2>2
    <3>2. x % c = x - c BY <1>1, <2>0, <3>1, ModOnce
    <3> QED BY <1>1, <2>0, <2>2, <3>2
  <2> QED BY <2>1, <2>2
<1>4. MetaEncodable(m)
  BY <1>1, <1>2, <1>3 DEF MetaEncodable, RingShape
<1>5. SUFFICES ASSUME NEW i \in 1..m.count PROVE SlotAt(m, i) = SlotAt(w, i + n)
  OBVIOUS
<1>6. SlotAt(m, i) = IF m.tail + i - 1 < c THEN m.tail + i - 1 ELSE m.tail + i - 1 - c
  BY <1>1, <1>2, <1>4, SlotCases
<1>7. SlotAt(w, i + n) = IF w.tail + (i + n) - 1 < c THEN w.tail + (i + n) - 1
                         ELSE w.tail + (i + n) - 1 - c
  BY <1>1, <1>2, SlotCases DEF RingShape
<1> QED BY <1>1, <1>2, <1>3, <1>6, <1>7

\* Whatever is written to the slot of the next push, the order stays.
LEMMA WriteKeepsOrder ==
    ASSUME NEW m \in Meta, RingShape(m), NEW d, NEW X, d \in [Slot -> X], NEW v, NEW n,
           Orderly(m, d, n)
    PROVE  Orderly(m, [d EXCEPT ![m.head] = v], n)
<1> DEFINE e == [d EXCEPT ![m.head] = v]
<1>1. \A i \in Whole(m) : e[SlotAt(m, i)] = d[SlotAt(m, i)]
  <2> SUFFICES ASSUME NEW i \in Whole(m) PROVE e[SlotAt(m, i)] = d[SlotAt(m, i)]
    OBVIOUS
  <2>1. SlotAt(m, i) # m.head BY HeadIsFree
  <2>2. i \in 1..m.count BY DEF Whole
  <2>3. SlotAt(m, i) \in Slot BY <2>2, SlotsExist
  <2> QED BY <2>1, <2>3
<1> HIDE DEF e
<1>2. Orderly(m, e, n) BY <1>1 DEF Orderly
<1> QED BY <1>2 DEF e

\* A later bound on the fixes, or a next_seq further on, changes nothing.
LEMMA OrderWeakens ==
    ASSUME NEW m, NEW w, NEW d, NEW n \in Int, NEW k \in Int, n <= k,
           SameQueue(m, w), Orderly(w, d, n)
    PROVE  Orderly(m, d, k)
<1>1. Whole(m) = Whole(w) BY DEF SameQueue, Whole, fixQueueIsFull
<1>2. \A i \in Whole(m) : SlotAt(m, i) = SlotAt(w, i) BY DEF SameQueue, SlotAt
<1>3. m.next_seq \in Nat /\ w.next_seq \in Nat /\ m.next_seq >= w.next_seq
  BY DEF SameQueue, Meta
<1>4. ASSUME NEW i \in Whole(m)
      PROVE  /\ d[SlotAt(m, i)] \in Record
             /\ d[SlotAt(m, i)].seq < m.next_seq
             /\ d[SlotAt(m, i)].fix <= k
  <2>1. /\ d[SlotAt(w, i)] \in Record /\ d[SlotAt(w, i)].seq < w.next_seq
        /\ d[SlotAt(w, i)].fix <= n
    BY <1>1, <1>4 DEF Orderly
  <2>2. d[SlotAt(w, i)].seq \in Nat /\ d[SlotAt(w, i)].fix \in Nat BY <2>1 DEF Record
  <2> QED BY <1>2, <1>3, <2>1, <2>2
<1>5. ASSUME NEW i \in Whole(m), NEW j \in Whole(m), i < j
      PROVE  /\ d[SlotAt(m, i)].seq < d[SlotAt(m, j)].seq
             /\ d[SlotAt(m, i)].fix < d[SlotAt(m, j)].fix
  BY <1>1, <1>2, <1>5 DEF Orderly
<1> QED BY <1>4, <1>5 DEF Orderly

\* A record with a later id and a later fix keeps the order when it is published.
LEMMA PushKeepsOrder ==
    ASSUME NEW m \in Meta, NEW w \in Meta, RingShape(w), Pushed(m, w),
           NEW d, NEW n \in Nat, Orderly(w, d, n - 1),
           NEW rec \in Record, d[w.head] = rec, rec.fix = n,
           rec.seq >= w.next_seq, rec.seq < m.next_seq
    PROVE  Orderly(m, d, n)
<1> DEFINE k == IF fixQueueIsFull(w) THEN 1 ELSE 0
<1>1. /\ w.capacity \in Nat \ {0} /\ w.count \in Nat /\ w.count <= w.capacity
      /\ m.capacity = w.capacity /\ m.count = w.count + 1 - k
      /\ fixQueueIsFull(w) <=> w.count = w.capacity
      /\ fixQueueIsFull(m) <=> m.count = m.capacity
      /\ m.next_seq \in Nat /\ w.next_seq \in Nat /\ rec.seq \in Nat
      /\ k \in {0, 1}
  BY DEF Meta, RingShape, MetaEncodable, Pushed, fixQueueIsFull, Record
<1>2. d[SlotAt(m, m.count)] = rec BY PushedSlots
<1>3. ASSUME NEW i \in Whole(m), i # m.count
      PROVE  i + k \in Whole(w) /\ SlotAt(m, i) = SlotAt(w, i + k)
  <2>1. i \in 1..m.count /\ (fixQueueIsFull(m) => i # 1) BY <1>3 DEF Whole
  <2>2. CASE fixQueueIsFull(w)
    <3>1. k = 1 /\ m.count = w.count /\ fixQueueIsFull(m) BY <1>1, <2>2
    <3>2. i \in 1..(w.count - 1) /\ i + 1 \in 1..w.count /\ i + 1 # 1 BY <1>1, <1>3, <2>1, <3>1
    <3>3. SlotAt(m, i) = SlotAt(w, i + 1) BY <2>2, <3>2, PushedSlots
    <3>4. i + 1 \in Whole(w) BY <3>2 DEF Whole
    <3> QED BY <3>1, <3>3, <3>4
  <2>3. CASE ~fixQueueIsFull(w)
    <3>1. k = 0 /\ m.count = w.count + 1 BY <1>1, <2>3
    <3>2. i \in 1..w.count /\ i + 0 = i BY <1>1, <1>3, <2>1, <3>1
    <3>3. SlotAt(m, i) = SlotAt(w, i) BY <2>3, <3>2, PushedSlots
    <3>4. i \in Whole(w) BY <2>3, <3>2 DEF Whole
    <3> QED BY <3>1, <3>2, <3>3, <3>4
  <2> QED BY <2>2, <2>3
<1>4. \A i \in Whole(m) : i \in Int /\ i <= m.count BY <1>1 DEF Whole
<1> HIDE DEF k
<1>5. ASSUME NEW i \in Whole(m), i # m.count
      PROVE  /\ d[SlotAt(m, i)] \in Record
             /\ d[SlotAt(m, i)].seq < rec.seq /\ d[SlotAt(m, i)].seq < m.next_seq
             /\ d[SlotAt(m, i)].fix < rec.fix /\ d[SlotAt(m, i)].fix <= n
  <2>1. i + k \in Whole(w) /\ SlotAt(m, i) = SlotAt(w, i + k) BY <1>3, <1>5
  <2>2. /\ d[SlotAt(m, i)] \in Record /\ d[SlotAt(m, i)].seq < w.next_seq
        /\ d[SlotAt(m, i)].fix <= n - 1
    BY <2>1 DEF Orderly
  <2>3. d[SlotAt(m, i)].seq \in Nat /\ d[SlotAt(m, i)].fix \in Nat BY <2>2 DEF Record
  <2> QED BY <1>1, <2>2, <2>3
<1>6. ASSUME NEW i \in Whole(m), NEW j \in Whole(m), i < j
      PROVE  /\ d[SlotAt(m, i)].seq < d[SlotAt(m, j)].seq
             /\ d[SlotAt(m, i)].fix < d[SlotAt(m, j)].fix
  <2>1. i # m.count BY <1>1, <1>4, <1>6
  <2>2. CASE j = m.count BY <1>2, <1>5, <2>1, <2>2
  <2>3. CASE j # m.count
    <3>1. i + k < j + k BY <1>1, <1>4, <1>6
    <3> QED BY <1>3, <2>1, <2>3, <3>1 DEF Orderly
  <2> QED BY <2>2, <2>3
<1>7. ASSUME NEW i \in Whole(m)
      PROVE  /\ d[SlotAt(m, i)] \in Record /\ d[SlotAt(m, i)].seq < m.next_seq
             /\ d[SlotAt(m, i)].fix <= n
  <2>1. CASE i = m.count BY <1>1, <1>2, <2>1
  <2> QED BY <1>5, <2>1
<1> QED BY <1>6, <1>7 DEF Orderly

\* What is left after an acknowledgement is in order.
LEMMA DropKeepsOrder ==
    ASSUME NEW m \in Meta, NEW w \in Meta, RingShape(w), NEW n \in Nat, Dropped(m, w, n),
           NEW d, NEW k, Orderly(w, d, k)
    PROVE  Orderly(m, d, k)
<1>1. /\ w.capacity \in Nat \ {0} /\ w.count \in Nat /\ w.count <= w.capacity
      /\ m.capacity = w.capacity /\ m.count = w.count - n /\ n <= w.count
      /\ m.next_seq >= w.next_seq /\ m.next_seq \in Nat /\ w.next_seq \in Nat
      /\ fixQueueIsFull(w) <=> w.count = w.capacity
      /\ fixQueueIsFull(m) <=> m.count = m.capacity
  BY DEF Meta, RingShape, MetaEncodable, Dropped, fixQueueIsFull
<1>2. ASSUME NEW i \in Whole(m)
      PROVE  i \in Int /\ i + n \in Whole(w) /\ SlotAt(m, i) = SlotAt(w, i + n)
  <2>1. i \in 1..m.count /\ (fixQueueIsFull(m) => i # 1) BY <1>2 DEF Whole
  <2>2. i + n \in 1..w.count BY <1>1, <2>1
  <2>3. fixQueueIsFull(w) => i + n # 1 BY <1>1, <2>1
  <2>4. i + n \in Whole(w) BY <2>2, <2>3 DEF Whole
  <2> QED BY <2>1, <2>4, DroppedSlots
<1>3. ASSUME NEW i \in Whole(m)
      PROVE  /\ d[SlotAt(m, i)] \in Record /\ d[SlotAt(m, i)].seq < m.next_seq
             /\ d[SlotAt(m, i)].fix <= k
  <2>1. /\ d[SlotAt(m, i)] \in Record /\ d[SlotAt(m, i)].seq < w.next_seq
        /\ d[SlotAt(m, i)].fix <= k
    BY <1>2 DEF Orderly
  <2>2. d[SlotAt(m, i)].seq \in Nat BY <2>1 DEF Record
  <2> QED BY <1>1, <2>1, <2>2
<1>4. ASSUME NEW i \in Whole(m), NEW j \in Whole(m), i < j
      PROVE  /\ d[SlotAt(m, i)].seq < d[SlotAt(m, j)].seq
             /\ d[SlotAt(m, i)].fix < d[SlotAt(m, j)].fix
  <2>1. i + n < j + n BY <1>2, <1>4
  <2> QED BY <1>2, <2>1 DEF Orderly
<1> QED BY <1>3, <1>4 DEF Orderly

\* An empty ring is in order.
LEMMA EmptyIsOrderly ==
    ASSUME NEW m, m.count = 0, NEW d, NEW n
    PROVE  Orderly(m, d, n)
  BY DEF Orderly, Whole

\* Durable as a function of the two meta files.
DurableOf(f) ==
    IF Readable(f["A"]) \/ Readable(f["B"]) THEN f[fixQueueMetaPick(f["A"], f["B"])]
    ELSE ZeroMeta

\* What a boot recovers depends on the meta files alone.
LEMMA DurableFiles == Durable = DurableOf(flashMeta) /\ Durable' = DurableOf(flashMeta')
  BY DEF Durable, DurableOf, AnyReadable, Winner, MetaFile

\* A boot recovers a meta, and a ring unless flash holds no queue.
LEMMA DurableSound ==
    ASSUME IndInv
    PROVE  /\ Durable \in Meta
           /\ AnyReadable => RingShape(Durable)
           /\ ~AnyReadable => Durable = ZeroMeta
           /\ SparedWins => AnyReadable /\ Durable = flashMeta[Other(nextSlot)]
<1>1. ZeroMeta \in Meta BY DEF ZeroMeta, fixQueueMetaFresh, Meta
<1>2. CASE AnyReadable
  <2>1. Winner \in MetaFile /\ Readable(flashMeta[Winner])
    BY <1>2 DEF AnyReadable, Winner, fixQueueMetaPick, MetaFile
  <2>2. Durable = flashMeta[Winner] BY <1>2 DEF Durable
  <2>3. RingShape(Durable) /\ Durable \in Meta
    BY <2>1, <2>2 DEF IndInv, RingsAreSound, Readable
  <2> QED BY <1>2, <2>2, <2>3 DEF SparedWins
<1>3. CASE ~AnyReadable
  <2>1. Durable = ZeroMeta BY <1>3 DEF Durable
  <2>2. ~SparedWins
    <3>1. Other(nextSlot) \in MetaFile BY DEF Other, MetaFile
    <3> QED BY <1>3, <3>1 DEF AnyReadable, SparedWins
  <2> QED BY <1>1, <1>3, <2>1, <2>2
<1> QED BY <1>2, <1>3

\* What a commit finds: the file it spares wins and is one operation behind, or
\* the first begin() is creating the queue.
LEMMA CommitPoint ==
    ASSUME IndInv, Synced, Kept, pc = "commit"
    PROVE  /\ meta \in Meta /\ RingShape(meta) /\ meta.next_seq # 0
           /\ \/ /\ op.kind \in {"push", "ack"} /\ SparedWins
                 /\ Durable.generation = meta.generation
              \/ op.kind = "begin" /\ ~AnyReadable
<1>1. meta \in Meta /\ RingShape(meta) /\ TypeOK
  BY DEF IndInv, TypeOK, RingsAreSound
<1>2. CASE op.kind \in {"push", "ack"}
  <2>1. InFlash(RolledBack) BY <1>2 DEF Synced, Kept
  <2>2. Durable = flashMeta[Other(nextSlot)] BY <2>1, DurableSound DEF InFlash
  <2>3. /\ meta.generation = Durable.generation
        /\ meta.next_seq >= Durable.next_seq
    BY <1>1, <2>1, <2>2, RollbackKeeps DEF InFlash, SameQueue
  <2>4. Durable \in Meta /\ Durable.next_seq # 0
    BY <2>1, <2>2 DEF InFlash, SparedWins, Readable
  <2>5. meta.next_seq # 0 BY <1>1, <2>3, <2>4 DEF Meta
  <2> QED BY <1>1, <1>2, <2>1, <2>3, <2>5 DEF InFlash
<1>3. CASE op.kind \notin {"push", "ack"}
  BY <1>1, <1>3 DEF Synced, Kept
<1> QED BY <1>2, <1>3

\* A commit that fails or is torn changes nothing a boot recovers.
LEMMA ErrorDurable ==
    ASSUME IndInv, Synced, Kept, pc = "commit",
           NEW v, v = flashMeta[nextSlot] \/ v = Torn,
           flashMeta' = [flashMeta EXCEPT ![nextSlot] = v]
    PROVE  Durable' = Durable
<1>1. nextSlot \in MetaFile /\ flashMeta \in [MetaFile -> Meta \cup {Blank, Torn}]
  BY DEF IndInv, TypeOK
<1>2. flashMeta'[Other(nextSlot)] = flashMeta[Other(nextSlot)] /\ flashMeta'[nextSlot] = v
  BY <1>1, OtherTwice
<1>3. CASE v = flashMeta[nextSlot]
  <2>1. flashMeta' = flashMeta BY <1>1, <1>3
  <2> QED BY <2>1 DEF Durable, AnyReadable, Winner
<1>4. CASE v = Torn
  <2>1. ~Readable(v) BY <1>4, SentinelAssumption DEF Readable
  <2>2. CASE SparedWins
    <3>1. Readable(flashMeta[Other(nextSlot)]) /\ Durable = flashMeta[Other(nextSlot)]
      BY <2>2, DurableSound DEF SparedWins
    <3>2. DurableOf(flashMeta') = flashMeta'[Other(nextSlot)]
      BY <1>1, <1>2, <2>1, <3>1 DEF DurableOf, fixQueueMetaPick, MetaFile, Other
    <3>3. Durable' = DurableOf(flashMeta') BY DurableFiles
    <3> QED BY <1>2, <3>1, <3>2, <3>3
  <2>3. CASE ~AnyReadable
    <3>1. ~Readable(flashMeta'["A"]) /\ ~Readable(flashMeta'["B"])
      BY <1>1, <1>2, <2>1, <2>3 DEF AnyReadable, MetaFile, Other
    <3>2. DurableOf(flashMeta') = ZeroMeta BY <3>1 DEF DurableOf
    <3>3. Durable' = DurableOf(flashMeta') BY DurableFiles
    <3> QED BY <2>3, <3>2, <3>3, DurableSound
  <2> QED BY <2>2, <2>3, CommitPoint
<1> QED BY <1>3, <1>4

\* A commit that reaches flash is what a boot recovers.
LEMMA CommitDurable ==
    ASSUME IndInv, Synced, Kept, pc = "commit",
           flashMeta' = [flashMeta EXCEPT ![nextSlot] = Committed]
    PROVE  Durable' = Committed
<1>1. nextSlot \in MetaFile /\ flashMeta \in [MetaFile -> Meta \cup {Blank, Torn}]
  BY DEF IndInv, TypeOK
<1>2. flashMeta'[Other(nextSlot)] = flashMeta[Other(nextSlot)] /\ flashMeta'[nextSlot] = Committed
  BY <1>1, OtherTwice
<1>3. /\ Committed \in Meta /\ MetaEncodable(Committed)
      /\ Committed.generation = meta.generation + 1 /\ Committed.next_seq = meta.next_seq
  BY CommitPoint DEF Committed, Meta, MetaEncodable, RingShape
<1>4. Readable(Committed) BY <1>3, CommitPoint DEF Readable
<1>5. fixQueueMetaPick(flashMeta'["A"], flashMeta'["B"]) = nextSlot
  <2>1. CASE ~Readable(flashMeta[Other(nextSlot)])
    BY <1>1, <1>2, <1>4, <2>1 DEF fixQueueMetaPick, MetaFile, Other
  <2>2. CASE Readable(flashMeta[Other(nextSlot)])
    <3>1. AnyReadable BY <1>1, <2>2, OtherTwice DEF AnyReadable
    <3>2. flashMeta[Other(nextSlot)].generation = meta.generation
      BY <3>1, CommitPoint, DurableSound
    <3>3. meta.generation \in Nat BY CommitPoint DEF Meta
    <3>4. /\ Committed.generation > flashMeta[Other(nextSlot)].generation
          /\ ~(flashMeta[Other(nextSlot)].generation > Committed.generation)
      BY <1>3, <3>2, <3>3
    <3>5. CASE nextSlot = "A"
      BY <1>2, <1>4, <2>2, <3>4, <3>5 DEF fixQueueMetaPick, Other
    <3>6. CASE nextSlot = "B"
      BY <1>2, <1>4, <2>2, <3>4, <3>6 DEF fixQueueMetaPick, Other
    <3> QED BY <1>1, <3>5, <3>6 DEF MetaFile
  <2> QED BY <2>1, <2>2
<1>6. DurableOf(flashMeta') = Committed
  BY <1>1, <1>2, <1>4, <1>5 DEF DurableOf, MetaFile
<1> QED BY <1>6, DurableFiles

\* A generation is not part of the order.
LEMMA CommittedOrder ==
    ASSUME meta \in Meta, NEW d, NEW n, Orderly(meta, d, n)
    PROVE  Orderly(Committed, d, n)
<1>1. /\ Committed.count = meta.count /\ Committed.capacity = meta.capacity
      /\ Committed.tail = meta.tail /\ Committed.next_seq = meta.next_seq
  BY DEF Committed, Meta
<1>2. Whole(Committed) = Whole(meta) BY <1>1 DEF Whole, fixQueueIsFull
<1>3. \A i \in Whole(meta) : SlotAt(Committed, i) = SlotAt(meta, i) BY <1>1 DEF SlotAt
<1> HIDE DEF Committed
<1> QED BY <1>1, <1>2, <1>3 DEF Orderly

\* A step that writes nothing and starts no write keeps the order.
LEMMA QuietOrder ==
    ASSUME OrderInv, pc' \notin {"data", "commit"},
           UNCHANGED <<flashMeta, data, fixes, wasReset>>
    PROVE  OrderInv'
<1>1. Durable' = Durable BY DEF Durable, AnyReadable, Winner
<1> QED BY <1>1 DEF OrderInv, Kept

\* A push that starts takes the next id and the next fix.
LEMMA PushOrder == IndInv /\ OrderInv /\ Push => OrderInv'
<1> SUFFICES ASSUME IndInv, OrderInv, Push, Kept PROVE OrderInv'
  BY DEF OrderInv, Kept, Push
<1>1. Durable' = Durable BY DEF Durable, AnyReadable, Winner, Push, flash
<1>2. /\ fixes \in Nat /\ fixes' = fixes + 1 /\ data' = data /\ meta' = meta /\ pc' = "data"
  BY DEF Push, IndInv, TypeOK, flash, ram
<1>3. op'.rec.seq = meta.next_seq /\ op'.rec.fix = fixes + 1
  <2>1. op' = [kind |-> "push", rec |-> [seq |-> meta.next_seq, fix |-> fixes + 1],
               wasFull |-> FALSE, n |-> 0]
    BY DEF Push, NoOp
  <2> QED BY <2>1
<1>4. Orderly(Durable, data, fixes) BY DEF OrderInv
<1>5. SameQueue(Durable, Durable) BY DurableSound DEF SameQueue, Meta
<1>6. Orderly(Durable, data, fixes + 1) BY <1>2, <1>4, <1>5, OrderWeakens
<1>7. (fixes + 1) - 1 = fixes BY <1>2
<1> QED BY <1>1, <1>2, <1>3, <1>4, <1>6, <1>7 DEF OrderInv

\* Until its commit a push writes where no live record is; its data write, when
\* it happens, puts a later record there.
LEMMA DataPoint ==
    ASSUME IndInv, Synced, OrderInv, Kept, pc = "data"
    PROVE  /\ AnyReadable /\ Durable \in Meta /\ RingShape(Durable)
           /\ SameQueue(meta, Durable) /\ meta.head = Durable.head
           /\ meta.head \in Slot /\ data \in [Slot -> Record \cup {Blank, Torn}]
           /\ fixes \in Nat
           /\ \A v : /\ Orderly(Durable, [data EXCEPT ![meta.head] = v], fixes)
                     /\ Orderly(Durable, [data EXCEPT ![meta.head] = v], fixes - 1)
<1>1. InFlash(meta) BY DEF Synced, Kept
<1>2. AnyReadable /\ Durable = flashMeta[Other(nextSlot)] BY <1>1, DurableSound DEF InFlash
<1>3. Durable \in Meta /\ RingShape(Durable) BY <1>2, DurableSound
<1>4. SameQueue(meta, Durable) /\ meta.head = Durable.head BY <1>1, <1>2 DEF InFlash, SameQueue
<1>5. meta.head \in Slot BY <1>3, <1>4, SlotsExist
<1>6. data \in [Slot -> Record \cup {Blank, Torn}] /\ fixes \in Nat BY DEF IndInv, TypeOK
<1>7. ASSUME NEW v
      PROVE  /\ Orderly(Durable, [data EXCEPT ![meta.head] = v], fixes)
             /\ Orderly(Durable, [data EXCEPT ![meta.head] = v], fixes - 1)
  <2>1. Orderly(Durable, data, fixes) /\ Orderly(Durable, data, fixes - 1) BY DEF OrderInv
  <2> QED BY <1>3, <1>4, <1>6, <2>1, WriteKeepsOrder
<1> QED BY <1>2, <1>3, <1>4, <1>5, <1>6, <1>7

\* A data write that is complete leaves a push to publish, in order.
LEMMA PushWritesOrder == IndInv /\ Synced /\ OrderInv /\ PushWritesData => OrderInv'
<1> SUFFICES ASSUME IndInv, Synced, OrderInv, PushWritesData PROVE OrderInv'
  OBVIOUS
<1>a. wasReset' = wasReset BY DEF PushWritesData
<1> SUFFICES ASSUME Kept PROVE OrderInv'
  BY <1>a DEF OrderInv, Kept
<1> DEFINE w == Durable
<1>0. pc = "data" BY DEF PushWritesData
<1>1. Durable' = Durable BY DEF Durable, AnyReadable, Winner, PushWritesData
<1>2. data' = [data EXCEPT ![meta.head] = op.rec]
  BY DEF PushWritesData, AfterWrite, Kept
<1>3. data'[w.head] = op.rec BY <1>0, <1>2, DataPoint
<1>4. Orderly(w, data', fixes) /\ Orderly(w, data', fixes - 1) BY <1>0, <1>2, DataPoint
<1>5. w \in Meta /\ RingShape(w) /\ SameQueue(meta, w) /\ fixes \in Nat BY <1>0, DataPoint
<1>6. op.rec \in Record /\ op.rec.seq = meta.next_seq /\ op.rec.fix = fixes
  BY <1>0 DEF OrderInv, IndInv, TypeOK
<1>7. meta' = Published(meta, op.rec) /\ meta' \in Meta
  BY <1>0, <1>6, PublishedSound DEF PushWritesData, IndInv, TypeOK, RingsAreSound
<1>8. meta.next_seq \in Nat /\ w.next_seq \in Nat /\ meta.next_seq >= w.next_seq
  BY <1>5 DEF SameQueue, Meta
<1>9. /\ meta'.generation = meta.generation /\ meta'.capacity = meta.capacity
      /\ meta'.head = fixQueueAdvance(meta.head, meta.capacity)
      /\ meta'.tail = IF fixQueueIsFull(meta) THEN fixQueueAdvance(meta.tail, meta.capacity)
                      ELSE meta.tail
      /\ meta'.count = IF fixQueueIsFull(meta) THEN meta.count ELSE meta.count + 1
      /\ meta'.lost_count = IF fixQueueIsFull(meta) THEN meta.lost_count + 1
                            ELSE meta.lost_count
      /\ meta'.next_seq = IF op.rec.seq >= meta.next_seq THEN op.rec.seq + 1 ELSE meta.next_seq
  BY <1>7 DEF Published, IndInv, TypeOK, Meta
<1>10. meta'.next_seq = op.rec.seq + 1 BY <1>6, <1>8, <1>9
<1>11. op.rec.seq >= w.next_seq /\ op.rec.seq < meta'.next_seq BY <1>6, <1>8, <1>10
<1>12. Pushed(meta', w)
  <2>1. fixQueueIsFull(meta) <=> fixQueueIsFull(w) BY <1>5 DEF SameQueue, fixQueueIsFull
  <2>2. /\ meta.generation = w.generation /\ meta.capacity = w.capacity
        /\ meta.head = w.head /\ meta.tail = w.tail /\ meta.count = w.count
        /\ meta.lost_count = w.lost_count
    BY <1>5 DEF SameQueue
  <2> HIDE DEF w
  <2> QED BY <1>9, <2>1, <2>2 DEF Pushed
<1>13. Orderly(meta', data', fixes)
  <2> HIDE DEF w
  <2> QED BY <1>3, <1>4, <1>5, <1>6, <1>7, <1>11, <1>12, PushKeepsOrder
<1>14. /\ pc' = "commit" /\ fixes' = fixes
       /\ op'.kind = "push"
  <2> DEFINE b == fixQueueIsFull(meta)
  <2>1. op' = [op EXCEPT !.wasFull = b] /\ op.kind = "push"
    BY <1>0 DEF PushWritesData, IndInv, PendingOp
  <2>2. op \in [kind : OpKind, rec : Record, wasFull : BOOLEAN, n : Nat] BY DEF IndInv, TypeOK
  <2> HIDE DEF b
  <2>3. op'.kind = "push" BY <2>1, <2>2, Zenon
  <2> QED BY <2>3 DEF PushWritesData
<1> QED BY <1>1, <1>4, <1>12, <1>13, <1>14 DEF OrderInv

\* A data write that fails disturbs no record that counts.
LEMMA PushFailsOrder == IndInv /\ Synced /\ OrderInv /\ PushDataFails => OrderInv'
<1> SUFFICES ASSUME IndInv, Synced, OrderInv, PushDataFails PROVE OrderInv'
  OBVIOUS
<1>a. wasReset' = wasReset BY DEF PushDataFails
<1> SUFFICES ASSUME Kept PROVE OrderInv'
  BY <1>a DEF OrderInv, Kept
<1>1. Durable' = Durable BY DEF Durable, AnyReadable, Winner, PushDataFails
<1>2. PICK v \in AfterError(data[meta.head]) : data' = [data EXCEPT ![meta.head] = v]
  BY DEF PushDataFails
<1>3. Orderly(Durable, data', fixes) BY <1>2, DataPoint DEF PushDataFails
<1> QED BY <1>1, <1>3 DEF OrderInv, PushDataFails

\* An acknowledgement leaves the rest in order.
LEMMA AckOrder == IndInv /\ Synced /\ OrderInv /\ ackFront => OrderInv'
<1> SUFFICES ASSUME IndInv, Synced, OrderInv, ackFront, Kept PROVE OrderInv'
  BY DEF OrderInv, Kept, ackFront
<1> DEFINE w == Durable
           n == Len(batch)
<1>1. Durable' = Durable /\ data' = data /\ fixes' = fixes /\ pc' = "commit"
  BY DEF Durable, AnyReadable, Winner, ackFront, flash
<1>2. InFlash(meta) BY DEF Synced, Kept, ackFront
<1>3. /\ w \in Meta /\ RingShape(w) /\ SameQueue(meta, w)
  BY <1>2, DurableSound DEF InFlash
<1>4. /\ meta \in Meta /\ RingShape(meta) /\ n \in Nat /\ n <= meta.count
  BY DEF IndInv, TypeOK, RingsAreSound, PendingOp, ackFront
<1>5. meta' = Acked(meta, n) /\ meta' \in Meta BY <1>4, AckedSound DEF ackFront
<1>6. op'.kind = "ack" /\ op'.n = n BY DEF ackFront, NoOp
<1>7. /\ meta'.generation = meta.generation /\ meta'.capacity = meta.capacity
      /\ meta'.head = meta.head /\ meta'.tail = (meta.tail + n) % meta.capacity
      /\ meta'.count = meta.count - n /\ meta'.lost_count = meta.lost_count
      /\ meta'.next_seq = meta.next_seq
  BY <1>4, <1>5 DEF Acked, Meta
<1> HIDE DEF n, w
<1>8. Dropped(meta', w, n) BY <1>3, <1>4, <1>7 DEF Dropped, SameQueue
<1>9. Orderly(w, data, fixes) BY DEF OrderInv, w
<1>10. Orderly(meta', data, fixes) BY <1>3, <1>4, <1>5, <1>8, <1>9, DropKeepsOrder
<1> QED BY <1>1, <1>6, <1>8, <1>9, <1>10 DEF OrderInv, w

\* A commit, completed, failed or cut, leaves a queue in order in flash.
LEMMA CommitOrder ==
    ASSUME IndInv, Synced, OrderInv, pc = "commit", pc' \notin {"data", "commit"},
           NEW v, v = flashMeta[nextSlot] \/ v = Committed \/ v = Torn,
           flashMeta' = [flashMeta EXCEPT ![nextSlot] = v],
           UNCHANGED <<data, fixes, wasReset>>
    PROVE  OrderInv'
<1> SUFFICES ASSUME Kept PROVE Orderly(Durable, data, fixes)'
  BY DEF OrderInv, Kept
<1>1. CASE v = Committed
  <2>1. Durable' = Committed BY <1>1, CommitDurable
  <2>2. Orderly(Committed, data, fixes) BY CommittedOrder, CommitPoint DEF OrderInv
  <2> QED BY <2>1, <2>2
<1>2. CASE v = flashMeta[nextSlot] \/ v = Torn
  <2>1. Durable' = Durable BY <1>2, ErrorDurable
  <2> QED BY <2>1 DEF OrderInv
<1> QED BY <1>1, <1>2

\* A formatted volume and a fresh queue hold no records.
LEMMA NoneReadable ==
    ASSUME flashMeta' = [f \in MetaFile |-> Blank]
    PROVE  Durable' = ZeroMeta
<1>1. ~Readable(Blank) BY SentinelAssumption DEF Readable
<1>2. DurableOf(flashMeta') = ZeroMeta BY <1>1 DEF DurableOf, MetaFile
<1> QED BY <1>2, DurableFiles

\* The order holds on a blank flash.
LEMMA InitOrder == Init => OrderInv
<1> SUFFICES ASSUME Init PROVE OrderInv OBVIOUS
<1>1. ~Readable(Blank) BY SentinelAssumption DEF Readable
<1>2. DurableOf(flashMeta) = ZeroMeta BY <1>1 DEF DurableOf, MetaFile, Init
<1>3. Durable.count = 0 BY <1>2, DurableFiles DEF ZeroMeta, fixQueueMetaFresh
<1> QED BY <1>3, EmptyIsOrderly DEF OrderInv, Init

\* Every step keeps the order.
LEMMA NextOrder == IndInv /\ Synced /\ OrderInv /\ [Next]_vars => OrderInv'
<1> SUFFICES ASSUME IndInv, Synced, OrderInv, [Next]_vars PROVE OrderInv'
  OBVIOUS
<1>1. CASE UNCHANGED vars
  <2>1. Durable' = Durable BY <1>1 DEF Durable, AnyReadable, Winner, vars
  <2> QED BY <1>1, <2>1 DEF vars, OrderInv, Kept
<1>2. ASSUME NEW cap \in Capacities, Mount(cap) PROVE OrderInv'
  <2>1. CASE UNCHANGED flash BY <1>2, <2>1, QuietOrder DEF Mount, flash
  <2>2. CASE flashMeta' = [f \in MetaFile |-> Blank]
    <3>1. Durable'.count = 0 BY <2>2, NoneReadable DEF ZeroMeta, fixQueueMetaFresh
    <3>2. Orderly(Durable', data', fixes') BY <3>1, EmptyIsOrderly
    <3> QED BY <1>2, <3>2 DEF OrderInv, Mount
  <2> QED BY <1>2, <2>1, <2>2 DEF Mount
<1>3. CASE MountFails BY <1>3, QuietOrder DEF MountFails, flash
<1>4. CASE RecoverFresh
  <2>1. Durable' = Durable BY <1>4 DEF Durable, AnyReadable, Winner, RecoverFresh, flash
  <2>2. meta'.count = 0 /\ meta'.lost_count = 0 /\ op'.kind = "begin"
    BY <1>4 DEF RecoverFresh, reset, fixQueueMetaFresh, NoOp
  <2>3. Orderly(meta', data', fixes') BY <2>2, EmptyIsOrderly
  <2> QED BY <1>4, <2>1, <2>2, <2>3 DEF RecoverFresh, reset, flash, OrderInv, Kept
<1>5. CASE RecoverOtherCapacity BY <1>5 DEF RecoverOtherCapacity, OrderInv, Kept
<1>6. CASE Recover BY <1>6, QuietOrder DEF Recover, flash
<1>7. CASE ProbeOk BY <1>7, QuietOrder DEF ProbeOk, flash
<1>8. CASE ProbeCorrupt BY <1>8 DEF ProbeCorrupt, OrderInv, Kept
<1>9. CASE ProbeShort BY <1>9 DEF ProbeShort, OrderInv, Kept
<1>10. CASE CreateDataFails BY <1>10, QuietOrder DEF CreateDataFails, flash
<1>11. CASE Push BY <1>11, PushOrder
<1>12. CASE PushWritesData BY <1>12, PushWritesOrder
<1>13. CASE PushTruncates BY <1>13 DEF PushTruncates, OrderInv, Kept
<1>14. CASE PushDataFails BY <1>14, PushFailsOrder
<1>15. CASE Peek BY <1>15, QuietOrder DEF Peek, flash
<1>16. CASE PeekCorrupt BY <1>16 DEF PeekCorrupt, OrderInv, Kept
<1>17. CASE LoopIdle BY <1>1, <1>17 DEF LoopIdle
<1>18. CASE NotSent BY <1>18, QuietOrder DEF NotSent, flash
<1>19. CASE ackFront BY <1>19, AckOrder
<1>20. CASE CommitMeta
  <2>1. PICK v \in AfterWrite(flashMeta[nextSlot], Committed) :
           flashMeta' = [flashMeta EXCEPT ![nextSlot] = v]
    BY <1>20 DEF CommitMeta
  <2>2. v = flashMeta[nextSlot] \/ v = Committed BY WriteOutcomes
  <2>3. pc' \notin {"data", "commit"} BY <1>20 DEF CommitMeta
  <2> QED BY <1>20, <2>1, <2>2, <2>3, CommitOrder DEF CommitMeta
<1>21. CASE CommitFails
  <2>1. PICK v \in AfterError(flashMeta[nextSlot]) :
           flashMeta' = [flashMeta EXCEPT ![nextSlot] = v]
    BY <1>21 DEF CommitFails
  <2>2. v = flashMeta[nextSlot] \/ v = Torn BY WriteOutcomes
  <2>3. pc' \notin {"data", "commit"} BY <1>21 DEF CommitFails
  <2> QED BY <1>21, <2>1, <2>2, <2>3, CommitOrder DEF CommitFails
<1>22. CASE PowerCut
  <2>1. pc' \notin {"data", "commit"} /\ fixes' = fixes /\ wasReset' = wasReset
    BY <1>22 DEF PowerCut
  <2>2. CASE pc = "commit" /\ MetaEncodable(meta)
    <3>1. PICK v \in AfterCut(flashMeta[nextSlot], Committed) :
             flashMeta' = [flashMeta EXCEPT ![nextSlot] = v]
      BY <1>22, <2>2 DEF PowerCut
    <3>2. v = flashMeta[nextSlot] \/ v = Committed \/ v = Torn BY WriteOutcomes
    <3>3. data' = data BY <1>22, <2>2 DEF PowerCut
    <3> QED BY <2>1, <2>2, <3>1, <3>2, <3>3, CommitOrder
  <2>3. CASE pc = "data"
    <3>1. PICK v \in AfterCut(data[meta.head], op.rec) : data' = [data EXCEPT ![meta.head] = v]
      BY <1>22, <2>3 DEF PowerCut
    <3>2. flashMeta' = flashMeta BY <1>22, <2>3 DEF PowerCut
    <3>3. Durable' = Durable BY <3>2, DurableFiles
    <3>4. Kept => Orderly(Durable, data', fixes) BY <2>3, <3>1, DataPoint
    <3> QED BY <2>1, <3>3, <3>4 DEF OrderInv, Kept
  <2>4. CASE pc # "data" /\ ~(pc = "commit" /\ MetaEncodable(meta))
    BY <1>22, <2>1, <2>4, QuietOrder DEF PowerCut
  <2> QED BY <2>2, <2>3, <2>4
<1> QED
  BY <1>1, <1>2, <1>3, <1>4, <1>5, <1>6, <1>7, <1>8, <1>9, <1>10, <1>11, <1>12, <1>13,
     <1>14, <1>15, <1>16, <1>17, <1>18, <1>19, <1>20, <1>21, <1>22
     DEF Next, Begin, Loop

\* Every boot finds a queue it can use: a meta file that decides, and behind it
\* the records in the order push() took them, as long as the store has not reset
\* itself, a flush is not lost without a word and push() does not empty a data
\* file it could not open.
THEOREM FlashStaysRecoverable ==
    ASSUME "silent" \notin Faults, "truncate" \notin Faults
    PROVE  Spec => []FlashIsRecoverable
<1>1. OrderInv => SequencesIncrease
  <2> SUFFICES ASSUME OrderInv, ~wasReset,
                      NEW i \in Whole(Durable)
               PROVE  LET c == Contents(Durable)
                      IN  /\ c[i] \in Record
                          /\ c[i].seq < Durable.next_seq
                          /\ \A j \in Whole(Durable) :
                                i < j => c[i].seq < c[j].seq /\ c[i].fix < c[j].fix
    BY DEF SequencesIncrease, Whole
  <2>1. Orderly(Durable, data, fixes) BY DEF OrderInv, Kept
  <2>2. \A j \in Whole(Durable) : Contents(Durable)[j] = data[SlotAt(Durable, j)]
    BY DEF Contents, Whole
  <2> QED BY <2>1, <2>2 DEF Orderly
<1>2. Synced => NeverLastCopy
  BY DEF Synced, NeverLastCopy, InFlash, SparedWins
<1>3. Synced /\ OrderInv => FlashIsRecoverable BY <1>1, <1>2 DEF FlashIsRecoverable
<1> QED
  BY <1>3, InitInd, NextInd, InitSynced, NextSynced, InitOrder, NextOrder, PTL DEF Spec

-----------------------------------------------------------------------------
(* The store implements DurableFifo.                                       *)

\* The records d holds for m, oldest first.
ContentsOf(m, d) == [i \in 1..m.count |-> d[SlotAt(m, i)]]

\* They are a sequence of m.count entries.
LEMMA ContentsSeq ==
    ASSUME NEW m \in Meta, RingShape(m), NEW X, NEW d \in [Slot -> X]
    PROVE  ContentsOf(m, d) \in Seq(X) /\ Len(ContentsOf(m, d)) = m.count
<1>1. m.count \in Nat BY DEF Meta
<1>2. \A i \in 1..m.count : d[SlotAt(m, i)] \in X BY SlotsExist
<1> QED BY <1>1, <1>2 DEF ContentsOf

\* A push into a ring with room appends.
LEMMA EnqueueSeq ==
    ASSUME NEW w \in Meta, RingShape(w), NEW m \in Meta, RingShape(m), Pushed(m, w),
           ~fixQueueIsFull(w), NEW X, NEW d \in [Slot -> X]
    PROVE  /\ Len(ContentsOf(w, d)) < w.capacity
           /\ Len(ContentsOf(m, d)) = Len(ContentsOf(w, d)) + 1
           /\ SubSeq(ContentsOf(m, d), 1, Len(ContentsOf(w, d))) = ContentsOf(w, d)
<1> DEFINE q == ContentsOf(w, d)
           p == ContentsOf(m, d)
<1>1. /\ w.count \in Nat /\ w.capacity \in Nat /\ w.count < w.capacity /\ m.count = w.count + 1
  BY DEF Meta, fixQueueIsFull, Pushed
<1>2. q \in Seq(X) /\ Len(q) = w.count /\ p \in Seq(X) /\ Len(p) = m.count BY ContentsSeq
<1>3. \A i \in 1..w.count : p[i] = q[i] BY <1>1, PushedSlots DEF ContentsOf
<1> HIDE DEF p, q
<1>4. SubSeq(p, 1, Len(q)) = q
  <2>1. /\ SubSeq(p, 1, w.count) \in Seq(X) /\ Len(SubSeq(p, 1, w.count)) = w.count
        /\ \A i \in 1..w.count : SubSeq(p, 1, w.count)[i] = p[i]
    BY <1>1, <1>2
  <2> QED BY <1>1, <1>2, <1>3, <2>1
<1> QED BY <1>1, <1>2, <1>4 DEF p, q

\* A push into a full ring drops the oldest record and appends.
LEMMA DropOldestSeq ==
    ASSUME NEW w \in Meta, RingShape(w), NEW m \in Meta, RingShape(m), Pushed(m, w),
           fixQueueIsFull(w), NEW X, NEW d \in [Slot -> X]
    PROVE  /\ Len(ContentsOf(w, d)) = w.capacity
           /\ Len(ContentsOf(m, d)) = w.capacity
           /\ SubSeq(ContentsOf(m, d), 1, w.capacity - 1) = Tail(ContentsOf(w, d))
<1> DEFINE q == ContentsOf(w, d)
           p == ContentsOf(m, d)
           c == w.capacity
<1>1. c \in Nat \ {0} /\ w.count = c /\ m.count = c
  BY DEF Meta, fixQueueIsFull, Pushed, RingShape, MetaEncodable
<1>2. q \in Seq(X) /\ Len(q) = c /\ p \in Seq(X) /\ Len(p) = c BY <1>1, ContentsSeq
<1>3. \A i \in 1..(c - 1) : p[i] = q[i + 1]
  <2> SUFFICES ASSUME NEW i \in 1..(c - 1) PROVE p[i] = q[i + 1]
    OBVIOUS
  <2>1. SlotAt(m, i) = SlotAt(w, i + 1) BY <1>1, PushedSlots
  <2>2. i \in 1..m.count /\ i + 1 \in 1..w.count BY <1>1
  <2> QED BY <2>1, <2>2 DEF ContentsOf
<1> HIDE DEF p, q, c
<1>4. /\ SubSeq(p, 1, c - 1) \in Seq(X) /\ Len(SubSeq(p, 1, c - 1)) = c - 1
      /\ \A i \in 1..(c - 1) : SubSeq(p, 1, c - 1)[i] = p[i]
  BY <1>1, <1>2
<1>5. /\ Tail(q) \in Seq(X) /\ Len(Tail(q)) = c - 1
      /\ \A i \in 1..(c - 1) : Tail(q)[i] = q[i + 1]
  BY <1>1, <1>2
<1>6. SubSeq(p, 1, c - 1) = Tail(q) BY <1>1, <1>3, <1>4, <1>5
<1> QED BY <1>2, <1>6 DEF p, q, c

\* An acknowledgement removes a prefix.
LEMMA DequeueSeq ==
    ASSUME NEW w \in Meta, RingShape(w), NEW m \in Meta, RingShape(m), NEW n \in Nat,
           Dropped(m, w, n), NEW X, NEW d \in [Slot -> X]
    PROVE  /\ n <= Len(ContentsOf(w, d))
           /\ ContentsOf(m, d) = SubSeq(ContentsOf(w, d), n + 1, Len(ContentsOf(w, d)))
<1> DEFINE q == ContentsOf(w, d)
           p == ContentsOf(m, d)
           c == w.count
<1>1. c \in Nat /\ n <= c /\ m.count = c - n BY DEF Meta, Dropped
<1>2. q \in Seq(X) /\ Len(q) = c /\ p \in Seq(X) /\ Len(p) = c - n BY <1>1, ContentsSeq
<1>3. \A i \in 1..(c - n) : p[i] = q[i + n]
  <2> SUFFICES ASSUME NEW i \in 1..(c - n) PROVE p[i] = q[i + n]
    OBVIOUS
  <2>1. i \in 1..m.count /\ i + n \in 1..w.count BY <1>1
  <2>2. SlotAt(m, i) = SlotAt(w, i + n) BY <2>1, DroppedSlots
  <2> QED BY <2>1, <2>2 DEF ContentsOf
<1> HIDE DEF p, q, c
<1>4. /\ SubSeq(q, n + 1, c) \in Seq(X) /\ Len(SubSeq(q, n + 1, c)) = c - n
      /\ \A i \in 1..(c - n) : SubSeq(q, n + 1, c)[i] = q[i + n]
  BY <1>1, <1>2
<1>5. p = SubSeq(q, n + 1, c) BY <1>1, <1>2, <1>3, <1>4
<1> QED BY <1>1, <1>2, <1>5 DEF p, q

\* A data write changes nothing of a ring with room, and the oldest record of a full one.
LEMMA SpoilSeq ==
    ASSUME NEW w \in Meta, RingShape(w), NEW X, NEW d \in [Slot -> X],
           NEW e \in [Slot -> X], \A s \in Slot : s # w.head => e[s] = d[s]
    PROVE  \/ ContentsOf(w, e) = ContentsOf(w, d)
           \/ /\ Len(ContentsOf(w, d)) = w.capacity
              /\ Len(ContentsOf(w, e)) = w.capacity
              /\ Tail(ContentsOf(w, e)) = Tail(ContentsOf(w, d))
<1> DEFINE q == ContentsOf(w, d)
           p == ContentsOf(w, e)
           c == w.count
<1>1. c \in Nat /\ c <= w.capacity /\ w.capacity \in Nat \ {0}
  BY DEF Meta, RingShape, MetaEncodable
<1>3. \A i \in Whole(w) : e[SlotAt(w, i)] = d[SlotAt(w, i)]
  <2> SUFFICES ASSUME NEW i \in Whole(w) PROVE e[SlotAt(w, i)] = d[SlotAt(w, i)]
    OBVIOUS
  <2>1. SlotAt(w, i) # w.head BY HeadIsFree
  <2>2. i \in 1..w.count BY DEF Whole
  <2>3. SlotAt(w, i) \in Slot BY <2>2, SlotsExist
  <2> QED BY <2>1, <2>3
<1>4. q \in Seq(X) /\ Len(q) = c /\ p \in Seq(X) /\ Len(p) = c BY ContentsSeq
<1>5. CASE ~fixQueueIsFull(w)
  <2>1. Whole(w) = 1..w.count BY <1>5 DEF Whole
  <2>2. p = q BY <1>3, <2>1 DEF ContentsOf
  <2> QED BY <2>2
<1>6. CASE fixQueueIsFull(w)
  <2>1. c = w.capacity BY <1>1, <1>6 DEF fixQueueIsFull
  <2>2. \A i \in 2..c : p[i] = q[i]
    <3> SUFFICES ASSUME NEW i \in 2..c PROVE p[i] = q[i]
      OBVIOUS
    <3>1. i \in 1..w.count /\ i # 1 BY <1>1
    <3>2. i \in Whole(w) BY <3>1 DEF Whole
    <3> QED BY <1>3, <3>1, <3>2 DEF ContentsOf
  <2> HIDE DEF p, q, c
  <2>3. /\ Tail(q) \in Seq(X) /\ Len(Tail(q)) = c - 1
        /\ \A i \in 1..(c - 1) : Tail(q)[i] = q[i + 1]
    BY <1>1, <1>4, <2>1
  <2>4. /\ Tail(p) \in Seq(X) /\ Len(Tail(p)) = c - 1
        /\ \A i \in 1..(c - 1) : Tail(p)[i] = p[i + 1]
    BY <1>1, <1>4, <2>1
  <2>5. \A i \in 1..(c - 1) : Tail(p)[i] = Tail(q)[i]
    <3> SUFFICES ASSUME NEW i \in 1..(c - 1) PROVE Tail(p)[i] = Tail(q)[i]
      OBVIOUS
    <3>1. i + 1 \in 2..c BY <1>1
    <3> QED BY <2>2, <2>3, <2>4, <3>1
  <2>6. Tail(p) = Tail(q) BY <1>1, <2>1, <2>3, <2>4, <2>5
  <2> QED BY <1>4, <2>1, <2>6 DEF p, q
<1> QED BY <1>5, <1>6

\* What DurableFifo calls q, cap, lost and trusted, before and after a step.
LEMMA FifoState ==
    /\ Contents(Durable) = ContentsOf(Durable, data)
    /\ Contents(Durable)' = ContentsOf(Durable', data')
  BY DEF Contents, ContentsOf

\* A step that leaves a boot the same queue is a stutter of the FIFO.
LEMMA FifoStutter ==
    ASSUME ContentsOf(Durable', data') = ContentsOf(Durable, data),
           Durable'.capacity = Durable.capacity, Durable'.lost_count = Durable.lost_count,
           wasReset' = wasReset
    PROVE  [Fifo!FifoNext]_(Fifo!fifo)
  BY FifoState DEF Fifo!fifo

\* After a reset the FIFO promises nothing.
LEMMA FifoReset == wasReset' = TRUE => Fifo!FifoNext
  BY DEF Fifo!FifoNext

\* A commit that reaches flash creates the queue, appends, drops the oldest
\* record and appends, or removes an acknowledged prefix.
LEMMA FifoCommit ==
    ASSUME IndInv, Synced, OrderInv, Kept, pc = "commit",
           flashMeta' = [flashMeta EXCEPT ![nextSlot] = Committed],
           data' = data, wasReset' = wasReset
    PROVE  [Fifo!FifoNext]_(Fifo!fifo)
<1> DEFINE X == Record \cup {Blank, Torn}
           w == Durable
           q == ContentsOf(w, data)
           p == ContentsOf(meta, data)
<1>1. Durable' = Committed BY CommitDurable
<1>2. meta \in Meta /\ RingShape(meta) /\ data \in [Slot -> X] /\ w \in Meta
      /\ op.n \in Nat /\ wasReset = FALSE /\ wasReset' = FALSE
  BY CommitPoint, DurableSound DEF IndInv, TypeOK, Kept
<1>3. /\ Committed.count = meta.count /\ Committed.capacity = meta.capacity
      /\ Committed.tail = meta.tail /\ Committed.lost_count = meta.lost_count
  BY <1>2 DEF Committed, Meta
<1>4. ContentsOf(Committed, data) = p
  BY <1>3 DEF ContentsOf, SlotAt
<1>5. Contents(Durable) = q /\ Contents(Durable)' = p
  BY <1>1, <1>4, FifoState
<1>6. Durable'.capacity = meta.capacity /\ Durable'.lost_count = meta.lost_count
  BY <1>1, <1>3
<1>7. CASE op.kind = "push" /\ SparedWins
  <2>1. Pushed(meta, w) BY <1>7 DEF OrderInv
  <2>2. RingShape(w) BY <1>7, DurableSound
  <2>3. w.capacity \in Nat /\ w.capacity > 0 /\ meta.capacity = w.capacity
    BY <1>2, <2>1, <2>2 DEF RingShape, MetaEncodable, Meta, Pushed
  <2>4. CASE fixQueueIsFull(w)
    <3>1. /\ Len(q) = w.capacity /\ Len(p) = w.capacity
          /\ SubSeq(p, 1, w.capacity - 1) = Tail(q)
      BY <1>2, <2>1, <2>2, <2>4, DropOldestSeq
    <3>2. meta.lost_count = w.lost_count + 1 BY <2>1, <2>4 DEF Pushed
    <3> HIDE DEF q, p
    <3>3. Fifo!EnqueueDroppingOldest
      BY <1>5, <1>6, <2>3, <3>1, <3>2 DEF Fifo!EnqueueDroppingOldest
    <3> QED BY <1>2, <3>3 DEF Fifo!FifoNext
  <2>5. CASE ~fixQueueIsFull(w)
    <3>1. /\ Len(q) < w.capacity /\ Len(p) = Len(q) + 1 /\ SubSeq(p, 1, Len(q)) = q
      BY <1>2, <2>1, <2>2, <2>5, EnqueueSeq
    <3>2. meta.lost_count = w.lost_count BY <2>1, <2>5 DEF Pushed
    <3> HIDE DEF q, p
    <3>3. Fifo!Enqueue
      BY <1>5, <1>6, <2>3, <3>1, <3>2 DEF Fifo!Enqueue
    <3> QED BY <1>2, <3>3 DEF Fifo!FifoNext
  <2> QED BY <2>4, <2>5
<1>8. CASE op.kind = "ack" /\ SparedWins
  <2>1. Dropped(meta, w, op.n) BY <1>8 DEF OrderInv
  <2>2. RingShape(w) BY <1>8, DurableSound
  <2>3. op.n <= Len(q) /\ p = SubSeq(q, op.n + 1, Len(q)) BY <1>2, <2>1, <2>2, DequeueSeq
  <2>4. q \in Seq(X) BY <1>2, <2>2, ContentsSeq
  <2>5. meta.capacity = w.capacity /\ meta.lost_count = w.lost_count BY <2>1 DEF Dropped
  <2> HIDE DEF q, p
  <2>6. CASE op.n = 0
    <3>1. p = q BY <2>3, <2>4, <2>6
    <3> QED BY <1>2, <1>5, <1>6, <2>5, <3>1 DEF Fifo!fifo
  <2>7. CASE op.n # 0
    <3>1. op.n \in 1..Len(q) BY <1>2, <2>3, <2>4, <2>7
    <3>2. Fifo!Dequeue BY <1>5, <1>6, <2>3, <2>5, <3>1 DEF Fifo!Dequeue
    <3> QED BY <1>2, <3>2 DEF Fifo!FifoNext
  <2> QED BY <2>6, <2>7
<1>9. CASE op.kind = "begin" /\ ~AnyReadable
  <2>1. meta.count = 0 /\ meta.lost_count = 0 BY <1>9 DEF OrderInv
  <2>2. w.capacity = 0 BY <1>9, DurableSound DEF ZeroMeta, fixQueueMetaFresh
  <2>3. meta.capacity > 0 BY <1>2 DEF RingShape, MetaEncodable, Meta
  <2>4. p = <<>>
    <3>1. p \in Seq(X) /\ Len(p) = 0 BY <1>2, <2>1, ContentsSeq
    <3> QED BY <3>1
  <2> HIDE DEF q, p
  <2>5. Fifo!Create BY <1>5, <1>6, <2>1, <2>2, <2>3, <2>4 DEF Fifo!Create
  <2> QED BY <1>2, <2>5 DEF Fifo!FifoNext
<1> QED BY <1>7, <1>8, <1>9, CommitPoint

\* A data write before the commit leaves the queue alone or, when the ring is
\* full, spoils its oldest record.
LEMMA FifoData ==
    ASSUME IndInv, Synced, OrderInv, Kept, pc = "data",
           NEW v \in Record \cup {Blank, Torn}, data' = [data EXCEPT ![meta.head] = v],
           flashMeta' = flashMeta, wasReset' = wasReset
    PROVE  [Fifo!FifoNext]_(Fifo!fifo)
<1> DEFINE w == Durable
           q == ContentsOf(w, data)
           p == ContentsOf(w, data')
<1>1. Durable' = w BY DurableFiles
<1>2. w \in Meta /\ RingShape(w) /\ meta.head = w.head BY DataPoint
<1>3. data \in [Slot -> Record \cup {Blank, Torn}] BY DataPoint
<1>4. p = q \/ (Len(q) = w.capacity /\ Len(p) = w.capacity /\ Tail(p) = Tail(q))
  <2> DEFINE X == Record \cup {Blank, Torn}
  <2>1. data \in [Slot -> X] /\ data' \in [Slot -> X] BY <1>3
  <2>2. \A s \in Slot : s # w.head => data'[s] = data[s] BY <1>2, <1>3
  <2> DEFINE d == data
             e == data'
  <2>3. /\ w \in Meta /\ RingShape(w) /\ d \in [Slot -> X] /\ e \in [Slot -> X]
        /\ \A s \in Slot : s # w.head => e[s] = d[s]
    BY <1>2, <2>1, <2>2
  <2> HIDE DEF w, X, d, e
  <2>4. \/ ContentsOf(w, e) = ContentsOf(w, d)
        \/ /\ Len(ContentsOf(w, d)) = w.capacity
           /\ Len(ContentsOf(w, e)) = w.capacity
           /\ Tail(ContentsOf(w, e)) = Tail(ContentsOf(w, d))
    BY ONLY <2>3, SpoilSeq
  <2> QED BY <2>4 DEF d, e
<1>5. Contents(Durable) = q /\ Contents(Durable)' = p BY <1>1, FifoState
<1>6. w.capacity > 0 BY <1>2 DEF RingShape, MetaEncodable, Meta
<1>7. CASE p = q BY <1>1, <1>7, FifoStutter
<1>8. CASE Len(q) = w.capacity /\ Len(p) = w.capacity /\ Tail(p) = Tail(q)
  <2>1. wasReset = FALSE /\ wasReset' = FALSE BY DEF Kept, IndInv, TypeOK
  <2> HIDE DEF q, p
  <2>2. Fifo!Spoil BY <1>1, <1>5, <1>6, <1>8 DEF Fifo!Spoil
  <2> QED BY <2>1, <2>2 DEF Fifo!FifoNext
<1> QED BY <1>4, <1>7, <1>8

\* A step that writes nothing is a stutter of the FIFO.
LEMMA FifoQuiet ==
    ASSUME UNCHANGED <<flashMeta, data, wasReset>>
    PROVE  [Fifo!FifoNext]_(Fifo!fifo)
<1>1. Durable' = Durable BY DurableFiles
<1> QED BY <1>1, FifoStutter

\* A reset is never taken back.
LEMMA ResetStays == wasReset = TRUE /\ [Next]_vars => wasReset' = TRUE
<1> SUFFICES ASSUME wasReset = TRUE, [Next]_vars PROVE wasReset' = TRUE
  OBVIOUS
<1>1. CASE UNCHANGED vars BY <1>1 DEF vars
<1>2. CASE Begin
  BY <1>2, Zenon DEF Begin, Mount, MountFails, RecoverFresh, RecoverOtherCapacity,
     Recover, ProbeOk, ProbeCorrupt, ProbeShort, CreateDataFails
<1>3. CASE Loop
  BY <1>1, <1>3, Zenon DEF Loop, Push, PushWritesData, PushTruncates, PushDataFails,
     Peek, PeekCorrupt, LoopIdle, NotSent, ackFront
<1>4. CASE CommitMeta \/ CommitFails \/ PowerCut
  BY <1>4, Zenon DEF CommitMeta, CommitFails, PowerCut
<1> QED BY <1>1, <1>2, <1>3, <1>4 DEF Next

\* Every step of the store is a step of the FIFO or a stutter.
LEMMA FifoStep ==
    ASSUME "silent" \notin Faults, "truncate" \notin Faults,
           IndInv, Synced, OrderInv, [Next]_vars
    PROVE  [Fifo!FifoNext]_(Fifo!fifo)
<1>0. CASE wasReset' = TRUE BY <1>0, FifoReset
<1> SUFFICES ASSUME ~(wasReset' = TRUE) PROVE [Fifo!FifoNext]_(Fifo!fifo)
  BY <1>0
<1>k. Kept BY ResetStays DEF Kept, IndInv, TypeOK
<1>1. CASE UNCHANGED vars BY <1>1, FifoQuiet DEF vars
<1>2. ASSUME NEW cap \in Capacities, Mount(cap) PROVE [Fifo!FifoNext]_(Fifo!fifo)
  <2>1. CASE UNCHANGED flash BY <1>2, <2>1, FifoQuiet DEF Mount, flash
  <2>2. CASE flashMeta' = [f \in MetaFile |-> Blank]
    <3>1. Durable' = ZeroMeta BY <2>2, NoneReadable
    <3>2. Durable'.count = 0 /\ Durable'.capacity = 0 /\ Durable'.lost_count = 0
      BY <3>1 DEF ZeroMeta, fixQueueMetaFresh
    <3>3. Contents(Durable)' = <<>>
      <4>1. ContentsOf(Durable', data') = [i \in 1..0 |-> data'[SlotAt(Durable', i)]]
        BY <3>2 DEF ContentsOf
      <4>2. [i \in 1..0 |-> data'[SlotAt(Durable', i)]] = <<>> OBVIOUS
      <4> QED BY <4>1, <4>2, FifoState
    <3>4. Fifo!Format BY <3>2, <3>3 DEF Fifo!Format
    <3>5. wasReset = FALSE /\ wasReset' = FALSE BY <1>2, <1>k DEF Mount, Kept, IndInv, TypeOK
    <3> QED BY <3>4, <3>5 DEF Fifo!FifoNext
  <2> QED BY <1>2, <2>1, <2>2 DEF Mount
<1>3. CASE MountFails BY <1>3, FifoQuiet DEF MountFails, flash
<1>4. CASE RecoverFresh BY <1>4, FifoQuiet DEF RecoverFresh, flash
<1>5. CASE RecoverOtherCapacity BY <1>5 DEF RecoverOtherCapacity
<1>6. CASE Recover BY <1>6, FifoQuiet DEF Recover, flash
<1>7. CASE ProbeOk BY <1>7, FifoQuiet DEF ProbeOk, flash
<1>8. CASE ProbeCorrupt BY <1>8 DEF ProbeCorrupt
<1>9. CASE ProbeShort BY <1>9 DEF ProbeShort
<1>10. CASE CreateDataFails BY <1>10, FifoQuiet DEF CreateDataFails, flash
<1>11. CASE Push BY <1>11, FifoQuiet DEF Push, flash
<1>12. CASE PushWritesData
  <2>1. data' = [data EXCEPT ![meta.head] = op.rec]
    BY <1>12 DEF PushWritesData, AfterWrite
  <2>2. op.rec \in Record \cup {Blank, Torn} BY DEF IndInv, TypeOK
  <2> QED BY <1>12, <1>k, <2>1, <2>2, FifoData DEF PushWritesData
<1>13. CASE PushTruncates BY <1>13 DEF PushTruncates
<1>14. CASE PushDataFails
  <2>1. PICK v \in AfterError(data[meta.head]) : data' = [data EXCEPT ![meta.head] = v]
    BY <1>14 DEF PushDataFails
  <2>2. v = data[meta.head] \/ v = Torn BY WriteOutcomes
  <2>3. v \in Record \cup {Blank, Torn} BY <1>14, <1>k, <2>2, DataPoint DEF PushDataFails
  <2> QED BY <1>14, <1>k, <2>1, <2>3, FifoData DEF PushDataFails
<1>15. CASE Peek BY <1>15, FifoQuiet DEF Peek, flash
<1>16. CASE PeekCorrupt BY <1>16 DEF PeekCorrupt
<1>17. CASE LoopIdle BY <1>1, <1>17 DEF LoopIdle
<1>18. CASE NotSent BY <1>18, FifoQuiet DEF NotSent, flash
<1>19. CASE ackFront BY <1>19, FifoQuiet DEF ackFront, flash
<1>c. ASSUME pc = "commit", data' = data, wasReset' = wasReset,
             NEW v, v = flashMeta[nextSlot] \/ v = Committed \/ v = Torn,
             flashMeta' = [flashMeta EXCEPT ![nextSlot] = v]
      PROVE  [Fifo!FifoNext]_(Fifo!fifo)
  <2>1. CASE v = Committed BY <1>c, <1>k, <2>1, FifoCommit
  <2>2. CASE v = flashMeta[nextSlot] \/ v = Torn
    <3>1. Durable' = Durable BY <1>c, <1>k, <2>2, ErrorDurable
    <3> QED BY <1>c, <3>1, FifoStutter
  <2> QED BY <1>c, <2>1, <2>2
<1>20. CASE CommitMeta
  <2>1. PICK v \in AfterWrite(flashMeta[nextSlot], Committed) :
           flashMeta' = [flashMeta EXCEPT ![nextSlot] = v]
    BY <1>20 DEF CommitMeta
  <2>2. v = flashMeta[nextSlot] \/ v = Committed BY WriteOutcomes
  <2> QED BY <1>20, <1>c, <2>1, <2>2 DEF CommitMeta
<1>21. CASE CommitFails
  <2>1. PICK v \in AfterError(flashMeta[nextSlot]) :
           flashMeta' = [flashMeta EXCEPT ![nextSlot] = v]
    BY <1>21 DEF CommitFails
  <2>2. v = flashMeta[nextSlot] \/ v = Torn BY WriteOutcomes
  <2> QED BY <1>21, <1>c, <2>1, <2>2 DEF CommitFails
<1>22. CASE PowerCut
  <2>1. wasReset' = wasReset BY <1>22 DEF PowerCut
  <2>2. CASE pc = "commit" /\ MetaEncodable(meta)
    <3>1. PICK v \in AfterCut(flashMeta[nextSlot], Committed) :
             flashMeta' = [flashMeta EXCEPT ![nextSlot] = v]
      BY <1>22, <2>2 DEF PowerCut
    <3>2. v = flashMeta[nextSlot] \/ v = Committed \/ v = Torn BY WriteOutcomes
    <3>3. data' = data BY <1>22, <2>2 DEF PowerCut
    <3> QED BY <1>c, <2>1, <2>2, <3>1, <3>2, <3>3
  <2>3. CASE pc = "data"
    <3>1. PICK v \in AfterCut(data[meta.head], op.rec) : data' = [data EXCEPT ![meta.head] = v]
      BY <1>22, <2>3 DEF PowerCut
    <3>2. v = data[meta.head] \/ v = op.rec \/ v = Torn BY WriteOutcomes
    <3>3. v \in Record \cup {Blank, Torn} BY <1>k, <2>3, <3>2, DataPoint DEF IndInv, TypeOK
    <3>4. flashMeta' = flashMeta BY <1>22, <2>3 DEF PowerCut
    <3> QED BY <1>k, <2>1, <2>3, <3>1, <3>3, <3>4, FifoData
  <2>4. CASE pc # "data" /\ ~(pc = "commit" /\ MetaEncodable(meta))
    BY <1>22, <2>1, <2>4, FifoQuiet DEF PowerCut
  <2> QED BY <2>2, <2>3, <2>4
<1> QED
  BY <1>1, <1>2, <1>3, <1>4, <1>5, <1>6, <1>7, <1>8, <1>9, <1>10, <1>11, <1>12, <1>13,
     <1>14, <1>15, <1>16, <1>17, <1>18, <1>19, <1>20, <1>21, <1>22
     DEF Next, Begin, Loop

\* The store implements the durable queue its header describes: whatever fails
\* or is cut, what a boot would recover changes only by whole operations, or by
\* the loss of the oldest record of a full ring.
THEOREM StoreIsFifo ==
    ASSUME "silent" \notin Faults, "truncate" \notin Faults
    PROVE  Spec => ImplementsFifo
<1>1. Init => Fifo!FifoInit
  <2> SUFFICES ASSUME Init PROVE Fifo!FifoInit OBVIOUS
  <2>1. ~Readable(Blank) BY SentinelAssumption DEF Readable
  <2>2. Durable = ZeroMeta BY <2>1, DurableFiles DEF DurableOf, MetaFile, Init
  <2>3. Durable.count = 0 /\ Durable.capacity = 0 /\ Durable.lost_count = 0
    BY <2>2 DEF ZeroMeta, fixQueueMetaFresh
  <2>4. Contents(Durable) = <<>>
    <3>1. Contents(Durable) = [i \in 1..0 |-> data[SlotAt(Durable, i)]] BY <2>3 DEF Contents
    <3>2. [i \in 1..0 |-> data[SlotAt(Durable, i)]] = <<>> OBVIOUS
    <3> QED BY <3>1, <3>2
  <2> QED BY <2>3, <2>4 DEF Fifo!FifoInit, Init
<1>2. IndInv /\ Synced /\ OrderInv /\ [Next]_vars => [Fifo!FifoNext]_(Fifo!fifo)
  BY FifoStep
<1> QED
  BY <1>1, <1>2, InitInd, NextInd, InitSynced, NextSynced, InitOrder, NextOrder, PTL
     DEF Spec, ImplementsFifo, Fifo!FifoSpec

-----------------------------------------------------------------------------
(* Delivery: what the backend stores of what the tracker acknowledges.     *)

\* Every record in flash, in the hand of a push or of the drain carries a
\* sequence id; 0 is the one value the backend rejects.
SeqsNonzero ==
    /\ pc \in {"probe", "idle", "data", "commit", "sending"} => meta.next_seq # 0
    /\ pc = "data" => op.rec.seq # 0
    /\ \A s \in Slot : data[s] \in Record => data[s].seq # 0
    /\ \A i \in DOMAIN batch : batch[i].seq # 0

\* The backend's keys name records that were offered, and their fixes are rows.
KeysNameRows ==
    /\ offered \subseteq Record
    /\ keys \subseteq offered
    /\ \A k \in keys : k.fix \in rows

\* So do the items of the requests that are still under way.
DelayedOffered ==
    \A items \in delayed : items \in Seq(Record) /\ \A i \in DOMAIN items : items[i] \in offered

\* The part of the batch that was answered 201 has its keys in the backend.
SentHasKeys ==
    /\ offset \in Nat
    /\ pc # "sending" => offset = 0
    /\ pc = "sending" =>
          /\ offset <= Len(batch)
          /\ \A i \in 1..offset : batch[i] \in offered /\ \E k \in keys : k.seq = batch[i].seq

\* And so has every acknowledged fix, though perhaps the key of another record
\* with its sequence id.
AckedHasKeys == \A a \in acked : \E r \in offered : r.fix = a /\ \E k \in keys : k.seq = r.seq

DeliveryInv == SeqsNonzero /\ KeysNameRows /\ DelayedOffered /\ SentHasKeys /\ AckedHasKeys

\* A nonempty set of naturals has a least element.
LEMMA LeastNat ==
    ASSUME NEW T, T \subseteq Nat, T # {}
    PROVE  \E x \in T : \A y \in T : x <= y
<1> DEFINE R == OpToRel(<, Nat)
<1>1. IsWellFoundedOn(R, Nat)  BY NatLessThanWellFounded
<1>2. \A x, y \in Nat : y < x => <<y, x>> \in R  BY DEF OpToRel
<1> HIDE DEF R
<1>3. PICK x \in T : \A y \in T : ~(<<y, x>> \in R)  BY <1>1, WFMin
<1>4. \A y \in T : ~(y < x)  BY <1>2, <1>3
<1>5. \A y \in T : x <= y  BY <1>4
<1> QED BY <1>5

\* Service.IngestBatch drops no sequence id: of the items that carry it the
\* first one is admitted.
LEMMA FirstIsAdmitted ==
    ASSUME NEW items \in Seq(Record), NEW i \in DOMAIN items, items[i].seq # 0
    PROVE  \E it \in B!Accepted(items) : it.seq = items[i].seq
<1> DEFINE T == {j \in DOMAIN items : items[j].seq = items[i].seq}
<1>1. T \subseteq Nat /\ T # {}  OBVIOUS
<1>2. PICK j \in T : \A k \in T : j <= k
  <2> HIDE DEF T
  <2> QED BY <1>1, LeastNat
<1>3. j \in DOMAIN items /\ items[j].seq = items[i].seq  BY <1>2
<1>4. \A k \in 1..(j - 1) : items[k].seq # items[j].seq
  <2> SUFFICES ASSUME NEW k \in 1..(j - 1), items[k].seq = items[j].seq PROVE FALSE
    OBVIOUS
  <2>1. k \in DOMAIN items /\ k < j  BY <1>3
  <2>2. k \in T  BY <1>3, <2>1
  <2>3. j <= k  BY <1>2, <2>2
  <2> QED BY <1>3, <2>1, <2>3
<1>5. j \in B!Admitted(items)  BY <1>3, <1>4 DEF B!Admitted
<1>6. items[j] \in B!Accepted(items)  BY <1>5 DEF B!Accepted
<1> QED BY <1>3, <1>6

\* One transaction of InsertBatch only adds, keeps every key with its row, and
\* leaves a key for each sequence id of the request.
LEMMA IngestAdds ==
    ASSUME NEW items \in Seq(Record), B!Ingest(items), \A k \in keys : k.fix \in rows
    PROVE  /\ keys \subseteq keys' /\ rows \subseteq rows'
           /\ \A k \in keys' : k \in keys \/ \E i \in DOMAIN items : k = items[i]
           /\ \A k \in keys' : k.fix \in rows'
           /\ \A i \in DOMAIN items : items[i].seq # 0 =>
                 \E k \in keys' : k.seq = items[i].seq
<1> DEFINE new == B!NewItems(keys, items)
<1>1. keys' = keys \cup new /\ rows' = rows \cup {it.fix : it \in new}
  BY DEF B!Ingest, B!KeysAfter, B!RowsAfter
<1>2. \A k \in new : \E i \in DOMAIN items : k = items[i]
  BY DEF B!NewItems, B!Accepted, B!Admitted
<1>3. ASSUME NEW i \in DOMAIN items, items[i].seq # 0
      PROVE  \E k \in keys' : k.seq = items[i].seq
  <2>1. PICK it \in B!Accepted(items) : it.seq = items[i].seq  BY <1>3, FirstIsAdmitted
  <2>2. CASE \A k \in keys : k.seq # it.seq
    <3>1. it \in new  BY <2>2 DEF B!NewItems
    <3> HIDE DEF new
    <3> QED BY <1>1, <2>1, <3>1
  <2>3. CASE \E k \in keys : k.seq = it.seq
    <3> HIDE DEF new
    <3> QED BY <1>1, <2>1, <2>3
  <2> QED BY <2>2, <2>3
<1> HIDE DEF new
<1> QED BY <1>1, <1>2, <1>3

\* A step of the tracker and the backend is a step of the store, or none.
LEMMA StoreOfDelivery == [DNext]_allvars => [Next]_vars
<1> SUFFICES ASSUME [DNext]_allvars PROVE [Next]_vars  OBVIOUS
<1>1. CASE StoreStep  BY <1>1 DEF StoreStep, Next, Loop
<1>2. CASE DPowerCut  BY <1>2 DEF DPowerCut, Next
<1>3. CASE Post201  BY <1>3 DEF Post201
<1>4. CASE PostTransportError  BY <1>4 DEF PostTransportError
<1>5. CASE GiveUp  BY <1>5 DEF GiveUp, Next, Loop
<1>6. CASE AckBatch  BY <1>6 DEF AckBatch, Next, Loop
<1>7. CASE LateIngest  BY <1>7 DEF LateIngest
<1>8. CASE UNCHANGED allvars  BY <1>8 DEF allvars
<1> QED BY <1>1, <1>2, <1>3, <1>4, <1>5, <1>6, <1>7, <1>8 DEF DNext

-----------------------------------------------------------------------------
(* Sequence ids are never 0.                                               *)

\* A write puts the record of the push, nothing, or something unreadable.
LEMMA SlotSeqs ==
    ASSUME TypeOK, SeqsNonzero, NEW h, NEW v, v \in Record => v.seq # 0,
           data' = [data EXCEPT ![h] = v]
    PROVE  \A s \in Slot : data'[s] \in Record => data'[s].seq # 0
<1> TAKE s \in Slot
<1>1. data \in [Slot -> Record \cup {Blank, Torn}]  BY DEF TypeOK
<1>2. CASE s = h  BY <1>1, <1>2
<1>3. CASE s # h  BY <1>1, <1>3 DEF SeqsNonzero
<1> QED BY <1>2, <1>3

\* Neither a reset nor a publication nor a rollback makes next_seq 0.
LEMMA SeqStep == IndInv /\ SeqsNonzero /\ [Next]_vars => SeqsNonzero'
<1> SUFFICES ASSUME IndInv, SeqsNonzero, [Next]_vars PROVE SeqsNonzero'
  OBVIOUS
<1>a. TypeOK /\ meta \in Meta /\ data \in [Slot -> Record \cup {Blank, Torn}]
  BY DEF IndInv, TypeOK
<1>b. Blank \notin Record /\ Torn \notin Record  BY SentinelAssumption
<1>c. fixQueueMetaFresh(queueCapacity).next_seq # 0  BY DEF fixQueueMetaFresh
<1>d. ASSUME pc = "data" PROVE Published(meta, op.rec).next_seq # 0
  <2>1. op.rec \in Record /\ meta.next_seq # 0 /\ meta.next_seq \in Nat /\ op.rec.seq \in Nat
    BY <1>a, <1>d DEF TypeOK, SeqsNonzero, Meta, Record
  <2>2. Published(meta, op.rec).next_seq =
           IF op.rec.seq >= meta.next_seq THEN op.rec.seq + 1 ELSE meta.next_seq
    BY <1>a DEF Published, Meta
  <2> QED BY <2>1, <2>2
<1>1. CASE UNCHANGED vars  BY <1>1 DEF vars, SeqsNonzero
<1>2. ASSUME NEW cap \in Capacities, Mount(cap) PROVE SeqsNonzero'
  <2>1. CASE UNCHANGED flash  BY <1>2, <2>1 DEF Mount, flash, SeqsNonzero
  <2>2. CASE data' = [i \in Slot |-> Blank]  BY <1>2, <1>b, <2>2 DEF Mount, SeqsNonzero
  <2> QED BY <1>2, <2>1, <2>2 DEF Mount
<1>3. CASE MountFails  BY <1>3 DEF MountFails, flash, ram, SeqsNonzero
<1>4. CASE RecoverFresh  BY <1>4, <1>c DEF RecoverFresh, reset, flash, SeqsNonzero
<1>5. CASE RecoverOtherCapacity
  BY <1>5, <1>c DEF RecoverOtherCapacity, reset, flash, SeqsNonzero
<1>6. CASE Recover
  <2>1. Readable(flashMeta[Winner])
    BY <1>6 DEF Recover, AnyReadable, Winner, fixQueueMetaPick, MetaFile
  <2> QED BY <1>6, <2>1 DEF Recover, flash, Readable, SeqsNonzero
<1>7. CASE ProbeOk  BY <1>7 DEF ProbeOk, flash, ram, SeqsNonzero
<1>8. CASE ProbeCorrupt  BY <1>8, <1>c DEF ProbeCorrupt, reset, flash, SeqsNonzero
<1>9. CASE ProbeShort  BY <1>9, <1>c DEF ProbeShort, reset, flash, SeqsNonzero
<1>10. CASE CreateDataFails  BY <1>10 DEF CreateDataFails, flash, ram, SeqsNonzero
<1>11. CASE Push
  <2>1. op'.rec.seq = meta.next_seq
    <3>1. op' = [kind |-> "push", rec |-> [seq |-> meta.next_seq, fix |-> fixes + 1],
                 wasFull |-> FALSE, n |-> 0]
      BY <1>11 DEF Push, NoOp
    <3> QED BY <3>1
  <2> QED BY <1>11, <2>1 DEF Push, flash, ram, SeqsNonzero
<1>12. CASE PushWritesData
  <2>1. PICK v \in AfterWrite(data[meta.head], op.rec) :
           data' = [data EXCEPT ![meta.head] = v]
    BY <1>12 DEF PushWritesData
  <2>2. meta.head \in Slot
    BY <1>12, SlotsExist DEF PushWritesData, IndInv, TypeOK, RingsAreSound
  <2>3. v \in Record => v.seq # 0
    BY <1>12, <2>2, WriteOutcomes DEF PushWritesData, SeqsNonzero
  <2>4. \A s \in Slot : data'[s] \in Record => data'[s].seq # 0
    BY <1>a, <2>1, <2>3, SlotSeqs
  <2> QED BY <1>12, <1>d, <2>4 DEF PushWritesData, SeqsNonzero
<1>13. CASE PushTruncates
  <2>1. \A s \in Slot : data'[s] \in Record => data'[s].seq # 0
    BY <1>13, <1>b DEF PushTruncates, SeqsNonzero
  <2> QED BY <1>13, <1>d, <2>1 DEF PushTruncates, SeqsNonzero
<1>14. CASE PushDataFails
  <2>1. PICK v \in AfterError(data[meta.head]) : data' = [data EXCEPT ![meta.head] = v]
    BY <1>14 DEF PushDataFails
  <2>2. meta.head \in Slot
    BY <1>14, SlotsExist DEF PushDataFails, IndInv, TypeOK, RingsAreSound
  <2>3. v \in Record => v.seq # 0
    BY <1>b, <2>2, WriteOutcomes DEF SeqsNonzero
  <2>4. \A s \in Slot : data'[s] \in Record => data'[s].seq # 0
    BY <1>a, <2>1, <2>3, SlotSeqs
  <2> QED BY <1>14, <2>4 DEF PushDataFails, ram, SeqsNonzero
<1>15. CASE Peek
  <2>1. PICK n \in 1..Limit(BatchMax) :
          Reads(n, BatchMax) /\ batch' = [i \in 1..n |-> data[SlotAt(meta, i)]]
    BY <1>15 DEF Peek
  <2>2. RingShape(meta)  BY <1>15 DEF Peek, IndInv, RingsAreSound
  <2>3. n \in Nat /\ n <= meta.count
    BY <1>a, <2>1, BoundsAssumption DEF Limit, Meta
  <2>4. ASSUME NEW i \in 1..n PROVE data[SlotAt(meta, i)].seq # 0
    <3>1. i \in 1..meta.count  BY <1>a, <2>3 DEF Meta
    <3>2. SlotAt(meta, i) \in Slot  BY <1>a, <2>2, <3>1, SlotsExist
    <3>3. data[SlotAt(meta, i)] \in Record  BY <2>1 DEF Reads
    <3> QED BY <3>2, <3>3 DEF SeqsNonzero
  <2>5. \A i \in DOMAIN batch' : batch'[i].seq # 0  BY <2>1, <2>4
  <2> QED BY <1>15, <2>5 DEF Peek, flash, SeqsNonzero
<1>16. CASE PeekCorrupt  BY <1>16, <1>c DEF PeekCorrupt, reset, flash, SeqsNonzero
<1>17. CASE LoopIdle  BY <1>1, <1>17 DEF LoopIdle
<1>18. CASE NotSent  BY <1>18 DEF NotSent, flash, SeqsNonzero
<1>19. CASE ackFront
  <2>1. meta'.next_seq = meta.next_seq  BY <1>19, <1>a DEF ackFront, Acked, Meta
  <2> QED BY <1>19, <2>1 DEF ackFront, flash, SeqsNonzero
<1>20. CASE CommitMeta
  <2>1. meta'.next_seq = meta.next_seq  BY <1>20, <1>a DEF CommitMeta, Committed, Meta
  <2>2. pc' # "data" BY <1>20 DEF CommitMeta
  <2> QED BY <1>20, <2>1, <2>2 DEF CommitMeta, SeqsNonzero
<1>21. CASE CommitFails
  <2>1. meta'.next_seq = meta.next_seq  BY <1>21, <1>a, RollbackKeeps DEF CommitFails
  <2>2. pc' # "data" BY <1>21 DEF CommitFails
  <2> QED BY <1>21, <2>1, <2>2 DEF CommitFails, SeqsNonzero
<1>22. CASE PowerCut
  <2>1. \A s \in Slot : data'[s] \in Record => data'[s].seq # 0
    <3>1. CASE pc = "data"
      <4>1. PICK v \in AfterCut(data[meta.head], op.rec) :
               data' = [data EXCEPT ![meta.head] = v]
        BY <1>22, <3>1 DEF PowerCut
      <4>2. meta.head \in Slot
        BY <3>1, SlotsExist DEF IndInv, TypeOK, RingsAreSound
      <4>3. v \in Record => v.seq # 0
        BY <1>b, <3>1, <4>2, WriteOutcomes DEF SeqsNonzero
      <4> QED BY <1>a, <4>1, <4>3, SlotSeqs
    <3>2. CASE pc # "data"  BY <1>22, <3>2 DEF PowerCut, SeqsNonzero
    <3> QED BY <3>1, <3>2
  <2> QED BY <1>22, <2>1 DEF PowerCut, SeqsNonzero
<1> QED
  BY <1>1, <1>2, <1>3, <1>4, <1>5, <1>6, <1>7, <1>8, <1>9, <1>10, <1>11, <1>12, <1>13,
     <1>14, <1>15, <1>16, <1>17, <1>18, <1>19, <1>20, <1>21, <1>22
     DEF Next, Begin, Loop

-----------------------------------------------------------------------------
(* What is acknowledged is stored.                                         *)

\* A sub-batch is the next stretch of the batch.
LEMMA ChunkItems ==
    ASSUME batch \in Seq(Record), offset \in Nat, offset < Len(batch)
    PROVE  /\ ChunkSize \in Nat /\ offset + ChunkSize <= Len(batch)
           /\ Chunk \in Seq(Record) /\ DOMAIN Chunk = 1..ChunkSize
           /\ \A i \in 1..ChunkSize : Chunk[i] = batch[offset + i]
<1>1. Len(batch) \in Nat /\ SubBatch \in Nat  BY SubBatchAssumption
<1>2. ChunkSize \in Nat /\ offset + ChunkSize <= Len(batch)  BY <1>1 DEF ChunkSize
<1> DEFINE n == ChunkSize
<1>3. n \in Nat /\ offset + n <= Len(batch)  BY <1>2
<1>4. Chunk = SubSeq(batch, offset + 1, offset + n)  BY DEF Chunk
<1> HIDE DEF n
<1>5. Chunk = [i \in 1..n |-> batch[offset + i]]
  <2>1. SubSeq(batch, offset + 1, offset + n) =
          [i \in 1..(1 + (offset + n) - (offset + 1)) |-> batch[i + (offset + 1) - 1]]
    BY <1>1, <1>3
  <2> QED BY <1>3, <1>4, <2>1
<1>6. \A i \in 1..n : batch[offset + i] \in Record  BY <1>1, <1>3
<1>7. Chunk \in Seq(Record) /\ DOMAIN Chunk = 1..n  BY <1>3, <1>5, <1>6
<1>8. \A i \in 1..n : Chunk[i] = batch[offset + i]  BY <1>5
<1> QED BY <1>2, <1>7, <1>8 DEF n

\* No step of the store alone runs while a batch is being sent.
LEMMA StoreStepIdle == StoreStep => pc # "sending"
BY DEF StoreStep, Begin, Mount, MountFails, RecoverFresh, RecoverOtherCapacity, Recover,
       ProbeOk, ProbeCorrupt, ProbeShort, CreateDataFails, CommitMeta, CommitFails,
       Push, PushWritesData, PushTruncates, PushDataFails, Peek, PeekCorrupt, LoopIdle

\* The items of a sub-batch that is posted become offered records.
LEMMA OfferStep ==
    ASSUME TypeOK, KeysNameRows, SentHasKeys, Posting, offered' = Offered
    PROVE  /\ Chunk \in Seq(Record) /\ offset \in Nat /\ offset < Len(batch)
           /\ offered \subseteq offered' /\ offered' \subseteq Record
           /\ \A i \in DOMAIN Chunk : Chunk[i] \in offered'
<1>1. batch \in Seq(Record) /\ offset \in Nat /\ offset < Len(batch)
  BY DEF TypeOK, SentHasKeys, Posting
<1>2. Chunk \in Seq(Record)  BY <1>1, ChunkItems
<1> HIDE DEF Chunk
<1>3. \A i \in DOMAIN Chunk : Chunk[i] \in Record  BY <1>2
<1> QED BY <1>1, <1>2, <1>3 DEF Offered, KeysNameRows

\* An insert of offered items keeps the tables and what relies on their keys.
LEMMA IngestKeeps ==
    ASSUME KeysNameRows, AckedHasKeys, acked' = acked,
           offered \subseteq offered', offered' \subseteq Record,
           NEW items \in Seq(Record), B!Ingest(items),
           \A i \in DOMAIN items : items[i] \in offered'
    PROVE  /\ KeysNameRows' /\ AckedHasKeys' /\ keys \subseteq keys'
           /\ \A i \in DOMAIN items : items[i].seq # 0 =>
                 \E k \in keys' : k.seq = items[i].seq
<1>1. \A k \in keys : k.fix \in rows  BY DEF KeysNameRows
<1>2. /\ keys \subseteq keys' /\ rows \subseteq rows'
      /\ \A k \in keys' : k \in keys \/ \E i \in DOMAIN items : k = items[i]
      /\ \A k \in keys' : k.fix \in rows'
      /\ \A i \in DOMAIN items : items[i].seq # 0 =>
            \E k \in keys' : k.seq = items[i].seq
  BY <1>1, IngestAdds
<1>3. keys' \subseteq offered'  BY <1>2 DEF KeysNameRows
<1>4. KeysNameRows'  BY <1>2, <1>3 DEF KeysNameRows
<1>5. AckedHasKeys'
  <2> SUFFICES ASSUME NEW a \in acked
               PROVE  \E r \in offered' : r.fix = a /\ \E k \in keys' : k.seq = r.seq
    BY DEF AckedHasKeys
  <2>1. PICK r \in offered : r.fix = a /\ \E k \in keys : k.seq = r.seq  BY DEF AckedHasKeys
  <2> QED BY <1>2, <2>1
<1> QED BY <1>2, <1>4, <1>5

\* Tables that stand still keep their keys named while more is offered.
LEMMA TablesKeep ==
    ASSUME KeysNameRows, AckedHasKeys, UNCHANGED <<keys, rows, acked>>,
           offered \subseteq offered', offered' \subseteq Record
    PROVE  KeysNameRows' /\ AckedHasKeys'
<1>1. KeysNameRows'  BY DEF KeysNameRows
<1>2. AckedHasKeys'
  <2> SUFFICES ASSUME NEW a \in acked
               PROVE  \E r \in offered' : r.fix = a /\ \E k \in keys' : k.seq = r.seq
    BY DEF AckedHasKeys
  <2>1. PICK r \in offered : r.fix = a /\ \E k \in keys : k.seq = r.seq  BY DEF AckedHasKeys
  <2> QED BY <2>1
<1> QED BY <1>1, <1>2

\* Nothing was sent, stored or acknowledged before the first boot.
LEMMA DeliveryInit == DInit => DeliveryInv
<1> SUFFICES ASSUME DInit PROVE DeliveryInv  OBVIOUS
<1>1. SeqsNonzero  BY SentinelAssumption DEF DInit, Init, SeqsNonzero
<1>2. KeysNameRows /\ DelayedOffered /\ SentHasKeys /\ AckedHasKeys
  BY DEF DInit, Init, B!TablesInit, KeysNameRows, DelayedOffered, SentHasKeys, AckedHasKeys
<1> QED BY <1>1, <1>2 DEF DeliveryInv

\* A 201 leaves a key for every id of its sub-batch, and the next one starts after it.
LEMMA Post201Delivers == IndInv /\ DeliveryInv /\ Post201 =>
    KeysNameRows' /\ DelayedOffered' /\ SentHasKeys' /\ AckedHasKeys'
<1> SUFFICES ASSUME IndInv, DeliveryInv, Post201
             PROVE  KeysNameRows' /\ DelayedOffered' /\ SentHasKeys' /\ AckedHasKeys'
  OBVIOUS
<1>1. /\ TypeOK /\ SeqsNonzero /\ KeysNameRows /\ DelayedOffered /\ SentHasKeys /\ AckedHasKeys
      /\ Posting /\ offered' = Offered /\ B!Ingest(Chunk)
      /\ offset' = offset + ChunkSize /\ UNCHANGED <<vars, delayed, acked>>
  BY DEF DeliveryInv, IndInv, Post201
<1>2. /\ Chunk \in Seq(Record) /\ offset \in Nat /\ offset < Len(batch)
      /\ offered \subseteq offered' /\ offered' \subseteq Record
      /\ \A i \in DOMAIN Chunk : Chunk[i] \in offered'
  BY <1>1, OfferStep
<1>3. batch \in Seq(Record)  BY <1>1 DEF TypeOK
<1>4. /\ ChunkSize \in Nat /\ offset + ChunkSize <= Len(batch)
      /\ DOMAIN Chunk = 1..ChunkSize
      /\ \A i \in 1..ChunkSize : Chunk[i] = batch[offset + i]
  BY <1>2, <1>3, ChunkItems
<1> HIDE DEF Chunk, ChunkSize
<1>5. /\ KeysNameRows' /\ AckedHasKeys' /\ keys \subseteq keys'
      /\ \A i \in DOMAIN Chunk : Chunk[i].seq # 0 => \E k \in keys' : k.seq = Chunk[i].seq
  BY <1>1, <1>2, IngestKeeps
<1>6. DelayedOffered'  BY <1>1, <1>2 DEF DelayedOffered
<1>7. ASSUME NEW i \in 1..(offset + ChunkSize)
      PROVE  batch[i] \in offered' /\ \E k \in keys' : k.seq = batch[i].seq
  <2>1. CASE i <= offset
    <3>1. i \in 1..offset /\ pc = "sending"  BY <1>1, <1>2, <2>1 DEF Posting
    <3> QED BY <1>1, <1>2, <1>5, <3>1 DEF SentHasKeys
  <2>2. CASE i > offset
    <3> DEFINE j == i - offset
    <3>1. j \in 1..ChunkSize /\ offset + j = i  BY <1>2, <1>4, <2>2
    <3>2. i \in DOMAIN batch  BY <1>2, <1>3, <1>4
    <3> HIDE DEF j
    <3>3. j \in DOMAIN Chunk /\ Chunk[j] = batch[i]  BY <1>4, <3>1
    <3>4. batch[i].seq # 0  BY <1>1, <3>2 DEF SeqsNonzero
    <3> QED BY <1>2, <1>5, <3>3, <3>4
  <2> QED BY <1>2, <2>1, <2>2
<1>8. SentHasKeys'
  <2>1. batch' = batch /\ pc' = pc /\ pc = "sending"  BY <1>1 DEF vars, Posting
  <2> QED BY <1>1, <1>2, <1>4, <1>7, <2>1 DEF SentHasKeys
<1> QED BY <1>5, <1>6, <1>8

\* A POST without an answer leaves the backend as it was, inserts once, or leaves a
\* request under way whose items count as offered.
LEMMA PostErrorDelivers == IndInv /\ DeliveryInv /\ PostTransportError =>
    KeysNameRows' /\ DelayedOffered' /\ SentHasKeys' /\ AckedHasKeys'
<1> SUFFICES ASSUME IndInv, DeliveryInv, PostTransportError
             PROVE  KeysNameRows' /\ DelayedOffered' /\ SentHasKeys' /\ AckedHasKeys'
  OBVIOUS
<1>1. /\ TypeOK /\ SeqsNonzero /\ KeysNameRows /\ DelayedOffered /\ SentHasKeys /\ AckedHasKeys
      /\ Posting /\ offered' = Offered
      /\ offset' = offset /\ acked' = acked /\ batch' = batch /\ pc' = pc
  BY DEF DeliveryInv, IndInv, PostTransportError, vars
<1>2. /\ Chunk \in Seq(Record)
      /\ offered \subseteq offered' /\ offered' \subseteq Record
      /\ \A i \in DOMAIN Chunk : Chunk[i] \in offered'
  BY <1>1, OfferStep
<1> HIDE DEF Chunk
<1>3. ASSUME keys \subseteq keys' PROVE SentHasKeys'
  BY <1>1, <1>2, <1>3 DEF SentHasKeys
<1>4. CASE UNCHANGED <<keys, rows, delayed>>
  <2>1. KeysNameRows' /\ AckedHasKeys'  BY <1>1, <1>2, <1>4, TablesKeep
  <2>2. DelayedOffered'  BY <1>1, <1>2, <1>4 DEF DelayedOffered
  <2> QED BY <1>3, <1>4, <2>1, <2>2
<1>5. CASE B!Ingest(Chunk) /\ UNCHANGED delayed
  <2>1. KeysNameRows' /\ AckedHasKeys' /\ keys \subseteq keys'
    BY <1>1, <1>2, <1>5, IngestKeeps
  <2>2. DelayedOffered'  BY <1>1, <1>2, <1>5 DEF DelayedOffered
  <2> QED BY <1>3, <2>1, <2>2
<1>6. CASE delayed' = delayed \cup {Chunk} /\ UNCHANGED <<keys, rows>>
  <2>1. KeysNameRows' /\ AckedHasKeys'  BY <1>1, <1>2, <1>6, TablesKeep
  <2>2. DelayedOffered'  BY <1>1, <1>2, <1>6 DEF DelayedOffered
  <2> QED BY <1>3, <1>6, <2>1, <2>2
<1> QED BY <1>4, <1>5, <1>6 DEF PostTransportError

\* An acknowledgement comes after the last sub-batch, so all its items have keys.
LEMMA AckDelivers == IndInv /\ DeliveryInv /\ AckBatch =>
    KeysNameRows' /\ DelayedOffered' /\ SentHasKeys' /\ AckedHasKeys'
<1> SUFFICES ASSUME IndInv, DeliveryInv, AckBatch
             PROVE  KeysNameRows' /\ DelayedOffered' /\ SentHasKeys' /\ AckedHasKeys'
  OBVIOUS
<1>1. /\ TypeOK /\ KeysNameRows /\ DelayedOffered /\ SentHasKeys /\ AckedHasKeys
      /\ pc = "sending" /\ offset >= Len(batch) /\ pc' = "commit" /\ offset' = 0
      /\ acked' = acked \cup {batch[i].fix : i \in DOMAIN batch}
      /\ UNCHANGED <<keys, rows, delayed, offered>>
  BY DEF DeliveryInv, IndInv, AckBatch, ackFront
<1>2. ASSUME NEW i \in DOMAIN batch
      PROVE  batch[i] \in offered /\ \E k \in keys : k.seq = batch[i].seq
  <2>1. batch \in Seq(Record) /\ offset \in Nat  BY <1>1 DEF TypeOK, SentHasKeys
  <2>2. i \in 1..offset  BY <1>1, <2>1
  <2> QED BY <1>1, <2>2 DEF SentHasKeys
<1>3. AckedHasKeys'
  <2> SUFFICES ASSUME NEW a \in acked'
               PROVE  \E r \in offered : r.fix = a /\ \E k \in keys : k.seq = r.seq
    BY <1>1 DEF AckedHasKeys
  <2>1. CASE a \in acked  BY <1>1, <2>1 DEF AckedHasKeys
  <2>2. CASE a \notin acked
    <3>1. PICK i \in DOMAIN batch : a = batch[i].fix  BY <1>1, <2>2
    <3> QED BY <1>2, <3>1
  <2> QED BY <2>1, <2>2
<1> QED BY <1>1, <1>3 DEF KeysNameRows, DelayedOffered, SentHasKeys

\* Every step of tracker, network and backend keeps the delivery invariant.
LEMMA DeliveryStep == IndInv /\ DeliveryInv /\ [DNext]_allvars => DeliveryInv'
<1> SUFFICES ASSUME IndInv, DeliveryInv, [DNext]_allvars PROVE DeliveryInv'
  OBVIOUS
<1>1. SeqsNonzero'  BY StoreOfDelivery, SeqStep DEF DeliveryInv
<1>2. IndInv'  BY StoreOfDelivery, NextInd
<1>3. /\ TypeOK /\ KeysNameRows /\ DelayedOffered /\ SentHasKeys /\ AckedHasKeys
      /\ batch' \in Seq(Record)
  BY <1>2 DEF DeliveryInv, IndInv, TypeOK
<1> SUFFICES KeysNameRows' /\ DelayedOffered' /\ SentHasKeys' /\ AckedHasKeys'
  BY <1>1 DEF DeliveryInv
<1>4. CASE StoreStep
  <2>1. UNCHANGED dvars /\ pc # "sending"  BY <1>4, StoreStepIdle DEF StoreStep
  <2>2. offset' = 0  BY <1>3, <2>1 DEF dvars, SentHasKeys
  <2>3. SentHasKeys'
    <3>1. Len(batch') \in Nat  BY <1>3
    <3> QED BY <2>2, <3>1 DEF SentHasKeys
  <2> QED BY <1>3, <2>1, <2>3 DEF dvars, KeysNameRows, DelayedOffered, AckedHasKeys
<1>5. CASE DPowerCut
  <2>1. pc' # "sending" /\ offset' = 0 /\ UNCHANGED <<keys, rows, delayed, offered, acked>>
    BY <1>5 DEF DPowerCut, PowerCut
  <2> QED BY <1>3, <2>1 DEF KeysNameRows, DelayedOffered, AckedHasKeys, SentHasKeys
<1>6. CASE Post201  BY <1>6, Post201Delivers
<1>7. CASE PostTransportError  BY <1>7, PostErrorDelivers
<1>8. CASE GiveUp
  <2>1. pc' # "sending" /\ offset' = 0 /\ UNCHANGED <<keys, rows, delayed, offered, acked>>
    BY <1>8 DEF GiveUp, NotSent
  <2> QED BY <1>3, <2>1 DEF KeysNameRows, DelayedOffered, AckedHasKeys, SentHasKeys
<1>9. CASE AckBatch  BY <1>9, AckDelivers
<1>10. CASE LateIngest
  <2>1. PICK items \in delayed : B!Ingest(items) /\ delayed' = delayed \ {items}
           /\ UNCHANGED <<vars, offset, tries, offered, acked, everFull>>
    BY <1>10 DEF LateIngest
  <2>2. items \in Seq(Record) /\ \A i \in DOMAIN items : items[i] \in offered'
    BY <1>3, <2>1 DEF DelayedOffered
  <2>3. offered \subseteq offered' /\ offered' \subseteq Record /\ acked' = acked
    BY <1>3, <2>1 DEF KeysNameRows
  <2>4. KeysNameRows' /\ AckedHasKeys' /\ keys \subseteq keys'
    BY <1>3, <2>1, <2>2, <2>3, IngestKeeps
  <2>5. DelayedOffered'  BY <1>3, <2>1 DEF DelayedOffered
  <2>6. offset' = offset /\ batch' = batch /\ pc' = pc  BY <2>1 DEF vars
  <2>7. SentHasKeys'  BY <1>3, <2>3, <2>4, <2>6 DEF SentHasKeys
  <2> QED BY <2>4, <2>5, <2>7
<1>11. CASE UNCHANGED allvars
  <2>1. UNCHANGED <<vars, dvars>>  BY <1>11 DEF allvars
  <2> QED
    BY <1>3, <2>1 DEF vars, dvars, KeysNameRows, DelayedOffered, AckedHasKeys, SentHasKeys
<1> QED BY <1>4, <1>5, <1>6, <1>7, <1>8, <1>9, <1>10, <1>11 DEF DNext

\* An acknowledged fix shares its sequence id with a key of the backend; if an
\* id names one record, that key is its own, and its row is there.
LEMMA KeyedIsStored == DeliveryInv => AckedIsStored
<1> SUFFICES ASSUME DeliveryInv, SeqNamesFix, NEW a \in acked PROVE a \in rows
  BY DEF AckedIsStored
<1>1. PICK r \in offered : r.fix = a /\ \E k \in keys : k.seq = r.seq
  BY DEF DeliveryInv, AckedHasKeys
<1>2. PICK k \in keys : k.seq = r.seq  BY <1>1
<1>3. k \in offered /\ k.fix \in rows  BY DEF DeliveryInv, KeysNameRows
<1>4. k = r  BY <1>2, <1>3 DEF SeqNamesFix
<1> QED BY <1>1, <1>3, <1>4

\* AckedIsStored: as long as a sequence id names one fix, every point of a batch
\* that ended SENT is in the backend's table, for every capacity, batch size
\* and number of delayed requests, and whatever the file system does.
THEOREM AcknowledgedPointsAreStored == DSpec => []AckedIsStored
<1>1. DInit => IndInv /\ DeliveryInv  BY InitInd, DeliveryInit DEF DInit
<1>2. IndInv /\ DeliveryInv /\ [DNext]_allvars => (IndInv /\ DeliveryInv)'
  BY StoreOfDelivery, NextInd, DeliveryStep
<1>3. IndInv /\ DeliveryInv => AckedIsStored  BY KeyedIsStored
<1> QED BY <1>1, <1>2, <1>3, PTL DEF DSpec

-----------------------------------------------------------------------------
(* A sequence id names one fix.                                            *)

\* The records that d holds for m.
Live(m, d) == {d[SlotAt(m, i)] : i \in 1..m.count}

\* An id below n names at most one of the records S, and no other is in use.
Named(S, n) ==
    /\ S \subseteq Record
    /\ \A a \in S : a.seq < n
    /\ \A a, b \in S : a.seq = b.seq => a = b

\* Nothing takes an id back: the store was not reset, no volume formatted, and
\* no push found the ring full.
NoneReused == Kept /\ "format" \notin Faults /\ ~everFull

\* What was sent and what a boot would still send have ids of their own, all
\* below the next one in flash; a commit under way leaves it so; and what is
\* being sent is what a boot would send.
FreshInv ==
    NoneReused =>
        /\ Named(offered \cup Live(Durable, data), Durable.next_seq)
        /\ pc = "data" => ~fixQueueIsFull(meta)
        /\ pc = "commit" => Named(offered \cup Live(meta, data), meta.next_seq)
        /\ pc = "sending" => \A i \in DOMAIN batch : batch[i] \in Live(Durable, data)

\* A meta that differs in its generation, its losses or next_seq has the same
\* records.
LEMMA LiveSame ==
    ASSUME NEW m, NEW w, NEW d,
           m.tail = w.tail, m.count = w.count, m.capacity = w.capacity
    PROVE  Live(m, d) = Live(w, d)
BY DEF Live, SlotAt

\* The write of a push into a ring that is not full touches none of them.
LEMMA LiveWrite ==
    ASSUME NEW m \in Meta, RingShape(m), ~fixQueueIsFull(m),
           NEW d, NEW X, d \in [Slot -> X], NEW v
    PROVE  Live(m, [d EXCEPT ![m.head] = v]) = Live(m, d)
<1> DEFINE e == [d EXCEPT ![m.head] = v]
<1>1. ASSUME NEW i \in 1..m.count PROVE e[SlotAt(m, i)] = d[SlotAt(m, i)]
  <2>1. i \in Whole(m)  BY DEF Whole
  <2>2. SlotAt(m, i) # m.head  BY <2>1, HeadIsFree
  <2>3. SlotAt(m, i) \in Slot  BY SlotsExist
  <2> QED BY <2>2, <2>3
<1> HIDE DEF e
<1>2. Live(m, e) = Live(m, d)  BY <1>1 DEF Live
<1> QED BY <1>2 DEF e

\* Its publication adds the record that was written.
LEMMA LivePushed ==
    ASSUME NEW m \in Meta, NEW w \in Meta, RingShape(w), ~fixQueueIsFull(w),
           Pushed(m, w), NEW d
    PROVE  Live(m, d) = Live(w, d) \cup {d[w.head]}
<1>1. m.count = w.count + 1 /\ w.count \in Nat  BY DEF Pushed, Meta
<1>2. SlotAt(m, m.count) = w.head /\ \A i \in 1..w.count : SlotAt(m, i) = SlotAt(w, i)
  BY PushedSlots
<1>3. ASSUME NEW i \in 1..m.count PROVE d[SlotAt(m, i)] \in Live(w, d) \cup {d[w.head]}
  <2>1. CASE i = m.count  BY <1>2, <2>1
  <2>2. CASE i # m.count
    <3>1. i \in 1..w.count  BY <1>1, <2>2
    <3> QED BY <1>2, <3>1 DEF Live
  <2> QED BY <2>1, <2>2
<1>4. ASSUME NEW i \in 1..w.count PROVE d[SlotAt(w, i)] \in Live(m, d)
  <2>1. i \in 1..m.count  BY <1>1
  <2> QED BY <1>2, <2>1 DEF Live
<1>5. d[w.head] \in Live(m, d)
  <2>1. m.count \in 1..m.count  BY <1>1
  <2> QED BY <1>2, <2>1 DEF Live
<1> QED BY <1>3, <1>4, <1>5 DEF Live

\* An acknowledgement only takes records away.
LEMMA LiveDropped ==
    ASSUME NEW m \in Meta, NEW w \in Meta, RingShape(w), NEW n \in Nat, Dropped(m, w, n),
           NEW d
    PROVE  Live(m, d) \subseteq Live(w, d)
<1>1. m.count = w.count - n /\ w.count \in Nat /\ m.count \in Nat  BY DEF Dropped, Meta
<1>2. ASSUME NEW i \in 1..m.count PROVE d[SlotAt(m, i)] \in Live(w, d)
  <2>1. SlotAt(m, i) = SlotAt(w, i + n)  BY DroppedSlots
  <2>2. i + n \in 1..w.count  BY <1>1
  <2> QED BY <2>1, <2>2 DEF Live
<1> QED BY <1>2 DEF Live

\* Fewer records, and a bound further on.
LEMMA NamedLess ==
    ASSUME NEW S, NEW T, T \subseteq S, NEW n \in Nat, NEW k \in Nat, n <= k, Named(S, n)
    PROVE  Named(T, k)
<1>1. \A a \in T : a \in Record /\ a.seq < n  BY DEF Named
<1>2. \A a \in T : a.seq \in Nat  BY <1>1 DEF Record
<1>3. \A a \in T : a.seq < k  BY <1>1, <1>2
<1> QED BY <1>1, <1>3 DEF Named

\* A record with an id not yet used.
LEMMA NamedMore ==
    ASSUME NEW S, NEW n \in Nat, Named(S, n), NEW rec \in Record, rec.seq >= n
    PROVE  Named(S \cup {rec}, rec.seq + 1)
<1>1. rec.seq \in Nat  BY DEF Record
<1>2. \A a \in S : a \in Record /\ a.seq < n  BY DEF Named
<1>3. \A a \in S : a.seq \in Nat  BY <1>2 DEF Record
<1>4. \A a \in S : a.seq < rec.seq + 1 /\ a.seq # rec.seq  BY <1>1, <1>2, <1>3
<1>5. \A a, b \in S \cup {rec} : a.seq = b.seq => a = b  BY <1>4 DEF Named
<1>6. \A a \in S \cup {rec} : a.seq < rec.seq + 1  BY <1>1, <1>4
<1> QED BY <1>2, <1>5, <1>6 DEF Named

\* Neither a reset nor a push on a full ring is ever forgotten.
LEMMA ReuseStays == TypeOK /\ [DNext]_allvars /\ NoneReused' => NoneReused
<1> SUFFICES ASSUME TypeOK, [DNext]_allvars, NoneReused' PROVE NoneReused
  OBVIOUS
<1>1. ~wasReset' /\ ~everFull' /\ wasReset \in BOOLEAN  BY DEF NoneReused, Kept, TypeOK
<1>2. ~wasReset
  <2>1. wasReset = TRUE => wasReset' = TRUE  BY StoreOfDelivery, ResetStays
  <2> QED BY <1>1, <2>1
<1>3. ~everFull
  BY <1>1, Zenon DEF DNext, StoreStep, DPowerCut, Post201, PostTransportError, GiveUp,
                     AckBatch, LateIngest, allvars
<1> QED BY <1>2, <1>3 DEF NoneReused, Kept

\* A step that leaves flash and the requests alone, and starts no write and no
\* request.
LEMMA QuietFresh ==
    ASSUME FreshInv, NoneReused, UNCHANGED <<flashMeta, data, offered>>,
           pc' \notin {"data", "commit", "sending"}
    PROVE  FreshInv'
<1>1. Durable' = Durable  BY DEF Durable, AnyReadable, Winner
<1> QED BY <1>1 DEF FreshInv

\* A sub-batch that is posted holds only what a boot would send as well.
LEMMA PostFresh ==
    ASSUME IndInv, DeliveryInv, FreshInv, NoneReused, Posting, offered' = Offered,
           UNCHANGED vars
    PROVE  FreshInv'
<1> DEFINE L == Live(Durable, data)
<1>1. Durable' = Durable /\ data' = data /\ meta' = meta /\ batch' = batch /\ pc' = "sending"
  BY DEF Durable, AnyReadable, Winner, vars, Posting
<1>2. batch \in Seq(Record) /\ offset \in Nat /\ offset < Len(batch)
  BY DEF IndInv, TypeOK, DeliveryInv, SentHasKeys, Posting
<1>3. /\ ChunkSize \in Nat /\ offset + ChunkSize <= Len(batch)
      /\ DOMAIN Chunk = 1..ChunkSize
      /\ \A i \in 1..ChunkSize : Chunk[i] = batch[offset + i]
  BY <1>2, ChunkItems
<1>4. \A i \in DOMAIN batch : batch[i] \in L  BY DEF FreshInv, Posting
<1>5. Named(offered \cup L, Durable.next_seq)  BY DEF FreshInv
<1> HIDE DEF Chunk, ChunkSize, L
<1>6. ASSUME NEW i \in DOMAIN Chunk PROVE Chunk[i] \in L
  <2>1. offset + i \in DOMAIN batch  BY <1>2, <1>3
  <2> QED BY <1>3, <1>4, <2>1
<1>7. offered' \cup L = offered \cup L  BY <1>6 DEF Offered
<1>8. Named(offered' \cup L, Durable.next_seq)  BY <1>5, <1>7
<1> QED BY <1>1, <1>4, <1>8 DEF FreshInv, L

\* While a push has not committed, its write leaves what a boot would send.
LEMMA DataFresh ==
    ASSUME IndInv, Synced, OrderInv, FreshInv, NoneReused, pc = "data", NEW v
    PROVE  Live(Durable, [data EXCEPT ![meta.head] = v]) = Live(Durable, data)
<1>1. Kept /\ ~fixQueueIsFull(meta)  BY DEF NoneReused, FreshInv
<1>2. /\ Durable \in Meta /\ RingShape(Durable) /\ SameQueue(meta, Durable)
      /\ meta.head = Durable.head /\ data \in [Slot -> Record \cup {Blank, Torn}]
  BY <1>1, DataPoint
<1>3. ~fixQueueIsFull(Durable)  BY <1>1, <1>2 DEF SameQueue, fixQueueIsFull
<1> QED BY <1>2, <1>3, LiveWrite

\* The record of a push has the first id that flash has not used.
LEMMA PushWritesFresh ==
    ASSUME IndInv, Synced, OrderInv, FreshInv, NoneReused, PushWritesData, offered' = offered
    PROVE  FreshInv'
<1> DEFINE w == Durable
           L == Live(Durable, data)
           m == meta'
<1>0. pc = "data" /\ Kept /\ ~fixQueueIsFull(meta)
  BY DEF PushWritesData, NoneReused, FreshInv
<1>1. w' = w  BY DEF Durable, AnyReadable, Winner, PushWritesData
<1>2. data' = [data EXCEPT ![meta.head] = op.rec]
  BY <1>0 DEF PushWritesData, AfterWrite, Kept
<1>3. Live(w, data') = L  BY <1>0, <1>2, DataFresh
<1>4. /\ w \in Meta /\ RingShape(w) /\ SameQueue(meta, w) /\ meta.head = w.head
      /\ meta.head \in Slot /\ data \in [Slot -> Record \cup {Blank, Torn}]
  BY <1>0, DataPoint
<1>5. data'[w.head] = op.rec  BY <1>2, <1>4
<1>6. ~fixQueueIsFull(w)  BY <1>0, <1>4 DEF SameQueue, fixQueueIsFull
<1>7. op.rec \in Record /\ op.rec.seq = meta.next_seq  BY <1>0 DEF OrderInv, IndInv, TypeOK
<1>8. meta.next_seq \in Nat /\ w.next_seq \in Nat /\ meta.next_seq >= w.next_seq
  BY <1>4 DEF SameQueue, Meta
<1>9. m = Published(meta, op.rec) /\ m \in Meta
  BY <1>0, <1>7, PublishedSound DEF PushWritesData, IndInv, TypeOK, RingsAreSound
<1>10. m.next_seq = op.rec.seq + 1
  <2>1. m.next_seq = IF op.rec.seq >= meta.next_seq THEN op.rec.seq + 1 ELSE meta.next_seq
    BY <1>9 DEF Published, IndInv, TypeOK, Meta
  <2> QED BY <1>7, <1>8, <2>1
<1>11. Pushed(m, w)
  <2>1. OrderInv'  BY PushWritesOrder
  <2>2. Kept' /\ pc' = "commit"  BY <1>0 DEF Kept, PushWritesData
  <2>3. op'.kind = "push"
    <3> DEFINE b == fixQueueIsFull(meta)
    <3>1. op' = [op EXCEPT !.wasFull = b] /\ op.kind = "push"
      BY <1>0 DEF PushWritesData, IndInv, PendingOp
    <3>2. op \in [kind : OpKind, rec : Record, wasFull : BOOLEAN, n : Nat] BY DEF IndInv, TypeOK
    <3> HIDE DEF b
    <3> QED BY <3>1, <3>2, Zenon
  <2> QED BY <1>1, <2>1, <2>2, <2>3 DEF OrderInv
<1>12. Named(offered \cup L, w.next_seq)  BY DEF FreshInv
<1> DEFINE S == offered \cup L
           rec == op.rec
           n == w.next_seq
<1>13. Named(S \cup {rec}, rec.seq + 1)
  <2>1. Named(S, n) /\ n \in Nat /\ rec \in Record /\ rec.seq >= n  BY <1>7, <1>8, <1>12
  <2> HIDE DEF S, rec, n
  <2> QED BY <2>1, NamedMore
<1>14. Live(m, data') = L \cup {rec}
  <2> DEFINE e == data'
  <2>1. Live(w, e) = L /\ e[w.head] = rec  BY <1>3, <1>5
  <2> HIDE DEF e, L, rec, m, w
  <2>2. Live(m, e) = Live(w, e) \cup {e[w.head]}  BY <1>4, <1>6, <1>9, <1>11, LivePushed
  <2>3. Live(m, e) = L \cup {rec}  BY <2>1, <2>2
  <2> QED BY <2>3 DEF e
<1>15. Named(offered \cup Live(m, data'), m.next_seq)
  <2> HIDE DEF L, m, rec
  <2>1. offered \cup Live(m, data') = S \cup {rec}  BY <1>14
  <2>2. m.next_seq = rec.seq + 1  BY <1>10 DEF rec
  <2> HIDE DEF S
  <2> QED BY <1>13, <2>1, <2>2
<1>16. pc' = "commit"  BY DEF PushWritesData
<1> HIDE DEF L
<1> QED BY <1>1, <1>3, <1>12, <1>15, <1>16 DEF FreshInv

\* An acknowledgement gives no id back.
LEMMA AckFresh ==
    ASSUME IndInv, Synced, OrderInv, FreshInv, NoneReused, ackFront, offered' = offered
    PROVE  FreshInv'
<1> DEFINE w == Durable
           m == meta'
           n == Len(batch)
           L == Live(Durable, data)
<1>1. Durable' = Durable /\ data' = data /\ pc' = "commit" /\ Kept'
  BY DEF Durable, AnyReadable, Winner, ackFront, flash, NoneReused, Kept
<1>2. InFlash(meta)  BY DEF Synced, Kept, ackFront, NoneReused
<1>3. w \in Meta /\ RingShape(w)  BY <1>2, DurableSound DEF InFlash
<1>4. meta \in Meta /\ RingShape(meta) /\ n \in Nat /\ n <= meta.count
  BY DEF IndInv, TypeOK, RingsAreSound, PendingOp, ackFront
<1>5. m \in Meta  BY <1>4, AckedSound DEF ackFront
<1>6. Dropped(m, w, n)
  <2>1. OrderInv'  BY AckOrder
  <2>2. op'.kind = "ack" /\ op'.n = n  BY DEF ackFront, NoOp
  <2> QED BY <1>1, <2>1, <2>2 DEF OrderInv
<1> HIDE DEF n, m, w
<1>7. Live(m, data) \subseteq Live(w, data)  BY <1>3, <1>4, <1>5, <1>6, LiveDropped
<1>8. m.next_seq \in Nat /\ w.next_seq \in Nat /\ m.next_seq >= w.next_seq
  BY <1>3, <1>5, <1>6 DEF Dropped, Meta
<1>9. Named(offered \cup Live(w, data), w.next_seq)  BY DEF FreshInv, w
<1>10. Named(offered \cup Live(m, data), m.next_seq)
  <2>1. offered \cup Live(m, data) \subseteq offered \cup Live(w, data)  BY <1>7
  <2> QED BY <1>8, <1>9, <2>1, NamedLess
<1> QED BY <1>1, <1>9, <1>10 DEF FreshInv, m, w

\* A commit, completed, failed or cut, leaves flash with ids of their own.
LEMMA CommitFresh ==
    ASSUME IndInv, Synced, FreshInv, NoneReused, pc = "commit",
           pc' \notin {"data", "commit", "sending"},
           NEW v, v = flashMeta[nextSlot] \/ v = Committed \/ v = Torn,
           flashMeta' = [flashMeta EXCEPT ![nextSlot] = v], UNCHANGED <<data, offered>>
    PROVE  FreshInv'
<1>0. Kept  BY DEF NoneReused
<1>1. CASE v = Committed
  <2>1. Durable' = Committed  BY <1>0, <1>1, CommitDurable
  <2>2. meta \in Meta  BY <1>0, CommitPoint
  <2>3. /\ Committed.count = meta.count /\ Committed.capacity = meta.capacity
        /\ Committed.tail = meta.tail /\ Committed.next_seq = meta.next_seq
    BY <2>2 DEF Committed, Meta
  <2> HIDE DEF Committed
  <2>4. Live(Committed, data) = Live(meta, data)  BY <2>3, LiveSame
  <2>5. Named(offered \cup Live(Committed, data), Committed.next_seq)
    BY <2>3, <2>4 DEF FreshInv
  <2> QED BY <2>1, <2>5 DEF FreshInv
<1>2. CASE v = flashMeta[nextSlot] \/ v = Torn
  <2>1. Durable' = Durable  BY <1>0, <1>2, ErrorDurable
  <2> QED BY <2>1 DEF FreshInv
<1> QED BY <1>1, <1>2

\* An empty flash has had nothing sent from it.
LEMMA NothingSent ==
    ASSUME IndInv, FreshInv, NoneReused, ~AnyReadable
    PROVE  offered = {}
<1>1. Durable.next_seq = 0  BY DurableSound DEF ZeroMeta, fixQueueMetaFresh
<1>2. \A r \in offered : r \in Record /\ r.seq < 0  BY <1>1 DEF FreshInv, Named
<1>3. \A r \in offered : r.seq \in Nat  BY <1>2 DEF Record
<1>4. \A r \in offered : FALSE  BY <1>2, <1>3
<1> QED BY <1>4

\* No step of begin(), push(), peek() or a commit reuses an id that was sent.
LEMMA StoreFresh ==
    ASSUME IndInv, Synced, OrderInv, FreshInv, NoneReused, NoneReused', StoreStep
    PROVE  FreshInv'
<1>0. offered' = offered /\ Kept /\ Kept' /\ "format" \notin Faults
  BY DEF StoreStep, dvars, NoneReused
<1>2. ASSUME NEW cap \in Capacities, Mount(cap) PROVE FreshInv'
  BY <1>0, <1>2, QuietFresh DEF Mount, flash
<1>3. CASE MountFails  BY <1>0, <1>3, QuietFresh DEF MountFails, flash
<1>4. CASE RecoverFresh
  <2>1. offered = {}  BY <1>4, NothingSent DEF RecoverFresh
  <2>2. Durable' = Durable /\ data' = data
    BY <1>4 DEF Durable, AnyReadable, Winner, RecoverFresh, flash
  <2>3. meta'.count = 0 /\ pc' = "commit"
    BY <1>4 DEF RecoverFresh, reset, fixQueueMetaFresh
  <2>4. Live(meta', data') = {}  BY <2>3 DEF Live
  <2>5. Named({}, meta'.next_seq)  BY DEF Named
  <2>6. offered' \cup Live(meta', data') = {}  BY <1>0, <2>1, <2>4
  <2> QED BY <1>0, <2>2, <2>3, <2>5, <2>6 DEF FreshInv
<1>5. CASE RecoverOtherCapacity  BY <1>0, <1>5 DEF RecoverOtherCapacity, Kept
<1>6. CASE Recover  BY <1>0, <1>6, QuietFresh DEF Recover, flash
<1>7. CASE ProbeOk  BY <1>0, <1>7, QuietFresh DEF ProbeOk, flash
<1>8. CASE ProbeCorrupt  BY <1>0, <1>8 DEF ProbeCorrupt, Kept
<1>9. CASE ProbeShort  BY <1>0, <1>9 DEF ProbeShort, Kept
<1>10. CASE CreateDataFails  BY <1>0, <1>10, QuietFresh DEF CreateDataFails, flash
<1>11. CASE Push
  <2>1. Durable' = Durable /\ data' = data /\ meta' = meta /\ pc' = "data"
    BY <1>11 DEF Durable, AnyReadable, Winner, Push, flash, ram
  <2>2. ~fixQueueIsFull(meta)
    <3>1. everFull' = (everFull \/ (pc' = "data" /\ fixQueueIsFull(meta)))  BY DEF StoreStep
    <3> QED BY <2>1, <3>1, Zenon DEF NoneReused
  <2> QED BY <1>0, <2>1, <2>2 DEF FreshInv
<1>12. CASE PushWritesData  BY <1>0, <1>12, PushWritesFresh
<1>13. CASE PushTruncates  BY <1>0, <1>13 DEF PushTruncates, Kept
<1>14. CASE PushDataFails
  <2>1. PICK v \in AfterError(data[meta.head]) : data' = [data EXCEPT ![meta.head] = v]
    BY <1>14 DEF PushDataFails
  <2>2. Live(Durable, data') = Live(Durable, data)  BY <1>14, <2>1, DataFresh DEF PushDataFails
  <2>3. Durable' = Durable /\ pc' = "idle"
    BY <1>14 DEF Durable, AnyReadable, Winner, PushDataFails
  <2> QED BY <1>0, <2>2, <2>3 DEF FreshInv
<1>15. CASE Peek
  <2>1. PICK n \in 1..Limit(BatchMax) : batch' = [i \in 1..n |-> data[SlotAt(meta, i)]]
    BY <1>15 DEF Peek
  <2>2. Durable' = Durable /\ data' = data /\ pc' = "sending"
    BY <1>15 DEF Durable, AnyReadable, Winner, Peek, flash
  <2>3. InFlash(meta)  BY <1>0, <1>15 DEF Synced, Kept, Peek
  <2>4. SameQueue(meta, Durable)  BY <2>3, DurableSound DEF InFlash
  <2>5. Live(meta, data) = Live(Durable, data)  BY <2>4, LiveSame DEF SameQueue
  <2>6. n \in Nat /\ n <= meta.count /\ meta.count \in Nat
    BY <2>1, BoundsAssumption DEF Limit, Meta, IndInv, TypeOK
  <2>7. \A i \in 1..n : data[SlotAt(meta, i)] \in Live(meta, data)
    <3>1. \A i \in 1..n : i \in 1..meta.count  BY <2>6
    <3> QED BY <3>1 DEF Live
  <2>8. \A i \in DOMAIN batch' : batch'[i] \in Live(Durable, data)  BY <2>1, <2>5, <2>7
  <2> QED BY <1>0, <2>2, <2>8 DEF FreshInv
<1>16. CASE PeekCorrupt  BY <1>0, <1>16 DEF PeekCorrupt, Kept
<1>17. CASE LoopIdle
  <2>1. pc' \notin {"data", "commit", "sending"} /\ UNCHANGED <<flashMeta, data>>
    BY <1>17 DEF LoopIdle, vars
  <2> QED BY <1>0, <2>1, QuietFresh
<1>20. CASE CommitMeta
  <2>1. PICK v \in AfterWrite(flashMeta[nextSlot], Committed) :
           flashMeta' = [flashMeta EXCEPT ![nextSlot] = v]
    BY <1>20 DEF CommitMeta
  <2>2. v = flashMeta[nextSlot] \/ v = Committed  BY WriteOutcomes
  <2>3. pc' \notin {"data", "commit", "sending"} /\ pc = "commit" /\ data' = data
    BY <1>20 DEF CommitMeta
  <2> QED BY <1>0, <2>1, <2>2, <2>3, CommitFresh
<1>21. CASE CommitFails
  <2>1. PICK v \in AfterError(flashMeta[nextSlot]) :
           flashMeta' = [flashMeta EXCEPT ![nextSlot] = v]
    BY <1>21 DEF CommitFails
  <2>2. v = flashMeta[nextSlot] \/ v = Torn  BY WriteOutcomes
  <2>3. pc' \notin {"data", "commit", "sending"} /\ pc = "commit" /\ data' = data
    BY <1>21 DEF CommitFails
  <2> QED BY <1>0, <2>1, <2>2, <2>3, CommitFresh
<1> QED
  BY <1>2, <1>3, <1>4, <1>5, <1>6, <1>7, <1>8, <1>9, <1>10, <1>11, <1>12, <1>13,
     <1>14, <1>15, <1>16, <1>17, <1>20, <1>21 DEF StoreStep, Begin

\* Nor does a power cut: it gives back only ids that no boot and no request has seen.
LEMMA CutFresh ==
    ASSUME IndInv, Synced, OrderInv, FreshInv, NoneReused, DPowerCut
    PROVE  FreshInv'
<1>1. offered' = offered /\ pc' = "off" /\ PowerCut  BY DEF DPowerCut, PowerCut
<1>2. CASE pc = "commit" /\ MetaEncodable(meta)
  <2>1. PICK v \in AfterCut(flashMeta[nextSlot], Committed) :
           flashMeta' = [flashMeta EXCEPT ![nextSlot] = v]
    BY <1>1, <1>2 DEF PowerCut
  <2>2. v = flashMeta[nextSlot] \/ v = Committed \/ v = Torn  BY WriteOutcomes
  <2>3. data' = data  BY <1>1, <1>2 DEF PowerCut
  <2> QED BY <1>1, <1>2, <2>1, <2>2, <2>3, CommitFresh
<1>3. CASE pc = "data"
  <2>1. PICK v \in AfterCut(data[meta.head], op.rec) : data' = [data EXCEPT ![meta.head] = v]
    BY <1>1, <1>3 DEF PowerCut
  <2>2. flashMeta' = flashMeta  BY <1>1, <1>3 DEF PowerCut
  <2>3. Durable' = Durable  BY <2>2, DurableFiles
  <2>4. Live(Durable, data') = Live(Durable, data)  BY <1>3, <2>1, DataFresh
  <2> QED BY <1>1, <2>3, <2>4 DEF FreshInv
<1>4. CASE pc # "data" /\ ~(pc = "commit" /\ MetaEncodable(meta))
  <2>1. UNCHANGED <<flashMeta, data>>  BY <1>1, <1>4 DEF PowerCut
  <2> QED BY <1>1, <2>1, QuietFresh
<1> QED BY <1>2, <1>3, <1>4

\* Every step of tracker, network and backend keeps ids apart.
LEMMA FreshStep ==
    IndInv /\ Synced /\ OrderInv /\ DeliveryInv /\ FreshInv /\ [DNext]_allvars => FreshInv'
<1> SUFFICES ASSUME IndInv, Synced, OrderInv, DeliveryInv, FreshInv, [DNext]_allvars,
                    NoneReused'
             PROVE  FreshInv'
  BY DEF FreshInv
<1>0. NoneReused  BY ReuseStays DEF IndInv
<1>1. CASE StoreStep  BY <1>0, <1>1, StoreFresh
<1>2. CASE DPowerCut  BY <1>0, <1>2, CutFresh
<1>3. CASE Post201  BY <1>0, <1>3, PostFresh DEF Post201
<1>4. CASE PostTransportError  BY <1>0, <1>4, PostFresh DEF PostTransportError
<1>5. CASE GiveUp
  <2>1. pc' = "idle" /\ UNCHANGED <<flashMeta, data, offered>>
    BY <1>5 DEF GiveUp, NotSent, flash
  <2> QED BY <1>0, <2>1, QuietFresh
<1>6. CASE AckBatch  BY <1>0, <1>6, AckFresh DEF AckBatch
<1>7. CASE UNCHANGED <<vars, offered>>
  <2>1. Durable' = Durable  BY <1>7 DEF Durable, AnyReadable, Winner, vars
  <2> QED BY <1>0, <1>7, <2>1 DEF FreshInv, vars
<1>8. CASE LateIngest  BY <1>7, <1>8 DEF LateIngest
<1>9. CASE UNCHANGED allvars  BY <1>7, <1>9 DEF allvars, dvars
<1> QED BY <1>1, <1>2, <1>3, <1>4, <1>5, <1>6, <1>8, <1>9 DEF DNext

\* A blank flash holds no record, and nothing was sent.
LEMMA FreshInit == DInit => FreshInv
<1> SUFFICES ASSUME DInit PROVE FreshInv  OBVIOUS
<1>1. ~Readable(Blank)  BY SentinelAssumption DEF Readable
<1>2. DurableOf(flashMeta) = ZeroMeta  BY <1>1 DEF DurableOf, MetaFile, Init, DInit
<1>3. Durable.count = 0  BY <1>2, DurableFiles DEF ZeroMeta, fixQueueMetaFresh
<1>4. offered \cup Live(Durable, data) = {}  BY <1>3 DEF Live, DInit
<1>5. Named({}, Durable.next_seq)  BY DEF Named
<1> QED BY <1>4, <1>5 DEF FreshInv, DInit, Init

\* IdsAreFresh: while the store has not reset itself, the volume was not
\* formatted and no push met a full ring, no sequence id is sent with two
\* different fixes, although next_seq goes back at every cut between a data and
\* a meta write and a failed commit leaves it ahead.
THEOREM SequenceIdsAreFresh ==
    ASSUME "silent" \notin Faults, "truncate" \notin Faults, "format" \notin Faults
    PROVE  DSpec => []IdsAreFresh
<1> DEFINE Inv == IndInv /\ Synced /\ OrderInv /\ DeliveryInv /\ FreshInv
<1>1. DInit => Inv
  BY InitInd, InitSynced, InitOrder, DeliveryInit, FreshInit DEF DInit
<1>2. Inv /\ [DNext]_allvars => Inv'
  BY StoreOfDelivery, NextInd, NextSynced, NextOrder, DeliveryStep, FreshStep
<1>3. Inv => IdsAreFresh
  <2> SUFFICES ASSUME FreshInv, ~wasReset, ~everFull PROVE SeqNamesFix
    BY DEF IdsAreFresh
  <2>1. Named(offered \cup Live(Durable, data), Durable.next_seq)
    BY DEF FreshInv, NoneReused, Kept
  <2> QED BY <2>1 DEF Named, SeqNamesFix
<1> HIDE DEF Inv
<1> QED BY <1>1, <1>2, <1>3, PTL DEF DSpec

\* So without those faults, and until a reset or a full ring, every acknowledged
\* point is stored with no further proviso.
THEOREM EveryAcknowledgedPointIsStored ==
    ASSUME "silent" \notin Faults, "truncate" \notin Faults, "format" \notin Faults
    PROVE  DSpec => [](~wasReset /\ ~everFull => EveryAckedIsStored)
<1>1. AckedIsStored /\ IdsAreFresh => (~wasReset /\ ~everFull => EveryAckedIsStored)
  BY DEF AckedIsStored, IdsAreFresh, EveryAckedIsStored
<1> QED BY <1>1, AcknowledgedPointsAreStored, SequenceIdsAreFresh, PTL

=============================================================================
