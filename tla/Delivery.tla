------------------------------ MODULE Delivery ------------------------------
(***************************************************************************)
(* A fix from the flash of the tracker to the tables of the backend: the   *)
(* drain of loop() in iot/src/main.cpp (peek, transportPostBatch,          *)
(* ackFront) over FixStore, with the batch endpoint as atomic batches      *)
(* (AtomicIngest, which Ingest implements).                                *)
(*                                                                         *)
(* A request may be lost, be answered after the tracker gave up, or be     *)
(* applied long after that; the tracker may lose power at any point.       *)
(***************************************************************************)
EXTENDS FixStore

CONSTANTS
    SubBatch,     \* SUB_BATCH_ITEMS
    BadFixes,     \* fixes the backend's DTO refuses
    MaxDelayed    \* bound: requests still under way after the tracker gave up

ASSUME SubBatchAssumption == SubBatch \in Nat \ {0}
ASSUME DelayedAssumption == MaxDelayed \in Nat

VARIABLES
    keys, rows,   \* the backend's tables
    offset,       \* transportPostBatch: first item of the current sub-batch
    tries,        \* POSTs of the current sub-batch that ended in TRANSPORT_ERROR
    delayed,      \* requests the backend may still receive
    offered,      \* ghost: records that were in a request
    acked,        \* ghost: fixes of batches that ended SENT
    everFull      \* ghost: a push has started on a full ring

B == INSTANCE AtomicIngest

net   == <<offset, tries, delayed>>
dvars == <<keys, rows, offset, tries, delayed, offered, acked>>
allvars == <<vars, dvars, everFull>>

DInit ==
    /\ Init /\ B!TablesInit
    /\ offset = 0 /\ tries = 0 /\ delayed = {} /\ offered = {} /\ acked = {}
    /\ everFull = FALSE

ChunkSize == IF Len(batch) - offset < SubBatch THEN Len(batch) - offset ELSE SubBatch
Chunk     == SubSeq(batch, offset + 1, offset + ChunkSize)
Refused(items) == \E i \in DOMAIN items : items[i].fix \in BadFixes
Offered   == offered \cup {Chunk[i] : i \in DOMAIN Chunk}

Posting == pc = "sending" /\ offset < Len(batch)

-----------------------------------------------------------------------------
(* postOnce() of one sub-batch: its outcomes.                              *)

\* 201: the batch is committed and the answer arrives.
Post201 ==
    /\ Posting /\ tries < 2 /\ ~Refused(Chunk)
    /\ B!Ingest(Chunk)
    /\ offered' = Offered
    /\ offset' = offset + ChunkSize /\ tries' = 0
    /\ UNCHANGED <<vars, delayed, acked, everFull>>

\* TRANSPORT_ERROR: no connection, a short write, or no answer in time.  The
\* backend never sees the request, has committed it, or will see it later.
PostTransportError ==
    /\ Posting /\ tries < 2
    /\ tries' = tries + 1
    /\ offered' = Offered
    /\ \/ UNCHANGED <<keys, rows, delayed>>
       \/ ~Refused(Chunk) /\ B!Ingest(Chunk) /\ UNCHANGED delayed
       \/ /\ ~Refused(Chunk) /\ Cardinality(delayed) < MaxDelayed
          /\ delayed' = delayed \cup {Chunk}
          /\ UNCHANGED <<keys, rows>>
    /\ UNCHANGED <<vars, offset, acked, everFull>>

\* The drain ends without SENT: an HTTP error on any POST (400 for a sub-batch
\* with a refused item, 5xx with the transaction rolled back), a second
\* transport error, or a network that is not back for the retry.
GiveUp ==
    /\ Posting
    /\ NotSent
    /\ offset' = 0 /\ tries' = 0
    /\ UNCHANGED <<keys, rows, delayed, offered, acked, everFull>>

\* Mutant of AckBatch: the first sub-batch's 201 acknowledges the whole prefix.
AckEarly ==
    /\ pc = "sending" /\ offset > 0
    /\ ackFront
    /\ offset' = 0
    /\ acked' = acked \cup {batch[i].fix : i \in DOMAIN batch}
    /\ UNCHANGED <<keys, rows, tries, delayed, offered, everFull>>

\* Mutant of AckBatch: the drain ends as if nothing had been sent.
AckForgotten ==
    /\ pc = "sending" /\ offset >= Len(batch)
    /\ NotSent
    /\ offset' = 0
    /\ UNCHANGED <<keys, rows, tries, delayed, offered, acked, everFull>>

\* SENT: every sub-batch was answered 201; drop the whole peeked prefix.
AckBatch ==
    /\ pc = "sending" /\ offset >= Len(batch)
    /\ ackFront
    /\ offset' = 0
    /\ acked' = acked \cup {batch[i].fix : i \in DOMAIN batch}
    /\ UNCHANGED <<keys, rows, tries, delayed, offered, everFull>>

\* The backend works off a request the tracker no longer waits for.
LateIngest ==
    \E items \in delayed :
        /\ B!Ingest(items)
        /\ delayed' = delayed \ {items}
        /\ UNCHANGED <<vars, offset, tries, offered, acked, everFull>>

DPowerCut ==
    /\ PowerCut
    /\ offset' = 0 /\ tries' = 0
    /\ UNCHANGED <<keys, rows, delayed, offered, acked, everFull>>

StoreStep ==
    /\ \/ Begin \/ CommitMeta \/ CommitFails
       \/ Push \/ PushWritesData \/ PushTruncates \/ PushDataFails
       \/ Peek \/ PeekCorrupt \/ LoopIdle
    /\ everFull' = (everFull \/ (pc' = "data" /\ fixQueueIsFull(meta)))
    /\ UNCHANGED dvars

DNext ==
    \/ StoreStep
    \/ DPowerCut
    \/ Post201 \/ PostTransportError \/ GiveUp \/ AckBatch \/ LateIngest

DSpec == DInit /\ [][DNext]_allvars

\* loop() keeps running (its watchdog sees to that), a file operation that is
\* repeated eventually succeeds, and so does a POST of a sub-batch that is
\* tried again in drain after drain.
DFairSpec ==
    /\ DSpec
    /\ WF_allvars(StoreStep /\ pc \in {"off", "mounted", "probe", "data"})
    /\ WF_allvars(StoreStep /\ (pc' = "sending" \/ PeekCorrupt))
    /\ SF_allvars(StoreStep /\ CommitMeta)
    /\ WF_allvars(GiveUp)
    /\ WF_allvars(AckBatch)
    /\ \A k \in 0..(BatchMax - 1) :
          SF_allvars(Post201 /\ offset = k)

-----------------------------------------------------------------------------
\* The contract between store and backend: what the tracker ever sends under
\* one sequence id is one fix.
SeqNamesFix == \A a, b \in offered : a.seq = b.seq => a = b

\* As long as a sequence id names one fix, no acknowledged point is missing
\* from the backend, whatever requests and answers are lost, duplicated or late
\* and wherever power is cut (transportPostBatch, InsertBatch, ackFront).
AckedIsStored == SeqNamesFix => acked \subseteq rows

\* docs/api/Locations.md: "treat every accepted_sequence_ids entry as durable",
\* "a coverage gap or reboot never loses a point": without the proviso, every
\* point of a batch that ended SENT is stored.
EveryAckedIsStored == acked \subseteq rows

\* While the store has not reset itself and no push met a full ring, sequence
\* ids are never reused: a cut between data and meta hands the id out again,
\* but its first holder was never sent.
IdsAreFresh == ~wasReset /\ ~everFull => SeqNamesFix

\* The backlog is delivered: with a POST that eventually gets through, the
\* queue runs empty again and again, through power cuts, retries and failing
\* commits, unless begin() failed and the tracker runs without its queue.
QueueDrains == <>[](pc = "down") \/ []<>(pc = "idle" /\ meta.count = 0)

=============================================================================
