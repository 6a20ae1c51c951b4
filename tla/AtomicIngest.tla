---------------------------- MODULE AtomicIngest ----------------------------
(***************************************************************************)
(* What the batch endpoint promises the tracker, as atomic steps on the    *)
(* two tables of one device: location_ingest_keys and locations.           *)
(*                                                                         *)
(* An item is [seq, fix]; fix stands for recorded_at and the measurements. *)
(***************************************************************************)
EXTENDS Integers, Sequences

VARIABLES
    keys,   \* rows of location_ingest_keys: a set of [seq, fix]
    rows    \* rows of locations: a set of fixes

tables == <<keys, rows>>

Item == [seq : Nat, fix : Nat]

\* Service.IngestBatch: a sequence id seen before in the same request, or 0,
\* is rejected; the other items reach the writer.
Admitted(items) ==
    {i \in DOMAIN items : items[i].seq # 0 /\ \A j \in 1..(i - 1) : items[j].seq # items[i].seq}

Accepted(items) == {items[i] : i \in Admitted(items)}

\* Adapter.InsertBatch: an item whose key is already there is only ACKed again.
NewItems(ks, items) == {it \in Accepted(items) : \A k \in ks : k.seq # it.seq}

KeysAfter(ks, items) == ks \cup NewItems(ks, items)
RowsAfter(ks, rs, items) == rs \cup {it.fix : it \in NewItems(ks, items)}

\* One committed transaction of InsertBatch.
Ingest(items) ==
    /\ keys' = KeysAfter(keys, items)
    /\ rows' = RowsAfter(keys, rows, items)

TablesInit == keys = {} /\ rows = {}

=============================================================================
