------------------------------- MODULE Ingest -------------------------------
(***************************************************************************)
(* POST /api/v1/devices/:uuid_firmware/locations/batch of the backend:     *)
(* LocationsHandler.IngestBatch, Service.IngestBatch and the transaction   *)
(* of Adapter.InsertBatch, one step per item.  Several requests of one     *)
(* device run at the same time: the tracker retries a request whose answer *)
(* it lost while the first one may still be running.                       *)
(***************************************************************************)
EXTENDS AtomicIngest, FiniteSets

CONSTANTS
    Requests,     \* requests in flight over a behaviour
    Bodies,       \* the bodies they may carry: sequences of items
    BadFixes      \* fixes the DTO refuses (validate_struct, toDomainIngest)

ASSUME BodiesAssumption == \A b \in Bodies : b \in Seq(Item) /\ b # <<>>

VARIABLES
    body,     \* body[r]: the items of request r
    at,       \* at[r]: the next item of the transaction's loop
    status,   \* status[r]: "new", "open", "201", "400", "500"
    held,     \* held[r]: items inserted by r's transaction, not committed
    touched,  \* touched[r]: r's transaction has updated the row of the device
    contact   \* devices.last_contact_at is not null

ivars == <<keys, rows, body, at, status, held, touched, contact>>
device == <<touched, contact>>

IngestInit ==
    /\ TablesInit
    /\ body \in [Requests -> Bodies]
    /\ at = [r \in Requests |-> 1]
    /\ status = [r \in Requests |-> "new"]
    /\ held = [r \in Requests |-> {}]
    /\ touched = [r \in Requests |-> FALSE]
    /\ contact = FALSE

\* DTO validation is all or nothing (dive), before the handler runs.
Refuse(r) ==
    /\ status[r] = "new"
    /\ \E i \in DOMAIN body[r] : body[r][i].fix \in BadFixes
    /\ status' = [status EXCEPT ![r] = "400"]
    /\ UNCHANGED <<keys, rows, body, at, held, device>>

Open(r) ==
    /\ status[r] = "new"
    /\ \A i \in DOMAIN body[r] : body[r][i].fix \notin BadFixes
    /\ status' = [status EXCEPT ![r] = "open"]
    /\ UNCHANGED <<keys, rows, body, at, held, device>>

\* A row another open transaction has inserted makes the INSERT wait for it.
Waits(r, it) ==
    \E u \in Requests \ {r} : status[u] = "open" /\ \E h \in held[u] : h.seq = it.seq \/ h.fix = it.fix

\* Mutants of InsertItem: it takes the uncommitted key of another transaction
\* for a durable one; it does not move on after a key it has seen; every item
\* is committed by itself.
InsertDirty(r) ==
    /\ status[r] = "open" /\ at[r] <= Len(body[r])
    /\ LET it == body[r][at[r]]
       IN  IF at[r] \notin Admitted(body[r]) \/ Waits(r, it) \/ \E k \in keys : k.seq = it.seq
           THEN UNCHANGED held
           ELSE held' = [held EXCEPT ![r] = @ \cup {it}]
    /\ at' = [at EXCEPT ![r] = @ + 1]
    /\ UNCHANGED <<keys, rows, body, status, device>>
InsertStopsAtKey(r) ==
    /\ status[r] = "open" /\ at[r] <= Len(body[r])
    /\ \A k \in keys : k.seq # body[r][at[r]].seq
    /\ held' = [held EXCEPT ![r] = @ \cup {body[r][at[r]]}]
    /\ at' = [at EXCEPT ![r] = @ + 1]
    /\ UNCHANGED <<keys, rows, body, status, device>>
InsertAutocommit(r) ==
    /\ status[r] = "open" /\ at[r] <= Len(body[r])
    /\ keys' = KeysAfter(keys, <<body[r][at[r]]>>)
    /\ rows' = RowsAfter(keys, rows, <<body[r][at[r]]>>)
    /\ at' = [at EXCEPT ![r] = @ + 1]
    /\ UNCHANGED <<body, status, held, device>>

\* One turn of the loop: an item the service rejected is not in the loop; a
\* key already committed makes RowsAffected() zero and the row is skipped.
InsertItem(r) ==
    /\ status[r] = "open" /\ at[r] <= Len(body[r])
    /\ LET it == body[r][at[r]]
       IN  IF at[r] \notin Admitted(body[r]) \/ \E k \in keys : k.seq = it.seq
           THEN UNCHANGED held
           ELSE ~Waits(r, it) /\ held' = [held EXCEPT ![r] = @ \cup {it}]
    /\ at' = [at EXCEPT ![r] = @ + 1]
    /\ UNCHANGED <<keys, rows, body, status, device>>

\* UPDATE devices SET last_contact_at, when the service passed any item on: it
\* waits for another transaction of the same device that has done so.
TouchDevice(r) ==
    /\ status[r] = "open" /\ at[r] > Len(body[r])
    /\ ~touched[r] /\ Admitted(body[r]) # {}
    /\ \A u \in Requests : ~touched[u]
    /\ touched' = [touched EXCEPT ![r] = TRUE]
    /\ UNCHANGED <<keys, rows, body, at, status, held, contact>>

\* Commit; the answer is 201, or 500 when the connection is lost while the
\* commit was already durable.
Commit(r) ==
    /\ status[r] = "open" /\ at[r] > Len(body[r])
    /\ touched[r] \/ Admitted(body[r]) = {}
    /\ keys' = keys \cup held[r]
    /\ rows' = rows \cup {it.fix : it \in held[r]}
    /\ \E answer \in {"201", "500"} : status' = [status EXCEPT ![r] = answer]
    /\ held' = [held EXCEPT ![r] = {}]
    /\ contact' = (contact \/ touched[r])
    /\ touched' = [touched EXCEPT ![r] = FALSE]
    /\ UNCHANGED <<body, at>>

\* Any statement fails, the context is cancelled, or Postgres breaks a deadlock.
Rollback(r) ==
    /\ status[r] = "open"
    /\ status' = [status EXCEPT ![r] = "500"]
    /\ held' = [held EXCEPT ![r] = {}]
    /\ touched' = [touched EXCEPT ![r] = FALSE]
    /\ UNCHANGED <<keys, rows, body, at, contact>>

\* Every request has been answered.
AllAnswered ==
    /\ \A r \in Requests : status[r] \in {"201", "400", "500"}
    /\ UNCHANGED ivars

IngestNext ==
    \/ \E r \in Requests :
          \/ Refuse(r) \/ Open(r) \/ InsertItem(r)
          \/ TouchDevice(r) \/ Commit(r) \/ Rollback(r)
    \/ AllAnswered

IngestSpec == IngestInit /\ [][IngestNext]_ivars

IngestFairSpec ==
    /\ IngestSpec
    /\ \A r \in Requests :
          WF_ivars(Refuse(r) \/ Open(r) \/ InsertItem(r) \/ TouchDevice(r) \/ Commit(r))

-----------------------------------------------------------------------------
\* The interface contract the tracker owes the backend: over all requests one
\* sequence id names one fix.
SeqNamesFix ==
    \A r, s \in Requests : \A i \in DOMAIN body[r], j \in DOMAIN body[s] :
        body[r][i].seq = body[s][j].seq => body[r][i] = body[s][j]

\* "treat every accepted_sequence_ids entry as durable": once a request is
\* answered 201, each of its items that carries an id is a row of locations,
\* also when its key belonged to another request that was still running; and
\* it is inserted once, for two transactions never hold rows of one key.
AnsweredIsStored ==
    /\ SeqNamesFix =>
          \A r \in Requests : status[r] = "201" =>
              \A it \in Accepted(body[r]) : it.fix \in rows
    /\ \A r, s \in Requests : \A h \in held[r], g \in held[s] :
          r # s => h.seq # g.seq

\* Every request is answered: transactions that wait for one another in the
\* order of the queue cannot wait in a circle.
EveryRequestAnswered == \A r \in Requests : <>(status[r] \in {"201", "400", "500"})

\* The concurrent transactions behave as atomic batches applied one by one.
AtomicNext == \E b \in Bodies : Ingest(b)

\* Every change of the two tables is one whole batch, applied atomically.
BatchesAreAtomic == [][AtomicNext]_tables

=============================================================================
