---------------------------- MODULE IngestProofs ----------------------------
(***************************************************************************)
(* Proofs about the batch endpoint, for any number of concurrent requests  *)
(* with any bodies: what is answered 201 is stored, and the interleaved    *)
(* transactions implement the atomic batches of AtomicIngest.              *)
(***************************************************************************)
EXTENDS Ingest, TLAPS

Statuses == {"new", "open", "201", "400", "500"}

IngestTypeOK ==
    /\ keys \subseteq Item
    /\ rows \subseteq Nat
    /\ body \in [Requests -> Bodies]
    /\ at \in [Requests -> Nat]
    /\ status \in [Requests -> Statuses]
    /\ held \in [Requests -> SUBSET Item]
    /\ touched \in [Requests -> BOOLEAN]
    /\ contact \in BOOLEAN

Committed(it) == \E k \in keys : k.seq = it.seq

\* What a transaction holds are admitted items that its loop has passed; only
\* an open one holds any.
HeldArePassed == \A r \in Requests : \A h \in held[r] :
    /\ status[r] = "open"
    /\ h \in Accepted(body[r])

\* Every admitted item that the loop has passed is held, or was committed.
PassedAreHeld == \A r \in Requests : \A i \in Admitted(body[r]) :
    (status[r] = "open" /\ i < at[r]) => body[r][i] \in held[r] \/ Committed(body[r][i])

\* No two transactions hold rows of one key, and none holds a committed key.
KeysApart ==
    /\ \A r, s \in Requests : \A h \in held[r], g \in held[s] : r # s => h.seq # g.seq
    /\ \A r \in Requests : \A h \in held[r] : ~Committed(h)

\* A request starts at its first item; a key comes from a request and has its row.
StartsAtOne == \A r \in Requests : status[r] = "new" => at[r] <= 1
KeysHaveRows == \A k \in keys : k.fix \in rows /\ \E r \in Requests : k \in Accepted(body[r])
AnsweredHaveKeys == \A r \in Requests :
    status[r] = "201" => \A it \in Accepted(body[r]) : Committed(it)

IngestInv ==
    /\ IngestTypeOK /\ HeldArePassed /\ PassedAreHeld /\ KeysApart
    /\ StartsAtOne /\ KeysHaveRows /\ AnsweredHaveKeys

\* The admitted items of a body are among its items.
LEMMA AdmittedItems ==
    ASSUME NEW b \in Bodies
    PROVE  /\ b \in Seq(Item) /\ Admitted(b) \subseteq 1..Len(b)
           /\ \A i \in Admitted(b) : b[i] \in Item /\ b[i] \in Accepted(b)
           /\ \A it \in Accepted(b) : it \in Item /\ \E i \in Admitted(b) : it = b[i]
BY BodiesAssumption DEF Admitted, Accepted

\* The invariant holds at first.
LEMMA IngestStarts == IngestInit => IngestInv
<1> SUFFICES ASSUME IngestInit
             PROVE  IngestInv
  OBVIOUS
<1> USE DEF IngestInit, TablesInit
<1>1. IngestTypeOK
  BY DEF IngestTypeOK, Statuses
<1>2. HeldArePassed /\ PassedAreHeld /\ KeysApart
  BY DEF HeldArePassed, PassedAreHeld, KeysApart
<1>3. StartsAtOne /\ KeysHaveRows /\ AnsweredHaveKeys
  BY DEF StartsAtOne, KeysHaveRows, AnsweredHaveKeys
<1> QED BY <1>1, <1>2, <1>3 DEF IngestInv

\* One turn of the transaction's loop.
LEMMA InsertKeeps ==
    ASSUME IngestInv, NEW r \in Requests, InsertItem(r)
    PROVE  IngestInv'
<1> DEFINE i == at[r]
           it == body[r][i]
           skip == i \notin Admitted(body[r]) \/ Committed(it)
<1> USE DEF IngestInv
<1>1. /\ status[r] = "open" /\ i \in Nat /\ i <= Len(body[r]) /\ body[r] \in Bodies
      /\ UNCHANGED <<keys, rows, body, status, touched, contact>>
      /\ at' = [at EXCEPT ![r] = i + 1]
  BY DEF InsertItem, IngestTypeOK, device
<1>2. /\ skip => held' = held
      /\ ~skip => ~Waits(r, it) /\ held' = [held EXCEPT ![r] = held[r] \cup {it}]
  BY DEF InsertItem, Committed
<1>3. ~skip => it \in Item /\ it \in Accepted(body[r]) /\ ~Committed(it)
  BY <1>1, AdmittedItems
<1>4. \A u \in Requests : held'[u] = held[u] \/ (u = r /\ ~skip /\ held'[u] = held[u] \cup {it})
  BY <1>2 DEF IngestTypeOK
<1> HIDE DEF skip, it
<1>5. IngestTypeOK'
  BY <1>1, <1>2, <1>3 DEF IngestTypeOK
<1>6. HeldArePassed'
  BY <1>1, <1>3, <1>4 DEF HeldArePassed
<1>7. PassedAreHeld'
  <2> SUFFICES ASSUME NEW u \in Requests, NEW j \in Admitted(body[u]),
                      status[u] = "open", j < at'[u]
               PROVE  body[u][j] \in held'[u] \/ Committed(body[u][j])
    BY <1>1 DEF PassedAreHeld, Committed
  <2>1. j \in Nat /\ body[u] \in Bodies
    BY AdmittedItems DEF IngestTypeOK
  <2>2. CASE j < at[u]
    BY <1>4, <2>2 DEF PassedAreHeld
  <2>3. CASE ~(j < at[u])
    <3>1. u = r /\ j = i
      BY <1>1, <2>1, <2>3 DEF IngestTypeOK
    <3> QED BY <1>2, <3>1 DEF skip, it, IngestTypeOK
  <2> QED BY <2>2, <2>3
<1>8. KeysApart'
  <2>1. ASSUME NEW u \in Requests, u # r, NEW g \in held[u], ~skip
        PROVE  g.seq # it.seq
    BY <1>2, <2>1 DEF Waits, HeldArePassed
  <2>2. ASSUME NEW u \in Requests, NEW v \in Requests, u # v, NEW h \in held'[u], NEW g \in held'[v]
        PROVE  h.seq # g.seq
    BY <1>4, <2>1, <2>2 DEF KeysApart
  <2>3. ASSUME NEW u \in Requests, NEW h \in held'[u]
        PROVE  ~Committed(h)
    BY <1>3, <1>4, <2>3 DEF KeysApart
  <2> QED BY <1>1, <2>2, <2>3 DEF KeysApart, Committed
<1>9. StartsAtOne'
  BY <1>1 DEF StartsAtOne, IngestTypeOK
<1>10. KeysHaveRows' /\ AnsweredHaveKeys'
  BY <1>1 DEF KeysHaveRows, AnsweredHaveKeys, Committed
<1> QED BY <1>5, <1>6, <1>7, <1>8, <1>9, <1>10

\* When the loop has ended, what a transaction holds are the new items of its
\* body, no more and no less.
LEMMA HeldAreNew ==
    ASSUME IngestInv, NEW r \in Requests, status[r] = "open", at[r] > Len(body[r])
    PROVE  held[r] = NewItems(keys, body[r])
<1> USE DEF IngestInv
<1>1. body[r] \in Bodies /\ at[r] \in Nat
  BY DEF IngestTypeOK
<1>2. \A h \in held[r] : h \in Accepted(body[r]) /\ ~Committed(h)
  BY DEF HeldArePassed, KeysApart
<1>3. ASSUME NEW it \in Accepted(body[r]), ~Committed(it)
      PROVE  it \in held[r]
  <2>1. PICK i \in Admitted(body[r]) : it = body[r][i]
    BY <1>1, AdmittedItems
  <2>2. i < at[r]
    BY <1>1, AdmittedItems
  <2> QED BY <1>3, <2>1, <2>2 DEF PassedAreHeld
<1> QED BY <1>2, <1>3 DEF NewItems, Committed

\* The commit.
LEMMA CommitKeeps ==
    ASSUME IngestInv, NEW r \in Requests, Commit(r)
    PROVE  IngestInv'
<1> USE DEF IngestInv
<1>1. /\ status[r] = "open" /\ at[r] > Len(body[r]) /\ UNCHANGED <<body, at>>
      /\ keys' = keys \cup held[r] /\ rows' = rows \cup {h.fix : h \in held[r]}
      /\ held' = [held EXCEPT ![r] = {}]
      /\ \E answer \in {"201", "500"} : status' = [status EXCEPT ![r] = answer]
  BY DEF Commit
<1>2. IngestTypeOK'
  <2>0. held[r] \subseteq Item /\ \A h \in held[r] : h.fix \in Nat
    BY DEF IngestTypeOK, Item
  <2>1. keys' \subseteq Item /\ rows' \subseteq Nat
    BY <1>1, <2>0 DEF IngestTypeOK
  <2>2. touched' \in [Requests -> BOOLEAN] /\ contact' \in BOOLEAN
    BY DEF Commit, IngestTypeOK
  <2> QED BY <1>1, <2>1, <2>2 DEF IngestTypeOK, Statuses
<1>3. /\ \A u \in Requests : held'[u] = IF u = r THEN {} ELSE held[u]
      /\ \A u \in Requests \ {r} : status'[u] = status[u]
      /\ status'[r] \in {"201", "500"}
  BY <1>1 DEF IngestTypeOK
<1>4. \A it : Committed(it) => Committed(it)'
  BY <1>1 DEF Committed
<1>5. HeldArePassed'
  BY <1>1, <1>3 DEF HeldArePassed
<1>6. PassedAreHeld'
  <2> SUFFICES ASSUME NEW u \in Requests, NEW j \in Admitted(body[u]),
                      status'[u] = "open", j < at[u]
               PROVE  body[u][j] \in held'[u] \/ Committed(body[u][j])'
    BY <1>1 DEF PassedAreHeld, Committed
  <2>1. u # r /\ status[u] = "open"
    BY <1>3
  <2>2. body[u][j] \in held[u] \/ Committed(body[u][j])
    BY <2>1 DEF PassedAreHeld
  <2> QED BY <1>1, <1>3, <2>1, <2>2 DEF Committed
<1>7. KeysApart'
  BY <1>1, <1>3 DEF KeysApart, Committed
<1>8. StartsAtOne'
  BY <1>1, <1>3 DEF StartsAtOne
<1>9. KeysHaveRows'
  BY <1>1 DEF KeysHaveRows, HeldArePassed
<1>10. AnsweredHaveKeys'
  <2> SUFFICES ASSUME NEW u \in Requests, status'[u] = "201", NEW it \in Accepted(body[u])
               PROVE  \E k \in keys' : k.seq = it.seq
    BY <1>1 DEF AnsweredHaveKeys, Committed
  <2>1. CASE u = r
    <3>1. it \in held[r] \/ \E k \in keys : k.seq = it.seq
      BY <1>1, <2>1, HeldAreNew DEF NewItems
    <3> QED BY <1>1, <3>1
  <2>2. CASE u # r
    BY <1>1, <1>3, <2>2 DEF AnsweredHaveKeys, Committed
  <2> QED BY <2>1, <2>2
<1> QED BY <1>2, <1>5, <1>6, <1>7, <1>8, <1>9, <1>10

\* The steps that only answer, begin or give up a request.
LEMMA OthersKeep ==
    ASSUME IngestInv, NEW r \in Requests,
           Refuse(r) \/ Open(r) \/ TouchDevice(r) \/ Rollback(r)
    PROVE  IngestInv'
<1> USE DEF IngestInv
<1>1. UNCHANGED <<keys, rows, body, at>> /\ IngestTypeOK'
  <2>1. CASE Refuse(r)
    BY <2>1 DEF Refuse, IngestTypeOK, Statuses, device
  <2>2. CASE Open(r)
    BY <2>2 DEF Open, IngestTypeOK, Statuses, device
  <2>3. CASE TouchDevice(r)
    BY <2>3 DEF TouchDevice, IngestTypeOK, Statuses
  <2>4. CASE Rollback(r)
    BY <2>4 DEF Rollback, IngestTypeOK, Statuses
  <2> QED BY <2>1, <2>2, <2>3, <2>4
<1>2. \A u \in Requests :
        \/ status'[u] = status[u] /\ held'[u] = held[u]
        \/ u = r /\ status'[u] \in {"400", "500"} /\ held'[u] = {}
        \/ u = r /\ status[u] = "new" /\ status'[u] = "open" /\ held'[u] = held[u]
  <2>1. CASE Refuse(r)
    <3>1. held[r] = {} /\ UNCHANGED held /\ status' = [status EXCEPT ![r] = "400"]
      BY <2>1 DEF Refuse, HeldArePassed
    <3> QED BY <3>1 DEF IngestTypeOK
  <2>2. CASE Open(r)
    BY <2>2 DEF Open, IngestTypeOK
  <2>3. CASE TouchDevice(r)
    BY <2>3 DEF TouchDevice
  <2>4. CASE Rollback(r)
    BY <2>4 DEF Rollback, IngestTypeOK
  <2> QED BY <2>1, <2>2, <2>3, <2>4
<1>3. HeldArePassed' /\ KeysApart' /\ StartsAtOne' /\ KeysHaveRows' /\ AnsweredHaveKeys'
  BY <1>1, <1>2 DEF HeldArePassed, KeysApart, StartsAtOne, KeysHaveRows, AnsweredHaveKeys, Committed
<1>4. PassedAreHeld'
  <2> SUFFICES ASSUME NEW u \in Requests, NEW j \in Admitted(body[u]),
                      status'[u] = "open", j < at[u]
               PROVE  body[u][j] \in held'[u] \/ Committed(body[u][j])
    BY <1>1 DEF PassedAreHeld, Committed
  <2>1. CASE status[u] = "open"
    BY <1>2, <2>1 DEF PassedAreHeld
  <2>2. CASE status[u] # "open"
    <3>1. status[u] = "new" /\ at[u] <= 1 /\ at[u] \in Nat /\ body[u] \in Bodies
      BY <1>2, <2>2 DEF StartsAtOne, IngestTypeOK
    <3> QED BY <3>1, AdmittedItems
  <2> QED BY <2>1, <2>2
<1> QED BY <1>1, <1>3, <1>4

\* Every step keeps the invariant.
LEMMA IngestSteps == IngestInv /\ [IngestNext]_ivars => IngestInv'
<1> SUFFICES ASSUME IngestInv, [IngestNext]_ivars
             PROVE  IngestInv'
  OBVIOUS
<1>1. ASSUME NEW r \in Requests, InsertItem(r)
      PROVE  IngestInv'
  BY <1>1, InsertKeeps
<1>2. ASSUME NEW r \in Requests, Commit(r)
      PROVE  IngestInv'
  BY <1>2, CommitKeeps
<1>3. ASSUME NEW r \in Requests, Refuse(r) \/ Open(r) \/ TouchDevice(r) \/ Rollback(r)
      PROVE  IngestInv'
  BY <1>3, OthersKeep
<1>4. CASE UNCHANGED ivars
  BY <1>4 DEF ivars, IngestInv, IngestTypeOK, HeldArePassed, PassedAreHeld, KeysApart, StartsAtOne,
              KeysHaveRows, AnsweredHaveKeys, Committed
<1> QED BY <1>1, <1>2, <1>3, <1>4 DEF IngestNext, AllAnswered

\* What IngestBatch answers with 201 is stored (locations/adapter.go), if one
\* sequence id names one fix, and two running transactions never hold rows of
\* one key.
THEOREM AnswersAreDurable == IngestSpec => []AnsweredIsStored
<1>1. IngestInv => AnsweredIsStored
  <2> SUFFICES ASSUME IngestInv
               PROVE  AnsweredIsStored
    OBVIOUS
  <2>1. ASSUME SeqNamesFix, NEW r \in Requests, status[r] = "201", NEW it \in Accepted(body[r])
        PROVE  it.fix \in rows
    <3>1. PICK k \in keys : k.seq = it.seq
      BY <2>1 DEF IngestInv, AnsweredHaveKeys, Committed
    <3>2. PICK s \in Requests : k \in Accepted(body[s])
      BY DEF IngestInv, KeysHaveRows
    <3>3. /\ \E i \in DOMAIN body[r] : it = body[r][i]
          /\ \E j \in DOMAIN body[s] : k = body[s][j]
      BY <2>1, <3>2 DEF Accepted, Admitted
    <3>4. k = it
      BY <2>1, <3>1, <3>3 DEF SeqNamesFix
    <3> QED BY <3>1, <3>4 DEF IngestInv, KeysHaveRows
  <2>2. \A r, s \in Requests : \A h \in held[r], g \in held[s] : r # s => h.seq # g.seq
    BY DEF IngestInv, KeysApart
  <2> QED BY <2>1, <2>2 DEF AnsweredIsStored
<1> QED
  BY <1>1, IngestStarts, IngestSteps, PTL DEF IngestSpec

\* The statement-by-statement transactions of InsertBatch, with their waits and
\* rollbacks, implement the atomic batches of AtomicIngest: a commit applies a
\* whole body to the tables, and no other step changes them.
THEOREM TransactionsAreAtomic == IngestSpec => BatchesAreAtomic
<1>1. IngestInv /\ [IngestNext]_ivars => [AtomicNext]_tables
  <2> SUFFICES ASSUME IngestInv, [IngestNext]_ivars
               PROVE  AtomicNext \/ UNCHANGED tables
    OBVIOUS
  <2>1. ASSUME NEW r \in Requests, Commit(r)
        PROVE  AtomicNext
    <3>1. /\ status[r] = "open" /\ at[r] > Len(body[r])
          /\ keys' = keys \cup held[r] /\ rows' = rows \cup {h.fix : h \in held[r]}
      BY <2>1 DEF Commit
    <3>2. held[r] = NewItems(keys, body[r])
      BY <3>1, HeldAreNew
    <3>3. Ingest(body[r])
      BY <3>1, <3>2 DEF Ingest, KeysAfter, RowsAfter
    <3>4. body[r] \in Bodies
      BY DEF IngestInv, IngestTypeOK
    <3> QED BY <3>3, <3>4 DEF AtomicNext
  <2>2. ASSUME NEW r \in Requests,
               Refuse(r) \/ Open(r) \/ InsertItem(r) \/ TouchDevice(r) \/ Rollback(r)
        PROVE  UNCHANGED tables
    BY <2>2 DEF Refuse, Open, InsertItem, TouchDevice, Rollback, tables
  <2>3. CASE UNCHANGED ivars
    BY <2>3 DEF ivars, tables
  <2> QED BY <2>1, <2>2, <2>3 DEF IngestNext, AllAnswered
<1> QED
  BY <1>1, IngestStarts, IngestSteps, PTL DEF IngestSpec, BatchesAreAtomic

=============================================================================
