-------------------------- MODULE LiveStreamProofs --------------------------
(***************************************************************************)
(* Proofs about the live map, for any number of fixes, faults, hub and     *)
(* wire capacities, guest slots and requests: the page has one source of   *)
(* retries, every slot and subscription belongs to one request that runs,  *)
(* and the owner's marker never moves back.                                *)
(***************************************************************************)
EXTENDS LiveStream, FiniteSetTheorems, SequenceTheorems, TLAPS

Events == {Event(s) : s \in Nat}
Messages == {Opened, Garbled, Ended, Refused} \cup Events

States == {"connecting", "live", "reconnecting", "fallback"}
Steps == {"consume", "first", "stream", "dead"}

Views == [snapshot : Nat, route : SUBSET Nat, state : States, error : BOOLEAN,
          attempt : 0..3, retry : BOOLEAN, polling : BOOLEAN, left : BOOLEAN,
          cookie : BOOLEAN, step : Steps]

\* The stored fixes have a newest one: what GetLive answers.
HasNewest == rows = {} \/ \E m \in rows : \A r \in rows : m >= r

BackendTyped ==
    /\ rows \subseteq Nat /\ HasNewest
    /\ pubs \subseteq {Unread} \cup Events
    /\ link \in BOOLEAN
    /\ hub \subseteq Requests
    /\ handler \in [Requests -> Stages]
    /\ served \in [request : 0..MaxRequests, chan : Seq(Nat), initial : Nat]
    /\ slots \in Int

PageTyped ==
    /\ wire \in Seq(Messages)
    /\ es \in {"none", "connecting", "open", "closed"}
    /\ rest \subseteq {Sent, Failed} \cup Events
    /\ view \in Views

LiveInv ==
    /\ watcher \in {"owner", "guest"}
    /\ BackendTyped /\ PageTyped
    /\ OneStream /\ SlotsAreOwned

---------------------------------------------------------------------------
(* Lemmas about the operators                                              *)

\* GetLive answers with a recorded_at, or with none.
LEMMA LiveIsNat ==
    ASSUME rows \subseteq Nat, HasNewest
    PROVE  GetLive \in Nat
<1>1. CASE rows = {}
  BY <1>1 DEF GetLive, Never
<1>2. CASE rows # {}
  <2>1. PICK m \in rows : \A r \in rows : m >= r
    BY <1>2 DEF HasNewest
  <2>2. Max(rows) \in rows
    BY <2>1 DEF Max
  <2> QED
    BY <1>2, <2>2 DEF GetLive
<1> QED
  BY <1>1, <1>2

\* The larger of two recorded_at is one of them and not below either.
LEMMA MaxOfTwo ==
    ASSUME NEW a \in Nat, NEW b \in Nat
    PROVE  Max({a, b}) \in Nat /\ Max({a, b}) >= a /\ Max({a, b}) >= b
<1>1. \E x \in {a, b} : \A y \in {a, b} : x >= y
  OBVIOUS
<1>2. Max({a, b}) \in {a, b} /\ \A y \in {a, b} : Max({a, b}) >= y
  BY <1>1 DEF Max
<1> QED
  BY <1>2

\* reduceLiveLocation keeps a view a view, never lowers its snapshot and
\* touches nothing but the snapshot and the route.
LEMMA ReduceKeeps ==
    ASSUME NEW v \in Views, NEW s \in Nat
    PROVE  LET w == reduceLiveLocation(v, s)
           IN  /\ w \in Views
               /\ w.snapshot >= v.snapshot
               /\ w.state = v.state /\ w.attempt = v.attempt /\ w.retry = v.retry
               /\ w.polling = v.polling /\ w.left = v.left
<1> DEFINE top == Max({s, v.snapshot})
           way == Newest(IF s = Never THEN v.route ELSE v.route \cup {s})
<1>1. top \in Nat /\ top >= v.snapshot
  BY MaxOfTwo DEF Views
<1>2. way \subseteq Nat
  BY DEF Newest, Views
<1>3. reduceLiveLocation(v, s) = [v EXCEPT !.snapshot = top, !.route = way]
  BY DEF reduceLiveLocation
<1> HIDE DEF top, way
<1> QED
  BY <1>1, <1>2, <1>3 DEF Views

\* The number of attempts after an error.
LEMMA NextAttempt ==
    ASSUME NEW n \in 0..3
    PROVE  Min({n + 1, 3}) = IF n < 3 THEN n + 1 ELSE 3
<1> DEFINE k == IF n < 3 THEN n + 1 ELSE 3
<1>1. k \in {n + 1, 3} /\ \A y \in {n + 1, 3} : k <= y
  OBVIOUS
<1>2. \A x \in {n + 1, 3} : (\A y \in {n + 1, 3} : x <= y) => x = k
  OBVIOUS
<1> QED
  BY <1>1, <1>2 DEF Min

\* A message off the wire is a message; one that is an event has its snapshot.
LEMMA HeadOfWire ==
    ASSUME wire \in Seq(Messages), wire # <<>>
    PROVE  /\ Tail(wire) \in Seq(Messages)
           /\ Head(wire) \in Messages
           /\ Head(wire).kind = "event" => Head(wire).snapshot \in Nat
<1>1. Tail(wire) \in Seq(Messages) /\ Head(wire) \in Messages
  OBVIOUS
<1>2. ASSUME NEW m \in Messages, m.kind = "event"
      PROVE  m.snapshot \in Nat
  BY <1>2 DEF Messages, Events, Event, Opened, Garbled, Ended, Refused
<1> QED
  BY <1>1, <1>2

\* Only finitely many requests run.
LEMMA RunningIsFinite == IsFiniteSet(Running)
<1>1. IsFiniteSet(Requests)
  BY LiveConstants, FS_Interval DEF Requests
<1> QED
  BY <1>1, FS_Subset DEF Running

\* A request that starts to run is one more.
LEMMA OneMore ==
    ASSUME handler \in [Requests -> Stages], NEW r \in Requests, At(r, "idle"),
           NEW s \in Stages \ {"idle"}, Goes(r, s)
    PROVE  Cardinality(Running)' = Cardinality(Running) + 1
<1>1. Running' = Running \cup {r} /\ r \notin Running
  BY DEF Running, At, Goes
<1>2. Cardinality(Running \cup {r}) = Cardinality(Running) + 1
  BY <1>1, RunningIsFinite, FS_AddElement
<1> QED
  BY <1>1, <1>2

\* A request that ends is one less.
LEMMA OneLess ==
    ASSUME handler \in [Requests -> Stages], NEW r \in Requests, ~At(r, "idle"), Goes(r, "idle")
    PROVE  Cardinality(Running)' = Cardinality(Running) - 1
<1>1. Running' = Running \ {r} /\ r \in Running
  BY DEF Running, At, Goes
<1>2. Cardinality(Running \ {r}) = Cardinality(Running) - 1
  BY <1>1, RunningIsFinite, FS_RemoveElement
<1> QED
  BY <1>1, <1>2

\* A request that goes on is counted as before.
LEMMA AsMany ==
    ASSUME handler \in [Requests -> Stages], NEW r \in Requests, ~At(r, "idle"),
           NEW s \in Stages \ {"idle"}, Goes(r, s)
    PROVE  Running' = Running
BY DEF Running, At, Goes

---------------------------------------------------------------------------
(* The invariant at first                                                  *)

\* A page that has just mounted, before any request has been handled.
LEMMA LiveStarts == LiveInit => LiveInv
<1> SUFFICES ASSUME LiveInit
             PROVE  LiveInv
  OBVIOUS
<1>1. BackendTyped
  <2>1. Nobody \in [request : 0..MaxRequests, chan : Seq(Nat), initial : Nat]
    BY LiveConstants DEF Nobody, Never
  <2>2. handler \in [Requests -> Stages]
    BY DEF LiveInit, Stages
  <2> QED
    BY <2>1, <2>2 DEF LiveInit, BackendTyped, HasNewest
<1>2. PageTyped
  <2>1. PICK w \in {"owner", "guest"}, first \in {"consume", "first"} :
           /\ es = IF w = "owner" THEN "connecting" ELSE "none"
           /\ rest = IF w = "owner" \/ first = "first" THEN {Sent} ELSE {}
           /\ view = [snapshot |-> Never, route |-> {}, state |-> "connecting", error |-> FALSE,
                      attempt |-> 0, retry |-> FALSE, polling |-> FALSE, left |-> FALSE,
                      cookie |-> w = "guest" /\ first = "first",
                      step |-> IF w = "owner" THEN "stream" ELSE first]
    BY Zenon DEF LiveInit
  <2> DEFINE c == w = "guest" /\ first = "first"
             s == IF w = "owner" THEN "stream" ELSE first
  <2>2. c \in BOOLEAN
    BY Zenon
  <2>3. s \in Steps
    BY DEF Steps
  <2>4. view = [snapshot |-> 0, route |-> {}, state |-> "connecting", error |-> FALSE,
                attempt |-> 0, retry |-> FALSE, polling |-> FALSE, left |-> FALSE,
                cookie |-> c, step |-> s]
    BY <2>1, Zenon DEF Never
  <2> HIDE DEF c, s
  <2>5. view \in Views
    BY <2>2, <2>3, <2>4 DEF Views, States
  <2>6. wire = <<>>
    BY DEF LiveInit
  <2> QED
    BY <2>1, <2>5, <2>6 DEF PageTyped
<1>3. watcher \in {"owner", "guest"} /\ OneStream
  BY DEF LiveInit, OneStream
<1>4. SlotsAreOwned
  <2>1. Running = {} /\ slots = 0 /\ hub = {}
    BY DEF LiveInit, Running
  <2> QED
    BY <2>1, FS_EmptySet DEF SlotsAreOwned
<1> QED
  BY <1>1, <1>2, <1>3, <1>4 DEF LiveInv

---------------------------------------------------------------------------
(* The backend and the network                                             *)

\* A step that leaves the page's side of the hook alone keeps OneStream.
LEMMA HookUntouched ==
    ASSUME OneStream, UNCHANGED <<watcher, es, view>>
    PROVE  OneStream'
BY DEF OneStream

\* A step that leaves the streams alone keeps SlotsAreOwned.
LEMMA StreamsUntouched ==
    ASSUME SlotsAreOwned, UNCHANGED <<watcher, handler, slots>>, hub' \subseteq hub
    PROVE  SlotsAreOwned'
BY DEF SlotsAreOwned, Running

\* However a request ends, its slot is released and its subscription is gone.
LEMMA RequestEnds ==
    ASSUME LiveInv, UNCHANGED <<watcher, rows, pubs, link, es, rest, view>>,
           NEW r \in Requests, ~At(r, "idle"), NEW m \in Messages,
           releaseSlot, Ends(r, m)
    PROVE  LiveInv'
<1> USE DEF LiveInv
<1>1. Goes(r, "idle") /\ hub' = hub \ {r}
  BY DEF Ends
<1>2. Nobody \in [request : 0..MaxRequests, chan : Seq(Nat), initial : Nat]
  BY LiveConstants DEF Nobody, Never
<1>3. /\ served' \in [request : 0..MaxRequests, chan : Seq(Nat), initial : Nat]
      /\ wire' \in Seq(Messages)
  <2>1. CASE served' = Nobody /\ Send(m)
    <3>1. wire' \in Seq(Messages)
      BY <2>1 DEF Send, PageTyped
    <3> QED
      BY <1>2, <2>1, <3>1
  <2>2. CASE UNCHANGED <<served, wire>>
    BY <2>2 DEF BackendTyped, PageTyped
  <2> QED
    BY <2>1, <2>2, Zenon DEF Ends
<1>4. handler' \in [Requests -> Stages] /\ slots' \in Int
  BY <1>1 DEF BackendTyped, Goes, Stages, releaseSlot
<1>5. BackendTyped' /\ PageTyped'
  BY <1>1, <1>3, <1>4 DEF BackendTyped, PageTyped, HasNewest
<1>6. slots' = IF watcher' = "owner" THEN 0 ELSE Cardinality(Running)'
  <2>1. Cardinality(Running)' = Cardinality(Running) - 1
    BY <1>1, OneLess DEF BackendTyped
  <2> DEFINE n == Cardinality(Running)
             k == Cardinality(Running)'
  <2>2. k = n - 1 /\ slots = IF watcher = "owner" THEN 0 ELSE n
    BY <2>1 DEF SlotsAreOwned
  <2> HIDE DEF n, k
  <2>3. slots' = IF watcher' = "owner" THEN 0 ELSE k
    BY <2>2 DEF releaseSlot
  <2> QED
    BY <2>3 DEF k
<1>7. \A q \in hub' : handler'[q] \in {"subscribed", "ready", "writing"}
  BY <1>1 DEF Goes, SlotsAreOwned, BackendTyped
<1> QED
  BY <1>5, <1>6, <1>7, HookUntouched DEF SlotsAreOwned

\* A browser that lets go leaves the requests as they are.
LEMMA BrowserGone ==
    ASSUME BackendTyped, SlotsAreOwned, Abandon, UNCHANGED <<watcher, rows, pubs, link>>
    PROVE  BackendTyped' /\ SlotsAreOwned'
<1>1. Nobody \in [request : 0..MaxRequests, chan : Seq(Nat), initial : Nat]
  BY LiveConstants DEF Nobody, Never
<1> QED
  BY <1>1, StreamsUntouched DEF Abandon, BackendTyped, HasNewest

\* The ingest and the hub.
LEMMA IngestKeeps ==
    ASSUME LiveInv,
           \/ \E t \in 1..MaxFixes : Ingest(t) \/ IngestBatch(t)
           \/ ReadForPublish
           \/ \E e \in pubs \ {Unread} : Publish(e.snapshot)
           \/ Revoke
    PROVE  LiveInv'
<1> USE DEF LiveInv
<1>1. ASSUME NEW t \in 1..MaxFixes, Ingest(t) \/ IngestBatch(t)
      PROVE  LiveInv'
  <2>1. t \in Nat
    BY LiveConstants
  <2>2. HasNewest'
    <3>1. rows' = rows \cup {t}
      BY <1>1 DEF Ingest, IngestBatch
    <3>2. CASE rows = {}
      BY <2>1, <3>1, <3>2 DEF HasNewest
    <3>3. ASSUME NEW m \in rows, \A r \in rows : m >= r
          PROVE  HasNewest'
      <4>1. m \in Nat /\ rows \subseteq Nat
        BY DEF BackendTyped
      <4>2. CASE m >= t
        BY <3>1, <3>3, <4>2 DEF HasNewest
      <4>3. CASE ~(m >= t)
        <5>1. \A r \in rows' : t >= r
          BY <2>1, <3>1, <3>3, <4>1, <4>3
        <5> QED
          BY <3>1, <5>1 DEF HasNewest
      <4> QED
        BY <4>2, <4>3
    <3> QED
      BY <3>2, <3>3 DEF BackendTyped, HasNewest
  <2>3. BackendTyped'
    BY <1>1, <2>1, <2>2 DEF BackendTyped, Ingest, IngestBatch
  <2>4. PageTyped'
    BY <1>1 DEF PageTyped, Ingest, IngestBatch
  <2>5. OneStream' /\ SlotsAreOwned'
    BY <1>1, HookUntouched, StreamsUntouched DEF Ingest, IngestBatch
  <2> QED
    BY <1>1, <2>3, <2>4, <2>5 DEF Ingest, IngestBatch
<1>2. ASSUME ReadForPublish
      PROVE  LiveInv'
  <2>1. Event(GetLive) \in Events
    BY LiveIsNat DEF BackendTyped, Events
  <2>2. BackendTyped'
    BY <1>2, <2>1 DEF ReadForPublish, BackendTyped, HasNewest
  <2>3. PageTyped'
    BY <1>2 DEF PageTyped, ReadForPublish
  <2>4. OneStream' /\ SlotsAreOwned'
    BY <1>2, HookUntouched, StreamsUntouched DEF ReadForPublish
  <2> QED
    BY <1>2, <2>2, <2>3, <2>4 DEF ReadForPublish
<1>3. ASSUME NEW e \in pubs \ {Unread}, Publish(e.snapshot)
      PROVE  LiveInv'
  <2>1. e.snapshot \in Nat
    BY DEF BackendTyped, Events, Event
  <2>2. /\ hub' \subseteq hub
        /\ served' \in [request : 0..MaxRequests, chan : Seq(Nat), initial : Nat]
    <3>1. served \in [request : 0..MaxRequests, chan : Seq(Nat), initial : Nat]
      BY DEF BackendTyped
    <3>2. CASE UNCHANGED served /\ hub' \subseteq hub
      BY <3>1, <3>2
    <3>3. CASE served' = [served EXCEPT !.chan = Append(@, e.snapshot)] /\ UNCHANGED hub
      <4>1. Append(served.chan, e.snapshot) \in Seq(Nat)
        BY <2>1, <3>1
      <4> QED
        BY <3>1, <3>3, <4>1
    <3> QED
      BY <1>3, <3>2, <3>3, Zenon DEF Publish
  <2>3. BackendTyped'
    BY <1>3, <2>2 DEF Publish, BackendTyped, HasNewest
  <2>4. PageTyped'
    BY <1>3 DEF Publish, PageTyped
  <2>5. OneStream'
    BY <1>3, HookUntouched DEF Publish
  <2>6. SlotsAreOwned'
    BY <1>3, <2>2, StreamsUntouched DEF Publish
  <2> QED
    BY <1>3, <2>3, <2>4, <2>5, <2>6 DEF Publish
<1>4. ASSUME Revoke
      PROVE  LiveInv'
  <2>1. BackendTyped' /\ PageTyped'
    BY <1>4 DEF Revoke, BackendTyped, PageTyped, HasNewest
  <2>2. OneStream' /\ SlotsAreOwned'
    BY <1>4, HookUntouched, StreamsUntouched DEF Revoke
  <2> QED
    BY <1>4, <2>1, <2>2 DEF Revoke
<1> QED
  BY <1>1, <1>2, <1>3, <1>4

\* A request is turned away before it runs.
LEMMA RefusalKeeps ==
    ASSUME LiveInv, TooMany \/ Refuse
    PROVE  LiveInv'
<1> USE DEF LiveInv
<1>1. wire' \in Seq(Messages)
  BY DEF TooMany, Refuse, Send, PageTyped, Messages
<1>2. UNCHANGED <<watcher, rows, pubs, link, hub, handler, served, slots, es, rest, view>>
  BY DEF TooMany, Refuse
<1>3. BackendTyped' /\ PageTyped'
  BY <1>1, <1>2 DEF BackendTyped, PageTyped, HasNewest
<1> QED
  BY <1>2, <1>3, HookUntouched, StreamsUntouched

\* The ways out: a 401, an error before the writer, a writer that returns.
LEMMA WaysOutKeep ==
    ASSUME LiveInv, NEW r \in Requests,
           Unauthorized(r) \/ RequestFails(r) \/ Keepalive(r) \/ Notices(r)
    PROVE  LiveInv'
<1>1. Refused \in Messages /\ Ended \in Messages
  BY DEF Messages
<1>2. ~At(r, "idle")
  BY DEF Unauthorized, RequestFails, HandlerFails, WriterFails, Keepalive, Notices, At
<1>3. UNCHANGED <<watcher, rows, pubs, link, es, rest, view>>
  BY DEF Unauthorized, RequestFails, HandlerFails, WriterFails, Keepalive, Notices
<1>4. ReturnEarly(r) \/ StopWriter(r)
  BY DEF Unauthorized, RequestFails, HandlerFails, WriterFails, Keepalive, Notices
<1> QED
  BY <1>1, <1>2, <1>3, <1>4, RequestEnds DEF ReturnEarly, StopWriter

\* The way in: the slot, the cookie, the subscription, the snapshot.
LEMMA WayInKeeps ==
    ASSUME LiveInv, NEW r \in Requests,
           TakeSlot(r) \/ resolveCookie(r) \/ Subscribe(r) \/ ReadInitial(r)
    PROVE  LiveInv'
<1> USE DEF LiveInv
<1>0. /\ [Nobody EXCEPT !.request = r] \in [request : 0..MaxRequests, chan : Seq(Nat), initial : Nat]
      /\ served \in [request : 0..MaxRequests, chan : Seq(Nat), initial : Nat]
      /\ handler \in [Requests -> Stages] /\ hub \subseteq Requests
  <2>1. r \in 0..MaxRequests
    BY LiveConstants DEF Requests
  <2>2. [Nobody EXCEPT !.request = r] = [request |-> r, chan |-> <<>>, initial |-> 0]
    BY DEF Nobody, Never
  <2>3. [request |-> r, chan |-> <<>>, initial |-> 0]
          \in [request : 0..MaxRequests, chan : Seq(Nat), initial : Nat]
    BY <2>1
  <2> QED
    BY <2>2, <2>3, Zenon DEF BackendTyped
<1>1. /\ UNCHANGED <<watcher, rows, pubs, link, wire, es, rest, view>>
      /\ PageTyped' /\ OneStream'
  BY HookUntouched DEF TakeSlot, resolveCookie, Subscribe, ReadInitial, PageTyped
<1>2. ASSUME TakeSlot(r)
      PROVE  BackendTyped' /\ SlotsAreOwned'
  <2>1. /\ watcher = "guest" /\ At(r, "idle") /\ Goes(r, "slotted")
        /\ slots' = slots + 1 /\ hub' = hub /\ served' = [Nobody EXCEPT !.request = r]
    BY <1>2 DEF TakeSlot, Fresh
  <2>2. handler' \in [Requests -> Stages]
    BY <1>0, <2>1 DEF Goes, Stages
  <2>3. slots' \in Int
    BY <2>1 DEF BackendTyped
  <2>4. BackendTyped'
    BY <1>0, <1>1, <2>1, <2>2, <2>3 DEF BackendTyped, HasNewest
  <2>5. Cardinality(Running)' = Cardinality(Running) + 1
    BY <1>0, <2>1, OneMore DEF Stages
  <2>6. slots = Cardinality(Running)
    BY <2>1 DEF SlotsAreOwned
  <2>7. slots' = Cardinality(Running)'
    BY <2>1, <2>5, <2>6, Zenon
  <2>8. \A q \in hub' : handler'[q] \in {"subscribed", "ready", "writing"}
    BY <1>0, <2>1 DEF Goes, SlotsAreOwned, At
  <2> QED
    BY <1>1, <2>1, <2>4, <2>7, <2>8 DEF SlotsAreOwned
<1>3. ASSUME resolveCookie(r)
      PROVE  BackendTyped' /\ SlotsAreOwned'
  <2>1. /\ At(r, "slotted") /\ Goes(r, "resolved")
        /\ UNCHANGED <<slots, hub, served>>
    BY <1>3 DEF resolveCookie
  <2>2. handler' \in [Requests -> Stages]
    BY <1>0, <2>1 DEF Goes, Stages
  <2>3. BackendTyped'
    BY <1>1, <2>1, <2>2 DEF BackendTyped, HasNewest
  <2>4. Running' = Running
    BY <1>0, <2>1, AsMany DEF Stages, At
  <2>5. \A q \in hub' : handler'[q] \in {"subscribed", "ready", "writing"}
    BY <1>0, <2>1 DEF Goes, SlotsAreOwned, At
  <2> QED
    BY <1>1, <2>1, <2>3, <2>4, <2>5 DEF SlotsAreOwned
<1>4. ASSUME Subscribe(r)
      PROVE  BackendTyped' /\ SlotsAreOwned'
  <2>1. /\ Goes(r, "subscribed") /\ slots' = slots /\ hub' = hub \cup {r}
        /\ watcher = "owner" \/ At(r, "resolved")
        /\ served' = [Nobody EXCEPT !.request = r] \/ served' = served
    BY <1>4 DEF Subscribe
  <2>2. handler' \in [Requests -> Stages]
    BY <1>0, <2>1 DEF Goes, Stages
  <2>3. BackendTyped'
    BY <1>0, <1>1, <2>1, <2>2 DEF BackendTyped, HasNewest
  <2>4. watcher = "owner" \/ Running' = Running
    BY <1>0, <2>1, AsMany DEF Stages, At
  <2>5. slots' = IF watcher' = "owner" THEN 0 ELSE Cardinality(Running)'
    BY <1>1, <2>1, <2>4 DEF SlotsAreOwned
  <2>6. \A q \in hub' : handler'[q] \in {"subscribed", "ready", "writing"}
    BY <1>0, <2>1 DEF Goes, SlotsAreOwned
  <2> QED
    BY <2>3, <2>5, <2>6 DEF SlotsAreOwned
<1>5. ASSUME ReadInitial(r)
      PROVE  BackendTyped' /\ SlotsAreOwned'
  <2>1. At(r, "subscribed") /\ Goes(r, "ready") /\ UNCHANGED <<slots, hub>>
    BY <1>5 DEF ReadInitial
  <2>2. served' \in [request : 0..MaxRequests, chan : Seq(Nat), initial : Nat]
    <3>1. GetLive \in Nat
      BY LiveIsNat DEF BackendTyped
    <3>2. [served EXCEPT !.initial = GetLive] \in [request : 0..MaxRequests, chan : Seq(Nat), initial : Nat]
      BY <1>0, <3>1
    <3> QED
      BY <1>0, <1>5, <3>2, Zenon DEF ReadInitial
  <2>3. handler' \in [Requests -> Stages]
    BY <1>0, <2>1 DEF Goes, Stages
  <2>4. BackendTyped'
    BY <1>1, <2>1, <2>2, <2>3 DEF BackendTyped, HasNewest
  <2>5. Running' = Running
    BY <1>0, <2>1, AsMany DEF Stages, At
  <2>6. \A q \in hub' : handler'[q] \in {"subscribed", "ready", "writing"}
    BY <1>0, <2>1 DEF Goes, SlotsAreOwned
  <2> QED
    BY <1>1, <2>1, <2>4, <2>5, <2>6 DEF SlotsAreOwned
<1> QED
  BY <1>1, <1>2, <1>3, <1>4, <1>5

\* The writer starts, and the owner's handler returns under it.
LEMMA StartKeeps ==
    ASSUME LiveInv, NEW r \in Requests, StartStream(r) \/ HandlerReturns(r)
    PROVE  LiveInv'
<1> USE DEF LiveInv
<1>1. ASSUME StartStream(r)
      PROVE  LiveInv'
  <2>0. /\ served \in [request : 0..MaxRequests, chan : Seq(Nat), initial : Nat]
        /\ handler \in [Requests -> Stages]
    BY DEF BackendTyped
  <2>1. /\ At(r, "ready") /\ Goes(r, "writing")
        /\ UNCHANGED <<watcher, rows, pubs, link, hub, slots, es, rest, view>>
    BY <1>1 DEF StartStream
  <2>2. /\ wire' \in Seq(Messages)
        /\ served' \in [request : 0..MaxRequests, chan : Seq(Nat), initial : Nat]
    <3>1. CASE /\ wire' = wire \o <<Opened, Event(served.initial)>>
               /\ served' = [served EXCEPT !.initial = Never]
      <4>1. <<Opened, Event(served.initial)>> \in Seq(Messages)
        BY <2>0 DEF Messages, Events
      <4>2. wire' \in Seq(Messages)
        BY <3>1, <4>1, ConcatProperties DEF PageTyped
      <4>3. served' \in [request : 0..MaxRequests, chan : Seq(Nat), initial : Nat]
        BY <2>0, <3>1 DEF Never
      <4> QED
        BY <4>2, <4>3
    <3>2. CASE UNCHANGED <<wire, served>>
      BY <2>0, <3>2 DEF PageTyped
    <3> QED
      BY <1>1, <3>1, <3>2, Zenon DEF StartStream
  <2>3. handler' \in [Requests -> Stages]
    BY <2>0, <2>1 DEF Goes, Stages
  <2>4. BackendTyped' /\ PageTyped'
    BY <2>1, <2>2, <2>3 DEF BackendTyped, PageTyped, HasNewest
  <2>5. Running' = Running
    BY <2>0, <2>1, AsMany DEF Stages, At
  <2>6. \A q \in hub' : handler'[q] \in {"subscribed", "ready", "writing"}
    BY <2>0, <2>1 DEF Goes, SlotsAreOwned, BackendTyped
  <2>7. SlotsAreOwned'
    BY <2>1, <2>5, <2>6 DEF SlotsAreOwned
  <2> QED
    BY <2>1, <2>4, <2>7, HookUntouched
<1>2. ASSUME HandlerReturns(r)
      PROVE  LiveInv'
  <2>1. /\ hub' \subseteq hub
        /\ UNCHANGED <<watcher, rows, pubs, link, handler, served, slots, wire, es, rest, view>>
    BY <1>2 DEF HandlerReturns
  <2>2. BackendTyped' /\ PageTyped'
    BY <2>1 DEF BackendTyped, PageTyped, HasNewest
  <2> QED
    BY <2>1, <2>2, HookUntouched, StreamsUntouched
<1> QED
  BY <1>1, <1>2

\* The writer's rounds: an event, the presence timer, or the end.
LEMMA WriterKeeps ==
    ASSUME LiveInv, NEW r \in Requests, WriteEvent(r) \/ PresenceTimer(r)
    PROVE  LiveInv'
<1> USE DEF LiveInv
<1>1. ASSUME WriteEvent(r)
      PROVE  LiveInv'
  <2>0. UNCHANGED <<watcher, rows, pubs, link, es, rest, view>> /\ ~At(r, "idle")
    BY <1>1 DEF WriteEvent, Writing, At
  <2>1. CASE StopWriter(r)
    <3>1. Ended \in Messages
      BY DEF Messages
    <3> QED
      BY <2>0, <2>1, <3>1, RequestEnds DEF StopWriter
  <2>2. CASE /\ served.chan # <<>>
             /\ Send(Event(Head(served.chan)))
             /\ served' = [served EXCEPT !.chan = Tail(@)]
             /\ UNCHANGED <<hub, handler, slots>>
    <3>1. Head(served.chan) \in Nat /\ Tail(served.chan) \in Seq(Nat)
      BY <2>2 DEF BackendTyped
    <3>2. wire' \in Seq(Messages)
      BY <2>2, <3>1 DEF Send, PageTyped, Messages, Events
    <3>3. served' \in [request : 0..MaxRequests, chan : Seq(Nat), initial : Nat]
      BY <2>2, <3>1 DEF BackendTyped
    <3>4. BackendTyped' /\ PageTyped'
      BY <2>0, <2>2, <3>2, <3>3 DEF BackendTyped, PageTyped, HasNewest
    <3> QED
      BY <2>0, <2>2, <3>4, HookUntouched, StreamsUntouched
  <2> QED
    BY <1>1, <2>1, <2>2, Zenon DEF WriteEvent
<1>2. ASSUME PresenceTimer(r)
      PROVE  LiveInv'
  <2>1. Event(GetLive) \in Messages
    BY LiveIsNat DEF BackendTyped, Messages, Events
  <2>2. wire' \in Seq(Messages)
    BY <1>2, <2>1 DEF PresenceTimer, Send, PageTyped
  <2>3. BackendTyped' /\ PageTyped'
    BY <1>2, <2>2 DEF PresenceTimer, BackendTyped, PageTyped, HasNewest
  <2> QED
    BY <1>2, <2>3, HookUntouched, StreamsUntouched DEF PresenceTimer
<1> QED
  BY <1>1, <1>2

\* Any step of any request.
LEMMA RequestKeeps ==
    ASSUME LiveInv, NEW r \in Requests, Runs(r) \/ Writes(r) \/ RequestFails(r)
    PROVE  LiveInv' /\ view' = view
<1>1. LiveInv'
  BY WaysOutKeep, WayInKeeps, StartKeeps, WriterKeeps DEF Runs, Writes
<1>2. view' = view
  BY DEF Runs, Writes, RequestFails, TakeSlot, resolveCookie, Unauthorized, Subscribe, ReadInitial,
         HandlerFails, StartStream, HandlerReturns, WriteEvent, PresenceTimer, Keepalive,
         WriterFails, Notices
<1> QED
  BY <1>1, <1>2

\* The network loses connections and garbles events, and GET .../live is
\* answered or fails.
LEMMA NetworkKeeps ==
    ASSUME LiveInv, Lose \/ Garble \/ ServeLive \/ FailLive
    PROVE  LiveInv'
<1> USE DEF LiveInv
<1>1. ASSUME Lose
      PROVE  LiveInv'
  <2>1. wire' \in Seq(Messages)
    BY <1>1 DEF Lose, Messages
  <2>2. Abandon /\ UNCHANGED <<watcher, rows, pubs, link, es, rest, view>>
    BY <1>1 DEF Lose
  <2>3. BackendTyped' /\ PageTyped' /\ SlotsAreOwned'
    BY <2>1, <2>2, BrowserGone DEF PageTyped
  <2> QED
    BY <2>2, <2>3, HookUntouched
<1>2. ASSUME Garble
      PROVE  LiveInv'
  <2>1. PICK i \in 1..Len(wire) : wire' = [wire EXCEPT ![i] = Garbled]
    BY <1>2 DEF Garble
  <2>2. wire' \in Seq(Messages)
    BY <2>1, ExceptSeq DEF PageTyped, Messages
  <2>3. BackendTyped' /\ PageTyped'
    BY <1>2, <2>2 DEF Garble, BackendTyped, PageTyped, HasNewest
  <2> QED
    BY <1>2, <2>3, HookUntouched, StreamsUntouched DEF Garble
<1>3. ASSUME ServeLive
      PROVE  LiveInv'
  <2>1. Event(GetLive) \in Events
    BY LiveIsNat DEF BackendTyped, Events
  <2>2. BackendTyped' /\ PageTyped'
    BY <1>3, <2>1 DEF ServeLive, BackendTyped, PageTyped, HasNewest
  <2> QED
    BY <1>3, <2>2, HookUntouched, StreamsUntouched DEF ServeLive
<1>4. ASSUME FailLive
      PROVE  LiveInv'
  <2>1. BackendTyped' /\ PageTyped'
    BY <1>4 DEF FailLive, BackendTyped, PageTyped, HasNewest
  <2> QED
    BY <1>4, <2>1, HookUntouched, StreamsUntouched DEF FailLive
<1> QED
  BY <1>1, <1>2, <1>3, <1>4

---------------------------------------------------------------------------
(* The pages                                                               *)

\* The page's own steps leave the backend alone.
LEMMA BackendUntouched ==
    ASSUME BackendTyped, SlotsAreOwned,
           UNCHANGED <<watcher, rows, pubs, link, hub, handler, served, slots>>
    PROVE  BackendTyped' /\ SlotsAreOwned'
BY StreamsUntouched DEF BackendTyped, HasNewest

\* useDeviceLocationStream: an answer of refresh(), the handlers of the
\* EventSource, the two timers.
LEMMA OwnerKeeps ==
    ASSUME LiveInv,
           \/ \E a \in rest : OwnerRefreshed(a)
           \/ OnOpen \/ Handle \/ HandleGarbled \/ OnError \/ Connect \/ Refresh
    PROVE  LiveInv' /\ view'.snapshot >= view.snapshot
<1> USE DEF LiveInv
<1>0. view \in Views /\ view.snapshot \in Nat
  BY DEF PageTyped, Views
<1>1. ASSUME NEW a \in rest, OwnerRefreshed(a)
      PROVE  LiveInv' /\ view'.snapshot >= view.snapshot
  <2>1. CASE a = Failed
    <3>1. view' = [view EXCEPT !.error = TRUE]
      BY <1>1, <2>1 DEF OwnerRefreshed
    <3>2. view' \in Views /\ view'.snapshot = view.snapshot
      BY <1>0, <3>1 DEF Views
    <3>3. PageTyped'
      BY <1>1, <3>2 DEF OwnerRefreshed, PageTyped
    <3>4. OneStream'
      BY <1>0, <1>1, <3>1 DEF OwnerRefreshed, OneStream, Views
    <3> QED
      BY <1>0, <1>1, <3>2, <3>3, <3>4, BackendUntouched DEF OwnerRefreshed
  <2>2. CASE a # Failed
    <3>1. a.snapshot \in Nat
      BY <1>1, <2>2 DEF PageTyped, OwnerRefreshed, Events, Event
    <3> DEFINE w == reduceLiveLocation(view, a.snapshot)
    <3>2. view' = [w EXCEPT !.error = FALSE]
      BY <1>1, <2>2 DEF OwnerRefreshed
    <3>3. /\ w \in Views /\ w.snapshot >= view.snapshot
          /\ w.state = view.state /\ w.attempt = view.attempt /\ w.retry = view.retry
          /\ w.polling = view.polling /\ w.left = view.left
      BY <1>0, <3>1, ReduceKeeps
    <3> HIDE DEF w
    <3>4. view' \in Views /\ view'.snapshot >= view.snapshot
      BY <3>2, <3>3 DEF Views
    <3>5. PageTyped'
      BY <1>1, <3>4 DEF OwnerRefreshed, PageTyped
    <3>6. OneStream'
      BY <1>1, <3>2, <3>3 DEF OwnerRefreshed, OneStream, Views
    <3> QED
      BY <1>1, <3>4, <3>5, <3>6, BackendUntouched DEF OwnerRefreshed
  <2> QED
    BY <2>1, <2>2
<1>2. ASSUME OnOpen
      PROVE  LiveInv' /\ view'.snapshot >= view.snapshot
  <2>1. view' = [view EXCEPT !.attempt = 0, !.state = "live", !.polling = FALSE]
    BY <1>2 DEF OnOpen
  <2>2. view' \in Views /\ view'.snapshot = view.snapshot
    <3>1. "live" \in States /\ 0 \in 0..3
      BY DEF States
    <3> QED
      BY <1>0, <2>1, <3>1 DEF Views
  <2>3. wire' \in Seq(Messages)
    BY <1>2, HeadOfWire DEF OnOpen, OwnerGets, Take, PageTyped
  <2>4. PageTyped'
    BY <1>2, <2>2, <2>3 DEF OnOpen, PageTyped
  <2>5. OneStream'
    <3>1. /\ view'.attempt = 0 /\ view'.state = "live" /\ view'.polling = FALSE
          /\ view'.retry = view.retry /\ view'.left = view.left
      BY <1>0, <2>1 DEF Views
    <3>2. watcher' = watcher /\ watcher = "owner" /\ es # "none" /\ es' = "open"
      BY <1>2 DEF OnOpen, OwnerGets
    <3> QED
      BY <3>1, <3>2 DEF OneStream
  <2> QED
    BY <1>0, <1>2, <2>2, <2>4, <2>5, BackendUntouched DEF OnOpen
<1>3. ASSUME Handle
      PROVE  LiveInv' /\ view'.snapshot >= view.snapshot
  <2>1. Head(wire).snapshot \in Nat /\ wire' \in Seq(Messages)
    BY <1>3, HeadOfWire DEF Handle, OwnerGets, Take, PageTyped
  <2> DEFINE w == reduceLiveLocation(view, Head(wire).snapshot)
  <2>2. view' = [w EXCEPT !.error = FALSE]
    BY <1>3 DEF Handle
  <2>3. /\ w \in Views /\ w.snapshot >= view.snapshot
        /\ w.state = view.state /\ w.attempt = view.attempt /\ w.retry = view.retry
        /\ w.polling = view.polling /\ w.left = view.left
    BY <1>0, <2>1, ReduceKeeps
  <2> HIDE DEF w
  <2>4. view' \in Views /\ view'.snapshot >= view.snapshot
    BY <2>2, <2>3 DEF Views
  <2>5. PageTyped'
    BY <1>3, <2>1, <2>4 DEF Handle, PageTyped
  <2>6. OneStream'
    BY <1>3, <2>2, <2>3 DEF Handle, OneStream, Views
  <2> QED
    BY <1>3, <2>4, <2>5, <2>6, BackendUntouched DEF Handle
<1>4. ASSUME HandleGarbled
      PROVE  LiveInv' /\ view'.snapshot >= view.snapshot
  <2>1. view' = [view EXCEPT !.error = TRUE]
    BY <1>4 DEF HandleGarbled
  <2>2. view' \in Views /\ view'.snapshot = view.snapshot
    BY <1>0, <2>1 DEF Views
  <2>3. wire' \in Seq(Messages)
    BY <1>4, HeadOfWire DEF HandleGarbled, OwnerGets, Take, PageTyped
  <2>4. PageTyped'
    BY <1>4, <2>2, <2>3 DEF HandleGarbled, PageTyped, Ask
  <2>5. OneStream'
    BY <1>0, <1>4, <2>1 DEF HandleGarbled, OneStream, Views
  <2> QED
    BY <1>0, <1>4, <2>2, <2>4, <2>5, BackendUntouched DEF HandleGarbled
<1>5. ASSUME OnError
      PROVE  LiveInv' /\ view'.snapshot >= view.snapshot
  <2>1. /\ watcher' = watcher /\ watcher = "owner" /\ es # "none" /\ es' = "none"
        /\ wire # <<>> /\ wire' = Tail(wire) /\ view' = AfterError(view) /\ rest' = rest
    BY <1>5 DEF OnError, OwnerGets, Take
  <2> DEFINE n == IF view.attempt < 3 THEN view.attempt + 1 ELSE 3
             p == view.polling \/ n >= 3
             s == IF n >= 3 THEN "fallback" ELSE "reconnecting"
  <2>2. view.attempt \in 0..3 /\ view.polling \in BOOLEAN
    BY <1>0 DEF Views
  <2>3. n \in 0..3 /\ s \in States /\ (n >= 3 <=> view.attempt >= 2)
    BY <2>2 DEF States
  <2>4. p \in BOOLEAN
    BY Zenon
  <2>5. view' = [view EXCEPT !.attempt = n, !.retry = TRUE, !.polling = p, !.state = s]
    BY <2>1, <2>2, NextAttempt, Zenon DEF AfterError
  <2>6. s # "live"
    OBVIOUS
  <2> HIDE DEF p, s
  <2>7. /\ view' \in Views /\ view'.snapshot = view.snapshot
        /\ view'.attempt = n /\ view'.retry = TRUE /\ view'.polling = p
        /\ view'.state = s /\ view'.left = view.left
    BY <1>0, <2>3, <2>4, <2>5 DEF Views
  <2>8. PageTyped'
    BY <2>1, <2>7, HeadOfWire DEF PageTyped
  <2>9. ~view.left => (p <=> n >= 3)
    <3>1. ~view.left => (view.polling <=> view.attempt >= 3)
      BY <2>1 DEF OneStream
    <3>2. view.attempt >= 3 => n >= 3
      BY <2>2
    <3> QED
      BY <3>1, <3>2, Zenon DEF p
  <2>10. OneStream'
    BY <2>1, <2>6, <2>7, <2>9 DEF OneStream
  <2> QED
    BY <1>0, <1>5, <2>7, <2>8, <2>10, BackendUntouched DEF OnError
<1>6. ASSUME Connect
      PROVE  LiveInv' /\ view'.snapshot >= view.snapshot
  <2> DEFINE s == IF view.attempt = 0 THEN "connecting" ELSE "reconnecting"
  <2>1. view' = [view EXCEPT !.retry = FALSE, !.state = s]
    BY <1>6 DEF Connect
  <2>2. s \in States /\ s # "live"
    BY DEF States
  <2> HIDE DEF s
  <2>3. /\ view' \in Views /\ view'.snapshot = view.snapshot
        /\ view'.attempt = view.attempt /\ view'.retry = FALSE /\ view'.polling = view.polling
        /\ view'.state = s /\ view'.left = view.left
    BY <1>0, <2>1, <2>2 DEF Views
  <2>4. PageTyped'
    BY <1>6, <2>3 DEF Connect, PageTyped
  <2>5. OneStream'
    BY <1>6, <2>2, <2>3 DEF Connect, OneStream
  <2> QED
    BY <1>0, <1>6, <2>3, <2>4, <2>5, BackendUntouched DEF Connect
<1>7. ASSUME Refresh
      PROVE  LiveInv' /\ view'.snapshot >= view.snapshot
  <2>1. PageTyped'
    BY <1>7 DEF Refresh, PageTyped, Ask
  <2> QED
    BY <1>0, <1>7, <2>1, HookUntouched, BackendUntouched DEF Refresh
<1> QED
  BY <1>1, <1>2, <1>3, <1>4, <1>5, <1>6, <1>7

\* GuestDevicePage: the token, the answers, the handlers, the button.  None of
\* it is a step of the owner's page.
LEMMA GuestKeeps ==
    ASSUME LiveInv,
           \/ \E a \in rest : GuestRefreshed(a)
           \/ GuestOnOpen \/ GuestHandle \/ GuestGarbled \/ GuestOnError
           \/ Consume \/ GuestRefresh
    PROVE  LiveInv' /\ watcher = "guest"
<1> USE DEF LiveInv
<1>0. view \in Views
  BY DEF PageTyped
<1>a. /\ watcher = "guest" /\ watcher' = watcher
  BY DEF GuestRefreshed, GuestOnOpen, GuestHandle, GuestGarbled, GuestOnError, Consume,
         GuestRefresh, GuestGets
<1>b. OneStream'
  BY <1>a DEF OneStream
<1>1. ASSUME NEW a \in rest, GuestRefreshed(a)
      PROVE  LiveInv'
  <2> DEFINE x == IF a = Failed THEN view.snapshot ELSE a.snapshot
             s == IF a = Failed THEN "reconnecting" ELSE view.state
             t == IF view.step = "first" THEN "stream" ELSE view.step
  <2>1. x \in Nat /\ s \in States /\ t \in Steps
    <3>1. a # Sent /\ a \in {Sent, Failed} \cup Events
      BY <1>1 DEF PageTyped, GuestRefreshed
    <3>2. a # Failed => a.snapshot \in Nat
      BY <3>1 DEF Events, Event
    <3> QED
      BY <1>0, <3>2 DEF Views, States, Steps
  <2>2. view' = [view EXCEPT !.snapshot = x, !.state = s, !.step = t]
    BY <1>1 DEF GuestRefreshed
  <2> HIDE DEF x, s, t
  <2>3. view' \in Views
    BY <1>0, <2>1, <2>2 DEF Views
  <2>4. PageTyped'
    BY <1>1, <2>3 DEF GuestRefreshed, PageTyped
  <2> QED
    BY <1>1, <1>a, <1>b, <2>4, BackendUntouched DEF GuestRefreshed
<1>2. ASSUME GuestOnOpen
      PROVE  LiveInv'
  <2>1. "live" \in States /\ view' = [view EXCEPT !.state = "live", !.error = FALSE]
    BY <1>2 DEF GuestOnOpen, States
  <2>2. view' \in Views
    BY <1>0, <2>1 DEF Views
  <2>3. PageTyped'
    BY <1>2, <2>2, HeadOfWire DEF GuestOnOpen, GuestGets, Take, PageTyped
  <2> QED
    BY <1>2, <1>a, <1>b, <2>3, BackendUntouched DEF GuestOnOpen
<1>3. ASSUME GuestHandle
      PROVE  LiveInv'
  <2>1. Head(wire).snapshot \in Nat /\ wire' \in Seq(Messages)
    BY <1>3, HeadOfWire DEF GuestHandle, GuestGets, Take, PageTyped
  <2>2. view' = [view EXCEPT !.snapshot = Head(wire).snapshot, !.error = FALSE]
    BY <1>3 DEF GuestHandle
  <2>3. view' \in Views
    BY <1>0, <2>1, <2>2 DEF Views
  <2>4. PageTyped'
    BY <1>3, <2>1, <2>3 DEF GuestHandle, PageTyped
  <2> QED
    BY <1>3, <1>a, <1>b, <2>4, BackendUntouched DEF GuestHandle
<1>4. ASSUME GuestGarbled
      PROVE  LiveInv'
  <2>1. view' = [view EXCEPT !.error = TRUE]
    BY <1>4 DEF GuestGarbled
  <2>2. view' \in Views
    BY <1>0, <2>1 DEF Views
  <2>3. PageTyped'
    BY <1>4, <2>2 DEF GuestGarbled, PageTyped
  <2>4. Abandon /\ UNCHANGED <<rows, pubs, link>>
    BY <1>4 DEF GuestGarbled
  <2>5. BackendTyped' /\ SlotsAreOwned'
    BY <1>a, <2>4, BrowserGone
  <2> QED
    BY <1>a, <1>b, <2>3, <2>5
<1>5. ASSUME GuestOnError
      PROVE  LiveInv'
  <2>1. "reconnecting" \in States /\ view' = [view EXCEPT !.state = "reconnecting"]
    BY <1>5 DEF GuestOnError, States
  <2>2. view' \in Views
    BY <1>0, <2>1 DEF Views
  <2>3. PageTyped'
    BY <1>5, <2>2, HeadOfWire DEF GuestOnError, GuestGets, Take, PageTyped, Ask
  <2> QED
    BY <1>5, <1>a, <1>b, <2>3, BackendUntouched DEF GuestOnError
<1>6. ASSUME Consume
      PROVE  LiveInv'
  <2>1. "first" \in Steps /\ "dead" \in Steps /\ link \in BOOLEAN
    BY DEF Steps, BackendTyped
  <2>2. \/ view' = [view EXCEPT !.step = "first", !.cookie = link]
        \/ view' = [view EXCEPT !.step = "dead", !.error = TRUE]
    BY <1>6 DEF Consume
  <2>3. view' \in Views
    BY <1>0, <2>1, <2>2 DEF Views
  <2>4. PageTyped'
    BY <1>6, <2>3 DEF Consume, PageTyped, Ask
  <2> QED
    BY <1>6, <1>a, <1>b, <2>4, BackendUntouched DEF Consume
<1>7. ASSUME GuestRefresh
      PROVE  LiveInv'
  <2>1. PageTyped'
    BY <1>7 DEF GuestRefresh, PageTyped, Ask
  <2> QED
    BY <1>7, <1>a, <1>b, <2>1, BackendUntouched DEF GuestRefresh
<1> QED
  BY <1>a, <1>1, <1>2, <1>3, <1>4, <1>5, <1>6, <1>7

\* Either page is left.
LEMMA LeaveKeeps ==
    ASSUME LiveInv, Leave
    PROVE  LiveInv' /\ view'.snapshot = view.snapshot
<1> USE DEF LiveInv
<1>1. "dead" \in Steps /\ view \in Views
  BY DEF Steps, PageTyped
<1>2. view' = [view EXCEPT !.left = TRUE, !.retry = FALSE, !.polling = FALSE, !.step = "dead"]
  BY DEF Leave
<1>3. view' \in Views /\ view'.snapshot = view.snapshot /\ view'.left = TRUE
  BY <1>1, <1>2 DEF Views
<1>4. Abandon /\ UNCHANGED <<watcher, rows, pubs, link>>
  BY DEF Leave
<1>5. BackendTyped' /\ SlotsAreOwned'
  BY <1>4, BrowserGone
<1>6. PageTyped'
  BY <1>3 DEF Leave, PageTyped
<1>7. OneStream'
  BY <1>3 DEF OneStream
<1> QED
  BY <1>3, <1>4, <1>5, <1>6, <1>7

---------------------------------------------------------------------------
(* The theorems                                                            *)

\* Every step keeps the invariant, and the owner's marker does not go back.
LEMMA LiveStep ==
    ASSUME LiveInv, [LiveNext]_liveVars
    PROVE  LiveInv' /\ (watcher = "owner" => view'.snapshot >= view.snapshot)
<1>0. view.snapshot \in Nat
  BY DEF LiveInv, PageTyped, Views
<1>1. CASE UNCHANGED liveVars
  BY <1>0, <1>1, HookUntouched, BackendUntouched DEF LiveInv, liveVars, PageTyped
<1>2. CASE Backend
  <2>1. ASSUME NEW r \in Requests, Runs(r) \/ Writes(r) \/ RequestFails(r)
        PROVE  LiveInv' /\ view' = view
    BY <2>1, RequestKeeps
  <2>2. ASSUME TooMany \/ Refuse
        PROVE  LiveInv' /\ view' = view
    BY <2>2, RefusalKeeps DEF TooMany, Refuse
  <2>3. ASSUME \/ \E t \in 1..MaxFixes : Ingest(t) \/ IngestBatch(t)
               \/ ReadForPublish \/ \E e \in pubs \ {Unread} : Publish(e.snapshot)
               \/ Revoke
        PROVE  LiveInv' /\ view' = view
    <3>1. view' = view
      BY <2>3 DEF Ingest, IngestBatch, ReadForPublish, Publish, Revoke
    <3> QED
      BY <2>3, <3>1, IngestKeeps
  <2>4. ASSUME Lose \/ Garble \/ ServeLive \/ FailLive
        PROVE  LiveInv' /\ view' = view
    <3>1. view' = view
      BY <2>4 DEF Lose, Garble, ServeLive, FailLive
    <3> QED
      BY <2>4, <3>1, NetworkKeeps
  <2>5. LiveInv' /\ view' = view
    BY <1>2, <2>1, <2>2, <2>3, <2>4 DEF Backend
  <2> QED
    BY <1>0, <2>5
<1>3. CASE Refreshed \/ Handled \/ Connect \/ Refresh \/ Consume \/ GuestRefresh
  BY <1>3, OwnerKeeps, GuestKeeps DEF Refreshed, Handled
<1>4. CASE Leave
  BY <1>0, <1>4, LeaveKeeps
<1> QED
  BY <1>1, <1>2, <1>3, <1>4 DEF LiveNext

\* The hook of useDeviceLocationStream has one source of retries at any time,
\* however often the stream fails, and polls exactly in the fallback state.
THEOREM StreamsAreSingle == LiveSpec => []OneStream
<1>1. LiveInv => OneStream
  BY DEF LiveInv
<1> QED
  BY <1>1, LiveStarts, LiveStep, PTL DEF LiveSpec

\* guestStreams counts the guest requests that run, from before their cookie is
\* looked at: whichever way one ends (a 401, a statement or SendStreamWriter
\* that fails, a lost browser, a revoked link, a closed channel) it gives back
\* its slot once, a 429 takes none, and no subscription outlives its request.
THEOREM SlotsComeBack == LiveSpec => []SlotsAreOwned
<1>1. LiveInv => SlotsAreOwned
  BY DEF LiveInv
<1> QED
  BY <1>1, LiveStarts, LiveStep, PTL DEF LiveSpec

\* reduceLiveLocation keeps the newest location through any reordering of
\* events, polls and refreshes.
THEOREM MarkerAdvances == LiveSpec => MarkerNeverGoesBack
<1>1. LiveInv /\ [LiveNext]_liveVars
        => [watcher = "owner" => view'.snapshot >= view.snapshot]_liveVars
  BY LiveStep
<1> QED
  BY <1>1, LiveStarts, LiveStep, PTL DEF LiveSpec, MarkerNeverGoesBack

=============================================================================
