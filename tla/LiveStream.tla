----------------------------- MODULE LiveStream -----------------------------
(***************************************************************************)
(* The live position of one device on one browser page, end to end: the    *)
(* ingest that publishes to the hub, the handler and the writer of the     *)
(* event stream, the EventSource, and the page.  The watcher is either the *)
(* owner's device page (useDeviceLocationStream) or the guest's page       *)
(* (GuestDevicePage); the two have different handlers on both sides.       *)
(***************************************************************************)
EXTENDS Naturals, Sequences, FiniteSets, FiniteSetsExt

CONSTANTS
    MaxFixes,     \* fixes the tracker reports, named by their recorded_at
    MaxFaults,    \* failed requests, lost connections and garbled events
    HubCapacity,  \* events a subscription's channel holds (16 in hub.go)
    GuestSlots,   \* maxGuestStreams (100 in guest_share.go)
    MaxRequests,  \* requests for the stream that run at a time
    MaxRoute,     \* LIVE_ROUTE_MAX_POINTS
    WireCap       \* events on their way to the browser

ASSUME LiveConstants == MaxFixes \in Nat /\ MaxRequests \in Nat

VARIABLES
    watcher,  \* "owner" or "guest"
    rows,     \* the stored fixes
    pubs,     \* ingests: "stored" before GetLive, then the snapshot to publish
    link,     \* the guest's share link is active
    hub,      \* the requests whose subscription is open
    handler,  \* of each request, how far it is
    served,   \* the request that answers the page's EventSource (0 for none),
              \* what its channel holds and the snapshot it has read
    slots,    \* guestStreams in use
    wire,     \* what the stream has sent and the browser has not handled
    es,       \* the EventSource: "none", "connecting", "open", "closed"
    rest,     \* GET .../live calls: "sent" or their answers
    view,     \* what the page keeps
    faults

liveVars == <<watcher, rows, pubs, link, hub, handler, served, slots, wire, es, rest, view, faults>>

\* A snapshot is the recorded_at of its location, 0 for none.  Its presence,
\* which every page takes from whatever arrives last, is left out.
Never == 0

\* GetLive: the newest row by recorded_at.
GetLive == IF rows = {} THEN Never ELSE Max(rows)

Opened == [kind |-> "open"]
Event(s) == [kind |-> "event", snapshot |-> s]
Garbled == [kind |-> "garbled"]
Ended == [kind |-> "end"]      \* the connection is over
Refused == [kind |-> "http"]   \* an answer that is not an event stream

Sent == [kind |-> "sent"]     \* a GET that is out
Failed == [kind |-> "failed"]
Unread == [kind |-> "stored"] \* an ingest before its GetLive

Requests == 1..MaxRequests

Send(m) == wire' = Append(wire, m)
Ask(r) == r \cup {Sent}

---------------------------------------------------------------------------
(* The ingest and the hub                                                  *)

\* POST /locations: the row and the contact, then GetLive, then Publish.
Ingest(t) ==
    /\ t \notin rows
    /\ rows' = rows \cup {t}
    /\ pubs' = pubs \cup {Unread}
    /\ UNCHANGED <<watcher, link, hub, handler, served, slots, wire, es, rest, view, faults>>

\* POST /locations/batch publishes nothing.
IngestBatch(t) ==
    /\ t \notin rows
    /\ rows' = rows \cup {t}
    /\ UNCHANGED <<watcher, pubs, link, hub, handler, served, slots, wire, es, rest, view, faults>>

ReadForPublish ==
    /\ Unread \in pubs
    /\ pubs' = (pubs \ {Unread}) \cup {Event(GetLive)}
    /\ UNCHANGED <<watcher, rows, link, hub, handler, served, slots, wire, es, rest, view, faults>>

\* A subscriber that does not keep up is removed and its channel closed.  What
\* a request without a browser would still send is not kept: it ends, as it
\* does when its channel is closed, in Notices.
Publish(s) ==
    /\ pubs' = pubs \ {Event(s)}
    /\ IF served.request \notin hub
       THEN UNCHANGED <<hub, served>>
       ELSE IF Len(served.chan) < HubCapacity
            THEN served' = [served EXCEPT !.chan = Append(@, s)] /\ UNCHANGED hub
            ELSE hub' = hub \ {served.request} /\ UNCHANGED served
    /\ UNCHANGED <<watcher, rows, link, handler, slots, wire, es, rest, view, faults>>

\* The owner revokes the link, or it expires.
Revoke ==
    /\ watcher = "guest" /\ link
    /\ link' = FALSE
    /\ UNCHANGED <<watcher, rows, pubs, hub, handler, served, slots, wire, es, rest, view, faults>>

---------------------------------------------------------------------------
(* The stream handlers                                                     *)

\* The EventSource waits for an answer that no request is working on.
Requested == es = "connecting" /\ served.request = 0 /\ wire = <<>>

\* How far a request can be: not running, holding its slot, with its cookie
\* resolved, subscribed, with its snapshot read, and in its writer.
Stages == {"idle", "slotted", "resolved", "subscribed", "ready", "writing"}

At(r, stage) == handler[r] = stage
Running == {r \in Requests : handler[r] # "idle"}
Goes(r, stage) == handler' = [handler EXCEPT ![r] = stage]

\* The first request that does not run: the others are like it.
Fresh(r) == At(r, "idle") /\ \A q \in 1..(r - 1) : ~At(q, "idle")
Nobody == [request |-> 0, chan |-> <<>>, initial |-> Never]

\* 429 is decided first, and takes nothing.
TooMany ==
    /\ Requested /\ watcher = "guest" /\ slots >= GuestSlots
    /\ Send(Refused)
    /\ UNCHANGED <<watcher, rows, pubs, link, hub, handler, served, slots, es, rest, view, faults>>

\* The proxy, or the middleware, before the handler runs.
Refuse ==
    /\ Requested /\ faults < MaxFaults
    /\ faults' = faults + 1
    /\ Send(Refused)
    /\ UNCHANGED <<watcher, rows, pubs, link, hub, handler, served, slots, es, rest, view>>

\* The guest's handler takes its slot before it looks at the request.
TakeSlot(r) ==
    /\ Requested /\ Fresh(r) /\ watcher = "guest" /\ slots < GuestSlots
    /\ slots' = slots + 1
    /\ served' = [Nobody EXCEPT !.request = r]
    /\ Goes(r, "slotted")
    /\ UNCHANGED <<watcher, rows, pubs, link, hub, wire, es, rest, view, faults>>

releaseSlot == slots' = IF watcher = "guest" THEN slots - 1 ELSE slots

\* The request is over; its browser, if it is still there, gets m.
Ends(r, m) ==
    /\ Goes(r, "idle")
    /\ hub' = hub \ {r}
    /\ IF r = served.request
       THEN served' = Nobody /\ Send(m)
       ELSE UNCHANGED <<served, wire>>

\* Mutant: the slot is the writer's as soon as the request is subscribed.
ReturnEarlyKeepsSlot(r) ==
    /\ slots' = IF watcher = "guest" /\ ~At(r, "subscribed") THEN slots - 1 ELSE slots
    /\ Ends(r, Refused)

\* A return before the writer: what was not handed to it is released by defer.
ReturnEarly(r) == releaseSlot /\ Ends(r, Refused)

\* The writer returns: cleanup().
StopWriter(r) == releaseSlot /\ Ends(r, Ended)

\* The link can be revoked between the two looks at it.
Authorized == link /\ view.cookie

resolveCookie(r) ==
    /\ At(r, "slotted") /\ Authorized
    /\ Goes(r, "resolved")
    /\ UNCHANGED <<watcher, rows, pubs, link, hub, served, slots, wire, es, rest, view, faults>>

Unauthorized(r) ==
    /\ At(r, "slotted") \/ At(r, "resolved")
    /\ ~Authorized
    /\ ReturnEarly(r)
    /\ UNCHANGED <<watcher, rows, pubs, link, es, rest, view, faults>>

\* Both handlers subscribe before they read the snapshot; for the owner's it is
\* the first thing to do.
Subscribe(r) ==
    /\ \/ /\ watcher = "owner" /\ Requested /\ Fresh(r)
          /\ served' = [Nobody EXCEPT !.request = r]
       \/ At(r, "resolved") /\ Authorized /\ UNCHANGED served
    /\ hub' = hub \cup {r}
    /\ Goes(r, "subscribed")
    /\ UNCHANGED <<watcher, rows, pubs, link, slots, wire, es, rest, view, faults>>

ReadInitial(r) ==
    /\ At(r, "subscribed")
    /\ served' = IF r = served.request THEN [served EXCEPT !.initial = GetLive] ELSE served
    /\ Goes(r, "ready")
    /\ UNCHANGED <<watcher, rows, pubs, link, hub, slots, wire, es, rest, view, faults>>

\* A lookup of the link, GetLive or SendStreamWriter returns an error.
HandlerFails(r) ==
    /\ handler[r] \in {"slotted", "resolved", "subscribed", "ready"} /\ faults < MaxFaults
    /\ faults' = faults + 1
    /\ ReturnEarly(r)
    /\ UNCHANGED <<watcher, rows, pubs, link, es, rest, view>>

\* The writer starts, and runs on after the handler has returned.
StartStream(r) ==
    /\ At(r, "ready")
    /\ Goes(r, "writing")
    /\ IF r = served.request
       THEN /\ wire' = wire \o <<Opened, Event(served.initial)>>
            /\ served' = [served EXCEPT !.initial = Never]
       ELSE UNCHANGED <<wire, served>>
    /\ UNCHANGED <<watcher, rows, pubs, link, hub, slots, es, rest, view, faults>>

\* The owner's handler unsubscribes when it returns; the guest's has handed its
\* subscription to the writer.
HandlerReturns(r) ==
    /\ watcher = "owner" /\ At(r, "writing") /\ r \in hub
    /\ hub' = hub \ {r}
    /\ UNCHANGED <<watcher, rows, pubs, link, handler, served, slots, wire, es, rest, view, faults>>

\* The rounds of a writer whose browser is there.
Writing(r) == r = served.request /\ At(r, "writing") /\ Len(wire) < WireCap

\* One round of the writer's select on the channel.
WriteEvent(r) ==
    /\ Writing(r)
    /\ IF served.chan = <<>> \/ (watcher = "guest" /\ ~link)
       THEN /\ served.chan = <<>> => r \notin hub
            /\ StopWriter(r)
       ELSE /\ Send(Event(Head(served.chan)))
            /\ served' = [served EXCEPT !.chan = Tail(@)]
            /\ UNCHANGED <<hub, handler, slots>>
    /\ UNCHANGED <<watcher, rows, pubs, link, es, rest, view, faults>>

\* The presence timer: at the deadline, and hourly after it.
PresenceTimer(r) ==
    /\ Writing(r)
    /\ watcher = "guest" => link
    /\ Send(Event(GetLive))
    /\ UNCHANGED <<watcher, rows, pubs, link, hub, handler, served, slots, es, rest, view, faults>>

\* The keep-alive comment, or the presence timer, of a revoked guest's stream.
Keepalive(r) ==
    /\ At(r, "writing") /\ watcher = "guest" /\ ~link
    /\ StopWriter(r)
    /\ UNCHANGED <<watcher, rows, pubs, link, es, rest, view, faults>>

\* The presence timer's GetLive, or a look at the link, fails.
WriterFails(r) ==
    /\ At(r, "writing") /\ faults < MaxFaults
    /\ faults' = faults + 1
    /\ StopWriter(r)
    /\ UNCHANGED <<watcher, rows, pubs, link, es, rest, view>>

\* The writer of a browser that is gone fails at a write, or finds its channel
\* closed.
Notices(r) ==
    /\ r # served.request /\ At(r, "writing")
    /\ StopWriter(r)
    /\ UNCHANGED <<watcher, rows, pubs, link, es, rest, view, faults>>

\* The browser has let go of the connection; the request runs on without it.
Abandon == served' = Nobody /\ UNCHANGED <<hub, handler, slots>>

\* The network loses the connection, or the connection attempt.
Lose ==
    /\ es \in {"connecting", "open"} /\ faults < MaxFaults
    /\ \A i \in 1..Len(wire) : wire[i] \notin {Ended, Refused}
    /\ faults' = faults + 1
    /\ Abandon
    /\ wire' = <<Ended>>
    /\ UNCHANGED <<watcher, rows, pubs, link, es, rest, view>>

\* An event arrives that does not pass isLiveSnapshot or isGuestLiveSnapshot.
Garble ==
    /\ \E i \in 1..Len(wire) :
        /\ wire[i].kind = "event"
        /\ wire' = [wire EXCEPT ![i] = Garbled]
    /\ faults < MaxFaults
    /\ faults' = faults + 1
    /\ UNCHANGED <<watcher, rows, pubs, link, hub, handler, served, slots, es, rest, view>>

---------------------------------------------------------------------------
(* GET .../live, for both pages                                            *)

Readable == watcher = "guest" => link /\ view.cookie

ServeLive ==
    /\ Sent \in rest
    /\ rest' = (rest \ {Sent}) \cup {IF Readable THEN Event(GetLive) ELSE Failed}
    /\ UNCHANGED <<watcher, rows, pubs, link, hub, handler, served, slots, wire, es, view, faults>>

FailLive ==
    /\ Sent \in rest /\ faults < MaxFaults
    /\ rest' = (rest \ {Sent}) \cup {Failed}
    /\ faults' = faults + 1
    /\ UNCHANGED <<watcher, rows, pubs, link, hub, handler, served, slots, wire, es, view>>

---------------------------------------------------------------------------
(* useDeviceLocationStream                                                 *)

\* The MaxRoute newest members of a set of recorded_at.
Newest(r) == {t \in r : Cardinality({u \in r : u > t}) < MaxRoute}

\* Mutant: what arrives last wins.
reduceLastWins(v, s) ==
    [v EXCEPT !.snapshot = IF s = Never THEN @ ELSE s,
              !.route = Newest(IF s = Never THEN @ ELSE @ \cup {s})]

\* The newest location wins; the route has no two points of one instant.
reduceLiveLocation(v, s) ==
    [v EXCEPT !.snapshot = Max({s, @}),
              !.route = Newest(IF s = Never THEN @ ELSE @ \cup {s})]

Take == wire' = Tail(wire)
OwnerGets(k) == watcher = "owner" /\ es # "none" /\ wire # <<>> /\ Head(wire).kind = k

\* refresh() has its answer.
OwnerRefreshed(a) ==
    /\ watcher = "owner" /\ a \in rest \ {Sent}
    /\ rest' = rest \ {a}
    /\ view' = IF a = Failed THEN [view EXCEPT !.error = TRUE]
               ELSE [reduceLiveLocation(view, a.snapshot) EXCEPT !.error = FALSE]
    /\ UNCHANGED <<watcher, rows, pubs, link, hub, handler, served, slots, wire, es, faults>>

\* Mutant: the polling goes on beside the stream.
OnOpenPolls ==
    /\ OwnerGets("open") /\ Take
    /\ es' = "open"
    /\ view' = [view EXCEPT !.attempt = 0, !.state = "live"]
    /\ UNCHANGED <<watcher, rows, pubs, link, hub, handler, served, slots, rest, faults>>

OnOpen ==
    /\ OwnerGets("open") /\ Take
    /\ es' = "open"
    /\ view' = [view EXCEPT !.attempt = 0, !.state = "live", !.polling = FALSE]
    /\ UNCHANGED <<watcher, rows, pubs, link, hub, handler, served, slots, rest, faults>>

Handle ==
    /\ OwnerGets("event") /\ Take
    /\ view' = [reduceLiveLocation(view, Head(wire).snapshot) EXCEPT !.error = FALSE]
    /\ UNCHANGED <<watcher, rows, pubs, link, hub, handler, served, slots, es, rest, faults>>

HandleGarbled ==
    /\ OwnerGets("garbled") /\ Take
    /\ view' = [view EXCEPT !.error = TRUE]
    /\ rest' = Ask(rest)
    /\ UNCHANGED <<watcher, rows, pubs, link, hub, handler, served, slots, es, faults>>

\* Mutant: after the third attempt the poller is trusted to bring the data.
AfterErrorGivesUp(v) ==
    LET n == Min({v.attempt + 1, 3})
    IN  [v EXCEPT !.attempt = n, !.retry = n < 3,
                  !.state = IF n >= 3 THEN "fallback" ELSE "reconnecting"]

\* The attempts are counted to 3, where the polling starts; past it only the
\* delay would still grow.
AfterError(v) ==
    LET n == Min({v.attempt + 1, 3})
    IN  [v EXCEPT !.attempt = n, !.retry = TRUE, !.polling = @ \/ n >= 3,
                  !.state = IF n >= 3 THEN "fallback" ELSE "reconnecting"]

OnError ==
    /\ OwnerGets("end") \/ OwnerGets("http")
    /\ Take
    /\ es' = "none"
    /\ view' = AfterError(view)
    /\ UNCHANGED <<watcher, rows, pubs, link, hub, handler, served, slots, rest, faults>>

\* The retry timer runs connect().
Connect ==
    /\ watcher = "owner" /\ view.retry
    /\ es' = "connecting"
    /\ view' = [view EXCEPT !.retry = FALSE,
                            !.state = IF view.attempt = 0 THEN "connecting" ELSE "reconnecting"]
    /\ UNCHANGED <<watcher, rows, pubs, link, hub, handler, served, slots, wire, rest, faults>>

\* The fallback timer, or the button of the map.
Refresh ==
    /\ watcher = "owner" /\ ~view.left /\ rest = {}
    /\ rest' = Ask(rest)
    /\ UNCHANGED <<watcher, rows, pubs, link, hub, handler, served, slots, wire, es, view, faults>>

---------------------------------------------------------------------------
(* GuestDevicePage                                                         *)

GuestGets(k) == watcher = "guest" /\ es \in {"connecting", "open"} /\ wire # <<>> /\ Head(wire).kind = k

\* The token of the address is exchanged for a cookie; an HTTP error passes
\* unnoticed, a transport error ends the page.
Consume ==
    /\ watcher = "guest" /\ view.step = "consume"
    /\ \/ /\ view' = [view EXCEPT !.step = "first", !.cookie = link]
          /\ rest' = Ask(rest)
          /\ UNCHANGED faults
       \/ /\ faults < MaxFaults
          /\ faults' = faults + 1
          /\ view' = [view EXCEPT !.step = "dead", !.error = TRUE]
          /\ UNCHANGED rest
    /\ UNCHANGED <<watcher, rows, pubs, link, hub, handler, served, slots, wire, es>>

\* An answer is shown as it is, whatever is on the screen; the stream is opened
\* after the first one, good or bad.
GuestRefreshed(a) ==
    /\ watcher = "guest" /\ a \in rest \ {Sent}
    /\ rest' = rest \ {a}
    /\ view' = [view EXCEPT !.snapshot = IF a = Failed THEN @ ELSE a.snapshot,
                            !.state = IF a = Failed THEN "reconnecting" ELSE @,
                            !.step = IF @ = "first" THEN "stream" ELSE @]
    /\ es' = IF view.step = "first" THEN "connecting" ELSE es
    /\ UNCHANGED <<watcher, rows, pubs, link, hub, handler, served, slots, wire, faults>>

GuestOnOpen ==
    /\ GuestGets("open") /\ Take
    /\ es' = "open"
    /\ view' = [view EXCEPT !.state = "live", !.error = FALSE]
    /\ UNCHANGED <<watcher, rows, pubs, link, hub, handler, served, slots, rest, faults>>

GuestHandle ==
    /\ GuestGets("event") /\ Take
    /\ view' = [view EXCEPT !.snapshot = Head(wire).snapshot, !.error = FALSE]
    /\ UNCHANGED <<watcher, rows, pubs, link, hub, handler, served, slots, es, rest, faults>>

\* A garbled event closes the source for good.
GuestGarbled ==
    /\ GuestGets("garbled")
    /\ es' = "none" /\ wire' = <<>>
    /\ Abandon
    /\ view' = [view EXCEPT !.error = TRUE]
    /\ UNCHANGED <<watcher, rows, pubs, link, rest, faults>>

\* The browser reconnects by itself after a lost connection, and never after
\* an HTTP error.
GuestOnError ==
    /\ GuestGets("end") \/ GuestGets("http")
    /\ es' = IF Head(wire).kind = "end" THEN "connecting" ELSE "closed"
    /\ Take
    /\ view' = [view EXCEPT !.state = "reconnecting"]
    /\ rest' = Ask(rest)
    /\ UNCHANGED <<watcher, rows, pubs, link, hub, handler, served, slots, faults>>

\* The button of the map.
GuestRefresh ==
    /\ watcher = "guest" /\ view.step = "stream" /\ ~view.error /\ view.snapshot # Never
    /\ ~view.left /\ rest = {}
    /\ rest' = Ask(rest)
    /\ UNCHANGED <<watcher, rows, pubs, link, hub, handler, served, slots, wire, es, view, faults>>

\* Either page is left: the effect's cleanup.
Leave ==
    /\ ~view.left
    /\ Abandon
    /\ es' = "none" /\ wire' = <<>> /\ rest' = {}
    /\ view' = [view EXCEPT !.left = TRUE, !.retry = FALSE, !.polling = FALSE, !.step = "dead"]
    /\ UNCHANGED <<watcher, rows, pubs, link, faults>>

---------------------------------------------------------------------------

\* The owner's effect has called refresh() and connect(); the guest's has a
\* token to exchange, or only the cookie of an earlier visit.
LiveInit ==
    /\ rows = {} /\ pubs = {} /\ link = TRUE
    /\ hub = {} /\ handler = [r \in Requests |-> "idle"] /\ served = Nobody /\ slots = 0
    /\ wire = <<>> /\ faults = 0
    /\ \E w \in {"owner", "guest"}, step \in {"consume", "first"} :
        /\ watcher = w
        /\ es = IF w = "owner" THEN "connecting" ELSE "none"
        /\ rest = IF w = "owner" \/ step = "first" THEN {Sent} ELSE {}
        /\ view = [snapshot |-> Never, route |-> {}, state |-> "connecting", error |-> FALSE,
                   attempt |-> 0, retry |-> FALSE, polling |-> FALSE, left |-> FALSE,
                   cookie |-> w = "guest" /\ step = "first",
                   step |-> IF w = "owner" THEN "stream" ELSE step]

\* What a request does by itself, on its way to the writer and out of it.
Runs(r) ==
    \/ TakeSlot(r) \/ resolveCookie(r) \/ Unauthorized(r) \/ Subscribe(r) \/ ReadInitial(r)
    \/ StartStream(r) \/ HandlerReturns(r) \/ Notices(r)

Writes(r) == WriteEvent(r) \/ PresenceTimer(r) \/ Keepalive(r)

RequestFails(r) == HandlerFails(r) \/ WriterFails(r)

Backend ==
    \/ \E t \in 1..MaxFixes : Ingest(t) \/ IngestBatch(t)
    \/ ReadForPublish \/ \E e \in pubs \ {Unread} : Publish(e.snapshot)
    \/ Revoke
    \/ TooMany \/ Refuse \/ \E r \in Requests : Runs(r) \/ Writes(r) \/ RequestFails(r)
    \/ Lose \/ Garble \/ ServeLive \/ FailLive

Refreshed == \E a \in rest : OwnerRefreshed(a) \/ GuestRefreshed(a)

Handled ==
    \/ OnOpen \/ Handle \/ HandleGarbled \/ OnError
    \/ GuestOnOpen \/ GuestHandle \/ GuestGarbled \/ GuestOnError

LiveNext ==
    \/ Backend \/ Refreshed \/ Handled
    \/ Connect \/ Refresh \/ Consume \/ GuestRefresh \/ Leave

LiveSpec == LiveInit /\ [][LiveNext]_liveVars

\* The handlers and their timers run, and the browser handles what has arrived
\* and runs the retry timer.  Nothing is asked of the tracker, the users or the
\* network.
LiveFair ==
    /\ WF_liveVars(ReadForPublish) /\ WF_liveVars(\E e \in pubs \ {Unread} : Publish(e.snapshot))
    /\ WF_liveVars(TooMany) /\ \A r \in Requests : WF_liveVars(Runs(r))
    /\ WF_liveVars(\E r \in Requests : WriteEvent(r)) /\ WF_liveVars(\E r \in Requests : PresenceTimer(r))
    /\ WF_liveVars(ServeLive \/ FailLive)
    /\ WF_liveVars(Refreshed) /\ WF_liveVars(Handled)
    /\ WF_liveVars(Connect) /\ WF_liveVars(Consume)

LiveFairSpec == LiveSpec /\ LiveFair

---------------------------------------------------------------------------
(* Properties                                                              *)

\* Refreshes, polls and events overtake one another, and concurrent ingests
\* publish out of order; still the owner's marker never moves back in time.
MarkerNeverGoesBack ==
    [][watcher = "owner" => view'.snapshot >= view.snapshot]_liveVars

\* The hook always has exactly one source of retries: an EventSource or a
\* pending retry timer, never both and never none; and it polls exactly while
\* the stream has failed three times running.
OneStream ==
    (watcher = "owner" /\ ~view.left) =>
        /\ view.retry <=> es = "none"
        /\ view.polling <=> view.attempt >= 3
        /\ view.state = "live" <=> (es = "open" /\ ~view.polling)

\* guestStreams counts the guest requests that run, from before the cookie is
\* looked at until the request has ended: a 401, a lookup, GetLive or
\* SendStreamWriter that fails, a lost browser, a revoked link or a closed
\* channel gives back exactly one slot, and only a request past its checks is
\* subscribed.
SlotsAreOwned ==
    /\ slots = IF watcher = "owner" THEN 0 ELSE Cardinality(Running)
    /\ \A r \in hub : handler[r] \in {"subscribed", "ready", "writing"}

\* When the tracker is silent the page shows its last fix: through batches
\* that publish nothing, events out of order, lost connections and channels
\* that overflowed.  Only a guest whose stream was refused or garbled, or whose
\* link is gone, is left behind.
PageCatchesUp ==
    <>[](\/ view.left
         \/ watcher = "guest" /\ (es = "closed" \/ view.error \/ ~link)
         \/ view.snapshot = GetLive)

=============================================================================
