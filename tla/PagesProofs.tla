----------------------------- MODULE PagesProofs -----------------------------
(***************************************************************************)
(* Proofs about the dashboard's pages, each on its own: the history panel  *)
(* shows what was asked for last and the device page with its guest links  *)
(* what the backend has; a report whose answers kept their order is the    *)
(* one the filter asks for; settings survive reloads and other tabs; the   *)
(* users, devices, access keys and profile pages show the rows of the      *)
(* backend, and every one-time secret reaches the user.  For any number of *)
(* windows, pages, users, names, links, sections, devices, rows, tabs and  *)
(* settings, of gestures and of failed requests.                           *)
(***************************************************************************)
EXTENDS DeviceDetail, Reports, Preferences, AdminLists, FiniteSetTheorems, TLAPS

(***************************************************************************)
(* DeviceHistory: the history panel                                        *)
(***************************************************************************)

Queries == [window : Windows \cup {"none"}, page : Nat]
Channel == [id : Nat, want : Queries, shown : Queries, loading : BOOLEAN, err : BOOLEAN]
Panel ==
    [mounted : BOOLEAN, range : Windows, detective : BOOLEAN, style : {"line", "dots"},
     chan : [Chans -> Channel], reqs : SUBSET [chan : Chans, id : Nat, query : Queries],
     typed : BOOLEAN, drift : BOOLEAN]

\* A request that is out is no newer than its channel, and the current one
\* asks for what the channel wants.
Dated(h) == \A r \in h.reqs :
    /\ r.id <= h.chan[r.chan].id
    /\ r.id = h.chan[r.chan].id => r.query = h.chan[r.chan].want

\* The spinner is up exactly while the current request is out.
Spins(h) == \A c \in Chans :
    h.chan[c].loading <=> \E r \in h.reqs : r.chan = c /\ r.id = h.chan[c].id

\* A channel that loads shows nothing and no error; one that is done shows what it wants.
Shows(h) == \A c \in Chans :
    /\ h.chan[c].loading => h.chan[c].shown = Nothing /\ ~h.chan[c].err
    /\ ~h.chan[c].loading =>
          h.chan[c].shown = IF h.chan[c].err THEN Nothing ELSE h.chan[c].want

\* The two channels want the same window, that of the inputs if it was not
\* typed over, unless the ghost says otherwise.
Agrees(h) ==
    /\ (h.mounted /\ ~h.drift /\ ~h.typed) => h.chan["history"].want.window = h.range
    /\ (h.detective /\ ~h.drift) =>
          h.chan["route"].want.window = h.chan["history"].want.window

Channels(h) == h \in Panel /\ Dated(h) /\ Spins(h) /\ Shows(h)
PanelOK(h) == Channels(h) /\ Agrees(h)

\* A query is typed, and has the window it was made for.
LEMMA QueryType ==
    ASSUME NEW w \in Windows \cup {"none"}, NEW p \in Nat
    PROVE  Query(w, p) \in Queries /\ Query(w, p).window = w
BY DEF Query, Queries

\* getLocation changes one channel, whose request is new, and nothing else.
LEMMA Asks ==
    ASSUME NEW h, Channels(h), NEW c \in Chans, NEW q \in Queries
    PROVE  LET g == getLocation(h, c, q)
           IN  /\ Channels(g)
               /\ g.chan[c].want = q
               /\ \A d \in Chans \ {c} : g.chan[d].want = h.chan[d].want
               /\ g.mounted = h.mounted /\ g.range = h.range /\ g.detective = h.detective
               /\ g.typed = h.typed /\ g.drift = h.drift
<1> DEFINE n == h.chan[c].id + 1
           k == [id |-> n, want |-> q, shown |-> Nothing, loading |-> TRUE, err |-> FALSE]
           req == [chan |-> c, id |-> n, query |-> q]
           g == getLocation(h, c, q)
<1>1. h \in Panel /\ h.chan[c].id \in Nat /\ n \in Nat
  BY DEF Channels, Panel, Channel
<1>2. k \in Channel /\ req \in [chan : Chans, id : Nat, query : Queries]
  BY <1>1, QueryType DEF Channel, Nothing
<1>3. g = [h EXCEPT !.chan = [h.chan EXCEPT ![c] = k], !.reqs = h.reqs \cup {req}]
  BY <1>1 DEF getLocation, Panel
<1> HIDE DEF k, req, g
<1>4. /\ g \in Panel /\ g.reqs = h.reqs \cup {req}
      /\ g.chan[c] = k /\ \A d \in Chans \ {c} : g.chan[d] = h.chan[d]
      /\ g.mounted = h.mounted /\ g.range = h.range /\ g.detective = h.detective
      /\ g.typed = h.typed /\ g.drift = h.drift
  BY <1>1, <1>2, <1>3 DEF Panel
<1>5. k.id = n /\ k.want = q /\ k.loading = TRUE /\ k.shown = Nothing /\ k.err = FALSE
      /\ req.chan = c /\ req.id = n /\ req.query = q
  BY DEF k, req
<1>6. \A r \in h.reqs : r.chan \in Chans /\ r.id \in Nat /\ (r.chan = c => r.id < n)
  BY <1>1 DEF Channels, Dated, Panel
<1>7. Dated(g)
  <2> SUFFICES ASSUME NEW r \in g.reqs
               PROVE  /\ r.id <= g.chan[r.chan].id
                      /\ r.id = g.chan[r.chan].id => r.query = g.chan[r.chan].want
    BY DEF Dated
  <2>1. CASE r = req
    BY <2>1, <1>4, <1>5, <1>1
  <2>2. CASE r \in h.reqs /\ r.chan = c
    BY <2>2, <1>4, <1>5, <1>6, <1>1
  <2>3. CASE r \in h.reqs /\ r.chan # c
    BY <2>3, <1>4, <1>6 DEF Channels, Dated
  <2> QED BY <2>1, <2>2, <2>3, <1>4
<1>8. Spins(g)
  <2> SUFFICES ASSUME NEW d \in Chans
               PROVE  g.chan[d].loading <=> \E r \in g.reqs : r.chan = d /\ r.id = g.chan[d].id
    BY DEF Spins
  <2>1. CASE d = c
    BY <2>1, <1>4, <1>5
  <2>2. CASE d # c
    <3>1. g.chan[d] = h.chan[d]
      BY <2>2, <1>4
    <3>2. h.chan[d].loading <=> \E r \in h.reqs : r.chan = d /\ r.id = h.chan[d].id
      BY DEF Channels, Spins
    <3> QED BY <3>1, <3>2, <2>2, <1>4, <1>5
  <2> QED BY <2>1, <2>2
<1>9. Shows(g)
  <2> SUFFICES ASSUME NEW d \in Chans
               PROVE  /\ g.chan[d].loading => g.chan[d].shown = Nothing /\ ~g.chan[d].err
                      /\ ~g.chan[d].loading =>
                            g.chan[d].shown = IF g.chan[d].err THEN Nothing ELSE g.chan[d].want
    BY DEF Shows
  <2>1. CASE d = c
    BY <2>1, <1>4, <1>5
  <2>2. CASE d # c
    BY <2>2, <1>4 DEF Channels, Shows
  <2> QED BY <2>1, <2>2
<1> QED BY <1>4, <1>5, <1>7, <1>8, <1>9 DEF Channels, g

\* A panel whose ranges, modes or ghosts change keeps its channels.
LEMMA KeepsChannels ==
    ASSUME NEW h, NEW g \in Panel, Channels(h), g.chan = h.chan, g.reqs = h.reqs
    PROVE  Channels(g)
BY DEF Channels, Dated, Spins, Shows

\* loadHistory asks the table's channel, and the route's only in detective mode.
LEMMA Loads ==
    ASSUME NEW h, Channels(h), NEW w \in Windows, NEW p \in Nat
    PROVE  LET g == loadHistory(h, w, p)
               both == h.detective /\ (p = 1 \/ w # h.range)
           IN  /\ Channels(g)
               /\ g.chan["history"].want.window = w
               /\ both => g.chan["route"].want.window = w
               /\ ~both => g.chan["route"].want = h.chan["route"].want
               /\ g.mounted = h.mounted /\ g.range = w /\ g.detective = h.detective
               /\ g.typed = h.typed /\ g.drift = h.drift
<1> DEFINE h0 == [h EXCEPT !.range = w]
           first == Query(w, p)
           whole == Query(w, 0)
           a == getLocation(h0, "history", first)
           b == getLocation(a, "route", whole)
           both == h.detective /\ (p = 1 \/ w # h.range)
<1>1. /\ h0 \in Panel /\ h0.chan = h.chan /\ h0.reqs = h.reqs /\ h0.mounted = h.mounted
      /\ h0.range = w /\ h0.detective = h.detective /\ h0.typed = h.typed /\ h0.drift = h.drift
  BY DEF Channels, Panel
<1> HIDE DEF h0
<1>2. Channels(h0)
  BY <1>1, KeepsChannels
<1>3. /\ "history" \in Chans /\ "route" \in Chans /\ "history" # "route"
      /\ first \in Queries /\ whole \in Queries
      /\ first.window = w /\ whole.window = w
  BY QueryType DEF Chans
<1> HIDE DEF first, whole
<1>4. /\ Channels(a) /\ a.chan["history"].want = first
      /\ a.chan["route"].want = h.chan["route"].want
      /\ a.mounted = h.mounted /\ a.range = w /\ a.detective = h.detective
      /\ a.typed = h.typed /\ a.drift = h.drift
  <2>1. /\ Channels(a) /\ a.chan["history"].want = first
        /\ \A d \in Chans \ {"history"} : a.chan[d].want = h0.chan[d].want
        /\ a.mounted = h0.mounted /\ a.range = h0.range /\ a.detective = h0.detective
        /\ a.typed = h0.typed /\ a.drift = h0.drift
    BY <1>2, <1>3, Asks
  <2> HIDE DEF a
  <2> QED BY <1>1, <1>3, <2>1
<1> HIDE DEF a
<1>5. /\ Channels(b) /\ b.chan["route"].want = whole
      /\ b.chan["history"].want = a.chan["history"].want
      /\ b.mounted = a.mounted /\ b.range = a.range /\ b.detective = a.detective
      /\ b.typed = a.typed /\ b.drift = a.drift
  <2>1. /\ Channels(b) /\ b.chan["route"].want = whole
        /\ \A d \in Chans \ {"route"} : b.chan[d].want = a.chan[d].want
        /\ b.mounted = a.mounted /\ b.range = a.range /\ b.detective = a.detective
        /\ b.typed = a.typed /\ b.drift = a.drift
    BY <1>3, <1>4, Asks
  <2> HIDE DEF b
  <2> QED BY <1>3, <2>1
<1> HIDE DEF b
<1>6. loadHistory(h, w, p) = IF both THEN b ELSE a
  BY DEF loadHistory, getLocationHistory, getLocationRoute, a, b, h0, first, whole
<1>7. CASE both
  BY <1>7, <1>3, <1>4, <1>5, <1>6
<1>8. CASE ~both
  BY <1>8, <1>3, <1>4, <1>6
<1> QED BY <1>7, <1>8

\* The ghosts' bookkeeping leaves the rest of the panel alone.
LEMMA Ghosts ==
    ASSUME NEW h, Channels(h)
    PROVE  /\ Channels(Drifts(h)) /\ Channels(Aligned(h))
           /\ \A g \in {Drifts(h), Aligned(h)} :
                 /\ g.chan = h.chan /\ g.mounted = h.mounted /\ g.range = h.range
                 /\ g.detective = h.detective
           /\ Drifts(h).typed = h.typed /\ (Drifts(h).drift <=> h.drift \/ h.typed)
           /\ Aligned(h).typed = FALSE /\ Aligned(h).drift = FALSE
<1>1. h \in Panel
  BY DEF Channels
<1>2. /\ Drifts(h) \in Panel /\ Drifts(h).chan = h.chan /\ Drifts(h).reqs = h.reqs
      /\ Drifts(h).mounted = h.mounted /\ Drifts(h).range = h.range
      /\ Drifts(h).detective = h.detective /\ Drifts(h).typed = h.typed
      /\ (Drifts(h).drift <=> h.drift \/ h.typed)
  BY <1>1 DEF Panel, Drifts
<1>3. /\ Aligned(h) \in Panel /\ Aligned(h).chan = h.chan /\ Aligned(h).reqs = h.reqs
      /\ Aligned(h).mounted = h.mounted /\ Aligned(h).range = h.range
      /\ Aligned(h).detective = h.detective
      /\ Aligned(h).typed = FALSE /\ Aligned(h).drift = FALSE
  BY <1>1 DEF Panel, Aligned
<1> QED BY <1>1, <1>2, <1>3, KeepsChannels

---------------------------------------------------------------------------
(* The panel's steps                                                       *)

\* The panel starts well, unmounted and mounted.
LEMMA PanelStarts == PanelOK(Unmounted) /\ PanelOK(MountHistory)
<1> DEFINE m == [Unmounted EXCEPT !.mounted = TRUE]
<1>1. /\ Today \in Windows /\ Nothing \in Queries
      /\ "history" \in Chans /\ "route" \in Chans /\ "history" # "route"
  BY HistoryConstants, QueryType DEF Nothing, Chans
<1>2. FreshChan \in Channel /\ FreshChan.shown = Nothing /\ FreshChan.want = Nothing
      /\ FreshChan.loading = FALSE /\ FreshChan.err = FALSE
  BY <1>1 DEF FreshChan, Channel
<1>3. /\ Unmounted \in Panel /\ Unmounted.reqs = {} /\ Unmounted.mounted = FALSE
      /\ Unmounted.detective = FALSE /\ \A c \in Chans : Unmounted.chan[c] = FreshChan
  BY <1>1, <1>2 DEF Unmounted, Panel
<1>4. /\ m \in Panel /\ m.reqs = {} /\ m.range = Today /\ m.detective = FALSE
      /\ m.chan = Unmounted.chan
  BY <1>1, <1>2 DEF Unmounted, Panel
<1>5. Channels(Unmounted)
  BY <1>2, <1>3 DEF Channels, Dated, Spins, Shows
<1>6. PanelOK(Unmounted)
  BY <1>3, <1>5 DEF PanelOK, Agrees
<1>7. Channels(m)
  BY <1>3, <1>4, <1>5, KeepsChannels
<1> HIDE DEF m
<1>8. Query(Today, 1) \in Queries /\ Query(Today, 1).window = Today
  BY <1>1, QueryType
<1>9. LET g == getLocation(m, "history", Query(Today, 1))
      IN  Channels(g) /\ g.chan["history"].want = Query(Today, 1)
          /\ g.range = m.range /\ g.detective = m.detective
  BY <1>1, <1>7, <1>8, Asks
<1>10. MountHistory = getLocation(m, "history", Query(Today, 1))
  BY DEF MountHistory, getLocationHistory, m
<1>11. PanelOK(MountHistory)
  BY <1>4, <1>8, <1>9, <1>10 DEF PanelOK, Agrees
<1> QED BY <1>6, <1>11

\* One step per handler: the two channels come out wanting the same window, or
\* the ghosts say that they may not.
LEMMA GesturesKeep ==
    ASSUME PanelOK(hist), HistoryGesture
    PROVE  PanelOK(hist')
<1>0. Channels(hist) /\ hist.range \in Windows
  BY DEF PanelOK, Channels, Panel
<1>1. hist \in Panel /\ Channels(hist) /\ Agrees(hist) /\ hist.mounted /\ hist.range \in Windows
  BY DEF PanelOK, Channels, Panel, HistoryGesture
<1>2. "history" \in Chans /\ "route" \in Chans /\ "history" # "route" /\ 1 \in Nat
      /\ 1..HistoryPages \subseteq Nat
  BY HistoryConstants DEF Chans
<1>3. ASSUME NEW w \in Windows, EditRange(w)
      PROVE  PanelOK(hist')
  <2>1. /\ hist' \in Panel /\ hist'.chan = hist.chan /\ hist'.reqs = hist.reqs
        /\ hist'.typed = TRUE /\ hist'.drift = hist.drift /\ hist'.detective = hist.detective
    BY <1>1, <1>3 DEF EditRange, Panel
  <2>2. Channels(hist')
    BY <1>1, <2>1, KeepsChannels
  <2> QED BY <1>1, <2>1, <2>2 DEF PanelOK, Agrees
<1>4. ASSUME NEW w \in Windows, hist.detective, hist' = Aligned(loadHistory(hist, w, 1))
      PROVE  PanelOK(hist')
  <2> DEFINE g == loadHistory(hist, w, 1)
  <2>1. /\ Channels(g) /\ g.chan["history"].want.window = w /\ g.chan["route"].want.window = w
        /\ g.range = w
    BY <1>1, <1>2, <1>4, Loads
  <2> HIDE DEF g
  <2>2. /\ Channels(Aligned(g)) /\ Aligned(g).chan = g.chan /\ Aligned(g).range = g.range
    BY <2>1, Ghosts
  <2> QED BY <1>4, <2>1, <2>2 DEF PanelOK, Agrees, g
<1>5. ASSUME NEW p \in Nat, hist' = Drifts(loadHistory(hist, hist.range, p)),
             ~(hist.detective /\ p = 1)
      PROVE  PanelOK(hist')
  <2> DEFINE g == loadHistory(hist, hist.range, p)
  <2>0. ~(hist.detective /\ (p = 1 \/ hist.range # hist.range))
    BY <1>5
  <2>1. /\ Channels(g) /\ g.chan["history"].want.window = hist.range
        /\ g.chan["route"].want = hist.chan["route"].want
        /\ g.mounted = hist.mounted /\ g.range = hist.range /\ g.detective = hist.detective
        /\ g.typed = hist.typed /\ g.drift = hist.drift
    BY <1>0, <2>0, Loads
  <2> HIDE DEF g
  <2>2. /\ Channels(Drifts(g)) /\ Drifts(g).chan = g.chan /\ Drifts(g).range = g.range
        /\ Drifts(g).mounted = g.mounted /\ Drifts(g).detective = g.detective
        /\ (Drifts(g).drift <=> g.drift \/ g.typed)
    BY <2>1, Ghosts
  <2> QED BY <1>1, <1>5, <2>1, <2>2 DEF PanelOK, Agrees, g
<1>6. ASSUME NEW h, Channels(h), h.chan = hist.chan, h.mounted, h.range = hist.range,
             h.typed = hist.typed, h.drift = hist.drift,
             hist' = Drifts(getLocationRoute(h, hist.range))
      PROVE  PanelOK(hist')
  <2> DEFINE q == Query(hist.range, 0)
             g == getLocation(h, "route", q)
  <2>0. /\ Channels(h) /\ h.chan = hist.chan /\ h.range = hist.range
        /\ h.typed = hist.typed /\ h.drift = hist.drift
    BY <1>6
  <2>1. q \in Queries /\ q.window = hist.range
    BY <1>1, QueryType
  <2> HIDE DEF q
  <2>2. /\ Channels(g) /\ g.chan["route"].want = q
        /\ g.chan["history"].want = hist.chan["history"].want
        /\ g.range = hist.range
        /\ g.typed = hist.typed /\ g.drift = hist.drift
    BY <1>2, <2>0, <2>1, Asks
  <2> HIDE DEF g
  <2>3. /\ Channels(Drifts(g)) /\ Drifts(g).chan = g.chan /\ Drifts(g).range = g.range
        /\ Drifts(g).typed = g.typed /\ (Drifts(g).drift <=> g.drift \/ g.typed)
    BY <2>2, Ghosts
  <2>4. hist' = Drifts(g)
    BY <1>6 DEF getLocationRoute, g, q
  <2> QED BY <1>1, <2>1, <2>2, <2>3, <2>4 DEF PanelOK, Agrees
<1>7. ASSUME NEW p \in 1..HistoryPages, Paginate(p)
      PROVE  PanelOK(hist')
  <2>1. CASE p = 1 /\ hist.detective
    BY <1>1, <1>4, <1>7, <2>1 DEF Paginate
  <2>2. CASE ~(p = 1 /\ hist.detective)
    BY <1>2, <1>5, <1>7, <2>2 DEF Paginate
  <2> QED BY <2>1, <2>2
<1>8. ASSUME handleDetectiveToggle
      PROVE  PanelOK(hist')
  <2>1. CASE hist.detective
    <3>1. /\ hist' \in Panel /\ hist'.chan = hist.chan /\ hist'.reqs = hist.reqs
          /\ hist'.typed = hist.typed /\ hist'.drift = hist.drift /\ hist'.detective = FALSE
          /\ hist'.range = hist.range /\ hist'.mounted = hist.mounted
      BY <1>1, <1>8, <2>1 DEF handleDetectiveToggle, Panel
    <3>2. Channels(hist')
      BY <1>1, <3>1, KeepsChannels
    <3> QED BY <1>1, <3>1, <3>2 DEF PanelOK, Agrees
  <2>2. CASE ~hist.detective
    <3> DEFINE h == [hist EXCEPT !.detective = TRUE]
    <3>1. /\ h \in Panel /\ h.chan = hist.chan /\ h.reqs = hist.reqs /\ h.mounted
          /\ h.range = hist.range /\ h.typed = hist.typed /\ h.drift = hist.drift
      BY <1>1 DEF Panel
    <3>2. hist' = Drifts(getLocationRoute(h, hist.range))
      BY <1>8, <2>2 DEF handleDetectiveToggle
    <3> HIDE DEF h
    <3>3. Channels(h)
      BY <1>1, <3>1, KeepsChannels
    <3> QED BY <1>6, <3>1, <3>2, <3>3
  <2> QED BY <2>1, <2>2
<1>9. ASSUME setRouteStyle
      PROVE  PanelOK(hist')
  <2>1. /\ hist' \in Panel /\ hist'.chan = hist.chan /\ hist'.reqs = hist.reqs
        /\ hist'.typed = hist.typed /\ hist'.drift = hist.drift
        /\ hist'.detective = hist.detective
        /\ hist'.range = hist.range /\ hist'.mounted = hist.mounted
    BY <1>1, <1>9 DEF setRouteStyle, Panel
  <2>2. Channels(hist')
    BY <1>1, <2>1, KeepsChannels
  <2> QED BY <1>1, <2>1, <2>2 DEF PanelOK, Agrees
<1>10. ASSUME retryLocations
       PROVE  PanelOK(hist')
  <2> DEFINE t == hist.chan["history"].err
             u == hist.chan["route"].err /\ hist.detective
  <2>1. CASE t /\ ~u /\ hist.detective
    BY <1>1, <1>4, <1>10, <2>1 DEF retryLocations
  <2>2. CASE t /\ ~hist.detective
    BY <1>1, <1>2, <1>5, <1>10, <2>2 DEF retryLocations
  <2>3. CASE ~t /\ u
    BY <1>1, <1>6, <1>10, <2>3 DEF retryLocations
  <2>4. CASE ~t /\ ~u
    BY <1>1, <1>10, <2>4 DEF retryLocations, PanelOK
  <2>5. CASE t /\ u
    <3> DEFINE a == Aligned(loadHistory(hist, hist.range, 1))
               q == Query(hist.range, 0)
    <3>1. hist' = getLocation(a, "route", q)
      BY <1>10, <2>5 DEF retryLocations, getLocationRoute
    <3>2. LET g == loadHistory(hist, hist.range, 1)
          IN  Channels(g) /\ g.chan["history"].want.window = hist.range /\ g.range = hist.range
      BY <1>1, <1>2, Loads
    <3>3. Channels(a) /\ a.chan["history"].want.window = hist.range /\ a.range = hist.range
      BY <3>2, Ghosts
    <3> HIDE DEF a
    <3>4. q \in Queries /\ q.window = hist.range
      BY <1>1, QueryType
    <3> HIDE DEF q
    <3>5. /\ Channels(hist') /\ hist'.chan["route"].want = q
          /\ hist'.chan["history"].want = a.chan["history"].want /\ hist'.range = a.range
      BY <1>2, <3>1, <3>3, <3>4, Asks
    <3> QED BY <3>3, <3>4, <3>5 DEF PanelOK, Agrees
  <2> QED BY <2>1, <2>2, <2>3, <2>4, <2>5
<1>11. ASSUME NEW w \in Windows, Preset(w)
       PROVE  PanelOK(hist')
  BY <1>4, <1>11 DEF Preset
<1>12. ASSUME handleHistorySubmit
       PROVE  PanelOK(hist')
  BY <1>1, <1>4, <1>12 DEF handleHistorySubmit
<1> QED
  BY <1>3, <1>7, <1>8, <1>9, <1>10, <1>11, <1>12 DEF HistoryGesture

\* An answer that is not current only leaves; the current one settles its channel.
LEMMA AnswersKeep ==
    ASSUME PanelOK(hist), NEW r \in hist.reqs, NEW o, HistoryAnswer(r, o)
    PROVE  PanelOK(hist')
<1> DEFINE c == r.chan
           k == hist.chan[c]
           g == [hist EXCEPT !.reqs = @ \ {r}]
<1>1. hist \in Panel /\ Channels(hist) /\ Agrees(hist) /\ Dated(hist) /\ Spins(hist) /\ Shows(hist)
  BY DEF PanelOK, Channels
<1>2. c \in Chans /\ r.id \in Nat /\ r.query \in Queries /\ k \in Channel
      /\ r = [chan |-> c, id |-> r.id, query |-> r.query]
  BY <1>1 DEF Panel
<1>3. /\ g \in Panel /\ g.chan = hist.chan /\ g.reqs = hist.reqs \ {r}
      /\ g.range = hist.range /\ g.mounted = hist.mounted /\ g.detective = hist.detective
      /\ g.typed = hist.typed /\ g.drift = hist.drift
  BY <1>1 DEF Panel
<1>4. CASE ~isCurrent(hist, r)
  <2>1. hist' = g
    BY <1>4 DEF HistoryAnswer, runLocationRequest
  <2>2. r.id # k.id
    BY <1>4 DEF isCurrent
  <2> HIDE DEF g
  <2>3. Dated(g)
    BY <1>1, <1>3 DEF Dated
  <2>4. Spins(g)
    <3> SUFFICES ASSUME NEW d \in Chans
                 PROVE  g.chan[d].loading <=> \E q \in g.reqs : q.chan = d /\ q.id = g.chan[d].id
      BY DEF Spins
    <3>1. hist.chan[d].loading <=> \E q \in hist.reqs : q.chan = d /\ q.id = hist.chan[d].id
      BY <1>1 DEF Spins
    <3> QED BY <1>3, <2>2, <3>1
  <2>5. Shows(g)
    BY <1>1, <1>3 DEF Shows
  <2>6. Agrees(g)
    BY <1>1, <1>3 DEF Agrees
  <2> QED BY <1>3, <2>1, <2>3, <2>4, <2>5, <2>6 DEF PanelOK, Channels
<1>5. CASE isCurrent(hist, r)
  <2> DEFINE n == IF Rejects(o) THEN [k EXCEPT !.err = TRUE, !.loading = FALSE]
                  ELSE [k EXCEPT !.shown = r.query, !.loading = FALSE]
  <2>1. r.id = k.id
    BY <1>5 DEF isCurrent
  <2>2. k.loading /\ k.shown = Nothing /\ ~k.err /\ k.want = r.query
    BY <1>1, <1>2, <2>1 DEF Dated, Spins, Shows
  <2>3. hist' = [g EXCEPT !.chan = [g.chan EXCEPT ![c] = n]]
    BY <1>1, <1>2, <1>3, <1>5 DEF HistoryAnswer, runLocationRequest, Panel
  <2>4. n \in Channel /\ n.id = k.id /\ n.want = k.want /\ ~n.loading
        /\ n.shown = IF n.err THEN Nothing ELSE n.want
    <3>1. CASE Rejects(o)
      BY <1>2, <2>2, <3>1 DEF Channel
    <3>2. CASE ~Rejects(o)
      BY <1>2, <2>2, <3>2 DEF Channel
    <3> QED BY <3>1, <3>2
  <2> HIDE DEF n, g
  <2>5. /\ hist' \in Panel /\ hist'.reqs = hist.reqs \ {r}
        /\ hist'.chan[c] = n /\ \A d \in Chans \ {c} : hist'.chan[d] = hist.chan[d]
        /\ hist'.range = hist.range /\ hist'.mounted = hist.mounted
        /\ hist'.detective = hist.detective
        /\ hist'.typed = hist.typed /\ hist'.drift = hist.drift
    BY <1>2, <1>3, <2>3, <2>4 DEF Panel
  <2>6. \A d \in Chans : hist'.chan[d].want = hist.chan[d].want
                         /\ hist'.chan[d].id = hist.chan[d].id
    BY <2>4, <2>5
  <2>7. Dated(hist')
    BY <1>1, <2>5, <2>6 DEF Dated, Panel
  <2>8. \A q \in hist'.reqs : ~(q.chan = c /\ q.id = k.id)
    <3> SUFFICES ASSUME NEW q \in hist.reqs, q.chan = c, q.id = k.id
                 PROVE  q = r
      BY <2>5
    <3>1. q = [chan |-> q.chan, id |-> q.id, query |-> q.query]
      BY <1>1 DEF Panel
    <3>2. q.query = k.want
      BY <1>1 DEF Dated
    <3> QED BY <1>2, <2>1, <2>2, <3>1, <3>2
  <2>9. Spins(hist')
    <3> SUFFICES ASSUME NEW d \in Chans
                 PROVE  hist'.chan[d].loading <=>
                           \E q \in hist'.reqs : q.chan = d /\ q.id = hist'.chan[d].id
      BY DEF Spins
    <3>1. CASE d = c
      BY <2>4, <2>5, <2>8, <3>1
    <3>2. CASE d # c
      <4>1. hist.chan[d].loading <=> \E q \in hist.reqs : q.chan = d /\ q.id = hist.chan[d].id
        BY <1>1 DEF Spins
      <4> QED BY <2>5, <3>2, <4>1
    <3> QED BY <3>1, <3>2
  <2>10. Shows(hist')
    <3> SUFFICES ASSUME NEW d \in Chans
                 PROVE  LET x == hist'.chan[d]
                        IN  /\ x.loading => x.shown = Nothing /\ ~x.err
                            /\ ~x.loading => x.shown = IF x.err THEN Nothing ELSE x.want
      BY DEF Shows
    <3>1. CASE d = c
      BY <2>4, <2>5, <3>1
    <3>2. CASE d # c
      BY <1>1, <2>5, <3>2 DEF Shows
    <3> QED BY <3>1, <3>2
  <2>11. Agrees(hist')
    BY <1>1, <2>5, <2>6 DEF Agrees, Chans
  <2> QED BY <2>5, <2>7, <2>9, <2>10, <2>11 DEF PanelOK, Channels
<1> QED BY <1>4, <1>5

\* The invariant gives the property.
LEMMA PanelShowsLatest ==
    ASSUME PanelOK(hist)
    PROVE  HistoryIsLatest
<1>1. /\ "history" \in Chans /\ "route" \in Chans
      /\ Spins(hist) /\ Shows(hist) /\ Agrees(hist)
  BY DEF PanelOK, Channels, Chans
<1>2. ASSUME NEW c \in Chans
      PROVE  /\ hist.chan[c].loading <=> \E r \in hist.reqs : r.chan = c /\ r.id = hist.chan[c].id
             /\ ~hist.chan[c].loading =>
                   hist.chan[c].shown = IF hist.chan[c].err THEN Nothing ELSE hist.chan[c].want
  BY <1>1 DEF Spins, Shows
<1>3. ASSUME ~hist.drift, hist.detective, \A c \in Chans : hist.chan[c].shown # Nothing
      PROVE  routePath(hist).window = hist.chan["history"].shown.window
  <2>1. \A c \in Chans : hist.chan[c].shown = hist.chan[c].want
    BY <1>1, <1>3 DEF Shows
  <2>2. routePath(hist) = hist.chan["route"].shown
    BY <1>1, <1>3 DEF routePath
  <2> QED BY <1>1, <1>3, <2>1, <2>2 DEF Agrees
<1> QED BY <1>2, <1>3 DEF HistoryIsLatest

(***************************************************************************)
(* DeviceDetail: the page and its guest links                              *)
(***************************************************************************)

\* The device page on its own, as the pages' run composes it with the others.
PageSpec == DetailInit /\ spent = Unspent /\ [][DetailNext]_pageVars

---------------------------------------------------------------------------
(* The page renders the panel, hides it or keeps it                        *)

\* A render keeps the panel, unmounts it or mounts a new one.
LEMMA RendersPanel ==
    ASSUME PanelOK(hist), NEW d, NEW s, Render(d, s)
    PROVE  PanelOK(hist')
BY PanelStarts DEF Render

\* Every step of the page keeps the panel's invariant.
LEMMA StepsKeepPanel ==
    ASSUME PanelOK(hist), [DetailNext]_pageVars
    PROVE  PanelOK(hist')
<1>1. CASE SyncFromUrl
  BY <1>1, RendersPanel DEF SyncFromUrl
<1>2. CASE DetailGesture
  BY <1>2, RendersPanel
     DEF DetailGesture, handleViewChange, PopState, Reload, goBack, CloseModal, ConfirmModal,
         OpenShare, createLink, CloseShare, revokeLink, OpenModal, AskRevoke, handleInvite, Confirm
<1>3. ASSUME NEW op \in det.ops, NEW o \in Outcomes, DeviceAnswer(op, o)
      PROVE  PanelOK(hist')
  BY <1>3, RendersPanel DEF DeviceAnswer
<1>4. ASSUME NEW r \in share.reqs, NEW o \in Outcomes, ServeShare(r, o)
      PROVE  PanelOK(hist')
  BY <1>4 DEF ServeShare
<1>5. ASSUME NEW r \in share.reqs, ShareAnswer(r)
      PROVE  PanelOK(hist')
  BY <1>5, RendersPanel DEF ShareAnswer
<1>6. CASE HistoryGesture
  BY <1>6, GesturesKeep
<1>7. ASSUME NEW r \in hist.reqs, NEW o \in Outcomes, HistoryAnswer(r, o)
      PROVE  PanelOK(hist')
  BY <1>7, AnswersKeep
<1>8. CASE UNCHANGED pageVars
  BY <1>8 DEF pageVars
<1> QED
  BY <1>1, <1>2, <1>3, <1>4, <1>5, <1>6, <1>7, <1>8 DEF DetailNext

\* The history panel shows what was asked for last, or the error of that very
\* request, and its spinners follow the requests (locationService.ts), on the
\* device page as a whole: however many loads overlap, in whatever order they
\* are answered, and whenever the placeholder unmounts the panel.
THEOREM HistoryShowsLatest == PageSpec => []HistoryIsLatest
<1>1. DetailInit => PanelOK(hist)
  BY PanelStarts DEF DetailInit
<1>2. PanelOK(hist) /\ [DetailNext]_pageVars => PanelOK(hist)'
  BY StepsKeepPanel
<1>3. PanelOK(hist) => HistoryIsLatest
  BY PanelShowsLatest
<1> QED
  BY <1>1, <1>2, <1>3, PTL DEF PageSpec

---------------------------------------------------------------------------
(* The device and its operations                                           *)

Someone == Others \cup {CHOOSE u \in Others : TRUE}
Titles == Names \cup {"none", CHOOSE x \in Names : TRUE}
Device == [name : Titles, users : SUBSET Someone]
Ops == [kind : {"get", "update", "delete", "grant", "revoke"},
        arg : Someone \cup Titles \cup {""}, then : {"nothing", "close"}]
Details ==
    [id : BOOLEAN, loading : BOOLEAN, ops : SUBSET Ops, device : Device,
     view : {"overview", "history"}, opened : BOOLEAN, modal : Modals,
     target : Someone, left : BOOLEAN, lost : BOOLEAN]
Backend == [exists : BOOLEAN, name : Titles, users : SUBSET Someone, links : SUBSET Nat, last : Nat]

ShareKinds == {"list", "create", "revoke"}
ShareReqs == [n : Nat, kind : ShareKinds, guard : Nat, link : Nat, alone : BOOLEAN, gone : BOOLEAN,
              state : Outcomes \cup {"sent"}, got : SUBSET Nat]
Sharing == [links : SUBSET Nat, created : Nat, loading : BOOLEAN, saving : BOOLEAN,
            err : BOOLEAN, opening : Nat, n : Nat, reqs : SUBSET ShareReqs, doubt : BOOLEAN]

\* One operation is out while the flag is up, and none before the URL was read.
OneOp(d) ==
    /\ d.loading => \E op \in Ops : d.ops = {op}
    /\ ~d.loading => d.ops = {}
    /\ ~d.id => ~d.loading

\* A read has emptied the page's device; an edit was sent for one that is shown,
\* and its argument is a name.
Fits(d, op) ==
    /\ op.kind = "get" => d.device = NoDevice
    /\ op.kind = "update" => d.device # NoDevice /\ op.arg \in Titles
    /\ op.kind \in {"grant", "revoke"} => op.arg \in Someone

Shown(w) == [name |-> w.name, users |-> w.users]
Follows(d, w) == (d.device # NoDevice /\ ~d.lost) => d.device = Shown(w)

PageOK(d, w) ==
    /\ d \in Details
    /\ w \in Backend
    /\ OneOp(d)
    /\ \A op \in d.ops : Fits(d, op)
    /\ Follows(d, w)

\* The missing device has a device's type.
LEMMA NoDeviceType == NoDevice \in Device
BY DEF NoDevice, Device, Titles

\* Views, modals and the exit leave the device and its operations alone.
LEMMA KeepsPage ==
    ASSUME NEW d, NEW w, PageOK(d, w), NEW e \in Details,
           e.loading = d.loading, e.ops = d.ops, e.device = d.device, e.lost = d.lost,
           e.id = d.id
    PROVE  PageOK(e, w)
BY DEF PageOK, OneOp, Fits, Follows

\* An operation that starts while none is out.
LEMMA Calls ==
    ASSUME NEW d, NEW w, PageOK(d, w), ~d.loading, d.id, NEW op \in Ops, Fits(d, op)
    PROVE  PageOK(Call(d, op), w)
<1> DEFINE e == Call(d, op)
<1>1. d \in Details /\ d.ops = {} /\ w \in Backend /\ Follows(d, w)
  BY DEF PageOK, OneOp
<1>2. /\ e \in Details /\ e.ops = {op} /\ e.loading = TRUE /\ e.device = d.device
      /\ e.lost = d.lost /\ e.id = d.id
  BY <1>1 DEF Call, Details
<1> HIDE DEF e
<1>3. OneOp(e)
  BY <1>2 DEF OneOp
<1>4. \A x \in e.ops : Fits(e, x)
  BY <1>2 DEF Fits
<1>5. Follows(e, w)
  BY <1>1, <1>2 DEF Follows
<1>6. PageOK(e, w)
  BY <1>1, <1>2, <1>3, <1>4, <1>5 DEF PageOK
<1> QED BY <1>6 DEF e

\* Reading the device anew empties it first.
LEMMA Reads ==
    ASSUME NEW d \in Details, NEW w \in Backend, d.ops = {}, d.id,
           NEW then \in {"nothing", "close"}
    PROVE  PageOK(getDeviceById(d, then), w)
<1> DEFINE e == getDeviceById(d, then)
           op == [kind |-> "get", arg |-> "", then |-> then]
<1>1. op \in Ops /\ op.kind = "get"
  BY DEF Ops
<1>2. /\ e \in Details /\ e.ops = {op} /\ e.loading = TRUE /\ e.device = NoDevice
      /\ e.id = d.id
  BY <1>1, NoDeviceType DEF getDeviceById, Call, Details
<1> HIDE DEF e, op
<1>3. OneOp(e)
  BY <1>1, <1>2 DEF OneOp
<1>4. (\A x \in e.ops : Fits(e, x)) /\ Follows(e, w)
  BY <1>1, <1>2 DEF Fits, Follows
<1>5. PageOK(e, w)
  BY <1>2, <1>3, <1>4 DEF PageOK
<1> QED BY <1>5 DEF e

\* The end of an operation: none is out, and the device is as it was.
LEMMA Ends ==
    ASSUME NEW d, NEW w, PageOK(d, w), NEW op \in d.ops
    PROVE  LET e == Ended(d, op)
           IN  /\ e \in Details /\ e.ops = {} /\ e.loading = FALSE
               /\ e.device = d.device /\ e.lost = d.lost /\ e.id = d.id /\ d.id
BY DEF PageOK, OneOp, Details, Ended

\* A page without operations is as it should be if it follows the backend.
LEMMA Rests ==
    ASSUME NEW d \in Details, NEW w \in Backend, d.ops = {}, d.loading = FALSE, Follows(d, w)
    PROVE  PageOK(d, w)
BY DEF PageOK, OneOp

\* What the backend does keeps it well formed.
LEMMA DoneType ==
    ASSUME owned \in Backend, NEW d, NEW op \in Ops, Fits(d, op)
    PROVE  Done(op) \in Backend /\ (op.kind = "get" => Done(op) = owned)
<1>1. CASE op.kind = "get"
  BY <1>1 DEF Done
<1>2. CASE op.kind = "update"
  BY <1>2 DEF Done, Backend, Fits
<1>3. CASE op.kind = "delete"
  BY <1>3 DEF Done, Backend
<1>4. CASE op.kind = "grant"
  BY <1>4 DEF Done, Backend, Fits
<1>5. CASE op.kind = "revoke"
  BY <1>5 DEF Done, Backend, Fits
<1> QED BY <1>1, <1>2, <1>3, <1>4, <1>5 DEF Ops

\* An answer: the device is emptied, read anew or changed as on the backend, or
\* the ghost says that it may differ.
LEMMA DeviceAnswersKeep ==
    ASSUME PageOK(det, owned), NEW op \in det.ops, NEW o \in Outcomes, DeviceAnswer(op, o)
    PROVE  PageOK(det', owned')
<1> DEFINE b == Ended(det, op)
           f == Finish(det, op, o)
           miss == op.kind # "get" /\ o = "network"
<1>1. det \in Details /\ owned \in Backend /\ op \in Ops /\ Fits(det, op) /\ det.ops = {op}
      /\ Follows(det, owned)
  BY DEF PageOK, OneOp, Details
<1>2. det' = [f EXCEPT !.lost = @ \/ miss]
  BY DEF DeviceAnswer, Render
<1>3. /\ b \in Details /\ b.ops = {} /\ b.loading = FALSE /\ b.device = det.device
      /\ b.lost = det.lost /\ b.id = det.id /\ det.id
  BY Ends
<1>4. /\ owned' \in {owned, Done(op)} /\ (o = "refused" => owned' = owned)
      /\ o = "ok" => owned.exists /\ owned' = Done(op)
  BY <1>1 DEF DeviceAnswer, Written, Outcomes, Possible
<1>5. owned' \in Backend /\ (op.kind = "get" => owned' = owned)
  BY <1>1, <1>4, DoneType
<1>6. CASE o = "network"
  <2>1. f = b
    BY <1>6 DEF Finish, GotDevice, DeviceUpdated, DeviceDeleted, AccessChanged, Rejects, Throws
  <2> HIDE DEF b, f
  <2>2. /\ det' \in Details /\ det'.ops = {} /\ det'.loading = FALSE
        /\ det'.device = det.device /\ (op.kind # "get" => det'.lost)
    BY <1>2, <1>3, <1>6, <2>1 DEF Details
  <2>3. Follows(det', owned')
    BY <1>1, <2>2 DEF Follows, Fits
  <2> QED BY <1>5, <2>2, <2>3, Rests
<1>7. CASE o # "network"
  <2>1. PageOK(f, owned')
    <3>1. CASE op.kind = "get"
      <4>1. f = IF o = "ok" THEN [b EXCEPT !.device = Shown(owned), !.lost = FALSE,
                                           !.modal = IF op.then = "close" THEN "none" ELSE @]
                ELSE b
        BY <3>1, <1>7 DEF Finish, GotDevice, Rejects, Throws, HasData, Shown, Outcomes
      <4>2. Shown(owned) \in Device
        BY <1>1 DEF Shown, Device, Backend
      <4> HIDE DEF b, f
      <4>3. CASE o = "ok"
        <5>1. /\ f \in Details /\ f.ops = {} /\ f.loading = FALSE /\ f.device = Shown(owned)
          BY <1>3, <4>1, <4>2, <4>3 DEF Details, Modals
        <5>2. Follows(f, owned')
          BY <1>5, <3>1, <5>1 DEF Follows
        <5> QED BY <1>5, <5>1, <5>2, Rests
      <4>4. CASE o # "ok"
        <5>1. Follows(b, owned')
          BY <1>1, <1>3, <3>1 DEF Follows, Fits
        <5> QED BY <1>3, <1>5, <4>1, <4>4, <5>1, Rests
      <4> QED BY <4>3, <4>4
    <3>2. CASE op.kind = "update"
      <4>1. f = IF o = "ok" THEN [b EXCEPT !.device = [b.device EXCEPT !.name = op.arg],
                                           !.modal = "none"]
                ELSE b
        BY <3>2, <1>7, <1>3 DEF Finish, DeviceUpdated, Rejects, Throws, HasData, Outcomes, Details
      <4>2. op.arg \in Titles
        BY <1>1, <3>2 DEF Fits
      <4> HIDE DEF b, f
      <4>3. CASE o = "ok"
        <5>1. owned' = [owned EXCEPT !.name = op.arg]
          BY <1>4, <3>2, <4>3 DEF Done
        <5>2. Shown(owned') = [name |-> op.arg, users |-> owned.users]
          BY <1>1, <5>1 DEF Shown, Backend
        <5>3. /\ f \in Details /\ f.ops = {} /\ f.loading = FALSE /\ f.lost = det.lost
              /\ f.device = [name |-> op.arg, users |-> det.device.users]
          BY <1>1, <1>3, <4>1, <4>2, <4>3 DEF Details, Device, Modals
        <5>4. ~det.lost => det.device = Shown(owned)
          BY <1>1, <3>2 DEF Follows, Fits
        <5>5. Follows(f, owned')
          BY <5>2, <5>3, <5>4 DEF Follows, Shown
        <5> QED BY <1>5, <5>3, <5>5, Rests
      <4>4. CASE o # "ok"
        <5>1. owned' = owned
          BY <1>4, <1>7, <4>4 DEF Outcomes
        <5>2. Follows(b, owned')
          BY <1>1, <1>3, <5>1 DEF Follows
        <5> QED BY <1>3, <1>5, <4>1, <4>4, <5>2, Rests
      <4> QED BY <4>3, <4>4
    <3>3. CASE op.kind = "delete"
      <4>1. f = [b EXCEPT !.device = NoDevice, !.left = TRUE]
        BY <3>3, <1>7 DEF Finish, DeviceDeleted, Throws
      <4> HIDE DEF b, f
      <4>2. f \in Details /\ f.ops = {} /\ f.loading = FALSE /\ f.device = NoDevice
        BY <1>3, <4>1, NoDeviceType DEF Details
      <4> QED BY <1>5, <4>2, Rests DEF Follows
    <3>4. CASE op.kind \in {"grant", "revoke"}
      <4> DEFINE e == [det EXCEPT !.ops = @ \ {op}]
      <4>1. f = getDeviceById(e, "close")
        BY <3>4, <1>7 DEF Finish, AccessChanged, Throws
      <4>2. e \in Details /\ e.ops = {} /\ e.id
        BY <1>1, <1>3 DEF Details
      <4> HIDE DEF e, f
      <4> QED BY <1>5, <4>1, <4>2, Reads
    <3> QED BY <1>1, <3>1, <3>2, <3>3, <3>4 DEF Ops
  <2> HIDE DEF b, f
  <2>2. f \in Details
    BY <2>1 DEF PageOK
  <2>3. /\ det' \in Details /\ det'.loading = f.loading /\ det'.ops = f.ops
        /\ det'.device = f.device /\ det'.lost = f.lost /\ det'.id = f.id
    BY <1>2, <1>7, <2>2 DEF Details
  <2> QED BY <2>1, <2>3, KeepsPage
<1> QED BY <1>6, <1>7

---------------------------------------------------------------------------
(* The guest links' modal, whose requests change no device                 *)

\* The modal's state as it is mounted.
LEMMA FreshShareType == FreshShare \in Sharing
BY DEF FreshShare, Sharing

\* The modal's state as it is unmounted.
LEMMA OrphanedType ==
    ASSUME NEW s \in Sharing
    PROVE  /\ Orphaned(s) \in Sharing /\ Orphaned(s).doubt = TRUE
           /\ Orphaned(s).reqs = {[r EXCEPT !.gone = TRUE] : r \in s.reqs}
<1> DEFINE old == {[r EXCEPT !.gone = TRUE] : r \in s.reqs}
           n == IF s.reqs = {} THEN 0 ELSE s.n
<1>1. old \in SUBSET ShareReqs
  <2> SUFFICES ASSUME NEW r \in s.reqs
               PROVE  [r EXCEPT !.gone = TRUE] \in ShareReqs
    OBVIOUS
  <2> QED BY ZenonT(40) DEF Sharing, ShareReqs
<1>2. n \in Nat
  BY DEF Sharing
<1>3. Orphaned(s) = [FreshShare EXCEPT !.n = n, !.reqs = old]
  BY DEF Orphaned
<1> HIDE DEF old, n
<1> QED BY <1>1, <1>2, <1>3, FreshShareType DEF FreshShare, Sharing, old

\* A request of the modal joins the others.
LEMMA AskType ==
    ASSUME NEW s \in Sharing, NEW kind \in ShareKinds, NEW guard \in Nat, NEW l \in Nat
    PROVE  Ask(s, kind, guard, l) \in Sharing
<1> DEFINE q == [n |-> s.n, kind |-> kind, guard |-> guard, link |-> l,
                 alone |-> s.reqs = {}, gone |-> FALSE, state |-> "sent", got |-> {}]
           old == {[r EXCEPT !.alone = FALSE] : r \in s.reqs}
<1>1. q \in ShareReqs
  BY DEF ShareReqs, Sharing
<1>2. old \subseteq ShareReqs
  <2> SUFFICES ASSUME NEW r \in s.reqs
               PROVE  [r EXCEPT !.alone = FALSE] \in ShareReqs
    OBVIOUS
  <2> QED BY ZenonT(40) DEF Sharing, ShareReqs
<1>3. Ask(s, kind, guard, l) =
        [s EXCEPT !.n = s.n + 1, !.doubt = s.doubt \/ s.reqs # {}, !.reqs = old \cup {q}]
  BY DEF Ask, Sharing
<1> HIDE DEF q, old
<1>4. s.n + 1 \in Nat /\ (s.doubt \/ s.reqs # {}) \in BOOLEAN /\ old \cup {q} \in SUBSET ShareReqs
  BY <1>1, <1>2 DEF Sharing
<1> QED BY <1>3, <1>4 DEF Sharing

\* The handlers of the modal's answers.
LEMMA AnswersTyped ==
    ASSUME NEW s \in Sharing, NEW r \in ShareReqs
    PROVE  LinkCreated(s, r) \in Sharing /\ LinksListed(s, r) \in Sharing /\ LinkRevoked(s, r) \in Sharing
<1>1. r.link \in Nat /\ r.got \in SUBSET Nat
  BY DEF ShareReqs
<1>2. LinkCreated(s, r) \in Sharing
  <2>1. CASE Rejects(r.state)
    BY <2>1 DEF LinkCreated, Sharing
  <2>2. CASE ~Rejects(r.state)
    <3> DEFINE u == [s EXCEPT !.created = r.link, !.saving = FALSE]
    <3>1. u \in Sharing
      BY <1>1 DEF Sharing
    <3>2. LinkCreated(s, r) = Ask(u, "list", 0, 0)
      BY <2>2 DEF LinkCreated
    <3> HIDE DEF u
    <3> QED BY <3>1, <3>2, AskType DEF ShareKinds
  <2> QED BY <2>1, <2>2
<1>3. LinksListed(s, r) \in Sharing
  <2>1. CASE ~Active(r)
    BY <2>1 DEF LinksListed
  <2>2. CASE Active(r) /\ Rejects(r.state)
    BY <2>2 DEF LinksListed, Sharing
  <2>3. CASE Active(r) /\ ~Rejects(r.state)
    BY <1>1, <2>3 DEF LinksListed, Sharing
  <2> QED BY <2>1, <2>2, <2>3
<1>4. LinkRevoked(s, r) \in Sharing
  BY DEF LinkRevoked, Sharing
<1> QED BY <1>2, <1>3, <1>4

\* The modal's answers change neither the page nor the backend.
LEMMA ShareAnswersKeep ==
    ASSUME share \in Sharing, NEW r \in share.reqs, ShareAnswer(r)
    PROVE  share' \in Sharing /\ det' = det /\ UNCHANGED owned
<1> DEFINE s == [share EXCEPT !.reqs = @ \ {r}, !.doubt = @ \/ r.state # "ok"]
           t == CASE r.gone -> s
                  [] ~r.gone /\ r.kind = "create" -> LinkCreated(s, r)
                  [] ~r.gone /\ r.kind = "list"   -> LinksListed(s, r)
                  [] ~r.gone /\ r.kind = "revoke" -> LinkRevoked(s, r)
<1>1. r \in ShareReqs /\ r.gone \in BOOLEAN /\ r.kind \in ShareKinds /\ r.link \in Nat /\ r.got \in SUBSET Nat
  BY DEF Sharing, ShareReqs
<1>2. s \in Sharing
  BY DEF Sharing
<1>3. Render(det, t) /\ UNCHANGED owned
  BY DEF ShareAnswer
<1> HIDE DEF s
<1>4. LinkCreated(s, r) \in Sharing /\ LinksListed(s, r) \in Sharing /\ LinkRevoked(s, r) \in Sharing
  BY <1>1, <1>2, AnswersTyped
<1>7. t \in Sharing
  BY <1>1, <1>2, <1>4 DEF ShareKinds
<1> QED BY <1>3, <1>7, OrphanedType DEF Render

\* The backend changes links, never the device's name or users.
LEMMA ServesKeep ==
    ASSUME share \in Sharing, owned \in Backend, NEW r \in share.reqs, NEW o \in Outcomes,
           ServeShare(r, o)
    PROVE  /\ share' \in Sharing /\ owned' \in Backend /\ UNCHANGED det
           /\ owned'.name = owned.name /\ owned'.users = owned.users
<1> DEFINE new  == owned.last + 1
           link == IF r.kind = "create" THEN new ELSE r.link
           done == CASE r.kind = "create" -> [owned EXCEPT !.links = @ \cup {new}, !.last = new]
                     [] r.kind = "revoke" -> [owned EXCEPT !.links = @ \ {r.link}]
                     [] r.kind = "list"   -> owned
           q == [r EXCEPT !.state = o, !.link = link, !.got = owned.links]
<1>1. r \in ShareReqs /\ r.kind \in ShareKinds /\ new \in Nat /\ link \in Nat
  BY DEF Sharing, ShareReqs, Backend
<1>2. /\ owned' \in Written(o, owned, done) /\ UNCHANGED det
      /\ share' = [share EXCEPT !.reqs = (@ \ {r}) \cup {q}]
  BY DEF ServeShare
<1>3. q \in ShareReqs
  BY <1>1 DEF ShareReqs, Backend
<1>4. done \in Backend /\ done.name = owned.name /\ done.users = owned.users
  <2>1. CASE r.kind = "create"
    BY <1>1, <2>1 DEF Backend
  <2>2. CASE r.kind = "revoke"
    BY <2>2 DEF Backend
  <2>3. CASE r.kind = "list"
    BY <2>3
  <2> QED BY <1>1, <2>1, <2>2, <2>3 DEF ShareKinds
<1> HIDE DEF done, q
<1>5. owned' \in {owned, done}
  BY <1>2 DEF Written, Outcomes
<1>6. share' \in Sharing
  BY <1>2, <1>3 DEF Sharing
<1> QED BY <1>2, <1>4, <1>5, <1>6

---------------------------------------------------------------------------
(* The page's steps                                                        *)

DetailInv == PageOK(det, owned) /\ share \in Sharing

\* A render of a good page.
LEMMA RendersPage ==
    ASSUME NEW d, NEW s \in Sharing, PageOK(d, owned), Render(d, s), UNCHANGED owned
    PROVE  DetailInv'
BY OrphanedType DEF DetailInv, Render

\* The modals' operations are sent for a device that is on the screen.
LEMMA SendsOp ==
    ASSUME DetailInv, UNCHANGED owned, Content(det),
           NEW op \in Ops, op.kind # "get", op.kind = "update" => op.arg \in Titles,
           op.kind \in {"grant", "revoke"} => op.arg \in Someone,
           Render(Call(det, op), share)
    PROVE  DetailInv'
<1>1. PageOK(det, owned) /\ share \in Sharing /\ ~det.loading /\ det.id /\ det.device # NoDevice
  BY DEF DetailInv, Content
<1>2. Fits(det, op)
  BY <1>1 DEF Fits
<1>3. PageOK(Call(det, op), owned)
  BY <1>1, <1>2, Calls
<1> QED BY <1>1, <1>3, RendersPage

\* One step per gesture of the page and of the modal.
LEMMA PageGesturesKeep ==
    ASSUME DetailInv, DetailGesture
    PROVE  DetailInv'
<1>1. PageOK(det, owned) /\ share \in Sharing /\ det \in Details /\ owned \in Backend
  BY DEF DetailInv, PageOK
<1>2. UNCHANGED owned
  BY DEF DetailGesture
<1>3. ASSUME NEW d \in Details, d.loading = det.loading, d.ops = det.ops, d.device = det.device,
             d.lost = det.lost, d.id = det.id, NEW s \in Sharing, Render(d, s)
      PROVE  DetailInv'
  BY <1>1, <1>2, <1>3, KeepsPage, RendersPage
<1>4. CASE handleViewChange
  <2> DEFINE d == [det EXCEPT !.view = IF @ = "history" THEN "overview" ELSE "history",
                              !.opened = TRUE]
  <2>1. /\ d \in Details /\ d.loading = det.loading /\ d.ops = det.ops /\ d.device = det.device
        /\ d.lost = det.lost /\ d.id = det.id
    BY <1>1 DEF Details
  <2>2. Render(d, share)
    BY <1>4 DEF handleViewChange
  <2> HIDE DEF d
  <2> QED BY <1>1, <1>3, <2>1, <2>2
<1>5. CASE PopState
  <2> DEFINE d == [det EXCEPT !.view = IF @ = "history" THEN "overview" ELSE "history"]
  <2>1. /\ d \in Details /\ d.loading = det.loading /\ d.ops = det.ops /\ d.device = det.device
        /\ d.lost = det.lost /\ d.id = det.id
    BY <1>1 DEF Details
  <2>2. Render(d, share)
    BY <1>5 DEF PopState
  <2> HIDE DEF d
  <2> QED BY <1>1, <1>3, <2>1, <2>2
<1>6. CASE Reload
  <2>1. det.ops = {} /\ det.id /\ Render(getDeviceById(det, "nothing"), share)
    BY <1>1, <1>6 DEF Reload, PageOK, OneOp
  <2>2. PageOK(getDeviceById(det, "nothing"), owned)
    BY <1>1, <2>1, Reads
  <2> QED BY <1>1, <1>2, <2>1, <2>2, RendersPage
<1>7. CASE goBack
  <2> DEFINE d == [det EXCEPT !.left = TRUE]
  <2>1. /\ d \in Details /\ d.loading = det.loading /\ d.ops = det.ops /\ d.device = det.device
        /\ d.lost = det.lost /\ d.id = det.id
    BY <1>1 DEF Details
  <2>2. Render(d, share)
    BY <1>7 DEF goBack
  <2> HIDE DEF d
  <2> QED BY <1>1, <1>3, <2>1, <2>2
<1>8. ASSUME NEW m \in Modals, NEW u \in Someone, NEW s \in Sharing,
             Render([det EXCEPT !.modal = m, !.target = u], s)
      PROVE  DetailInv'
  <2> DEFINE d == [det EXCEPT !.modal = m, !.target = u]
  <2>1. /\ d \in Details /\ d.loading = det.loading /\ d.ops = det.ops /\ d.device = det.device
        /\ d.lost = det.lost /\ d.id = det.id
    BY <1>1 DEF Details
  <2>2. Render(d, s)
    BY <1>8
  <2> HIDE DEF d
  <2> QED BY <1>3, <2>1, <2>2
<1>9. ASSUME NEW m \in Modals, NEW s \in Sharing, Render([det EXCEPT !.modal = m], s)
      PROVE  DetailInv'
  <2>1. [det EXCEPT !.modal = m] = [det EXCEPT !.modal = m, !.target = det.target]
        /\ det.target \in Someone
    BY <1>1 DEF Details
  <2> QED BY <1>8, <1>9, <2>1
<1>10. CASE CloseModal \/ \E m \in Modals : OpenModal(m)
  BY <1>1, <1>9, <1>10 DEF CloseModal, OpenModal, Modals
<1>11. ASSUME NEW u \in Others, AskRevoke(u)
       PROVE  DetailInv'
  BY <1>1, <1>8, <1>11 DEF AskRevoke, Modals, Someone
<1>12. CASE ConfirmModal
  <2>1. ASSUME NEW u \in Others, handleInvite(u)
        PROVE  DetailInv'
    <3>1. Op("grant", u) \in Ops /\ Op("grant", u).kind = "grant" /\ Op("grant", u).arg \in Someone
      BY DEF Op, Ops, Someone
    <3> QED BY <1>2, <2>1, <3>1, SendsOp DEF handleInvite
  <2>2. CASE Confirm(Op("revoke", det.target))
    <3>1. /\ Op("revoke", det.target) \in Ops /\ Op("revoke", det.target).kind = "revoke"
          /\ Op("revoke", det.target).arg \in Someone
      BY <1>1 DEF Op, Ops, Details
    <3> QED BY <1>2, <2>2, <3>1, SendsOp DEF Confirm
  <2>3. CASE Confirm(Op("delete", ""))
    <3>1. Op("delete", "") \in Ops /\ Op("delete", "").kind = "delete"
      BY DEF Op, Ops
    <3> QED BY <1>2, <2>3, <3>1, SendsOp DEF Confirm
  <2>4. ASSUME NEW x \in Names, Content(det), Render(Call(det, Op("update", x)), share)
        PROVE  DetailInv'
    <3>1. Op("update", x) \in Ops /\ Op("update", x).kind = "update" /\ Op("update", x).arg \in Titles
      BY DEF Op, Ops, Titles
    <3> QED BY <1>2, <2>4, <3>1, SendsOp
  <2> QED BY <1>12, <2>1, <2>2, <2>3, <2>4 DEF ConfirmModal
<1>13. CASE OpenShare
  <2> DEFINE s == [share EXCEPT !.opening = @ + 1, !.created = 0, !.err = FALSE, !.loading = TRUE]
  <2>0. share \in Sharing /\ share.opening + 1 \in Nat
    BY <1>1 DEF Sharing
  <2>1. s \in Sharing /\ s.opening \in Nat
    BY <2>0 DEF Sharing
  <2>2. Render([det EXCEPT !.modal = "guest"], Ask(s, "list", s.opening, 0))
    BY <1>13 DEF OpenShare
  <2> HIDE DEF s
  <2>3. Ask(s, "list", s.opening, 0) \in Sharing
    BY <2>1, AskType DEF ShareKinds
  <2> QED BY <1>9, <2>2, <2>3 DEF Modals
<1>14. CASE createLink
  <2> DEFINE s == [share EXCEPT !.saving = TRUE, !.err = FALSE, !.created = 0]
  <2>1. s \in Sharing
    BY <1>1 DEF Sharing
  <2>2. Render(det, Ask(s, "create", 0, 0))
    BY <1>14 DEF createLink
  <2> HIDE DEF s
  <2>3. Ask(s, "create", 0, 0) \in Sharing
    BY <2>1, AskType DEF ShareKinds
  <2> QED BY <1>1, <1>2, <2>2, <2>3, RendersPage
<1>15. ASSUME NEW l \in 1..MaxLinks, revokeLink(l)
       PROVE  DetailInv'
  <2> DEFINE s == [share EXCEPT !.err = FALSE]
  <2>1. s \in Sharing /\ l \in Nat
    BY <1>1, <1>15 DEF Sharing, revokeLink
  <2>2. Render(det, Ask(s, "revoke", 0, l))
    BY <1>15 DEF revokeLink
  <2> HIDE DEF s
  <2>3. Ask(s, "revoke", 0, l) \in Sharing
    BY <2>1, AskType DEF ShareKinds
  <2> QED BY <1>1, <1>2, <2>2, <2>3, RendersPage
<1>16. CASE CloseShare
  <2>1. [share EXCEPT !.created = 0] \in Sharing
    BY <1>1 DEF Sharing
  <2> QED BY <1>9, <1>16, <2>1 DEF CloseShare, Modals
<1> QED
  BY <1>4, <1>5, <1>6, <1>7, <1>10, <1>11, <1>12, <1>13, <1>14, <1>15, <1>16 DEF DetailGesture

\* Every step of the page keeps its invariant.
LEMMA StepsKeepPage ==
    ASSUME DetailInv, [DetailNext]_pageVars
    PROVE  DetailInv'
<1>1. PageOK(det, owned) /\ share \in Sharing /\ det \in Details /\ owned \in Backend
  BY DEF DetailInv, PageOK
<1>2. CASE SyncFromUrl
  <2>1. PICK v \in {"overview", "history"} :
           Render(getDeviceById([det EXCEPT !.id = TRUE, !.view = v,
                                            !.opened = (v = "history")], "nothing"), share)
    BY <1>2 DEF SyncFromUrl
  <2> DEFINE d == [det EXCEPT !.id = TRUE, !.view = v, !.opened = (v = "history")]
  <2>2. d \in Details /\ d.ops = {} /\ d.id
    BY <1>1, <1>2 DEF Details, PageOK, OneOp, SyncFromUrl
  <2> HIDE DEF d
  <2>3. PageOK(getDeviceById(d, "nothing"), owned)
    BY <1>1, <2>2, Reads
  <2>4. Render(getDeviceById(d, "nothing"), share) /\ UNCHANGED owned
    BY <1>2, <2>1 DEF SyncFromUrl, d
  <2> QED BY <1>1, <2>3, <2>4, RendersPage
<1>3. CASE DetailGesture
  BY <1>3, PageGesturesKeep
<1>4. ASSUME NEW op \in det.ops, NEW o \in Outcomes, DeviceAnswer(op, o)
      PROVE  DetailInv'
  <2>1. PageOK(det', owned')
    BY <1>1, <1>4, DeviceAnswersKeep
  <2>2. share' \in Sharing
    BY <1>1, <1>4, OrphanedType DEF DeviceAnswer, Render
  <2> QED BY <2>1, <2>2 DEF DetailInv
<1>5. ASSUME NEW r \in share.reqs, NEW o \in Outcomes, ServeShare(r, o)
      PROVE  DetailInv'
  <2>1. /\ share' \in Sharing /\ owned' \in Backend /\ det' = det
        /\ owned'.name = owned.name /\ owned'.users = owned.users
    BY <1>1, <1>5, ServesKeep
  <2>2. PageOK(det, owned')
    BY <1>1, <2>1 DEF PageOK, Follows, Shown
  <2> QED BY <2>1, <2>2 DEF DetailInv
<1>6. ASSUME NEW r \in share.reqs, ShareAnswer(r)
      PROVE  DetailInv'
  BY <1>1, <1>6, ShareAnswersKeep DEF DetailInv
<1>7. CASE UNCHANGED <<det, share, owned>>
  BY <1>1, <1>7 DEF DetailInv
<1> QED
  BY <1>2, <1>3, <1>4, <1>5, <1>6, <1>7 DEF DetailNext, pageVars

\* The page starts empty.
LEMMA PageStarts == DetailInit => DetailInv
<1> SUFFICES ASSUME DetailInit
             PROVE  PageOK(det, owned) /\ share \in Sharing
  BY DEF DetailInv
<1>1. det \in Details /\ det.ops = {} /\ det.loading = FALSE /\ det.device = NoDevice
  BY NoDeviceType DEF DetailInit, Details, Modals, Someone
<1>2. owned \in Backend
  BY DEF DetailInit, Backend, Titles
<1>3. share \in Sharing
  BY FreshShareType DEF DetailInit
<1> QED BY <1>1, <1>2, <1>3, Rests DEF Follows

\* The device page below its placeholder shows the backend's name and users
\* unless the answer to a write was lost, and the placeholder is up exactly
\* while one of the five operations is out (deviceService.ts).
THEOREM DetailFollows == PageSpec => []DetailFollowsServer
<1>1. DetailInit => DetailInv
  BY PageStarts
<1>2. DetailInv /\ [DetailNext]_pageVars => DetailInv'
  BY StepsKeepPage
<1>3. DetailInv => DetailFollowsServer
  <2> SUFFICES ASSUME PageOK(det, owned)
               PROVE  DetailFollowsServer
    BY DEF DetailInv
  <2>1. Cardinality(det.ops) = IF det.loading THEN 1 ELSE 0
    <3>1. CASE det.loading
      <4>1. PICK op \in Ops : det.ops = {op}
        BY <3>1 DEF PageOK, OneOp
      <4> QED BY <3>1, <4>1, FS_Singleton
    <3>2. CASE ~det.loading
      BY <3>2, FS_EmptySet DEF PageOK, OneOp
    <3> QED BY <3>1, <3>2
  <2>2. (Content(det) /\ ~det.lost) => det.device = [name |-> owned.name, users |-> owned.users]
    BY DEF PageOK, Follows, Content, Shown
  <2> QED BY <2>1, <2>2 DEF DetailFollowsServer
<1> QED
  BY <1>1, <1>2, <1>3, PTL DEF PageSpec

---------------------------------------------------------------------------
(* The list of guest links                                                 *)

\* What is known of the one request r that is out while there is no doubt, with
\* the rows s.links on the screen and the live links L.
RowsWith(s, r, L) ==
    CASE r.state = "sent" -> (r.kind = "list" /\ r.guard = 0) \/ s.links = L
      [] r.state = "ok" ->
            /\ r.kind = "revoke" => s.links \ {r.link} = L
            /\ (r.kind = "list" /\ r.guard # 0) => s.links = L
      [] OTHER -> TRUE

\* A request that overlapped none is the only one out, and a list among them
\* has the live links; without doubt there is at most such a request, and the
\* rows are the live links but for what its answer will do to them.
LinksOK(s, L) ==
    /\ \A r \in s.reqs : r.alone => /\ s.reqs = {r}
                                    /\ (r.kind = "list" /\ r.state = "ok") => r.got = L
    /\ ~s.doubt =>
        /\ s.reqs = {} => s.links = L
        /\ \A r \in s.reqs : r.alone /\ ~r.gone /\ RowsWith(s, r, L)

ShareLinksOK == LinksOK(share, owned.links)

\* Only the rows, the requests and the doubt matter.
LEMMA SameLinks ==
    ASSUME NEW s, NEW t, NEW L, LinksOK(s, L), t.links = s.links, t.reqs = s.reqs, t.doubt = s.doubt
    PROVE  LinksOK(t, L)
BY DEF LinksOK, RowsWith

\* The modal is unmounted: what is out stays out, and the list is in doubt.
LEMMA OrphansOK ==
    ASSUME NEW s \in Sharing, NEW L, LinksOK(s, L)
    PROVE  LinksOK(Orphaned(s), L)
<1> DEFINE t == Orphaned(s)
<1>1. t.doubt = TRUE /\ t.reqs = {[r EXCEPT !.gone = TRUE] : r \in s.reqs}
  BY OrphanedType
<1>2. ASSUME NEW q \in t.reqs, q.alone
      PROVE  t.reqs = {q} /\ ((q.kind = "list" /\ q.state = "ok") => q.got = L)
  <2>1. PICK r \in s.reqs : q = [r EXCEPT !.gone = TRUE]
    BY <1>1, <1>2
  <2>2. /\ r \in ShareReqs
        /\ q.alone = r.alone /\ q.kind = r.kind /\ q.state = r.state /\ q.got = r.got
    BY <2>1 DEF Sharing, ShareReqs
  <2>3. s.reqs = {r} /\ ((r.kind = "list" /\ r.state = "ok") => r.got = L)
    BY <1>2, <2>2 DEF LinksOK
  <2> HIDE DEF t
  <2> QED BY <1>1, <2>1, <2>2, <2>3
<1> HIDE DEF t
<1>3. LinksOK(t, L)
  BY <1>1, <1>2 DEF LinksOK
<1> QED BY <1>3 DEF t

\* A request that is sent: alone if nothing was out, in doubt otherwise.
LEMMA AskOK ==
    ASSUME NEW s \in Sharing, NEW L, NEW kind \in ShareKinds, NEW guard \in Nat, NEW l \in Nat,
           ~s.doubt /\ s.reqs = {} => s.links = L \/ (kind = "list" /\ guard = 0)
    PROVE  LinksOK(Ask(s, kind, guard, l), L)
<1> DEFINE t == Ask(s, kind, guard, l)
           q == [n |-> s.n, kind |-> kind, guard |-> guard, link |-> l,
                 alone |-> s.reqs = {}, gone |-> FALSE, state |-> "sent", got |-> {}]
           old == {[r EXCEPT !.alone = FALSE] : r \in s.reqs}
<1>1. t = [s EXCEPT !.n = s.n + 1, !.doubt = s.doubt \/ s.reqs # {}, !.reqs = old \cup {q}]
  BY DEF Ask, Sharing
<1>2. \A r \in old : ~r.alone
  <2> SUFFICES ASSUME NEW r \in s.reqs
               PROVE  ~[r EXCEPT !.alone = FALSE].alone
    OBVIOUS
  <2> QED BY DEF Sharing, ShareReqs
<1>3. s.reqs = {} => old = {}
  OBVIOUS
<1>4. /\ q.alone <=> s.reqs = {}
      /\ q.state = "sent" /\ q.kind = kind /\ q.guard = guard /\ ~q.gone
  OBVIOUS
<1> HIDE DEF old, q, t
<1>5. t.links = s.links /\ t.reqs = old \cup {q} /\ (t.doubt <=> s.doubt \/ s.reqs # {})
  BY <1>1 DEF Sharing
<1>6. \A r \in t.reqs : r.alone => r = q /\ t.reqs = {q}
  BY <1>2, <1>3, <1>4, <1>5
<1>7. ASSUME ~t.doubt, NEW r \in t.reqs
      PROVE  r.alone /\ ~r.gone /\ RowsWith(t, r, L)
  <2>1. s.reqs = {} /\ ~s.doubt /\ r = q
    BY <1>3, <1>5, <1>7
  <2> QED BY <1>4, <1>5, <2>1 DEF RowsWith
<1>8. LinksOK(t, L)
  BY <1>4, <1>5, <1>6, <1>7 DEF LinksOK
<1> QED BY <1>8 DEF t

\* The backend handles a request: an undoubted one meets rows that differ from
\* the live links at most by what it did.
LEMMA ServeOK ==
    ASSUME DetailInv, ShareLinksOK, NEW r \in share.reqs, NEW o \in Outcomes, ServeShare(r, o)
    PROVE  ShareLinksOK'
<1> DEFINE new  == owned.last + 1
           link == IF r.kind = "create" THEN new ELSE r.link
           done == CASE r.kind = "create" -> [owned EXCEPT !.links = @ \cup {new}, !.last = new]
                     [] r.kind = "revoke" -> [owned EXCEPT !.links = @ \ {r.link}]
                     [] r.kind = "list"   -> owned
           q == [r EXCEPT !.state = o, !.link = link, !.got = owned.links]
<1>1. /\ share \in Sharing /\ owned \in Backend /\ r \in ShareReqs /\ r.kind \in ShareKinds
      /\ r.state = "sent"
  BY DEF DetailInv, PageOK, Sharing, ShareReqs, ServeShare
<1>2. /\ owned' \in Written(o, owned, done)
      /\ share' = [share EXCEPT !.reqs = (@ \ {r}) \cup {q}]
  BY DEF ServeShare
<1>3. /\ q.kind = r.kind /\ q.guard = r.guard /\ q.alone = r.alone /\ q.gone = r.gone
      /\ q.state = o /\ q.got = owned.links
      /\ r.kind # "create" => q.link = r.link
  BY <1>1 DEF ShareReqs
<1>4. /\ r.kind = "list" => done = owned
      /\ r.kind = "revoke" => done.links = owned.links \ {r.link}
  BY <1>1 DEF Backend
<1> HIDE DEF done, q, link, new
<1>5. /\ o = "ok" => owned' = done
      /\ r.kind = "list" => owned' = owned
  BY <1>2, <1>4 DEF Written, Outcomes
<1>6. /\ share'.links = share.links /\ share'.doubt = share.doubt
      /\ share'.reqs = (share.reqs \ {r}) \cup {q}
  BY <1>1, <1>2 DEF Sharing
<1>7. \A x \in share.reqs : x.alone => share.reqs = {x}
  BY DEF ShareLinksOK, LinksOK
<1>8. ASSUME NEW x \in share'.reqs, x.alone
      PROVE  /\ x = q /\ share'.reqs = {x}
             /\ (x.kind = "list" /\ x.state = "ok") => x.got = owned'.links
  <2>1. x = q /\ share.reqs = {r}
    BY <1>3, <1>6, <1>7, <1>8
  <2> QED BY <1>3, <1>5, <1>6, <2>1
<1>9. ASSUME ~share'.doubt, NEW x \in share'.reqs
      PROVE  x.alone /\ ~x.gone /\ RowsWith(share', x, owned'.links)
  <2>1. /\ r.alone /\ ~r.gone /\ RowsWith(share, r, owned.links)
        /\ \A y \in share.reqs : y.alone
    BY <1>6, <1>9 DEF ShareLinksOK, LinksOK
  <2>2. x = q /\ x.alone /\ ~x.gone
    BY <1>3, <1>6, <1>7, <2>1
  <2>3. (r.kind = "list" /\ r.guard = 0) \/ share.links = owned.links
    BY <1>1, <2>1 DEF RowsWith
  <2>4. o = "ok" => /\ r.kind = "revoke" => share.links \ {r.link} = owned'.links
                    /\ (r.kind = "list" /\ r.guard # 0) => share.links = owned'.links
    BY <1>4, <1>5, <2>3
  <2>5. o # "sent"
    BY DEF Outcomes
  <2>6. RowsWith(share', x, owned'.links)
    BY <1>3, <1>6, <2>2, <2>4, <2>5 DEF RowsWith
  <2> QED BY <2>2, <2>6
<1>10. share'.reqs # {}
  BY <1>6
<1> QED
  BY <1>8, <1>9, <1>10 DEF ShareLinksOK, LinksOK

\* The modal takes an answer: only a list that was read alone ends the doubt.
LEMMA AnswerOK ==
    ASSUME DetailInv, ShareLinksOK, NEW r \in share.reqs, ShareAnswer(r)
    PROVE  ShareLinksOK'
<1> DEFINE L == owned.links
           s == [share EXCEPT !.reqs = @ \ {r}, !.doubt = @ \/ r.state # "ok"]
           t == CASE r.gone -> s
                  [] ~r.gone /\ r.kind = "create" -> LinkCreated(s, r)
                  [] ~r.gone /\ r.kind = "list"   -> LinksListed(s, r)
                  [] ~r.gone /\ r.kind = "revoke" -> LinkRevoked(s, r)
<1>1. /\ share \in Sharing /\ r \in ShareReqs /\ r.kind \in ShareKinds /\ r.gone \in BOOLEAN
      /\ r.state \in Outcomes /\ r.link \in Nat /\ LinksOK(share, L)
  BY DEF DetailInv, Sharing, ShareReqs, ShareAnswer, ShareLinksOK
<1>2. Render(det, t) /\ owned' = owned
  BY DEF ShareAnswer
<1>3. /\ s \in Sharing /\ s.links = share.links /\ s.reqs = share.reqs \ {r}
      /\ s.doubt <=> share.doubt \/ r.state # "ok"
  BY <1>1 DEF Sharing
<1> HIDE DEF s, L
<1>4. r.alone => s.reqs = {}
  BY <1>1, <1>3 DEF LinksOK
<1>5. ~s.doubt => /\ s.reqs = {} /\ r.state = "ok" /\ r.alone /\ ~r.gone
                  /\ RowsWith(share, r, L)
  BY <1>1, <1>3, <1>4 DEF LinksOK
<1>6. ASSUME NEW x \in s.reqs PROVE ~x.alone
  BY <1>1, <1>3, <1>6 DEF LinksOK
<1>7. ASSUME NEW u, u.reqs = s.reqs, ~u.doubt => s.reqs = {} /\ u.links = L
      PROVE  LinksOK(u, L)
  BY <1>6, <1>7 DEF LinksOK
<1>8. /\ r.gone => t = s
      /\ ~r.gone /\ r.kind = "create" => t = LinkCreated(s, r)
      /\ ~r.gone /\ r.kind = "list" => t = LinksListed(s, r)
      /\ ~r.gone /\ r.kind = "revoke" => t = LinkRevoked(s, r)
  BY <1>1
<1>9. t \in Sharing
  BY <1>1, <1>3, <1>8, AnswersTyped DEF ShareKinds
<1>10. share' \in {t, Orphaned(t)}
  BY <1>2 DEF Render
<1> HIDE DEF t
<1>11. LinksOK(t, L)
  <2>1. CASE r.gone
    BY <1>5, <1>7, <2>1, <1>8
  <2>2. CASE ~r.gone /\ r.kind = "create"
    <3>1. t = LinkCreated(s, r)
      BY <2>2, <1>8
    <3>2. CASE Rejects(r.state)
      <4>1. t.reqs = s.reqs /\ t.doubt = s.doubt
        BY <1>3, <3>1, <3>2 DEF LinkCreated, Sharing
      <4>2. s.doubt
        BY <1>3, <3>2 DEF Rejects, Throws, HasData
      <4> QED BY <1>7, <4>1, <4>2
    <3>3. CASE ~Rejects(r.state)
      <4> DEFINE u == [s EXCEPT !.created = r.link, !.saving = FALSE]
      <4>1. u \in Sharing
        BY <1>1, <1>3 DEF Sharing
      <4>2. t = Ask(u, "list", 0, 0)
        BY <3>1, <3>3 DEF LinkCreated
      <4> HIDE DEF u
      <4> QED BY <4>1, <4>2, AskOK DEF ShareKinds
    <3> QED BY <3>2, <3>3
  <2>3. CASE ~r.gone /\ r.kind = "list"
    <3>1. t = LinksListed(s, r)
      BY <2>3, <1>8
    <3>2. CASE ~Active(r)
      <4>1. t = s /\ r.guard # 0
        BY <3>1, <3>2 DEF LinksListed, Active
      <4>2. ~s.doubt => s.reqs = {} /\ s.links = L
        BY <1>3, <1>5, <2>3, <4>1 DEF RowsWith
      <4> QED BY <1>7, <4>1, <4>2
    <3>3. CASE Active(r) /\ Rejects(r.state)
      <4>1. t.reqs = s.reqs /\ t.doubt = s.doubt
        BY <1>3, <3>1, <3>3 DEF LinksListed, Sharing
      <4>2. s.doubt
        BY <1>3, <3>3 DEF Rejects, Throws, HasData
      <4> QED BY <1>7, <4>1, <4>2
    <3>4. CASE Active(r) /\ ~Rejects(r.state)
      <4>1. /\ t.reqs = s.reqs /\ t.links = r.got
            /\ t.doubt = IF r.alone THEN FALSE ELSE s.doubt
        BY <1>3, <3>1, <3>4 DEF LinksListed, Sharing
      <4>2. r.state = "ok"
        BY <1>1, <3>4 DEF Rejects, Throws, HasData
      <4>3. r.alone => r.got = L
        BY <1>1, <2>3, <4>2 DEF LinksOK
      <4>4. ~t.doubt => s.reqs = {} /\ t.links = L
        <5>1. CASE r.alone
          BY <1>4, <4>1, <4>3, <5>1
        <5>2. CASE ~r.alone
          BY <1>5, <4>1, <5>2
        <5> QED BY <5>1, <5>2
      <4> QED BY <1>7, <4>1, <4>4
    <3> QED BY <3>2, <3>3, <3>4
  <2>4. CASE ~r.gone /\ r.kind = "revoke"
    <3>1. t = LinkRevoked(s, r)
      BY <2>4, <1>8
    <3>2. /\ t.reqs = s.reqs /\ t.doubt = s.doubt
          /\ ~Throws(r.state) => t.links = s.links \ {r.link}
      BY <1>3, <3>1 DEF LinkRevoked, Sharing
    <3>3. ~s.doubt => s.links \ {r.link} = L /\ ~Throws(r.state)
      BY <1>3, <1>5, <2>4 DEF RowsWith, Throws
    <3> QED BY <1>5, <1>7, <3>2, <3>3
  <2> QED BY <1>1, <2>1, <2>2, <2>3, <2>4 DEF ShareKinds
<1> QED
  BY <1>2, <1>9, <1>10, <1>11, OrphansOK DEF ShareLinksOK, L

\* A render with the modal's rows and requests as they were.
LEMMA RenderOK ==
    ASSUME NEW d, NEW t \in Sharing, LinksOK(t, owned.links), Render(d, t), owned'.links = owned.links
    PROVE  ShareLinksOK'
BY OrphansOK DEF Render, ShareLinksOK

\* Every step keeps the rows in agreement with the live links.
LEMMA StepsKeepLinks ==
    ASSUME DetailInv, ShareLinksOK, [DetailNext]_pageVars
    PROVE  ShareLinksOK'
<1>0. share \in Sharing /\ LinksOK(share, owned.links) /\ PageOK(det, owned) /\ owned \in Backend
  BY DEF DetailInv, ShareLinksOK, PageOK
<1>1. CASE SyncFromUrl
  BY <1>0, <1>1, RenderOK DEF SyncFromUrl
<1>2. CASE DetailGesture
  <2>0. owned' = owned
    BY <1>2 DEF DetailGesture
  <2>1. CASE \/ handleViewChange \/ PopState \/ Reload \/ goBack \/ CloseModal \/ ConfirmModal
             \/ (\E m \in Modals : OpenModal(m)) \/ (\E u \in Others : AskRevoke(u))
    <3>1. \E d : Render(d, share)
      BY <2>1 DEF handleViewChange, PopState, Reload, goBack, CloseModal, ConfirmModal, OpenModal,
                  AskRevoke, handleInvite, Confirm
    <3> QED BY <1>0, <2>0, <3>1, RenderOK
  <2>2. CASE OpenShare
    <3> DEFINE s == [share EXCEPT !.opening = @ + 1, !.created = 0, !.err = FALSE, !.loading = TRUE]
    <3>1. /\ s \in Sharing /\ s.opening \in Nat
          /\ s.links = share.links /\ s.reqs = share.reqs /\ s.doubt = share.doubt
      <4>1. share.opening + 1 \in Nat
        BY <1>0 DEF Sharing
      <4> QED BY <1>0, <4>1 DEF Sharing
    <3>2. Render([det EXCEPT !.modal = "guest"], Ask(s, "list", s.opening, 0))
      BY <2>2 DEF OpenShare
    <3> HIDE DEF s
    <3>3. ~s.doubt /\ s.reqs = {} => s.links = owned.links
      BY <1>0, <3>1 DEF LinksOK
    <3>4. /\ LinksOK(Ask(s, "list", s.opening, 0), owned.links)
          /\ Ask(s, "list", s.opening, 0) \in Sharing
      BY <3>1, <3>3, AskOK, AskType DEF ShareKinds
    <3> QED BY <2>0, <3>2, <3>4, RenderOK
  <2>3. CASE createLink
    <3> DEFINE s == [share EXCEPT !.saving = TRUE, !.err = FALSE, !.created = 0]
    <3>1. s \in Sharing /\ s.links = share.links /\ s.reqs = share.reqs /\ s.doubt = share.doubt
      BY <1>0 DEF Sharing
    <3>2. Render(det, Ask(s, "create", 0, 0))
      BY <2>3 DEF createLink
    <3> HIDE DEF s
    <3>3. ~s.doubt /\ s.reqs = {} => s.links = owned.links
      BY <1>0, <3>1 DEF LinksOK
    <3>4. LinksOK(Ask(s, "create", 0, 0), owned.links) /\ Ask(s, "create", 0, 0) \in Sharing
      BY <3>1, <3>3, AskOK, AskType DEF ShareKinds
    <3> QED BY <2>0, <3>2, <3>4, RenderOK
  <2>4. ASSUME NEW l \in 1..MaxLinks, revokeLink(l)
        PROVE  ShareLinksOK'
    <3> DEFINE s == [share EXCEPT !.err = FALSE]
    <3>1. /\ s \in Sharing /\ l \in Nat
          /\ s.links = share.links /\ s.reqs = share.reqs /\ s.doubt = share.doubt
      BY <1>0, <2>4 DEF Sharing, revokeLink
    <3>2. Render(det, Ask(s, "revoke", 0, l))
      BY <2>4 DEF revokeLink
    <3> HIDE DEF s
    <3>3. ~s.doubt /\ s.reqs = {} => s.links = owned.links
      BY <1>0, <3>1 DEF LinksOK
    <3>4. LinksOK(Ask(s, "revoke", 0, l), owned.links) /\ Ask(s, "revoke", 0, l) \in Sharing
      BY <3>1, <3>3, AskOK, AskType DEF ShareKinds
    <3> QED BY <2>0, <3>2, <3>4, RenderOK
  <2>5. CASE CloseShare
    <3> DEFINE s == [share EXCEPT !.created = 0]
    <3>1. s \in Sharing /\ s.links = share.links /\ s.reqs = share.reqs /\ s.doubt = share.doubt
      BY <1>0 DEF Sharing
    <3>2. Render([det EXCEPT !.modal = "none"], s)
      BY <2>5 DEF CloseShare
    <3> HIDE DEF s
    <3>3. LinksOK(s, owned.links)
      BY <1>0, <3>1, SameLinks
    <3> QED BY <2>0, <3>1, <3>2, <3>3, RenderOK
  <2> QED
    BY <1>2, <2>1, <2>2, <2>3, <2>4, <2>5 DEF DetailGesture
<1>3. ASSUME NEW op \in det.ops, NEW o \in Outcomes, DeviceAnswer(op, o)
      PROVE  ShareLinksOK'
  <2>1. op \in Ops
    BY <1>0 DEF PageOK, Details
  <2>2. Done(op).links = owned.links
    BY <1>0, <2>1 DEF Done, Backend, Ops
  <2>3. owned' \in {owned, Done(op)}
    BY <1>3 DEF DeviceAnswer, Written, Outcomes
  <2> QED BY <1>0, <1>3, <2>2, <2>3, RenderOK DEF DeviceAnswer
<1>4. ASSUME NEW r \in share.reqs, NEW o \in Outcomes, ServeShare(r, o)
      PROVE  ShareLinksOK'
  BY <1>4, ServeOK
<1>5. ASSUME NEW r \in share.reqs, ShareAnswer(r)
      PROVE  ShareLinksOK'
  BY <1>5, AnswerOK
<1>6. CASE UNCHANGED <<det, share, owned>>
  BY <1>0, <1>6 DEF ShareLinksOK
<1> QED
  BY <1>1, <1>2, <1>3, <1>4, <1>5, <1>6 DEF DetailNext, pageVars

\* With the modal open, nothing out and a list that was read alone and followed
\* by no failure, the rows are the live links, however the requests of earlier
\* openings of the modal ended and even if it was unmounted over them
\* (GuestShareModal.tsx).
THEOREM LinksFollow == PageSpec => []LinksAreListed
<1>1. DetailInit => ShareLinksOK
  BY DEF DetailInit, ShareLinksOK, LinksOK, FreshShare
<1>2. ShareLinksOK => LinksAreListed
  BY DEF ShareLinksOK, LinksOK, LinksAreListed
<1> QED
  BY <1>1, <1>2, PageStarts, StepsKeepPage, StepsKeepLinks, PTL DEF PageSpec

(***************************************************************************)
(* Reports: the reports page                                               *)
(***************************************************************************)

ReportSpec == ReportInit /\ [][ReportNext]_<<rep, spent>>

Filters == [range : Periods \cup TypedRanges, devices : SUBSET ReportDevices,
            type : VehicleTypes \cup {"all"}]
ReportLoads == [section : ReportSections, round : Nat, filter : Filters]
ReportShown == [data : Filters \cup {NoReport}, loading : BOOLEAN, err : BOOLEAN, late : BOOLEAN]

PageType == [period : Periods \cup {"custom"}, range : Periods \cup TypedRanges,
             devices : SUBSET ReportDevices, type : VehicleTypes \cup {"all"},
             invalid : BOOLEAN, asked : BOOLEAN, listed : BOOLEAN, round : Nat,
             reqs : SUBSET ReportLoads, section : [ReportSections -> ReportShown]]

\* The request of the last round for a section is still out.
Current(r, s) == \E q \in r.reqs : q.section = s /\ q.round = r.round

\* No request is of a round to come, and those of the last round ask for what
\* the filter says.
AskedInOrder(r) ==
    \A q \in r.reqs : q.round <= r.round /\ (q.round = r.round => q.filter = filter(r))

\* A spinner waits for the last round; once that is answered, and nothing
\* older after it, the section shows its report or its failure.
Settled(r) ==
    \A s \in ReportSections :
        /\ r.section[s].loading = TRUE => Current(r, s)
        /\ (~Current(r, s) /\ r.section[s].late = FALSE)
              => r.section[s].data = IF r.section[s].err = TRUE THEN NoReport ELSE filter(r)

ReportInv(r) == r \in PageType /\ AskedInOrder(r) /\ Settled(r)

---------------------------------------------------------------------------
(* Lemmas about the operators                                              *)

\* The filter of a page is a filter.
LEMMA FilterTyped ==
    ASSUME NEW r \in PageType
    PROVE  filter(r) \in Filters
BY DEF filter, PageType, Filters

\* Another filter with the same requests: loadReports restores the invariant.
LEMMA LoadKeeps ==
    ASSUME NEW r \in PageType, \A q \in r.reqs : q.round <= r.round
    PROVE  ReportInv(loadReports(r))
<1> DEFINE new == {[section |-> s, round |-> r.round + 1, filter |-> filter(r)] : s \in ReportSections}
           blank == [s \in ReportSections |-> [r.section[s] EXCEPT !.data = NoReport, !.loading = TRUE,
                                                                  !.err = FALSE]]
           n == r.round + 1
           w == loadReports(r)
<1>1. w = [r EXCEPT !.round = n, !.section = blank, !.reqs = r.reqs \cup new]
  BY DEF loadReports
<1>2. new \subseteq ReportLoads /\ n \in Nat
  BY FilterTyped DEF ReportLoads, PageType
<1>3. blank \in [ReportSections -> ReportShown]
  BY DEF PageType, ReportShown
<1>4. \A q \in new : q.round = n /\ q.filter = filter(r)
  OBVIOUS
<1>5. ASSUME NEW s \in ReportSections
      PROVE  \E q \in new : q.section = s /\ q.round = n
  <2> DEFINE q == [section |-> s, round |-> n, filter |-> filter(r)]
  <2>1. q \in new /\ q.section = s /\ q.round = n
    OBVIOUS
  <2> QED
    BY <2>1, Zenon
<1>6. \A q \in r.reqs : q.round # n /\ q.round <= n
  BY DEF PageType, ReportLoads
<1> HIDE DEF new, blank, n, w
<1>7. /\ w \in PageType /\ w.round = n /\ w.reqs = r.reqs \cup new
      /\ w.range = r.range /\ w.devices = r.devices /\ w.type = r.type
  BY <1>1, <1>2, <1>3 DEF PageType
<1>8. filter(w) = filter(r)
  BY <1>7 DEF filter
<1>9. AskedInOrder(w)
  BY <1>2, <1>4, <1>6, <1>7, <1>8 DEF AskedInOrder
<1>10. \A s \in ReportSections : Current(w, s)
  BY <1>5, <1>7 DEF Current
<1> QED
  BY <1>7, <1>9, <1>10 DEF ReportInv, Settled, w

\* The answer to any request that is out, of the last round or older.
LEMMA AnswerKeeps ==
    ASSUME NEW r, ReportInv(r), NEW q \in r.reqs, NEW o
    PROVE  ReportInv(loadSection(r, q, o))
<1> DEFINE e == Rejects(o)
           l == q.round # r.round
           d == IF Rejects(o) THEN NoReport ELSE q.filter
           k == [data |-> d, loading |-> FALSE, err |-> e, late |-> l]
           w == loadSection(r, q, o)
<1>1. w = [r EXCEPT !.section = [r.section EXCEPT ![q.section] = k], !.reqs = r.reqs \ {q}]
  BY DEF loadSection, ReportInv, PageType
<1>2. r \in PageType /\ q \in ReportLoads
  BY DEF ReportInv, PageType
<1>3. e \in BOOLEAN /\ l \in BOOLEAN
  BY Zenon DEF Rejects
<1>4. d \in Filters \cup {NoReport}
  BY <1>2 DEF ReportLoads
<1>5. (e = TRUE => d = NoReport) /\ (e # TRUE => d = q.filter)
  BY <1>3, Zenon
<1>6. l = FALSE <=> q.round = r.round
  BY Zenon
<1> HIDE DEF e, l, d
<1>7. k \in ReportShown /\ k.data = d /\ k.loading = FALSE /\ k.err = e /\ k.late = l
  BY <1>3, <1>4 DEF ReportShown
<1> HIDE DEF k, w
<1>8. /\ w \in PageType /\ w.round = r.round /\ w.reqs = r.reqs \ {q}
      /\ w.section = [r.section EXCEPT ![q.section] = k]
      /\ w.range = r.range /\ w.devices = r.devices /\ w.type = r.type
  BY <1>1, <1>2, <1>7 DEF PageType, ReportLoads
<1>9. filter(w) = filter(r)
  BY <1>8 DEF filter
<1>10. AskedInOrder(w)
  BY <1>8, <1>9 DEF ReportInv, AskedInOrder
<1>11. ASSUME NEW s \in ReportSections, s # q.section
       PROVE  w.section[s] = r.section[s] /\ (Current(w, s) <=> Current(r, s))
  BY <1>2, <1>8, <1>11 DEF PageType, Current
<1>12. w.section[q.section] = k
  BY <1>2, <1>8 DEF PageType, ReportLoads
<1>13. l = FALSE => (d = IF e = TRUE THEN NoReport ELSE filter(w))
  BY <1>5, <1>6, <1>9 DEF ReportInv, AskedInOrder
<1>14. Settled(w)
  <2> SUFFICES ASSUME NEW s \in ReportSections
               PROVE  /\ w.section[s].loading = TRUE => Current(w, s)
                      /\ (~Current(w, s) /\ w.section[s].late = FALSE)
                            => w.section[s].data = IF w.section[s].err = TRUE THEN NoReport ELSE filter(w)
    BY DEF Settled
  <2>1. CASE s = q.section
    BY <2>1, <1>7, <1>12, <1>13
  <2>2. CASE s # q.section
    BY <2>2, <1>9, <1>11 DEF ReportInv, Settled
  <2> QED
    BY <2>1, <2>2
<1> QED
  BY <1>8, <1>10, <1>14 DEF ReportInv, w

\* A step that leaves filter, requests and sections alone.
LEMMA AsideKeeps ==
    ASSUME NEW r, NEW w \in PageType, ReportInv(r), filter(w) = filter(r),
           w.reqs = r.reqs, w.round = r.round, w.section = r.section
    PROVE  ReportInv(w)
BY DEF ReportInv, AskedInOrder, Settled, Current

---------------------------------------------------------------------------
(* The steps                                                               *)

\* The page opens with every section loading.
LEMMA ReportStarts == ReportInit => ReportInv(rep)
<1> SUFFICES ASSUME ReportInit
             PROVE  ReportInv(rep)
  OBVIOUS
<1> DEFINE r == [period |-> FirstPeriod, range |-> FirstPeriod, devices |-> {},
                 type |-> "all", invalid |-> FALSE, asked |-> TRUE, listed |-> FALSE,
                 round |-> 0, reqs |-> {},
                 section |-> [s \in ReportSections |->
                     [data |-> NoReport, loading |-> TRUE, err |-> FALSE, late |-> FALSE]]]
<1>1. r \in PageType
  <2>1. [s \in ReportSections |-> [data |-> NoReport, loading |-> TRUE, err |-> FALSE, late |-> FALSE]]
            \in [ReportSections -> ReportShown]
    BY DEF ReportShown
  <2> QED
    BY <2>1, ReportConstants DEF PageType
<1>2. \A q \in r.reqs : q.round <= r.round
  OBVIOUS
<1>3. rep = loadReports(r)
  BY DEF ReportInit
<1> HIDE DEF r
<1> QED
  BY <1>1, <1>2, <1>3, LoadKeeps

\* The effect on the filter, after a gesture that changed fields of it.
LEMMA FilteredKeeps ==
    ASSUME ReportInv(rep), NEW r \in PageType, Filtered(r),
           r.reqs = rep.reqs, r.round = rep.round, r.section = rep.section
    PROVE  ReportInv(rep')
<1>1. CASE filter(r) = filter(rep) /\ rep' = r
  BY <1>1, AsideKeeps
<1>2. CASE rep' = loadReports(r)
  <2>1. \A q \in r.reqs : q.round <= r.round
    BY DEF ReportInv, AskedInOrder
  <2> QED
    BY <1>2, <2>1, LoadKeeps
<1> QED
  BY <1>1, <1>2 DEF Filtered

\* The filters and the buttons.
LEMMA ReportGestureKeeps ==
    ASSUME ReportInv(rep), ReportGesture
    PROVE  ReportInv(rep')
<1>0. rep \in PageType
  BY DEF ReportInv
<1>1. ASSUME NEW p \in Periods \cup {"custom"}, applyPeriod(p)
      PROVE  ReportInv(rep')
  <2>1. CASE p = "custom"
    <3> DEFINE r == [rep EXCEPT !.period = p]
    <3>1. r \in PageType /\ r.reqs = rep.reqs /\ r.round = rep.round /\ r.section = rep.section
      BY <1>0 DEF PageType
    <3>2. Filtered(r)
      BY <1>1, <2>1 DEF applyPeriod
    <3> HIDE DEF r
    <3> QED
      BY <3>1, <3>2, FilteredKeeps
  <2>2. CASE p # "custom"
    <3> DEFINE r == [rep EXCEPT !.period = p, !.range = p]
    <3>1. r \in PageType /\ r.reqs = rep.reqs /\ r.round = rep.round /\ r.section = rep.section
      BY <1>0, <1>1, <2>2 DEF PageType
    <3>2. Filtered(r)
      BY <1>1, <2>2 DEF applyPeriod
    <3> HIDE DEF r
    <3> QED
      BY <3>1, <3>2, FilteredKeeps
  <2> QED
    BY <2>1, <2>2
<1>2. ASSUME NEW v \in TypedRanges, EditDates(v)
      PROVE  ReportInv(rep')
  <2> DEFINE r == [rep EXCEPT !.period = "custom", !.range = v]
  <2>1. r \in PageType /\ r.reqs = rep.reqs /\ r.round = rep.round /\ r.section = rep.section
    BY <1>0 DEF PageType
  <2>2. Filtered(r)
    BY <1>2 DEF EditDates
  <2> HIDE DEF r
  <2> QED
    BY <2>1, <2>2, FilteredKeeps
<1>3. ASSUME NEW d \in ReportDevices, toggleDevice(d)
      PROVE  ReportInv(rep')
  <2> DEFINE ds == IF d \in rep.devices THEN rep.devices \ {d} ELSE rep.devices \cup {d}
             r == [rep EXCEPT !.devices = ds]
  <2>1. ds \subseteq ReportDevices
    BY <1>0 DEF PageType
  <2>2. Filtered(r)
    BY <1>3 DEF toggleDevice
  <2> HIDE DEF ds
  <2>3. r \in PageType /\ r.reqs = rep.reqs /\ r.round = rep.round /\ r.section = rep.section
    BY <1>0, <2>1 DEF PageType
  <2> HIDE DEF r
  <2> QED
    BY <2>2, <2>3, FilteredKeeps
<1>4. ASSUME NEW x \in VehicleTypes \cup {"all"}, setVehicleType(x)
      PROVE  ReportInv(rep')
  <2> DEFINE r == [rep EXCEPT !.type = x]
  <2>1. r \in PageType /\ r.reqs = rep.reqs /\ r.round = rep.round /\ r.section = rep.section
    BY <1>0 DEF PageType
  <2>2. Filtered(r)
    BY <1>4 DEF setVehicleType
  <2> HIDE DEF r
  <2> QED
    BY <2>1, <2>2, FilteredKeeps
<1>5. ASSUME refresh
      PROVE  ReportInv(rep')
  <2>1. CASE rep' = [rep EXCEPT !.invalid = TRUE]
    <3>1. /\ rep' \in PageType /\ rep'.reqs = rep.reqs /\ rep'.round = rep.round
          /\ rep'.section = rep.section /\ filter(rep') = filter(rep)
      BY <1>0, <2>1 DEF PageType, filter
    <3> QED
      BY <3>1, AsideKeeps
  <2>2. CASE rep' = loadReports([rep EXCEPT !.invalid = FALSE])
    <3> DEFINE r == [rep EXCEPT !.invalid = FALSE]
    <3>1. r \in PageType /\ r.reqs = rep.reqs /\ r.round = rep.round
      BY <1>0 DEF PageType
    <3>2. rep' = loadReports(r)
      BY <2>2
    <3> HIDE DEF r
    <3>3. \A q \in r.reqs : q.round <= r.round
      BY <3>1 DEF ReportInv, AskedInOrder
    <3> QED
      BY <3>1, <3>2, <3>3, LoadKeeps
  <2> QED
    BY <1>5, <2>1, <2>2 DEF refresh
<1>6. ASSUME retry
      PROVE  ReportInv(rep')
  <2>1. rep' = loadReports(rep) /\ \A q \in rep.reqs : q.round <= rep.round
    BY <1>6 DEF retry, ReportInv, AskedInOrder
  <2> QED
    BY <1>0, <2>1, LoadKeeps
<1> QED
  BY <1>1, <1>2, <1>3, <1>4, <1>5, <1>6 DEF ReportGesture

\* Every step of the page keeps the invariant.
LEMMA ReportStep ==
    ASSUME ReportInv(rep), [ReportNext]_<<rep, spent>>
    PROVE  ReportInv(rep')
<1>1. CASE ReportGesture
  BY <1>1, ReportGestureKeeps
<1>2. ASSUME NEW q \in rep.reqs, NEW o \in Outcomes, ReportAnswer(q, o)
      PROVE  ReportInv(rep')
  BY <1>2, AnswerKeeps DEF ReportAnswer
<1>3. ASSUME NEW o \in Outcomes, DevicesAnswer(o)
      PROVE  ReportInv(rep')
  <2> DEFINE h == HasData(o)
  <2>1. rep' = [rep EXCEPT !.asked = FALSE, !.listed = h]
    BY <1>3 DEF DevicesAnswer
  <2>2. h \in BOOLEAN
    BY Zenon DEF HasData
  <2> HIDE DEF h
  <2>3. /\ rep' \in PageType /\ rep'.reqs = rep.reqs /\ rep'.round = rep.round
        /\ rep'.section = rep.section /\ filter(rep') = filter(rep)
    BY <2>1, <2>2 DEF ReportInv, PageType, filter
  <2> QED
    BY <2>3, AsideKeeps
<1>4. CASE UNCHANGED <<rep, spent>>
  BY <1>4
<1> QED
  BY <1>1, <1>2, <1>3, <1>4 DEF ReportNext

\* What ReportsMatchFilter says follows from the invariant.
LEMMA SettledMatches ==
    ASSUME ReportInv(rep)
    PROVE  ReportsMatchFilter
<1> SUFFICES ASSUME NEW s \in ReportSections
             PROVE  LET k == rep.section[s]
                        out == {q \in rep.reqs : q.section = s}
                    IN  /\ k.loading => out # {}
                        /\ (out = {} /\ ~k.late) => k.data = IF k.err THEN NoReport ELSE filter(rep)
  BY DEF ReportsMatchFilter
<1> DEFINE k == rep.section[s]
           out == {q \in rep.reqs : q.section = s}
<1>1. k.loading \in BOOLEAN /\ k.late \in BOOLEAN /\ k.err \in BOOLEAN
  BY DEF ReportInv, PageType, ReportShown
<1>2. out = {} => ~Current(rep, s)
  BY DEF Current
<1>3. /\ k.loading = TRUE => Current(rep, s)
      /\ (~Current(rep, s) /\ k.late = FALSE)
            => k.data = IF k.err = TRUE THEN NoReport ELSE filter(rep)
  BY DEF ReportInv, Settled
<1> HIDE DEF k, out
<1>4. k.loading => out # {}
  BY <1>1, <1>2, <1>3, Zenon
<1>5. (out = {} /\ ~k.late) => k.data = IF k.err THEN NoReport ELSE filter(rep)
  BY <1>1, <1>2, <1>3, Zenon
<1> QED
  BY <1>4, <1>5 DEF k, out

\* However the answers of ReportsPage's overlapping loads are reordered, a
\* section whose last answer was the last round's shows the filter's report.
THEOREM ReportsFollowFilter == ReportSpec => []ReportsMatchFilter
<1>1. ReportInit => ReportInv(rep)
  BY ReportStarts
<1>2. ReportInv(rep) /\ [ReportNext]_<<rep, spent>> => ReportInv(rep)'
  BY ReportStep
<1>3. ReportInv(rep) => ReportsMatchFilter
  BY SettledMatches
<1> QED
  BY <1>1, <1>2, <1>3, PTL DEF ReportSpec

(***************************************************************************)
(* Preferences: the settings                                               *)
(***************************************************************************)

\* The settings on their own, as the pages' run composes them with the others.
PrefSpec == PrefInit /\ spent = Unspent /\ [][PrefNext]_prefVars

---------------------------------------------------------------------------
(* The inductive invariant                                                 *)

Values == {"first", "other", "expanded", "collapsed"}
Tab == [open : BOOLEAN, mobile : BOOLEAN, mem : Settings, theme : {"light", "dark"},
        behind : BOOLEAN, unsaved : BOOLEAN]
Disk == [kind : {"none", "garbage", "object"}, item : [SettingKeys -> Values \cup {"bad"}],
         theme : {"none", "light", "dark"}]
Picks == [key : [SettingKeys -> Values \cup {"unset"}], spoiled : BOOLEAN]

PrefTyped == tabs \in [Tabs -> Tab] /\ disk \in Disk /\ chosen \in Picks

\* A tab that has missed no save and saved its own last change has in memory
\* what is stored.
InStep ==
    \A t \in Tabs :
        (tabs[t].open /\ disk.kind = "object" /\ ~tabs[t].behind /\ ~tabs[t].unsaved)
            => tabs[t].mem = disk.item

Chose == \E k \in SettingKeys : chosen.key[k] # "unset"

\* As long as nothing is spoiled every choice is stored, nothing needs repair,
\* and even a tab whose repair has failed has what is stored.
ChoicesStored ==
    ~chosen.spoiled /\ Chose =>
        /\ disk.kind = "object" /\ disk.item \in Settings
        /\ \A k \in SettingKeys : chosen.key[k] \in {"unset", disk.item[k]}
        /\ \A t \in Tabs : tabs[t].open /\ ~tabs[t].behind => tabs[t].mem = disk.item

PrefInv == PrefTyped /\ InStep /\ ChoicesStored

---------------------------------------------------------------------------
(* Lemmas about the operators                                              *)

\* Settings are functions whose values are allowed.
LEMMA AllowedValues ==
    /\ \A k \in SettingKeys : Allowed(k) \subseteq Values
    /\ \A s : s \in Settings <=> s \in [SettingKeys -> Values] /\ \A k \in SettingKeys : s[k] \in Allowed(k)
BY DEF Settings, Values, Allowed

\* The defaults are allowed.
LEMMA DefaultsAllowed ==
    ASSUME NEW m \in BOOLEAN
    PROVE  getDefaultSettings(m) \in Settings
<1>1. \A k \in SettingKeys : getDefaultSettings(m)[k] \in Allowed(k)
  BY DEF getDefaultSettings, Allowed, SettingKeys
<1>2. getDefaultSettings(m) \in [SettingKeys -> Values]
  BY <1>1, AllowedValues DEF getDefaultSettings
<1> QED BY <1>1, <1>2, AllowedValues

\* Sanitizing yields settings, and leaves settings alone.
LEMMA Sanitized ==
    ASSUME NEW s, NEW m \in BOOLEAN
    PROVE  /\ sanitizeSettings(s, m) \in Settings
           /\ s \in Settings => sanitizeSettings(s, m) = s
<1>0. \A k \in SettingKeys : getDefaultSettings(m)[k] \in Allowed(k)
  BY DefaultsAllowed, AllowedValues
<1>1. \A k \in SettingKeys : sanitizeSettings(s, m)[k] \in Allowed(k)
  BY <1>0 DEF sanitizeSettings
<1>2. sanitizeSettings(s, m) \in [SettingKeys -> Values]
  BY <1>1, AllowedValues DEF sanitizeSettings
<1>3. sanitizeSettings(s, m) \in Settings
  BY <1>1, <1>2, AllowedValues
<1>4. ASSUME s \in Settings PROVE sanitizeSettings(s, m) = s
  <2>1. s \in [SettingKeys -> Values] /\ \A k \in SettingKeys : s[k] \in Allowed(k)
    BY <1>4, AllowedValues
  <2>2. \A k \in SettingKeys : sanitizeSettings(s, m)[k] = s[k]
    BY <2>1 DEF sanitizeSettings
  <2> QED BY <1>2, <2>1, <2>2
<1> QED BY <1>3, <1>4

\* What a new document reads: settings, the stored ones if these need no repair.
LEMMA ReadsStored ==
    ASSUME disk \in Disk, NEW m \in BOOLEAN
    PROVE  /\ Reading(m) \in Settings
           /\ disk.kind = "object" /\ ~Repairs(m) => Reading(m) = disk.item
           /\ disk.kind = "object" /\ disk.item \in Settings => Reading(m) = disk.item /\ ~Repairs(m)
BY DefaultsAllowed, Sanitized DEF Reading, Repairs

---------------------------------------------------------------------------
(* The steps                                                               *)

\* A save of tab t, which has in memory what it saves.  If it fails the choices
\* are spoiled, or there are none yet.
LEMMA SavesKeep ==
    ASSUME PrefInv, NEW t \in Tabs, NEW s \in Settings, NEW w \in Tab, w.mem = s, w.open,
           NEW ok \in BOOLEAN, saveSettingsPreferences(t, s, [tabs EXCEPT ![t] = w], ok),
           chosen' \in Picks,
           ~chosen'.spoiled /\ Chose' => ok /\ \A k \in SettingKeys : chosen'.key[k] \in {"unset", s[k]}
    PROVE  PrefInv'
<1>0. tabs \in [Tabs -> Tab] /\ disk \in Disk
  BY DEF PrefInv, PrefTyped
<1>1. CASE ok
  <2>1. disk' = [disk EXCEPT !.kind = "object", !.item = s]
    BY <1>1 DEF saveSettingsPreferences
  <2>2. s \in [SettingKeys -> Values \cup {"bad"}]
    BY AllowedValues
  <2>3. disk' \in Disk /\ disk'.kind = "object" /\ disk'.item = s
    BY <1>0, <2>1, <2>2 DEF Disk
  <2>4. tabs' = [u \in Tabs |-> [[tabs EXCEPT ![t] = w][u] EXCEPT !.behind = u # t, !.unsaved = @ /\ u # t]]
    BY <1>1 DEF saveSettingsPreferences
  <2>5. ASSUME NEW u \in Tabs
        PROVE  /\ tabs'[u] \in Tab
               /\ u = t => tabs'[u].mem = s
               /\ u # t => tabs'[u].behind
    <3> DEFINE x == IF u = t THEN w ELSE tabs[u]
    <3>1. tabs'[u] = [x EXCEPT !.behind = u # t, !.unsaved = @ /\ u # t] /\ x \in Tab
      BY <1>0, <2>4
    <3>2. x.unsaved \in BOOLEAN
      BY <3>1 DEF Tab
    <3>3. tabs'[u] = [x EXCEPT !.behind = (u # t), !.unsaved = (x.unsaved /\ u # t)]
      BY <3>1 DEF Tab
    <3>4. (u = t => x.mem = s) /\ (u # t) \in BOOLEAN /\ (x.unsaved /\ u # t) \in BOOLEAN
      BY <3>2
    <3> HIDE DEF x
    <3> QED BY <3>1, <3>3, <3>4 DEF Tab
  <2>6. tabs' \in [Tabs -> Tab]
    BY <2>4, <2>5
  <2>7. PrefTyped'
    BY <2>3, <2>6 DEF PrefTyped
  <2>8. InStep'
    BY <2>3, <2>5 DEF InStep
  <2>9. ChoicesStored'
    BY <2>3, <2>5 DEF ChoicesStored
  <2> QED BY <2>7, <2>8, <2>9 DEF PrefInv
<1>2. CASE ~ok
  <2>1. disk' = disk /\ tabs' = [[tabs EXCEPT ![t] = w] EXCEPT ![t].unsaved = TRUE]
    BY <1>2 DEF saveSettingsPreferences
  <2>2. tabs' = [tabs EXCEPT ![t] = [w EXCEPT !.unsaved = TRUE]]
    BY <1>0, <2>1
  <2>3. [w EXCEPT !.unsaved = TRUE] \in Tab /\ [w EXCEPT !.unsaved = TRUE].unsaved
    BY DEF Tab
  <2>4. tabs' \in [Tabs -> Tab] /\ tabs'[t].unsaved /\ \A u \in Tabs : u # t => tabs'[u] = tabs[u]
    BY <1>0, <2>2, <2>3
  <2>5. InStep'
    BY <2>1, <2>4 DEF InStep, PrefInv
  <2>6. ChoicesStored'
    BY <1>2 DEF ChoicesStored
  <2> QED BY <1>0, <2>1, <2>4, <2>5, <2>6 DEF PrefInv, PrefTyped
<1> QED BY <1>1, <1>2

\* A step of tab t that stores no settings and chooses none.
LEMMA KeepsStored ==
    ASSUME PrefInv, NEW t \in Tabs, NEW w \in Tab, tabs' = [tabs EXCEPT ![t] = w],
           disk' \in Disk, disk'.kind = disk.kind, disk'.item = disk.item, chosen' = chosen,
           \/ w.open = tabs[t].open /\ w.mem = tabs[t].mem /\ w.behind = tabs[t].behind
              /\ w.unsaved = tabs[t].unsaved
           \/ disk.kind = "object" => w.mem = disk.item
    PROVE  PrefInv'
<1>1. tabs \in [Tabs -> Tab] /\ chosen \in Picks
  BY DEF PrefInv, PrefTyped
<1>2. tabs' \in [Tabs -> Tab] /\ tabs'[t] = w /\ \A u \in Tabs : u # t => tabs'[u] = tabs[u]
  BY <1>1
<1>3. InStep'
  BY <1>2 DEF PrefInv, InStep
<1>4. Chose' <=> Chose
  BY DEF Chose
<1>5. ChoicesStored'
  BY <1>2, <1>4 DEF PrefInv, ChoicesStored
<1> QED BY <1>1, <1>2, <1>3, <1>5 DEF PrefInv, PrefTyped

\* A document is opened, and repairs what is stored if it must.
LEMMA OpensKeep ==
    ASSUME PrefInv, NEW t \in Tabs, OpenDocument(t)
    PROVE  PrefInv'
<1> DEFINE m == tabs[t].mobile
           w == [open |-> TRUE, mobile |-> m, mem |-> Reading(m), theme |-> InitialTheme,
                 behind |-> FALSE, unsaved |-> FALSE]
<1>1. PICK ok \in BOOLEAN :
         /\ IF Repairs(m) THEN saveSettingsPreferences(t, Reading(m), [tabs EXCEPT ![t] = w], ok)
            ELSE ok /\ tabs' = [tabs EXCEPT ![t] = w] /\ UNCHANGED disk
         /\ UNCHANGED chosen
  BY DEF OpenDocument
<1>2. disk \in Disk /\ chosen \in Picks /\ m \in BOOLEAN
  BY DEF PrefInv, PrefTyped, Tab
<1>3. Reading(m) \in Settings /\ InitialTheme \in {"light", "dark"}
  BY <1>2, ReadsStored DEF InitialTheme, Disk
<1>4. w \in Tab /\ w.mem = Reading(m) /\ w.open
  BY <1>2, <1>3 DEF Tab
<1>5. Chose' <=> Chose
  BY <1>1 DEF Chose
<1> HIDE DEF w, m
<1>6. CASE Repairs(m)
  <2>1. chosen.spoiled \/ ~Chose
    BY <1>2, <1>6, ReadsStored DEF PrefInv, ChoicesStored
  <2> QED BY <1>1, <1>2, <1>3, <1>4, <1>5, <1>6, <2>1, SavesKeep
<1>7. CASE ~Repairs(m)
  <2>1. disk.kind = "object" => w.mem = disk.item
    BY <1>2, <1>4, <1>7, ReadsStored
  <2> QED BY <1>1, <1>2, <1>4, <1>7, <2>1, KeepsStored
<1> QED BY <1>6, <1>7

\* A change of one setting writes all of them.
LEMMA ChoosesKeep ==
    ASSUME PrefInv, NEW t \in Tabs, NEW k \in SettingKeys, NEW v \in Allowed(k), Choose(t, k, v)
    PROVE  PrefInv'
<1> DEFINE next == sanitizeSettings([tabs[t].mem EXCEPT ![k] = v], tabs[t].mobile)
           w == [tabs[t] EXCEPT !.mem = next]
<1>0. /\ tabs \in [Tabs -> Tab] /\ tabs[t] \in Tab /\ tabs[t].mem \in Settings
      /\ tabs[t].mobile \in BOOLEAN /\ tabs[t].behind \in BOOLEAN
      /\ disk \in Disk /\ chosen \in Picks /\ v \in Values
  BY AllowedValues DEF PrefInv, PrefTyped, Tab
<1>1. PICK ok \in BOOLEAN :
         /\ tabs[t].open
         /\ updateLocalSetting(t, k, v, ok)
         /\ chosen' = [key |-> [chosen.key EXCEPT ![k] = v],
                       spoiled |-> chosen.spoiled \/ ~ok \/ tabs[t].behind]
  BY DEF Choose
<1>2. [tabs[t].mem EXCEPT ![k] = v] \in Settings
  <2>1. /\ tabs[t].mem \in [SettingKeys -> Values]
        /\ \A j \in SettingKeys : tabs[t].mem[j] \in Allowed(j)
    BY <1>0, AllowedValues
  <2> DEFINE f == [tabs[t].mem EXCEPT ![k] = v]
  <2>2. f \in [SettingKeys -> Values] /\ \A j \in SettingKeys : f[j] \in Allowed(j)
    BY <1>0, <2>1
  <2> HIDE DEF f
  <2>3. f \in Settings
    BY <2>2, AllowedValues
  <2> QED BY <2>3 DEF f
<1>3. next = [tabs[t].mem EXCEPT ![k] = v] /\ next \in Settings
  BY <1>0, <1>2, Sanitized
<1>4. /\ next[k] = v
      /\ \A j \in SettingKeys : j # k => next[j] = tabs[t].mem[j]
  BY <1>0, <1>3, AllowedValues
<1>5. saveSettingsPreferences(t, next, [tabs EXCEPT ![t].mem = next], ok)
  BY <1>1 DEF updateLocalSetting
<1> HIDE DEF next
<1>6. [tabs EXCEPT ![t].mem = next] = [tabs EXCEPT ![t] = w]
  BY <1>0
<1>7. w \in Tab /\ w.mem = next /\ w.open
  BY <1>0, <1>1, <1>3 DEF Tab
<1>8. /\ chosen' \in Picks
      /\ chosen'.key = [chosen.key EXCEPT ![k] = v]
      /\ ~chosen'.spoiled => ~chosen.spoiled /\ ok /\ ~tabs[t].behind
  <2>1. chosen.key \in [SettingKeys -> Values \cup {"unset"}]
    BY <1>0 DEF Picks
  <2>2. [chosen.key EXCEPT ![k] = v] \in [SettingKeys -> Values \cup {"unset"}]
    BY <1>0, <2>1
  <2>3. (chosen.spoiled \/ ~ok \/ tabs[t].behind) \in BOOLEAN
    BY <1>0
  <2>4. chosen' \in Picks
    BY <1>1, <2>2, <2>3 DEF Picks
  <2> QED BY <1>1, <2>4
<1>9. ASSUME ~chosen'.spoiled, NEW j \in SettingKeys
      PROVE  chosen'.key[j] \in {"unset", next[j]}
  <2>1. CASE j = k
    BY <1>0, <1>4, <1>8, <2>1 DEF Picks
  <2>2. CASE j # k
    <3>1. chosen'.key[j] = chosen.key[j]
      BY <1>0, <1>8, <2>2 DEF Picks
    <3>2. CASE chosen.key[j] # "unset"
      <4>1. chosen.key[j] = disk.item[j] /\ tabs[t].mem = disk.item
        BY <1>1, <1>8, <1>9, <3>2 DEF PrefInv, ChoicesStored, Chose
      <4> QED BY <1>4, <2>2, <3>1, <4>1
    <3> QED BY <3>1, <3>2
  <2> QED BY <2>1, <2>2
<1>10. saveSettingsPreferences(t, next, [tabs EXCEPT ![t] = w], ok)
  BY <1>5, <1>6
<1> HIDE DEF w
<1>11. ~chosen'.spoiled => ok /\ \A j \in SettingKeys : chosen'.key[j] \in {"unset", next[j]}
  BY <1>8, <1>9
<1>12. ~chosen'.spoiled /\ Chose' => ok /\ \A j \in SettingKeys : chosen'.key[j] \in {"unset", next[j]}
  BY <1>11
<1>13. chosen' \in Picks
  BY <1>8
<1> QED BY <1>3, <1>7, <1>10, <1>12, <1>13, SavesKeep

\* The reset makes the defaults the user's choice.
LEMMA ResetKeeps ==
    ASSUME PrefInv, NEW t \in Tabs, reset(t)
    PROVE  PrefInv'
<1> DEFINE d == getDefaultSettings(tabs[t].mobile)
           w == [tabs[t] EXCEPT !.mem = d, !.theme = "light"]
<1>0. tabs \in [Tabs -> Tab] /\ tabs[t] \in Tab /\ tabs[t].mobile \in BOOLEAN /\ disk \in Disk
  BY DEF PrefInv, PrefTyped, Tab
<1>1. PICK ok \in BOOLEAN, themed \in BOOLEAN :
         /\ disk' = [kind  |-> IF ok THEN "object" ELSE disk.kind,
                     item  |-> IF ok THEN d ELSE disk.item,
                     theme |-> IF themed THEN "light" ELSE disk.theme]
         /\ tabs' = [u \in Tabs |->
               IF u = t THEN [w EXCEPT !.behind = @ /\ ~ok, !.unsaved = ~ok]
               ELSE [tabs[u] EXCEPT !.behind = @ \/ ok]]
         /\ chosen' = [key |-> d, spoiled |-> ~ok]
  BY DEF reset
<1>2. /\ d \in Settings /\ d \in [SettingKeys -> Values \cup {"bad"}]
      /\ d \in [SettingKeys -> Values \cup {"unset"}]
  BY <1>0, DefaultsAllowed, AllowedValues
<1> HIDE DEF d
<1>3. w \in Tab /\ w.mem = d /\ w.behind \in BOOLEAN
  BY <1>0, <1>2 DEF Tab
<1> HIDE DEF w
<1>4. /\ disk' \in Disk /\ disk'.kind = (IF ok THEN "object" ELSE disk.kind)
      /\ disk'.item = IF ok THEN d ELSE disk.item
  BY <1>0, <1>1, <1>2 DEF Disk
<1>5. chosen' \in Picks /\ chosen'.key = d /\ (chosen'.spoiled <=> ~ok)
  BY <1>1, <1>2 DEF Picks
<1>6. ASSUME NEW u \in Tabs
      PROVE  /\ tabs'[u] \in Tab
             /\ u = t => tabs'[u].mem = d /\ (tabs'[u].unsaved <=> ~ok)
             /\ u # t /\ ok => tabs'[u].behind
             /\ u # t /\ ~ok => tabs'[u] = tabs[u]
  <2>1. CASE u = t
    <3>1. tabs'[u] = [w EXCEPT !.behind = (w.behind /\ ~ok), !.unsaved = ~ok]
      BY <1>1, <1>3, <2>1 DEF Tab
    <3>2. (w.behind /\ ~ok) \in BOOLEAN /\ (~ok) \in BOOLEAN
      OBVIOUS
    <3> QED BY <1>3, <2>1, <3>1, <3>2 DEF Tab
  <2>2. CASE u # t /\ ok
    <3>1. tabs'[u] = [tabs[u] EXCEPT !.behind = TRUE] /\ tabs[u] \in Tab
      BY <1>0, <1>1, <2>2 DEF Tab
    <3> QED BY <2>2, <3>1 DEF Tab
  <2>3. CASE u # t /\ ~ok
    <3>1. tabs'[u] = [tabs[u] EXCEPT !.behind = tabs[u].behind] /\ tabs[u] \in Tab
      <4>1. tabs[u] \in Tab /\ tabs[u].behind \in BOOLEAN
        BY <1>0 DEF Tab
      <4>2. tabs'[u] = [tabs[u] EXCEPT !.behind = (tabs[u].behind \/ ok)]
        BY <1>1, <2>3, <4>1 DEF Tab
      <4>3. (tabs[u].behind \/ ok) = tabs[u].behind
        BY <2>3, <4>1
      <4> QED BY <4>1, <4>2, <4>3
    <3> QED BY <2>3, <3>1 DEF Tab
  <2> QED BY <2>1, <2>2, <2>3
<1>7. tabs' \in [Tabs -> Tab]
  BY <1>1, <1>6
<1>8. InStep'
  <2> SUFFICES ASSUME NEW u \in Tabs, tabs'[u].open, disk'.kind = "object",
                      ~tabs'[u].behind, ~tabs'[u].unsaved
               PROVE  tabs'[u].mem = disk'.item
    BY DEF InStep
  <2>1. CASE ok
    BY <1>4, <1>6, <2>1
  <2>2. CASE ~ok
    BY <1>4, <1>6, <2>2 DEF PrefInv, InStep
  <2> QED BY <2>1, <2>2
<1>9. ChoicesStored'
  BY <1>2, <1>4, <1>5, <1>6 DEF ChoicesStored
<1> QED BY <1>4, <1>5, <1>7, <1>8, <1>9 DEF PrefInv, PrefTyped

\* Every step keeps the invariant.
LEMMA PrefStep ==
    ASSUME PrefInv, [PrefNext]_prefVars
    PROVE  PrefInv'
<1>0. tabs \in [Tabs -> Tab] /\ disk \in Disk
  BY DEF PrefInv, PrefTyped
<1>1. ASSUME NEW t \in Tabs, Resize(t)
      PROVE  PrefInv'
  <2> DEFINE w == [tabs[t] EXCEPT !.mobile = ~tabs[t].mobile]
  <2>1. tabs[t] \in Tab /\ (~tabs[t].mobile) \in BOOLEAN
    BY <1>0
  <2>2. /\ w \in Tab /\ w.open = tabs[t].open /\ w.mem = tabs[t].mem
        /\ w.behind = tabs[t].behind /\ w.unsaved = tabs[t].unsaved
    BY <2>1 DEF Tab
  <2>3. tabs' = [tabs EXCEPT ![t] = w] /\ UNCHANGED <<disk, chosen>>
    BY <1>0, <1>1, <2>1 DEF Resize, Tab
  <2> HIDE DEF w
  <2> QED BY <1>0, <2>2, <2>3, KeepsStored
<1>2. ASSUME NEW t \in Tabs, NEW x \in {"light", "dark"}, setTheme(t, x)
      PROVE  PrefInv'
  <2> DEFINE w == [tabs[t] EXCEPT !.theme = x]
  <2>1. /\ w \in Tab /\ w.open = tabs[t].open /\ w.mem = tabs[t].mem
        /\ w.behind = tabs[t].behind /\ w.unsaved = tabs[t].unsaved
    BY <1>0 DEF Tab
  <2>2. tabs' = [tabs EXCEPT ![t] = w] /\ UNCHANGED chosen
    BY <1>0, <1>2 DEF setTheme
  <2>3. disk' \in {disk, [disk EXCEPT !.theme = x]}
    BY <1>2 DEF setTheme
  <2>4. disk' \in Disk /\ disk'.kind = disk.kind /\ disk'.item = disk.item
    BY <1>0, <2>3 DEF Disk
  <2> HIDE DEF w
  <2> QED BY <2>1, <2>2, <2>4, KeepsStored
<1>3. CASE UNCHANGED prefVars
  BY <1>3 DEF prefVars, PrefInv, PrefTyped, InStep, ChoicesStored, Chose
<1> QED
  BY <1>1, <1>2, <1>3, OpensKeep, ResetKeeps, ChoosesKeep DEF PrefNext

\* Whatever an older version has left, every tab starts closed and nothing is
\* chosen.
LEMMA PrefStarts == PrefInit => PrefInv
<1> SUFFICES ASSUME PrefInit PROVE PrefInv
  OBVIOUS
<1>0. getDefaultSettings(FALSE) \in Settings
  BY DefaultsAllowed
<1>1. tabs \in [Tabs -> Tab] /\ \A t \in Tabs : ~tabs[t].open
  <2>1. \A x \in ClosedTab : x \in Tab /\ ~x.open
    <3> DEFINE D == getDefaultSettings(FALSE)
    <3>1. D \in Settings
      BY <1>0
    <3>2. ClosedTab = [open : {FALSE}, mobile : BOOLEAN, mem : {D}, theme : {"light"},
                       behind : {FALSE}, unsaved : {FALSE}]
      BY DEF ClosedTab
    <3> HIDE DEF D
    <3> QED BY <3>1, <3>2 DEF Tab
  <2>2. tabs \in [Tabs -> ClosedTab]
    BY DEF PrefInit
  <2> QED BY <2>1, <2>2
<1>2. disk \in Disk
  <2>1. CASE disk \in Unread
    BY <1>0, <2>1, AllowedValues DEF Disk, Unread
  <2>2. CASE disk \in [kind : {"object"}, item : Outdated, theme : {"none"}]
    <3>1. \A s \in Settings, k \in SettingKeys :
             [s EXCEPT ![k] = "bad"] \in [SettingKeys -> Values \cup {"bad"}]
      BY AllowedValues
    <3>2. [k \in SettingKeys |-> "bad"] \in [SettingKeys -> Values \cup {"bad"}]
      OBVIOUS
    <3>3. \A i \in Outdated : i \in [SettingKeys -> Values \cup {"bad"}]
      BY <3>1, <3>2 DEF Outdated
    <3> QED BY <2>2, <3>3 DEF Disk
  <2>3. disk \in Unread \cup [kind : {"object"}, item : Outdated, theme : {"none"}]
    BY DEF PrefInit
  <2> QED BY <2>1, <2>2, <2>3
<1>3. chosen \in Picks /\ ~Chose
  BY DEF PrefInit, Picks, Chose
<1> QED BY <1>1, <1>2, <1>3 DEF PrefInv, PrefTyped, InStep, ChoicesStored

\* A reload of a tab in step with the storage changes nothing, and as long as no
\* save fails and no tab writes over a save it has missed, every choice is what
\* the next document of any width reads (lib/settings.ts, stores/settings.ts).
THEOREM SettingsAreKept == PrefSpec => []SettingsSurvive
<1>1. PrefInv => SettingsSurvive
  <2> SUFFICES ASSUME PrefInv PROVE SettingsSurvive
    OBVIOUS
  <2>0. tabs \in [Tabs -> Tab] /\ disk \in Disk
    BY DEF PrefInv, PrefTyped
  <2>1. ASSUME NEW t \in Tabs, tabs[t].open, disk.kind = "object", ~tabs[t].behind, ~tabs[t].unsaved
        PROVE  tabs[t].mem = Reading(tabs[t].mobile)
    <3>1. tabs[t].mem = disk.item /\ tabs[t].mem \in Settings /\ tabs[t].mobile \in BOOLEAN
      BY <2>0, <2>1 DEF PrefInv, InStep, Tab
    <3> QED BY <2>0, <2>1, <3>1, ReadsStored
  <2>2. ASSUME ~chosen.spoiled, NEW k \in SettingKeys, chosen.key[k] # "unset", NEW m \in BOOLEAN
        PROVE  Reading(m)[k] = chosen.key[k]
    <3>1. disk.kind = "object" /\ disk.item \in Settings /\ chosen.key[k] = disk.item[k]
      BY <2>2 DEF PrefInv, ChoicesStored, Chose
    <3> QED BY <2>0, <3>1, ReadsStored
  <2> QED BY <2>1, <2>2 DEF SettingsSurvive
<1> QED
  BY <1>1, PrefStarts, PrefStep, PTL DEF PrefSpec

(***************************************************************************)
(* AdminLists: users, devices, access keys and the profile                 *)
(***************************************************************************)

\* The pages of rows on their own, as the pages' run composes them with the
\* others.
ListSpec == ListsInit /\ spent = Unspent /\ [][ListsNext]_listVars

---------------------------------------------------------------------------
(* Types                                                                   *)

AnyName == RowNames \cup {FirstName}
RowType == [id : Nat, name : AnyName]
ListKinds == Writes \cup {"list", "get", "mail"}
Request == [n : Nat, kind : ListKinds, id : Nat, name : AnyName,
            state : {"sent"} \cup Outcomes, got : SUBSET RowType, before : SUBSET RowType,
            mount : Nat, clean : BOOLEAN]
AdmType == [page : {"users", "devices", "keys", "profile"}, rows : SUBSET RowType,
            loading : BOOLEAN, n : Nat, reqs : SUBSET Request, add : BOOLEAN, busy : BOOLEAN,
            reveal : Nat, del : Nat, delBusy : BOOLEAN, edit : Nat, target : Nat, user : Nat,
            temp : Nat, doubt : BOOLEAN, mount : Nat, brought : SUBSET Nat, seen : SUBSET Nat,
            excused : SUBSET Nat]
DbType == [rows : SUBSET RowType, last : Nat]

\* Which requests a page sends.
Sends(page, kind) ==
    /\ kind \in {"create", "delete"} => page # "profile"
    /\ kind = "update" => page \in {"devices", "profile"}
    /\ kind \in {"mail", "get"} => page = "users"

---------------------------------------------------------------------------
(* The lists                                                               *)

Deleted(a) == {r \in a.reqs : r.kind = "delete" /\ r.state \in {"ok", "refused"}}
Made(a) == {r \in a.reqs : r.kind = "create" /\ r.state = "ok"}
Changed(a) == {r \in a.reqs : r.kind = "update" /\ r.state = "ok"}

\* An answer that will raise the doubt or read the list again.
Doomed(a, r) ==
    \/ r \in Made(a) /\ (a.page = "keys" \/ (a.page = "devices" /\ ~r.clean))
    \/ r \in Changed(a) /\ ~r.clean

\* Nothing has spoiled the rows so far.
Calm(a) == ~a.doubt /\ \A r \in a.reqs : r.kind # "list" /\ ~Doomed(a, r)

\* New ids are new.
Bounded(a, db) ==
    a.page # "keys" =>
        /\ a.del <= db.last /\ a.edit <= db.last
        /\ \A x \in a.rows \cup db.rows : x.id <= db.last
        /\ \A r \in a.reqs :
              /\ r.kind \in {"delete", "update"} => r.id <= db.last
              /\ r.kind = "create" /\ r.state = "ok" => r.id \in 1..db.last
              /\ \A x \in r.got \cup r.before : x.id <= db.last

\* The ghost clean is what it says, and what it is for.
Cleans(a, db) ==
    /\ \A r, q \in a.reqs : r # q /\ Clash(r, q) => ~r.clean
    /\ \A r \in a.reqs : r.kind = "list" /\ r.clean /\ r.state = "ok" => r.got = db.rows
    /\ \A r \in a.reqs : r.kind = "create" /\ r.clean /\ a.page = "devices" => r.before = a.rows

\* A row that has been created and not yet been put in the list is the target
\* of nothing.
Apart(a) ==
    \A r \in Made(a) :
        /\ r.id # a.del
        /\ \A x \in a.rows : x.id # r.id
        /\ \A q \in a.reqs : q.kind = "delete" \/ (q \in Made(a) /\ q # r) => q.id # r.id

\* The backend has the rows of the page, but for the answers still to come.
Tallies(a, db) ==
    \A x \in RowType :
        x \in db.rows <=>
            /\ \A r \in Deleted(a) : r.id # x.id
            /\ \/ x \in a.rows /\ \A r \in Changed(a) : r.id # x.id
               \/ \E r \in Made(a) : x = Row(r.id, r.name)
               \/ \E r \in Changed(a) : x = Row(r.id, r.name) /\ \E y \in a.rows : y.id = r.id

Loose(a, db) ==
    /\ a \in AdmType /\ db \in DbType
    /\ \A r \in a.reqs : Sends(a.page, r.kind)
    /\ Bounded(a, db) /\ Cleans(a, db)

ListsOK(a, db) == Loose(a, db) /\ (Calm(a) => Apart(a) /\ Tallies(a, db))

---------------------------------------------------------------------------
(* Requests                                                                *)

Asked(a, kind, id, name, c) ==
    [n |-> a.n, kind |-> kind, id |-> id, name |-> name, state |-> "sent", got |-> {},
     before |-> IF kind = "create" /\ a.page = "devices" THEN a.rows ELSE {},
     mount |-> a.mount, clean |-> c]

\* A request that is out when q is sent.
Marked(r, q) == [r EXCEPT !.clean = r.clean /\ ~Clash(r, q)]

\* When answers depend on their order, by kinds.
LEMMA Clashes ==
    ASSUME NEW r, NEW q
    PROVE  Clash(r, q) <=>
              \/ r.kind = "list" /\ q.kind \in Writes
              \/ q.kind = "list" /\ r.kind \in Writes
              \/ r.kind = "create" /\ q.kind \in Writes
              \/ q.kind = "create" /\ r.kind \in Writes
              \/ r.kind = "update" /\ q.kind = "update" /\ r.id = q.id
BY DEF Clash, Writes

\* Only the kinds and the ids count.
LEMMA ClashesAlike ==
    ASSUME NEW r, NEW q, NEW s, NEW t, r.kind = s.kind, q.kind = t.kind,
           r.kind = "update" => r.id = s.id, q.kind = "update" => q.id = t.id
    PROVE  Clash(r, q) <=> Clash(s, t)
BY Clashes

\* A mark changes nothing but the ghost.
LEMMA MarkIs ==
    ASSUME NEW r \in Request, NEW q
    PROVE  /\ Marked(r, q) \in Request
           /\ Marked(r, q).kind = r.kind /\ Marked(r, q).id = r.id /\ Marked(r, q).name = r.name
           /\ Marked(r, q).state = r.state /\ Marked(r, q).got = r.got
           /\ Marked(r, q).before = r.before
           /\ Marked(r, q).clean <=> r.clean /\ ~Clash(r, q)
<1> DEFINE c == r.clean /\ ~Clash(r, q)
<1>1. c \in BOOLEAN
  BY DEF Clash
<1>2. Marked(r, q) = [r EXCEPT !.clean = c]
  BY DEF Marked
<1>3. c <=> r.clean /\ ~Clash(r, q)
  OBVIOUS
<1> HIDE DEF c
<1> QED BY <1>1, <1>2, <1>3 DEF Request

\* A new request.
LEMMA AskedIs ==
    ASSUME NEW a \in AdmType, NEW kind \in ListKinds, NEW id \in Nat, NEW name \in AnyName,
           NEW c \in BOOLEAN
    PROVE  LET q == Asked(a, kind, id, name, c)
           IN  /\ q \in Request /\ q.kind = kind /\ q.id = id /\ q.name = name
               /\ q.state = "sent" /\ q.got = {} /\ q.clean = c
               /\ q.before = IF kind = "create" /\ a.page = "devices" THEN a.rows ELSE {}
<1>1. a.n \in Nat /\ a.mount \in Nat /\ a.rows \in SUBSET RowType
  BY DEF AdmType
<1> QED BY <1>1 DEF Asked, Request

\* Putting a request out changes the requests and two fields of no account here.
LEMMA PutIs ==
    ASSUME NEW a \in AdmType, NEW kind \in ListKinds, NEW id \in Nat, NEW name \in AnyName
    PROVE  LET b == Put(a, kind, id, name)
           IN  /\ b \in AdmType
               /\ b.page = a.page /\ b.rows = a.rows /\ b.add = a.add /\ b.del = a.del
               /\ b.edit = a.edit /\ b.doubt = a.doubt /\ b.reveal = a.reveal /\ b.temp = a.temp
               /\ b.brought = a.brought /\ b.seen = a.seen /\ b.excused = a.excused
               /\ \E c \in BOOLEAN :
                     LET q == Asked(a, kind, id, name, c)
                     IN  /\ b.reqs = {Marked(r, q) : r \in a.reqs} \cup {q}
                         /\ c => \A r \in a.reqs : ~Clash(r, q)
<1> DEFINE p == Asked(a, kind, id, name, TRUE)
           c == \A r \in a.reqs : ~Clash(r, p)
           q == Asked(a, kind, id, name, c)
           R == {Marked(r, q) : r \in a.reqs} \cup {q}
           l == a.loading \/ kind # "mail"
           b == Put(a, kind, id, name)
<1>0. c \in BOOLEAN /\ l \in BOOLEAN
  OBVIOUS
<1>a. c => \A r \in a.reqs : ~Clash(r, p)
  OBVIOUS
<1>b. b = [a EXCEPT !.n = a.n + 1, !.loading = l,
                    !.reqs = {[r EXCEPT !.clean = r.clean /\ ~Clash(r, p)] : r \in a.reqs} \cup
                             {[p EXCEPT !.clean = c]}]
  BY DEF Put, Asked, AdmType, Request
<1> HIDE DEF c, b, l
<1>1. /\ q \in Request /\ q.kind = kind /\ q.id = id
      /\ p.kind = kind /\ p.id = id
  <2>1. q \in Request /\ q.kind = kind /\ q.id = id
    BY <1>0, AskedIs
  <2>2. p.kind = kind /\ p.id = id
    BY DEF Asked
  <2> QED BY <2>1, <2>2
<1>3. [p EXCEPT !.clean = c] = q
  BY DEF Asked
<1> HIDE DEF p, q
<1>2. \A r : Clash(r, q) <=> Clash(r, p)
  BY <1>1, ClashesAlike
<1>4. \A r : [r EXCEPT !.clean = r.clean /\ ~Clash(r, p)] = Marked(r, q)
  BY <1>2 DEF Marked
<1>c. {[r EXCEPT !.clean = r.clean /\ ~Clash(r, p)] : r \in a.reqs} = {Marked(r, q) : r \in a.reqs}
  BY <1>4
<1>5. b = [a EXCEPT !.n = a.n + 1, !.loading = l, !.reqs = R]
  BY <1>3, <1>b, <1>c
<1>6. R \in SUBSET Request
  BY <1>1, MarkIs DEF AdmType
<1>7. c => \A r \in a.reqs : ~Clash(r, q)
  BY <1>2, <1>a
<1>8. a.n + 1 \in Nat
  BY DEF AdmType
<1> HIDE DEF R
<1>9. /\ b \in AdmType
      /\ b.page = a.page /\ b.rows = a.rows /\ b.add = a.add /\ b.del = a.del
      /\ b.edit = a.edit /\ b.doubt = a.doubt /\ b.reveal = a.reveal /\ b.temp = a.temp
      /\ b.brought = a.brought /\ b.seen = a.seen /\ b.excused = a.excused
      /\ b.reqs = R
  BY <1>0, <1>5, <1>6, <1>8 DEF AdmType
<1>10. b.reqs = {Marked(r, q) : r \in a.reqs} \cup {q}
  BY <1>9 DEF R
<1> QED BY <1>0, <1>7, <1>9, <1>10 DEF b, q

---------------------------------------------------------------------------
(* What a request that is put out leaves true                              *)

\* The requests of a and, marked, those of b: one more is out.
Joined(a, b, q) ==
    /\ a \in AdmType /\ b \in AdmType /\ b.page = a.page
    /\ b.del = a.del /\ b.edit = a.edit /\ b.doubt = a.doubt
    /\ b.reqs = {Marked(r, q) : r \in a.reqs} \cup {q}
    /\ q \in Request /\ q.state = "sent" /\ q.got = {}
    /\ q.clean => \A r \in a.reqs : ~Clash(r, q)
    /\ q.before = IF q.kind = "create" /\ a.page = "devices" THEN a.rows ELSE {}

\* What a mark keeps, for all requests.
LEMMA MarksAll ==
    ASSUME NEW a, NEW b, NEW q, Joined(a, b, q)
    PROVE  /\ \A x \in b.reqs : x = q \/ \E r \in a.reqs : x = Marked(r, q)
           /\ q \in b.reqs
           /\ \A r \in a.reqs :
                 /\ r \in Request /\ Marked(r, q) \in b.reqs /\ Marked(r, q) \in Request
                 /\ Marked(r, q).kind = r.kind /\ Marked(r, q).id = r.id
                 /\ Marked(r, q).name = r.name
                 /\ Marked(r, q).state = r.state /\ Marked(r, q).got = r.got
                 /\ Marked(r, q).before = r.before
                 /\ Marked(r, q).clean <=> r.clean /\ ~Clash(r, q)
<1>1. \A r \in a.reqs : r \in Request
  BY DEF Joined, AdmType
<1>2. b.reqs = {Marked(r, q) : r \in a.reqs} \cup {q}
  BY DEF Joined
<1> QED BY <1>1, <1>2, MarkIs

\* The ghosts stay true, and ids bounded.  A list empties the rows: no creation
\* that overlaps it is clean.
LEMMA JoinedLoose ==
    ASSUME NEW a, NEW b, NEW q, NEW db, Joined(a, b, q), Loose(a, db), Sends(a.page, q.kind),
           b.rows = a.rows \/ (b.rows = {} /\ q.kind = "list"),
           q.kind \in {"delete", "update"} /\ a.page # "keys" => q.id <= db.last
    PROVE  Loose(b, db)
<1>0. a \in AdmType /\ b \in AdmType /\ b.page = a.page /\ db \in DbType
  BY DEF Joined, Loose
<1>1. \A x \in b.reqs : Sends(b.page, x.kind)
  BY <1>0, MarksAll DEF Loose
<1>2. Bounded(b, db)
  <2> SUFFICES ASSUME a.page # "keys" PROVE Bounded(b, db)
    BY <1>0 DEF Bounded
  <2>0. Bounded(a, db)
    BY DEF Loose
  <2>1. b.del <= db.last /\ b.edit <= db.last /\ \A x \in b.rows \cup db.rows : x.id <= db.last
    BY <2>0 DEF Bounded, Joined
  <2>2. \A x \in q.got \cup q.before : x.id <= db.last
    BY <2>0 DEF Bounded, Joined
  <2>3. ASSUME NEW r \in a.reqs, NEW x, x = Marked(r, q)
        PROVE  /\ x.kind \in {"delete", "update"} => x.id <= db.last
               /\ x.kind = "create" /\ x.state = "ok" => x.id \in 1..db.last
               /\ \A y \in x.got \cup x.before : y.id <= db.last
    BY <2>0, <2>3, MarksAll DEF Bounded
  <2>4. q.state = "sent"
    BY DEF Joined
  <2>5. \A x \in b.reqs :
           /\ x.kind \in {"delete", "update"} => x.id <= db.last
           /\ x.kind = "create" /\ x.state = "ok" => x.id \in 1..db.last
           /\ \A y \in x.got \cup x.before : y.id <= db.last
    BY <2>2, <2>3, <2>4, MarksAll
  <2> QED BY <2>1, <2>5 DEF Bounded
<1>3. Cleans(b, db)
  <2>0. Cleans(a, db)
    BY DEF Loose
  <2>1. ASSUME NEW x \in b.reqs, NEW y \in b.reqs, x # y, Clash(x, y)
        PROVE  ~x.clean
    <3>1. CASE x = q
      <4>1. PICK r \in a.reqs : y = Marked(r, q)
        BY <2>1, <3>1, MarksAll
      <4>2. Clash(r, q)
        BY <2>1, <3>1, <4>1, MarksAll, Clashes
      <4> QED BY <3>1, <4>2 DEF Joined
    <3>2. CASE y = q /\ x # q
      <4>1. PICK r \in a.reqs : x = Marked(r, q)
        BY <3>2, MarksAll
      <4>2. Clash(r, q)
        BY <2>1, <3>2, <4>1, MarksAll, Clashes
      <4> QED BY <4>1, <4>2, MarksAll
    <3>3. CASE x # q /\ y # q
      <4>1. PICK r \in a.reqs : x = Marked(r, q)
        BY <3>3, MarksAll
      <4>2. PICK s \in a.reqs : y = Marked(s, q)
        BY <3>3, MarksAll
      <4>3. r # s /\ Clash(r, s)
        BY <2>1, <4>1, <4>2, MarksAll, Clashes
      <4> QED BY <2>0, <4>1, <4>3, MarksAll DEF Cleans
    <3> QED BY <3>1, <3>2, <3>3
  <2>2. ASSUME NEW x \in b.reqs, x.kind = "list", x.clean, x.state = "ok"
        PROVE  x.got = db.rows
    <3>1. x # q
      BY <2>2 DEF Joined
    <3>2. PICK r \in a.reqs : x = Marked(r, q)
      BY <3>1, MarksAll
    <3> QED BY <2>0, <2>2, <3>2, MarksAll DEF Cleans
  <2>3. ASSUME NEW x \in b.reqs, x.kind = "create", x.clean, b.page = "devices"
        PROVE  x.before = b.rows
    <3>1. CASE x = q
      BY <1>0, <2>3, <3>1 DEF Joined
    <3>2. CASE x # q
      <4>1. PICK r \in a.reqs : x = Marked(r, q)
        BY <3>2, MarksAll
      <4>2. r.kind = "create" /\ r.clean /\ ~Clash(r, q) /\ x.before = r.before
        BY <2>3, <4>1, MarksAll
      <4>3. q.kind # "list"
        BY <4>2, Clashes DEF Writes
      <4> QED BY <1>0, <2>0, <2>3, <4>2, <4>3 DEF Cleans
    <3> QED BY <3>1, <3>2
  <2> QED BY <2>1, <2>2, <2>3 DEF Cleans
<1> QED BY <1>0, <1>1, <1>2, <1>3 DEF Loose

\* As long as a list is out nothing is claimed.
LEMMA JoinedList ==
    ASSUME NEW a, NEW b, NEW q, NEW db, Joined(a, b, q), Loose(b, db), q.kind = "list"
    PROVE  ListsOK(b, db)
BY MarksAll DEF ListsOK, Calm

\* Another request has no effect yet.
LEMMA JoinedKeeps ==
    ASSUME NEW a, NEW b, NEW q, NEW db, Joined(a, b, q), ListsOK(a, db), Loose(b, db),
           b.rows = a.rows,
           q.kind = "delete" /\ Calm(a) => \A r \in Made(a) : r.id # q.id
    PROVE  ListsOK(b, db)
<1> SUFFICES ASSUME Calm(b) PROVE Apart(b) /\ Tallies(b, db)
  BY DEF ListsOK
<1>0. b.page = a.page /\ b.doubt = a.doubt /\ b.del = a.del /\ q.state = "sent"
  BY DEF Joined
<1>1. /\ \A r \in a.reqs : r \in Made(a) <=> Marked(r, q) \in Made(b)
      /\ \A r \in a.reqs : r \in Deleted(a) <=> Marked(r, q) \in Deleted(b)
      /\ \A r \in a.reqs : r \in Changed(a) <=> Marked(r, q) \in Changed(b)
  BY MarksAll DEF Made, Deleted, Changed
<1>2. q \notin Made(b) /\ q \notin Deleted(b) /\ q \notin Changed(b)
  BY <1>0 DEF Made, Deleted, Changed
<1>3. Calm(a)
  <2>1. ASSUME NEW r \in a.reqs, Doomed(a, r) PROVE Doomed(b, Marked(r, q))
    BY <1>0, <1>1, <2>1, MarksAll DEF Doomed
  <2> QED BY <1>0, <2>1, MarksAll DEF Calm
<1>4. Apart(a) /\ Tallies(a, db)
  BY <1>3 DEF ListsOK
<1>5. Made(b) \subseteq b.reqs /\ Deleted(b) \subseteq b.reqs /\ Changed(b) \subseteq b.reqs
  BY DEF Made, Deleted, Changed
<1>6. Made(a) \subseteq a.reqs /\ Deleted(a) \subseteq a.reqs /\ Changed(a) \subseteq a.reqs
  BY DEF Made, Deleted, Changed
<1>7. Apart(b)
  <2> SUFFICES ASSUME NEW x \in Made(b)
               PROVE  /\ x.id # b.del
                      /\ \A y \in b.rows : y.id # x.id
                      /\ \A y \in b.reqs : y.kind = "delete" \/ (y \in Made(b) /\ y # x) => y.id # x.id
    BY DEF Apart
  <2>1. PICK r \in a.reqs : x = Marked(r, q) /\ r \in Made(a)
    BY <1>1, <1>2, <1>5, MarksAll
  <2>2. x.id = r.id
    BY <2>1, MarksAll
  <2>3. x.id # b.del /\ \A y \in b.rows : y.id # x.id
    BY <1>0, <1>4, <2>1, <2>2 DEF Apart
  <2>4. ASSUME NEW y \in b.reqs, y.kind = "delete" \/ (y \in Made(b) /\ y # x)
        PROVE  y.id # x.id
    <3>1. CASE y = q
      BY <1>2, <1>3, <2>1, <2>2, <2>4, <3>1
    <3>2. CASE y # q
      <4>1. PICK s \in a.reqs : y = Marked(s, q)
        BY <3>2, MarksAll
      <4>2. s.kind = "delete" \/ (s \in Made(a) /\ s # r)
        BY <1>1, <2>1, <2>4, <4>1, MarksAll
      <4> QED BY <1>4, <2>1, <2>2, <4>1, <4>2, MarksAll DEF Apart
    <3> QED BY <3>1, <3>2
  <2> QED BY <2>3, <2>4
<1>8. ASSUME NEW x \in RowType
      PROVE  /\ (\A r \in Deleted(b) : r.id # x.id) <=> (\A r \in Deleted(a) : r.id # x.id)
             /\ (\A r \in Changed(b) : r.id # x.id) <=> (\A r \in Changed(a) : r.id # x.id)
             /\ (\E r \in Made(b) : x = Row(r.id, r.name)) <=> (\E r \in Made(a) : x = Row(r.id, r.name))
             /\ (\E r \in Changed(b) : x = Row(r.id, r.name) /\ \E y \in b.rows : y.id = r.id)
                   <=> (\E r \in Changed(a) : x = Row(r.id, r.name) /\ \E y \in a.rows : y.id = r.id)
  <2>0. /\ \A z \in b.reqs : z = q \/ \E r \in a.reqs : z = Marked(r, q)
        /\ \A r \in a.reqs : Marked(r, q).id = r.id /\ Marked(r, q).name = r.name
    BY MarksAll
  <2>1. (\A r \in Deleted(b) : r.id # x.id) <=> (\A r \in Deleted(a) : r.id # x.id)
    BY <1>1, <1>2, <1>5, <1>6, <2>0
  <2>2. (\A r \in Changed(b) : r.id # x.id) <=> (\A r \in Changed(a) : r.id # x.id)
    BY <1>1, <1>2, <1>5, <1>6, <2>0
  <2>3. (\E r \in Made(b) : x = Row(r.id, r.name)) <=> (\E r \in Made(a) : x = Row(r.id, r.name))
    BY <1>1, <1>2, <1>5, <1>6, <2>0
  <2>4. (\E r \in Changed(b) : x = Row(r.id, r.name) /\ \E y \in b.rows : y.id = r.id)
                   <=> (\E r \in Changed(a) : x = Row(r.id, r.name) /\ \E y \in a.rows : y.id = r.id)
    BY <1>1, <1>2, <1>5, <1>6, <2>0
  <2> QED BY <2>1, <2>2, <2>3, <2>4
<1>9. Tallies(b, db)
  BY <1>4, <1>8 DEF Tallies
<1> QED BY <1>7, <1>9

\* A request that is put out, in these terms.
LEMMA PutJoins ==
    ASSUME NEW a \in AdmType, NEW kind \in ListKinds, NEW id \in Nat, NEW name \in AnyName
    PROVE  \E q : /\ Joined(a, Put(a, kind, id, name), q) /\ q.kind = kind /\ q.id = id
                  /\ Put(a, kind, id, name).rows = a.rows
<1> DEFINE b == Put(a, kind, id, name)
<1>1. PICK c \in BOOLEAN :
         /\ b.reqs = {Marked(r, Asked(a, kind, id, name, c)) : r \in a.reqs}
                         \cup {Asked(a, kind, id, name, c)}
         /\ c => \A r \in a.reqs : ~Clash(r, Asked(a, kind, id, name, c))
  BY PutIs, ZenonT(40)
<1>2. b \in AdmType /\ b.page = a.page /\ b.rows = a.rows /\ b.del = a.del /\ b.edit = a.edit /\ b.doubt = a.doubt
  BY PutIs
<1> DEFINE q == Asked(a, kind, id, name, c)
<1>3. /\ q \in Request /\ q.kind = kind /\ q.id = id /\ q.state = "sent" /\ q.got = {}
      /\ q.clean = c
      /\ q.before = IF kind = "create" /\ a.page = "devices" THEN a.rows ELSE {}
  BY AskedIs
<1> HIDE DEF b, q
<1>4. Joined(a, b, q)
  BY <1>1, <1>2, <1>3 DEF Joined, q
<1> QED BY <1>2, <1>3, <1>4 DEF b

\* The rows are emptied and read again.
LEMMA RereadJoins ==
    ASSUME NEW a \in AdmType
    PROVE  /\ \E q : Joined(a, Reread(a), q) /\ q.kind = "list"
           /\ Reread(a).rows = {}
<1> DEFINE e == [a EXCEPT !.rows = {}]
<1>1. /\ e \in AdmType /\ e.page = a.page /\ e.del = a.del /\ e.edit = a.edit
      /\ e.doubt = a.doubt /\ e.reqs = a.reqs /\ e.rows = {}
  BY DEF AdmType
<1> HIDE DEF e
<1>2. Reread(a) = Put(e, "list", 0, FirstName)
  BY DEF Reread, e
<1>3. PICK q : /\ Joined(e, Put(e, "list", 0, FirstName), q) /\ q.kind = "list"
               /\ Put(e, "list", 0, FirstName).rows = {}
  BY <1>1, PutJoins DEF ListKinds, AnyName
<1>4. Joined(a, Reread(a), q)
  BY <1>1, <1>2, <1>3 DEF Joined
<1> QED BY <1>2, <1>3, <1>4

\* A list that is read anew starts from no rows, whatever was on the page.
LEMMA RereadKeeps ==
    ASSUME NEW a, NEW db, Loose(a, db)
    PROVE  ListsOK(Reread(a), db)
<1>1. a \in AdmType
  BY DEF Loose
<1>2. PICK q : Joined(a, Reread(a), q) /\ q.kind = "list"
  BY <1>1, RereadJoins
<1>3. Reread(a).rows = {} /\ Sends(a.page, q.kind)
  BY <1>1, <1>2, RereadJoins DEF Sends
<1>4. Loose(Reread(a), db)
  BY <1>2, <1>3, JoinedLoose
<1> QED BY <1>2, <1>4, JoinedList

\* A write, the details of a user or a mail is asked for.
LEMMA PutKeeps ==
    ASSUME NEW a, NEW db, ListsOK(a, db),
           NEW kind \in Writes \cup {"get", "mail"}, NEW id \in Nat, NEW name \in AnyName,
           Sends(a.page, kind),
           kind \in {"delete", "update"} /\ a.page # "keys" => id <= db.last,
           kind = "delete" /\ Calm(a) => \A r \in Made(a) : r.id # id
    PROVE  ListsOK(Put(a, kind, id, name), db)
<1> DEFINE b == Put(a, kind, id, name)
<1>1. a \in AdmType /\ kind \in ListKinds /\ Loose(a, db)
  BY DEF ListsOK, Loose, ListKinds
<1>2. PICK q : Joined(a, b, q) /\ q.kind = kind /\ q.id = id
  BY <1>1, PutJoins
<1>3. b.rows = a.rows
  BY <1>1, PutJoins
<1> HIDE DEF b
<1>4. Loose(b, db)
  BY <1>1, <1>2, <1>3, JoinedLoose
<1>5. ListsOK(b, db)
  BY <1>2, <1>3, <1>4, JoinedKeeps
<1> QED BY <1>5 DEF b

---------------------------------------------------------------------------
(* Steps that only open and close                                          *)

\* A modal that is opened for a row, or closed.
Aims(old, new, rows) == new = old \/ new = 0 \/ \E x \in rows : x.id = new

\* Opening a modal for a row, or closing it, keeps the bounds ...
LEMMA NeutralLoose ==
    ASSUME NEW a, NEW b \in AdmType, NEW db, Loose(a, db),
           b.page = a.page, b.rows = a.rows, b.reqs = a.reqs,
           Aims(a.del, b.del, a.rows), Aims(a.edit, b.edit, a.rows)
    PROVE  Loose(b, db)
<1>1. db.last \in Nat
  BY DEF Loose, DbType
<1>2. Bounded(b, db)
  BY <1>1 DEF Loose, Bounded, Aims
<1>3. Cleans(b, db)
  BY DEF Loose, Cleans
<1> QED BY <1>2, <1>3 DEF Loose

\* ... and the agreement of rows and database.
LEMMA NeutralKeeps ==
    ASSUME NEW a, NEW b \in AdmType, NEW db, ListsOK(a, db),
           b.page = a.page, b.rows = a.rows, b.reqs = a.reqs, b.doubt = a.doubt,
           Aims(a.del, b.del, a.rows), Aims(a.edit, b.edit, a.rows)
    PROVE  ListsOK(b, db)
<1>1. Loose(b, db)
  BY NeutralLoose DEF ListsOK
<1>2. Made(b) = Made(a) /\ Deleted(b) = Deleted(a) /\ Changed(b) = Changed(a)
  BY DEF Made, Deleted, Changed
<1>3. Calm(b) <=> Calm(a)
  BY <1>2 DEF Calm, Doomed
<1>4. Tallies(a, db) => Tallies(b, db)
  BY <1>2 DEF Tallies
<1>5. ASSUME Calm(a), Apart(a) PROVE Apart(b)
  <2>1. ASSUME NEW r \in Made(a) PROVE r.id # 0
    <3>1. a.page # "keys"
      BY <1>5, <2>1 DEF Calm, Doomed, Made
    <3> QED BY <2>1, <3>1 DEF ListsOK, Loose, Bounded, Made, DbType
  <2> QED BY <1>2, <1>5, <2>1 DEF Apart, Aims
<1> QED BY <1>1, <1>3, <1>4, <1>5 DEF ListsOK

---------------------------------------------------------------------------
(* The backend handles a request                                           *)

\* Request r is replaced by s, which has been handled.
Handled(a, b, r, s) ==
    /\ a \in AdmType /\ b \in AdmType /\ r \in a.reqs /\ s \in Request
    /\ b.page = a.page /\ b.rows = a.rows /\ b.del = a.del /\ b.edit = a.edit
    /\ b.reqs = (a.reqs \ {r}) \cup {s}
    /\ s.kind = r.kind /\ s.name = r.name /\ s.before = r.before /\ s.clean = r.clean
    /\ r.kind # "create" \/ a.page = "keys" => s.id = r.id

\* What is stored after request r, handled as s.
Leaves(a, r, s, db, new) ==
    \/ new = db /\ (r.kind \notin Writes \/ s.state # "ok")
    \/ /\ r.kind = "create" /\ s.state # "refused" /\ new.rows = db.rows \cup {Row(s.id, r.name)}
       /\ a.page # "keys" => s.id = db.last + 1 /\ new.last = s.id
       /\ a.page = "keys" => new.last = db.last
    \/ /\ r.kind = "update" /\ s.state # "refused" /\ new.last = db.last
       /\ \E y \in db.rows : y.id = r.id
       /\ new.rows = Kept(db.rows, r.id) \cup {Row(r.id, r.name)}
    \/ /\ r.kind = "delete" /\ s.state # "refused" /\ new.last = db.last
       /\ new.rows = Kept(db.rows, r.id)

\* Every way the backend handles a request is one of those above.
LEMMA ServesAs ==
    ASSUME Loose(adm, rowsDb), NEW r \in adm.reqs, NEW o \in Outcomes, ServeList(r, o)
    PROVE  \E s : /\ Handled(adm, adm', r, s) /\ r.state = "sent" /\ s.state = o
                  /\ s.got = rowsDb.rows /\ rowsDb' \in DbType
                  /\ Leaves(adm, r, s, rowsDb, rowsDb')
                  /\ adm.doubt => adm'.doubt
                  /\ r.kind \in Writes /\ o = "network" => adm'.doubt
                  /\ r.kind = "delete" /\ o = "refused" /\ (\E y \in rowsDb.rows : y.id = r.id)
                        => adm'.doubt
                  /\ \A f \in {"add", "reveal", "temp", "brought", "seen", "excused"} : adm'[f] = adm[f]
<1> DEFINE i == IF r.kind = "create" /\ adm.page # "keys" THEN rowsDb.last + 1 ELSE r.id
           s == [r EXCEPT !.state = o, !.id = i, !.got = rowsDb.rows]
           R == (adm.reqs \ {r}) \cup {s}
           d == adm.doubt \/ ((r.kind \in Writes /\ o = "network")
                              \/ (r.kind = "delete" /\ o = "refused" /\ ~Refuses(r)))
<1>0. /\ adm \in AdmType /\ rowsDb \in DbType /\ r \in Request /\ adm.doubt \in BOOLEAN
      /\ rowsDb.last \in Nat /\ rowsDb.rows \in SUBSET RowType /\ adm.reqs \in SUBSET Request
      /\ r.id \in Nat /\ r.name \in AnyName
  BY DEF Loose, AdmType, DbType, Request
<1>1. i \in Nat /\ (r.kind # "create" \/ adm.page = "keys" => i = r.id)
  BY <1>0
<1>2. adm' = [adm EXCEPT !.reqs = R, !.doubt = d]
  BY DEF ServeList
<1>3. r.state = "sent"
  BY DEF ServeList
<1>4. IF Refuses(r) THEN o = "refused" /\ rowsDb' = rowsDb
      ELSE rowsDb' \in Written(o, rowsDb, Effects(r, i))
  BY DEF ServeList
<1>5. d \in BOOLEAN /\ (adm.doubt => d) /\ (r.kind \in Writes /\ o = "network" => d)
      /\ (r.kind = "delete" /\ o = "refused" /\ ~Refuses(r) => d)
  OBVIOUS
<1>6. r.kind = "delete" /\ (\E y \in rowsDb.rows : y.id = r.id) => ~Refuses(r)
  BY DEF Refuses, Stored
<1> HIDE DEF d
<1>7. (r.kind = "create" /\ adm.page # "keys") => i = rowsDb.last + 1
  BY <1>0
<1> HIDE DEF i
<1>8. /\ s \in Request /\ s.kind = r.kind /\ s.name = r.name /\ s.before = r.before /\ s.clean = r.clean
      /\ s.state = o /\ s.got = rowsDb.rows /\ s.id = i
  BY <1>0, <1>1 DEF Request
<1> HIDE DEF s
<1>9. R \in SUBSET Request
  BY <1>0, <1>8
<1> HIDE DEF R
<1>10. /\ adm' \in AdmType /\ adm'.page = adm.page /\ adm'.rows = adm.rows /\ adm'.del = adm.del
       /\ adm'.edit = adm.edit /\ adm'.reqs = R /\ adm'.doubt = d
       /\ \A f \in {"add", "reveal", "temp", "brought", "seen", "excused"} : adm'[f] = adm[f]
  BY <1>0, <1>2, <1>5, <1>9 DEF AdmType
<1>11. Handled(adm, adm', r, s)
  BY <1>0, <1>1, <1>8, <1>10 DEF Handled, R
<1>12. rowsDb' \in DbType /\ Leaves(adm, r, s, rowsDb, rowsDb')
  <2>1. CASE Refuses(r)
    BY <1>0, <1>4, <1>8, <2>1 DEF Leaves
  <2>2. CASE ~Refuses(r) /\ o = "refused"
    BY <1>0, <1>4, <1>8, <2>2 DEF Leaves, Written
  <2>3. CASE ~Refuses(r) /\ o # "refused"
    <3>1. /\ rowsDb' = rowsDb \/ rowsDb' = Effects(r, i)
          /\ o = "ok" => rowsDb' = Effects(r, i)
      BY <1>4, <2>3 DEF Written, Outcomes
    <3>2. CASE r.kind = "create"
      <4>1. Effects(r, i) = [rows |-> rowsDb.rows \cup {Row(i, r.name)},
                             last |-> IF adm.page = "keys" THEN rowsDb.last ELSE i]
        BY <3>2 DEF Effects
      <4>2. Row(i, r.name) \in RowType
        BY <1>0, <1>1 DEF Row, RowType
      <4>3. Effects(r, i) \in DbType
        BY <1>0, <1>1, <4>1, <4>2 DEF DbType
      <4> QED BY <1>0, <1>7, <1>8, <2>3, <3>1, <3>2, <4>1, <4>3 DEF Leaves
    <3>3. CASE r.kind = "update"
      <4>1. Effects(r, i) = [rowsDb EXCEPT !.rows = Kept(rowsDb.rows, r.id) \cup {Row(r.id, r.name)}]
        BY <1>0, <3>3 DEF Effects, DbType
      <4>2. Row(r.id, r.name) \in RowType /\ Kept(rowsDb.rows, r.id) \subseteq RowType
        BY <1>0 DEF Row, RowType, Kept
      <4>3. /\ Effects(r, i) \in DbType /\ Effects(r, i).last = rowsDb.last
            /\ Effects(r, i).rows = Kept(rowsDb.rows, r.id) \cup {Row(r.id, r.name)}
        BY <1>0, <4>1, <4>2 DEF DbType
      <4>4. \E y \in rowsDb.rows : y.id = r.id
        BY <2>3, <3>3 DEF Refuses, Stored
      <4> QED BY <1>0, <1>8, <2>3, <3>1, <3>3, <4>3, <4>4 DEF Leaves
    <3>4. CASE r.kind = "delete"
      <4>1. Effects(r, i) = [rowsDb EXCEPT !.rows = Kept(rowsDb.rows, r.id)]
        BY <1>0, <3>4 DEF Effects, DbType
      <4>2. Kept(rowsDb.rows, r.id) \subseteq RowType
        BY <1>0 DEF Kept
      <4>3. /\ Effects(r, i) \in DbType /\ Effects(r, i).last = rowsDb.last
            /\ Effects(r, i).rows = Kept(rowsDb.rows, r.id)
        BY <1>0, <4>1, <4>2 DEF DbType
      <4> QED BY <1>0, <1>8, <2>3, <3>1, <3>4, <4>3 DEF Leaves
    <3>5. CASE r.kind \notin Writes
      <4>1. Effects(r, i) = rowsDb
        BY <3>5 DEF Effects, Writes
      <4> QED BY <1>0, <1>8, <3>1, <3>5, <4>1 DEF Leaves
    <3> QED BY <3>2, <3>3, <3>4, <3>5 DEF Writes
  <2> QED BY <2>1, <2>2, <2>3
<1> QED BY <1>3, <1>5, <1>6, <1>8, <1>10, <1>11, <1>12

\* A handled request keeps the bounds.
LEMMA HandledLoose ==
    ASSUME NEW a, NEW b, NEW r, NEW s, NEW db, NEW new \in DbType, Handled(a, b, r, s), Loose(a, db),
           s.got = db.rows, s.state # "sent", Leaves(a, r, s, db, new)
    PROVE  Loose(b, new)
<1>0. /\ a \in AdmType /\ b \in AdmType /\ b.page = a.page /\ b.rows = a.rows /\ db \in DbType
      /\ r \in a.reqs /\ s \in b.reqs /\ s.kind = r.kind
  BY DEF Handled, Loose
<1>1. \A x \in b.reqs : x = s \/ (x \in a.reqs /\ x # r)
  BY DEF Handled
<1>2. \A x \in b.reqs : Sends(b.page, x.kind)
  BY <1>0, <1>1 DEF Loose
<1>3. Bounded(b, new)
  <2> SUFFICES ASSUME a.page # "keys" PROVE Bounded(b, new)
    BY <1>0 DEF Bounded
  <2>0. Bounded(a, db) /\ db.last \in Nat /\ new.last \in Nat /\ s.id \in Nat
    BY DEF Loose, DbType, Handled, Request
  <2>1. db.last <= new.last
    BY <2>0 DEF Leaves
  <2>2. \A x \in db.rows : x.id \in Nat /\ x.id <= db.last
    BY <1>0, <2>0 DEF Bounded, DbType, RowType
  <2>3. \A x \in new.rows : x.id <= new.last
    BY <1>0, <2>0, <2>1, <2>2 DEF Leaves, Kept, Row, Bounded
  <2>4. b.del <= new.last /\ b.edit <= new.last /\ \A x \in a.rows : x.id <= new.last
    <3>1. a.del \in Nat /\ a.edit \in Nat /\ \A x \in a.rows : x.id \in Nat
      BY <1>0 DEF AdmType, RowType
    <3>2. a.del <= db.last /\ a.edit <= db.last /\ \A x \in a.rows : x.id <= db.last
      BY <2>0 DEF Bounded
    <3> QED BY <2>0, <2>1, <3>1, <3>2 DEF Handled
  <2>5. ASSUME NEW x \in a.reqs
        PROVE  /\ x.kind \in {"delete", "update"} => x.id <= new.last
               /\ x.kind = "create" /\ x.state = "ok" => x.id \in 1..new.last
               /\ \A y \in x.got \cup x.before : y.id <= new.last
    <3>1. x.id \in Nat /\ \A y \in x.got \cup x.before : y.id \in Nat
      BY <1>0 DEF AdmType, Request, RowType
    <3>2. /\ x.kind \in {"delete", "update"} => x.id <= db.last
          /\ x.kind = "create" /\ x.state = "ok" => x.id \in 1..db.last
          /\ \A y \in x.got \cup x.before : y.id <= db.last
      BY <2>0 DEF Bounded
    <3> QED BY <2>0, <2>1, <3>1, <3>2
  <2>6. /\ s.kind \in {"delete", "update"} => s.id <= new.last
        /\ s.kind = "create" /\ s.state = "ok" => s.id \in 1..new.last
        /\ \A y \in s.got \cup s.before : y.id <= new.last
    <3>1. s.kind \in {"delete", "update"} => s.id <= new.last
      BY <1>0, <2>5 DEF Handled
    <3>2. s.kind = "create" /\ s.state = "ok" => s.id \in 1..new.last
      BY <1>0, <2>0 DEF Leaves, Writes
    <3>3. \A y \in s.got : y.id <= new.last
      BY <2>0, <2>1, <2>2
    <3>4. \A y \in s.before : y.id <= new.last
      BY <1>0, <2>5 DEF Handled
    <3> QED BY <3>1, <3>2, <3>3, <3>4
  <2> QED BY <1>0, <1>1, <2>3, <2>4, <2>5, <2>6 DEF Bounded
<1>4. Cleans(b, new)
  <2>0. Cleans(a, db)
    BY DEF Loose
  <2>1. ASSUME NEW x \in b.reqs, NEW y \in b.reqs, x # y, Clash(x, y)
        PROVE  ~x.clean
    <3>0. s.kind = r.kind /\ (s.kind = "update" => s.id = r.id) /\ s.clean = r.clean
      BY DEF Handled
    <3>1. CASE x = s
      <4>1. y \in a.reqs /\ y # r
        BY <1>1, <2>1, <3>1
      <4>2. Clash(r, y)
        BY <2>1, <3>0, <3>1, Clashes
      <4> QED BY <1>0, <2>0, <3>0, <3>1, <4>1, <4>2 DEF Cleans
    <3>2. CASE y = s
      <4>1. x \in a.reqs /\ x # r
        BY <1>1, <2>1, <3>2
      <4>2. Clash(x, r)
        BY <2>1, <3>0, <3>2, Clashes
      <4> QED BY <1>0, <2>0, <4>1, <4>2 DEF Cleans
    <3>3. CASE x # s /\ y # s
      BY <1>1, <2>0, <2>1, <3>3 DEF Cleans
    <3> QED BY <3>1, <3>2, <3>3
  <2>2. ASSUME NEW x \in b.reqs, x.kind = "list", x.clean, x.state = "ok"
        PROVE  x.got = new.rows
    <3>1. r.kind \in Writes => x # s /\ x \in a.reqs /\ Clash(x, r)
      BY <1>0, <1>1, <2>2, Clashes DEF Writes
    <3>2. r.kind \notin Writes
      BY <1>0, <1>1, <2>0, <2>2, <3>1 DEF Cleans
    <3>3. new = db
      BY <3>2 DEF Leaves, Writes
    <3> QED BY <1>1, <2>0, <2>2, <3>3 DEF Cleans
  <2>3. ASSUME NEW x \in b.reqs, x.kind = "create", x.clean, b.page = "devices"
        PROVE  x.before = b.rows
    BY <1>0, <1>1, <2>0, <2>3 DEF Cleans, Handled
  <2> QED BY <2>1, <2>2, <2>3 DEF Cleans
<1> QED BY <1>0, <1>2, <1>3, <1>4 DEF Loose

\* The backend's rows follow, answer by answer.
LEMMA HandledKeeps ==
    ASSUME NEW a, NEW b, NEW r, NEW s, NEW db, NEW new \in DbType, Handled(a, b, r, s), ListsOK(a, db),
           Loose(b, new), r.state = "sent", s.state \in Outcomes, Leaves(a, r, s, db, new),
           a.doubt => b.doubt,
           r.kind \in Writes /\ s.state = "network" => b.doubt,
           r.kind = "delete" /\ s.state = "refused" /\ (\E y \in db.rows : y.id = r.id) => b.doubt
    PROVE  ListsOK(b, new)
<1> SUFFICES ASSUME Calm(b) PROVE Apart(b) /\ Tallies(b, new)
  BY DEF ListsOK
<1>0. /\ b.page = a.page /\ b.rows = a.rows /\ b.del = a.del /\ s.kind = r.kind /\ s.name = r.name
      /\ r \in a.reqs /\ s \in b.reqs /\ b.reqs = (a.reqs \ {r}) \cup {s}
      /\ r.kind # "create" => s.id = r.id
      /\ s.clean = r.clean
  BY DEF Handled
<1>1. r \notin Made(a) /\ r \notin Deleted(a) /\ r \notin Changed(a)
  BY <1>0 DEF Made, Deleted, Changed
<1>2. /\ \A x \in a.reqs \ {r} : x \in b.reqs
      /\ \A x : (x \in Made(b) <=> x \in Made(a) \/ (x = s /\ s.kind = "create" /\ s.state = "ok"))
      /\ \A x : (x \in Deleted(b) <=> x \in Deleted(a) \/ (x = s /\ s.kind = "delete" /\ s.state \in {"ok", "refused"}))
      /\ \A x : (x \in Changed(b) <=> x \in Changed(a) \/ (x = s /\ s.kind = "update" /\ s.state = "ok"))
  BY <1>0, <1>1 DEF Made, Deleted, Changed
<1>3. Calm(a)
  <2>1. ASSUME NEW x \in a.reqs, Doomed(a, x) PROVE Doomed(b, x) /\ x \in b.reqs
    <3>1. x # r /\ x \in b.reqs
      BY <1>1, <1>2, <2>1 DEF Doomed
    <3> QED BY <1>0, <1>2, <2>1, <3>1 DEF Doomed
  <2>2. ~a.doubt
    BY DEF Calm
  <2>3. \A x \in a.reqs : x.kind # "list"
    BY <1>0, <1>2 DEF Calm
  <2> QED BY <2>1, <2>2, <2>3 DEF Calm
<1>4. Apart(a) /\ Tallies(a, db)
  BY <1>3 DEF ListsOK
<1>5. /\ a \in AdmType /\ db \in DbType /\ db.last \in Nat /\ \A x \in a.reqs : x \in Request /\ x.id \in Nat
      /\ db.rows \subseteq RowType /\ new.rows \subseteq RowType /\ s.id \in Nat /\ a.rows \subseteq RowType
      /\ s.name \in AnyName
  BY DEF ListsOK, Loose, AdmType, DbType, Request, Handled
<1>6. ~b.doubt /\ s.kind # "list" /\ ~Doomed(b, s)
  BY <1>0 DEF Calm
<1>7. CASE r.kind = "create" /\ s.state = "ok"
  <2>1. a.page # "keys" /\ s \in Made(b)
    BY <1>0, <1>2, <1>6, <1>7 DEF Doomed
  <2>2. /\ s.id = db.last + 1
        /\ new.rows = db.rows \cup {Row(s.id, s.name)}
    BY <1>0, <1>7, <2>1 DEF Leaves, Writes
  <2>3. Bounded(a, db)
    BY DEF ListsOK, Loose
  <2>4. /\ a.del # s.id /\ \A x \in a.rows : x.id # s.id
        /\ \A x \in a.reqs : x.kind \in {"delete", "update"} \/ x \in Made(a) => x.id # s.id
    <3>1. a.del \in Nat /\ \A x \in a.rows : x.id \in Nat
      BY <1>5 DEF AdmType, RowType
    <3>2. \A x \in a.reqs : x \in Made(a) => x.id <= db.last
      BY <1>5, <2>1, <2>3 DEF Bounded, Made
    <3> QED BY <1>5, <2>1, <2>2, <2>3, <3>1, <3>2 DEF Bounded
  <2>5. Apart(b)
    <3>1. ASSUME NEW x \in Made(a) PROVE x # s /\ x.id # s.id /\ x \in a.reqs
      <4>1. x \in a.reqs
        BY DEF Made
      <4> QED BY <2>4, <4>1
    <3>2. \A x \in b.reqs : x = s \/ x \in a.reqs
      BY <1>0
    <3>3. s.kind # "delete"
      BY <1>0, <1>7
    <3>4. ASSUME NEW x \in Made(b)
          PROVE  /\ x.id # b.del
                 /\ \A y \in b.rows : y.id # x.id
                 /\ \A y \in b.reqs : y.kind = "delete" \/ (y \in Made(b) /\ y # x) => y.id # x.id
      <4>1. CASE x = s
        BY <1>0, <1>2, <2>4, <3>1, <3>2, <3>3, <4>1
      <4>2. CASE x # s
        <5>1. x \in Made(a)
          BY <1>2, <4>2
        <5> QED BY <1>0, <1>2, <1>4, <3>1, <3>2, <3>3, <5>1 DEF Apart
      <4> QED BY <4>1, <4>2
    <3> QED BY <3>4 DEF Apart
  <2>6. /\ \A x : x \in Deleted(b) <=> x \in Deleted(a)
        /\ \A x : x \in Changed(b) <=> x \in Changed(a)
    BY <1>0, <1>2, <1>7
  <2>7. \A q \in Deleted(a) \cup Changed(a) : q.id # s.id
    BY <2>4 DEF Deleted, Changed
  <2>8. Row(s.id, s.name).id = s.id
    BY DEF Row
  <2>9. Tallies(b, new)
    <3> SUFFICES ASSUME NEW x \in RowType
                 PROVE  x \in new.rows <=>
                          /\ \A q \in Deleted(b) : q.id # x.id
                          /\ \/ x \in b.rows /\ \A q \in Changed(b) : q.id # x.id
                             \/ \E q \in Made(b) : x = Row(q.id, q.name)
                             \/ \E q \in Changed(b) : x = Row(q.id, q.name) /\ \E y \in b.rows : y.id = q.id
      BY DEF Tallies
    <3>1. x \in new.rows <=> x \in db.rows \/ x = Row(s.id, s.name)
      BY <2>2
    <3>2. x \in db.rows <=>
                          /\ \A q \in Deleted(a) : q.id # x.id
                          /\ \/ x \in a.rows /\ \A q \in Changed(a) : q.id # x.id
                             \/ \E q \in Made(a) : x = Row(q.id, q.name)
                             \/ \E q \in Changed(a) : x = Row(q.id, q.name) /\ \E y \in a.rows : y.id = q.id
      BY <1>4 DEF Tallies
    <3>3. (\E q \in Made(b) : x = Row(q.id, q.name)) <=> (\E q \in Made(a) : x = Row(q.id, q.name)) \/ x = Row(s.id, s.name)
      BY <1>0, <1>2, <1>7
    <3> QED BY <1>0, <2>6, <2>7, <2>8, <3>1, <3>2, <3>3
  <2> QED BY <2>5, <2>9
<1>8. CASE ~(r.kind = "create" /\ s.state = "ok")
  <2>1. \A x : x \in Made(b) <=> x \in Made(a)
    BY <1>0, <1>2, <1>8
  <2>2. Apart(b)
    <3>1. \A x \in b.reqs : x.kind = "delete" => \E y \in a.reqs : y.kind = "delete" /\ y.id = x.id
      BY <1>0
    <3>2. \A x \in Made(b) : x.id # b.del /\ \A y \in b.rows : y.id # x.id
      BY <1>0, <1>4, <2>1 DEF Apart
    <3>3. Made(a) \subseteq a.reqs
      BY DEF Made
    <3>4. ASSUME NEW x \in Made(b), NEW y \in b.reqs, y.kind = "delete" \/ (y \in Made(b) /\ y # x)
          PROVE  y.id # x.id
      BY <1>4, <2>1, <3>1, <3>3, <3>4 DEF Apart
    <3> QED BY <3>2, <3>4 DEF Apart
  <2> DEFINE RHS(c, x) == /\ \A q \in Deleted(c) : q.id # x.id
                          /\ \/ x \in c.rows /\ \A q \in Changed(c) : q.id # x.id
                             \/ \E q \in Made(c) : x = Row(q.id, q.name)
                             \/ \E q \in Changed(c) : x = Row(q.id, q.name) /\ \E y \in c.rows : y.id = q.id
  <2>3. \A x \in RowType : x \in db.rows <=> RHS(a, x)
    BY <1>4 DEF Tallies
  <2>4. ASSUME NEW x \in RowType PROVE x \in new.rows <=> RHS(b, x)
    <3>1. CASE r.kind = "delete"
      <4>1. s.state \in {"ok", "refused"} /\ s.kind = "delete" /\ s.id = r.id
        BY <1>0, <1>6, <3>1 DEF Outcomes, Writes
      <4>2. new.rows = Kept(db.rows, r.id)
        <5>1. CASE s.state = "ok"
          BY <3>1, <5>1 DEF Leaves, Writes
        <5>2. CASE s.state = "refused"
          <6>1. new = db /\ \A y \in db.rows : y.id # r.id
            BY <1>6, <3>1, <5>2 DEF Leaves
          <6> QED BY <6>1 DEF Kept
        <5> QED BY <4>1, <5>1, <5>2
      <4>3. x \in new.rows <=> x \in db.rows /\ x.id # s.id
        BY <4>1, <4>2 DEF Kept
      <4>4. /\ \A y : y \in Changed(b) <=> y \in Changed(a)
            /\ \A y : y \in Deleted(b) <=> y \in Deleted(a) \/ y = s
        BY <1>0, <1>2, <3>1, <4>1
      <4> QED BY <1>0, <2>1, <2>3, <4>3, <4>4
    <3>2. CASE r.kind = "update" /\ s.state = "ok"
      <4>1. s.kind = "update" /\ s.id = r.id /\ r.clean
        BY <1>0, <1>2, <1>6, <3>2 DEF Doomed
      <4>2. /\ new.rows = Kept(db.rows, s.id) \cup {Row(s.id, s.name)}
            /\ \E y \in db.rows : y.id = s.id
        BY <1>0, <3>2, <4>1 DEF Leaves, Writes
      <4>3. /\ \A y : y \in Changed(b) <=> y \in Changed(a) \/ y = s
            /\ \A y : y \in Deleted(b) <=> y \in Deleted(a)
        BY <1>0, <1>2, <3>2, <4>1
      <4>4. Cleans(a, db)
        BY DEF ListsOK, Loose
      <4>5. ASSUME NEW q \in Changed(a) PROVE q.id # s.id
        <5>1. q \in a.reqs /\ q # r /\ q.kind = "update"
          BY <1>1 DEF Changed
        <5>2. ~Clash(r, q)
          BY <1>0, <4>1, <4>4, <5>1 DEF Cleans
        <5> QED BY <3>2, <4>1, <5>1, <5>2, Clashes
      <4>6. Made(a) = {}
        <5>1. ASSUME NEW q \in Made(a) PROVE FALSE
          <6>1. q \in a.reqs /\ q # r /\ Clash(r, q)
            BY <3>2, Clashes DEF Made, Writes
          <6> QED BY <1>0, <4>1, <4>4, <6>1 DEF Cleans
        <5> QED BY <5>1
      <4>7. PICK z \in db.rows : z.id = s.id
        BY <4>2
      <4>8. (\A q \in Deleted(a) : q.id # s.id) /\ z \in a.rows
        BY <1>5, <2>3, <4>5, <4>6, <4>7 DEF Row
      <4>9. x \in new.rows <=> (x \in db.rows /\ x.id # s.id) \/ x = Row(s.id, s.name)
        BY <4>2 DEF Kept
      <4>10. Row(s.id, s.name).id = s.id /\ \A q : Row(q.id, q.name).id = q.id
        BY DEF Row
      <4>11. CASE x.id = s.id
        <5>1. (x \in new.rows <=> x = Row(s.id, s.name)) /\ z \in b.rows /\ s \in Changed(b)
          BY <1>0, <4>3, <4>8, <4>9, <4>10, <4>11
        <5>2. \A q \in Changed(b) : x = Row(q.id, q.name) => q = s
          BY <4>3, <4>5, <4>10, <4>11
        <5>3. (\A q \in Deleted(b) : q.id # x.id) /\ ~\E q \in Made(b) : x = Row(q.id, q.name)
          BY <2>1, <4>3, <4>6, <4>8, <4>11
        <5> QED BY <4>7, <4>11, <5>1, <5>2, <5>3
      <4>12. CASE x.id # s.id
        BY <1>0, <2>1, <2>3, <4>3, <4>9, <4>10, <4>12
      <4> QED BY <4>11, <4>12
    <3>3. CASE r.kind # "delete" /\ ~(r.kind = "update" /\ s.state = "ok")
      <4>1. new = db
        BY <1>6, <1>8, <3>3 DEF Leaves, Writes, Outcomes
      <4>2. /\ \A y : y \in Changed(b) <=> y \in Changed(a)
            /\ \A y : y \in Deleted(b) <=> y \in Deleted(a)
        BY <1>0, <1>2, <3>3
      <4> QED BY <1>0, <2>1, <2>3, <4>1, <4>2
    <3> QED BY <3>1, <3>2, <3>3
  <2>5. Tallies(b, new)
    BY <2>4 DEF Tallies
  <2> QED BY <2>2, <2>5
<1> QED BY <1>7, <1>8

---------------------------------------------------------------------------
(* An answer reaches the page                                              *)

\* Request r is no longer out.
Gone(a, b, r) ==
    /\ a \in AdmType /\ b \in AdmType /\ r \in a.reqs /\ b.page = a.page
    /\ b.reqs = a.reqs \ {r} /\ b.del \in {a.del, 0} /\ b.edit \in {a.edit, 0}

\* An answer that is taken off keeps the bounds.
LEMMA GoneLoose ==
    ASSUME NEW a, NEW b, NEW r, NEW db, Gone(a, b, r), Loose(a, db),
           b.rows = a.rows \/ r.kind \in Writes \cup {"list"},
           a.page # "keys" => \A x \in b.rows : x.id <= db.last
    PROVE  Loose(b, db)
<1>0. b \in AdmType /\ db \in DbType /\ db.last \in Nat /\ b.page = a.page /\ b.reqs = a.reqs \ {r} /\ r \in a.reqs
  BY DEF Gone, Loose, DbType
<1>1. Bounded(b, db)
  BY <1>0 DEF Gone, Loose, Bounded
<1>2. Cleans(b, db)
  <2>0. Cleans(a, db)
    BY DEF Loose
  <2>1. ASSUME NEW x \in b.reqs, x.kind = "create", x.clean, b.page = "devices"
        PROVE  x.before = b.rows
    <3>1. x \in a.reqs /\ x # r /\ x.before = a.rows
      BY <1>0, <2>0, <2>1 DEF Cleans
    <3>2. ~Clash(x, r)
      BY <1>0, <2>0, <2>1, <3>1 DEF Cleans
    <3>3. r.kind \notin Writes \cup {"list"}
      BY <2>1, <3>2, Clashes DEF Writes
    <3> QED BY <3>1, <3>3
  <2>2. \A x, y \in b.reqs : x # y /\ Clash(x, y) => ~x.clean
    BY <1>0, <2>0 DEF Cleans
  <2>3. \A x \in b.reqs : x.kind = "list" /\ x.clean /\ x.state = "ok" => x.got = db.rows
    BY <1>0, <2>0 DEF Cleans
  <2> QED BY <2>1, <2>2, <2>3 DEF Cleans
<1> QED BY <1>0, <1>1, <1>2 DEF Loose

\* A list that no write has overlapped is the backend's, and none is out now.
LEMMA ListedKeeps ==
    ASSUME NEW a, NEW b, NEW r, NEW db, Gone(a, b, r), Loose(a, db), Loose(b, db),
           r.kind = "list", r.clean, r.state = "ok", b.rows = r.got
    PROVE  ListsOK(b, db)
<1>0. Cleans(a, db) /\ r \in a.reqs /\ b.reqs = a.reqs \ {r} /\ b.rows = db.rows
  BY DEF Loose, Gone, Cleans
<1>1. \A q \in b.reqs : q.kind \notin Writes
  <2> SUFFICES ASSUME NEW q \in b.reqs, q.kind \in Writes PROVE FALSE
    OBVIOUS
  <2>1. Clash(r, q) /\ q # r /\ q \in a.reqs
    BY <1>0, Clashes DEF Writes
  <2> QED BY <1>0, <2>1 DEF Cleans
<1>2. Made(b) = {} /\ Deleted(b) = {} /\ Changed(b) = {}
  BY <1>1 DEF Made, Deleted, Changed, Writes
<1>3. Apart(b) /\ Tallies(b, db)
  BY <1>0, <1>2 DEF Apart, Tallies
<1> QED BY <1>3 DEF ListsOK

\* What the answer of r makes of the rows.
Applies(a, r, rows) ==
    \/ r \in Made(a) /\ rows = a.rows \cup {Row(r.id, r.name)}
    \/ r \in Changed(a) /\ rows = {IF x.id = r.id THEN Row(r.id, r.name) ELSE x : x \in a.rows}
    \/ r \in Deleted(a) /\ rows = Kept(a.rows, r.id)
    \/ r \notin Made(a) \cup Changed(a) \cup Deleted(a) /\ rows = a.rows

\* An answer that is applied to the rows keeps their agreement with the database.
LEMMA AppliedKeeps ==
    ASSUME NEW a, NEW b, NEW r, NEW db, Gone(a, b, r), ListsOK(a, db), Loose(b, db),
           r.kind # "list",
           Calm(b) => ~a.doubt /\ ~Doomed(a, r) /\ Applies(a, r, b.rows)
    PROVE  ListsOK(b, db)
<1> SUFFICES ASSUME Calm(b) PROVE Apart(b) /\ Tallies(b, db)
  BY DEF ListsOK
<1>0. /\ b.page = a.page /\ b.reqs = a.reqs \ {r} /\ r \in a.reqs /\ b.del \in {a.del, 0}
      /\ ~a.doubt /\ ~Doomed(a, r) /\ Applies(a, r, b.rows)
      /\ a.rows \subseteq RowType /\ db \in DbType /\ Cleans(a, db)
  BY DEF Gone, AdmType, ListsOK, Loose
<1>1. /\ \A x : x \in Made(b) <=> x \in Made(a) /\ x # r
      /\ \A x : x \in Deleted(b) <=> x \in Deleted(a) /\ x # r
      /\ \A x : x \in Changed(b) <=> x \in Changed(a) /\ x # r
  BY <1>0 DEF Made, Deleted, Changed
<1>2. Calm(a)
  <2>1. \A x \in a.reqs : Doomed(a, x) => x # r /\ Doomed(b, x)
    BY <1>0, <1>1 DEF Doomed
  <2> QED BY <1>0, <2>1 DEF Calm
<1>3. Apart(a) /\ Tallies(a, db)
  BY <1>2 DEF ListsOK
<1>4. ASSUME NEW x \in Made(a) PROVE x.id # 0 /\ x \in a.reqs
  <2>1. a.page # "keys" /\ x \in a.reqs
    BY <1>2 DEF Calm, Doomed, Made
  <2> QED BY <2>1 DEF ListsOK, Loose, Bounded, Made, DbType
<1>5. \A q : Row(q.id, q.name).id = q.id
  BY DEF Row
<1>6. \A y \in b.rows : (\E z \in a.rows : z.id = y.id) \/ (r \in Made(a) /\ y.id = r.id)
  BY <1>0, <1>5 DEF Applies, Kept
<1>7. Apart(b)
  <2> SUFFICES ASSUME NEW x \in Made(b)
               PROVE  /\ x.id # b.del
                      /\ \A y \in b.rows : y.id # x.id
                      /\ \A y \in b.reqs : y.kind = "delete" \/ (y \in Made(b) /\ y # x) => y.id # x.id
    BY DEF Apart
  <2>1. x \in Made(a) /\ x # r /\ x.id # 0
    BY <1>1, <1>4
  <2>2. /\ x.id # a.del
        /\ \A y \in a.rows : y.id # x.id
        /\ \A y \in a.reqs : y.kind = "delete" \/ (y \in Made(a) /\ y # x) => y.id # x.id
    BY <1>3, <2>1 DEF Apart
  <2>3. \A y \in b.rows : y.id # x.id
    BY <1>0, <1>6, <2>1, <2>2
  <2> QED BY <1>0, <1>1, <2>1, <2>2, <2>3
<1>8. ASSUME NEW x \in RowType
      PROVE  x \in db.rows <=>
               /\ \A q \in Deleted(b) : q.id # x.id
               /\ \/ x \in b.rows /\ \A q \in Changed(b) : q.id # x.id
                  \/ \E q \in Made(b) : x = Row(q.id, q.name)
                  \/ \E q \in Changed(b) : x = Row(q.id, q.name) /\ \E y \in b.rows : y.id = q.id
  <2>0. x \in db.rows <=>
           /\ \A q \in Deleted(a) : q.id # x.id
           /\ \/ x \in a.rows /\ \A q \in Changed(a) : q.id # x.id
              \/ \E q \in Made(a) : x = Row(q.id, q.name)
              \/ \E q \in Changed(a) : x = Row(q.id, q.name) /\ \E y \in a.rows : y.id = q.id
    BY <1>3 DEF Tallies
  <2>1. CASE r \in Made(a)
    <3>1. b.rows = a.rows \cup {Row(r.id, r.name)}
      BY <1>0, <2>1 DEF Applies, Made, Changed, Deleted
    <3>2. /\ \A y : y \in Deleted(b) <=> y \in Deleted(a)
          /\ \A y : y \in Changed(b) <=> y \in Changed(a)
      BY <1>1, <2>1 DEF Made, Changed, Deleted
    <3>3. \A q \in Changed(a) : q.clean /\ q \in a.reqs /\ Clash(q, r) /\ q # r
      BY <1>2, <2>1, Clashes DEF Calm, Doomed, Made, Changed, Writes
    <3>4. Changed(a) = {}
      BY <1>0, <3>3 DEF Cleans
    <3> QED BY <1>1, <2>0, <2>1, <3>1, <3>2, <3>4
  <2>2. CASE r \in Changed(a)
    <3>1. b.rows = {IF y.id = r.id THEN Row(r.id, r.name) ELSE y : y \in a.rows}
      BY <1>0, <2>2 DEF Applies, Made, Changed, Deleted
    <3>2. /\ \A y : y \in Deleted(b) <=> y \in Deleted(a)
          /\ \A y : y \in Made(b) <=> y \in Made(a)
      BY <1>1, <2>2 DEF Made, Changed, Deleted
    <3>3. r.clean /\ r.kind = "update"
      BY <1>0, <2>2 DEF Doomed, Changed
    <3>4. \A q \in Changed(a) : q # r => q.id # r.id
      BY <1>0, <3>3, Clashes DEF Cleans, Changed
    <3>5. Made(a) = {}
      <4>1. \A q \in Made(a) : q \in a.reqs /\ q # r /\ Clash(r, q)
        BY <3>3, Clashes DEF Made, Writes
      <4> QED BY <1>0, <3>3, <4>1 DEF Cleans
    <3>6. x \in b.rows <=> (x \in a.rows /\ x.id # r.id)
                           \/ (x = Row(r.id, r.name) /\ \E y \in a.rows : y.id = r.id)
      BY <1>5, <3>1
    <3>7. \A i : (\E y \in b.rows : y.id = i) <=> (\E y \in a.rows : y.id = i)
      BY <1>5, <3>1
    <3>8. CASE x.id = r.id
      <4>1. \A q \in Changed(a) : x = Row(q.id, q.name) => q = r
        BY <1>5, <3>4, <3>8
      <4>2. \A q \in Changed(b) : q.id # x.id
        BY <1>1, <3>4, <3>8
      <4>3. x \in db.rows <=> (\A q \in Deleted(a) : q.id # x.id)
                              /\ x = Row(r.id, r.name) /\ \E y \in a.rows : y.id = r.id
        BY <2>0, <2>2, <3>5, <3>8, <4>1
      <4>4. \A q \in Changed(b) : x # Row(q.id, q.name)
        BY <1>5, <4>2
      <4> QED BY <3>2, <3>5, <3>6, <3>8, <4>2, <4>3, <4>4
    <3>9. CASE x.id # r.id
      <4>1. x # Row(r.id, r.name)
        BY <1>5, <3>9
      <4> QED BY <1>1, <2>0, <3>2, <3>5, <3>6, <3>7, <3>9, <4>1
    <3> QED BY <3>8, <3>9
  <2>3. CASE r \in Deleted(a)
    <3>1. b.rows = Kept(a.rows, r.id) /\ r.kind = "delete"
      BY <1>0, <2>3 DEF Applies, Made, Changed, Deleted
    <3>2. /\ \A y : y \in Made(b) <=> y \in Made(a)
          /\ \A y : y \in Changed(b) <=> y \in Changed(a)
      BY <1>1, <2>3 DEF Made, Changed, Deleted
    <3>3. \A q \in Made(a) : q.id # r.id
      BY <1>0, <1>3, <3>1 DEF Apart
    <3>4. \A y : y \in b.rows <=> y \in a.rows /\ y.id # r.id
      BY <3>1 DEF Kept
    <3>5. CASE x.id = r.id
      BY <1>5, <2>0, <2>3, <3>2, <3>3, <3>4, <3>5
    <3>6. CASE x.id # r.id
      BY <1>1, <1>5, <2>0, <3>2, <3>4, <3>6
    <3> QED BY <3>5, <3>6
  <2>4. CASE r \notin Made(a) \cup Changed(a) \cup Deleted(a)
    <3>1. b.rows = a.rows
      BY <1>0, <2>4 DEF Applies
    <3>2. /\ \A y : y \in Made(b) <=> y \in Made(a)
          /\ \A y : y \in Changed(b) <=> y \in Changed(a)
          /\ \A y : y \in Deleted(b) <=> y \in Deleted(a)
      BY <1>1, <2>4
    <3> QED BY <2>0, <3>1, <3>2
  <2> QED BY <2>1, <2>2, <2>3, <2>4
<1>9. Tallies(b, db)
  BY <1>8 DEF Tallies
<1> QED BY <1>7, <1>9

\* The page without the request whose answer it handles.
Without(a, r) == [a EXCEPT !.reqs = a.reqs \ {r}, !.loading = (a.loading /\ r.kind = "mail")]

\* Taking a request off changes nothing else.
LEMMA WithoutIs ==
    ASSUME NEW a \in AdmType, NEW r \in a.reqs
    PROVE  LET c == Without(a, r)
           IN  /\ c \in AdmType /\ c.page = a.page /\ c.rows = a.rows /\ c.reqs = a.reqs \ {r}
               /\ c.del = a.del /\ c.edit = a.edit /\ c.doubt = a.doubt
               /\ c.add = a.add /\ c.reveal = a.reveal /\ c.temp = a.temp
               /\ c.brought = a.brought /\ c.seen = a.seen /\ c.excused = a.excused
<1> DEFINE l == a.loading /\ r.kind = "mail"
<1>1. l \in BOOLEAN /\ a.reqs \ {r} \in SUBSET Request
  BY DEF AdmType
<1>2. Without(a, r) = [a EXCEPT !.reqs = a.reqs \ {r}, !.loading = l]
  BY DEF Without
<1> HIDE DEF l
<1> QED BY <1>1, <1>2 DEF AdmType

\* What is on the screen is noted, and nothing else.
LEMMA ScreenIs ==
    ASSUME NEW b \in AdmType, Screen(b)
    PROVE  /\ adm' \in AdmType /\ adm' = [b EXCEPT !.seen = b.seen \cup Visible(b)]
           /\ adm'.page = b.page /\ adm'.rows = b.rows /\ adm'.reqs = b.reqs /\ adm'.doubt = b.doubt
           /\ adm'.del = b.del /\ adm'.edit = b.edit /\ adm'.add = b.add
           /\ adm'.brought = b.brought /\ adm'.excused = b.excused
           /\ adm'.seen = b.seen \cup Visible(b)
<1>1. Visible(b) \in SUBSET Nat /\ b.seen \in SUBSET Nat
  BY DEF Visible, AdmType
<1>2. adm' = [b EXCEPT !.seen = b.seen \cup Visible(b)]
  BY DEF Screen, AdmType
<1> QED BY <1>1, <1>2 DEF AdmType

\* Rendering only notes which secrets are on the screen.
LEMMA ScreenKeeps ==
    ASSUME NEW b, NEW db, ListsOK(b, db), Screen(b)
    PROVE  ListsOK(adm', db)
<1>1. b \in AdmType
  BY DEF ListsOK, Loose
<1>2. Aims(b.del, adm'.del, b.rows) /\ Aims(b.edit, adm'.edit, b.rows)
  BY <1>1, ScreenIs DEF Aims
<1> QED BY <1>1, <1>2, ScreenIs, NeutralKeeps

\* A list arrives, or not.
LEMMA ListedRows ==
    ASSUME NEW a, NEW db, NEW r \in a.reqs, ListsOK(a, db), r.kind = "list", r.state # "sent"
    PROVE  ListsOK(RowsListed(Without(a, r), r), db)
<1> DEFINE c == Without(a, r)
           b == RowsListed(c, r)
<1>0. /\ a \in AdmType /\ Loose(a, db) /\ r \in Request /\ r.got \in SUBSET RowType
      /\ r.state \in Outcomes /\ r.clean \in BOOLEAN /\ (~r.clean) \in BOOLEAN
  BY DEF ListsOK, Loose, AdmType, Request
<1>1. /\ c \in AdmType /\ c.page = a.page /\ c.rows = a.rows /\ c.reqs = a.reqs \ {r}
      /\ c.del = a.del /\ c.edit = a.edit
  BY <1>0, WithoutIs
<1> HIDE DEF c
<1>2. CASE Rejects(r.state)
  <2>1. b = [c EXCEPT !.doubt = TRUE]
    BY <1>2 DEF RowsListed
  <2> HIDE DEF b
  <2>2. Gone(a, b, r) /\ b.rows = a.rows /\ b.doubt
    BY <1>0, <1>1, <2>1 DEF Gone, AdmType
  <2>3. Loose(b, db)
    BY <1>0, <2>2, GoneLoose DEF Loose, Bounded
  <2> QED BY <2>2, <2>3 DEF ListsOK, Calm, b, c
<1>3. CASE ~Rejects(r.state)
  <2>1. b = [c EXCEPT !.rows = r.got, !.doubt = ~r.clean] /\ r.state = "ok"
    BY <1>3 DEF RowsListed, Rejects, HasData
  <2> HIDE DEF b
  <2>2. Gone(a, b, r) /\ b.rows = r.got /\ b.doubt = ~r.clean
    BY <1>0, <1>1, <2>1 DEF Gone, AdmType
  <2>3. Loose(b, db)
    BY <1>0, <2>2, GoneLoose DEF Loose, Bounded
  <2>4. CASE r.clean
    BY <1>0, <2>1, <2>2, <2>3, <2>4, ListedKeeps DEF b, c
  <2>5. CASE ~r.clean
    BY <2>2, <2>3, <2>5 DEF ListsOK, Calm, b, c
  <2> QED BY <2>4, <2>5
<1> QED BY <1>2, <1>3

\* An answer that only closes, shows or notes something.
LEMMA QuietAnswer ==
    ASSUME NEW a, NEW b, NEW r, NEW db, Gone(a, b, r), ListsOK(a, db), r.kind # "list",
           b.rows = a.rows, b.doubt = a.doubt, r \notin Made(a) \cup Changed(a) \cup Deleted(a)
    PROVE  ListsOK(b, db)
<1>1. Loose(b, db)
  BY GoneLoose DEF ListsOK, Loose, Bounded
<1>2. Applies(a, r, b.rows) /\ ~Doomed(a, r)
  BY DEF Applies, Doomed
<1> QED BY <1>1, <1>2, AppliedKeeps DEF Calm

\* A user, a device or a key has been created, or not.
LEMMA CreatedKeeps ==
    ASSUME NEW a, NEW db, NEW r \in a.reqs, ListsOK(a, db), r.kind = "create", r.state # "sent"
    PROVE  ListsOK(RowCreated(Without(a, r), r), db)
<1> DEFINE c == Without(a, r)
           b == RowCreated(c, r)
           w == Row(r.id, r.name)
<1>0. /\ a \in AdmType /\ Loose(a, db) /\ db \in DbType /\ r \in Request /\ r.before \in SUBSET RowType
      /\ r.state \in Outcomes /\ r.clean \in BOOLEAN /\ (~r.clean) \in BOOLEAN /\ r.id \in Nat
      /\ a.page \in {"users", "devices", "keys", "profile"} /\ Sends(a.page, r.kind)
      /\ a.rows \in SUBSET RowType /\ a.brought \in SUBSET Nat
  BY DEF ListsOK, Loose, AdmType, Request
<1>1. /\ c \in AdmType /\ c.page = a.page /\ c.rows = a.rows /\ c.reqs = a.reqs \ {r}
      /\ c.del = a.del /\ c.edit = a.edit /\ c.doubt = a.doubt /\ c.brought = a.brought
  BY <1>0, WithoutIs
<1>2. w \in RowType /\ w.id = r.id
  BY <1>0 DEF Row, RowType, Request
<1>3. r.state = "ok" <=> r \in Made(a)
  BY DEF Made
<1>4. r \notin Changed(a) /\ r \notin Deleted(a)
  BY DEF Changed, Deleted
<1>5. r.state = "ok" <=> ~Rejects(r.state)
  BY DEF Rejects, Throws, HasData
<1>6. r.state = "ok" /\ a.page # "keys" => r.id <= db.last /\ \A x \in a.rows \cup r.before : x.id <= db.last
  BY <1>0 DEF Loose, Bounded, DbType
<1> HIDE DEF c, w
<1>7. CASE a.page = "users"
  <2>0. b = UserCreated(c, r)
    BY <1>1, <1>7 DEF RowCreated
  <2>1. CASE Rejects(r.state)
    <3>1. b = [c EXCEPT !.busy = FALSE]
      BY <2>0, <2>1 DEF UserCreated
    <3> HIDE DEF b
    <3>2. Gone(a, b, r) /\ b.rows = a.rows /\ b.doubt = a.doubt
      BY <1>0, <1>1, <3>1 DEF Gone, AdmType
    <3>3. ListsOK(b, db)
      BY <1>3, <1>4, <1>5, <2>1, <3>2, QuietAnswer
    <3> QED BY <3>3 DEF b, c
  <2>2. CASE ~Rejects(r.state)
    <3> DEFINE e == [c EXCEPT !.busy = FALSE, !.rows = c.rows \cup {w}, !.brought = c.brought \cup {r.id},
                              !.add = FALSE]
    <3>1. b = Put(e, "mail", r.id, FirstName)
      BY <1>1, <2>0, <2>2 DEF UserCreated, createUser, handleSendEmail, w, AdmType
    <3> HIDE DEF b
    <3>2. e \in AdmType /\ e.rows = a.rows \cup {w} /\ e.doubt = a.doubt /\ Gone(a, e, r) /\ e.page = a.page
      BY <1>0, <1>1, <1>2 DEF Gone, AdmType
    <3> HIDE DEF e
    <3>3. Loose(e, db)
      BY <1>0, <1>2, <1>5, <1>6, <1>7, <2>2, <3>2, GoneLoose DEF Writes
    <3>4. ~Doomed(a, r) /\ Applies(a, r, e.rows)
      BY <1>3, <1>4, <1>5, <1>7, <2>2, <3>2 DEF Doomed, Applies, w
    <3>5. ListsOK(e, db)
      BY <3>2, <3>3, <3>4, AppliedKeeps DEF Calm
    <3>6. ListsOK(Put(e, "mail", r.id, FirstName), db)
      BY <1>0, <1>7, <3>2, <3>5, PutKeeps DEF Sends, AnyName
    <3> QED BY <3>1, <3>6 DEF b, c
  <2> QED BY <2>1, <2>2
<1>8. CASE a.page = "devices"
  <2>0. b = DeviceCreated(c, r)
    BY <1>1, <1>8 DEF RowCreated
  <2>1. CASE Rejects(r.state)
    <3>1. b = c
      BY <2>0, <2>1 DEF DeviceCreated
    <3> HIDE DEF b
    <3>2. Gone(a, b, r) /\ b.rows = a.rows /\ b.doubt = a.doubt
      BY <1>0, <1>1, <3>1 DEF Gone
    <3>3. ListsOK(b, db)
      BY <1>3, <1>4, <1>5, <2>1, <3>2, QuietAnswer
    <3> QED BY <3>3 DEF b, c
  <2>2. CASE ~Rejects(r.state)
    <3> DEFINE d == c.doubt \/ ~r.clean
    <3>1. b = [c EXCEPT !.rows = r.before \cup {w}, !.doubt = d, !.add = FALSE]
      BY <1>1, <2>0, <2>2 DEF DeviceCreated, createDevice, w, AdmType
    <3>2. d \in BOOLEAN /\ (~d => ~a.doubt /\ r.clean)
      BY <1>0, <1>1
    <3> HIDE DEF b, d
    <3>3. Gone(a, b, r) /\ b.rows = r.before \cup {w} /\ b.doubt = d
      BY <1>0, <1>1, <1>2, <3>1, <3>2 DEF Gone, AdmType
    <3>4. Loose(b, db)
      BY <1>0, <1>2, <1>5, <1>6, <1>8, <2>2, <3>3, GoneLoose DEF Writes
    <3>5. r.clean => r.before = a.rows
      BY <1>0, <1>8 DEF Loose, Cleans
    <3>6. Calm(b) => ~a.doubt /\ ~Doomed(a, r) /\ Applies(a, r, b.rows)
      BY <1>3, <1>4, <1>5, <1>8, <2>2, <3>2, <3>3, <3>5 DEF Calm, Doomed, Applies, w
    <3>7. ListsOK(b, db)
      BY <3>3, <3>4, <3>6, AppliedKeeps
    <3> QED BY <3>7 DEF b, c
  <2> QED BY <2>1, <2>2
<1>9. CASE a.page = "keys"
  <2>0. b = KeyIssued(c, r)
    BY <1>1, <1>9 DEF RowCreated
  <2>1. CASE Rejects(r.state)
    <3>1. b = c
      BY <2>0, <2>1 DEF KeyIssued
    <3> HIDE DEF b
    <3>2. Gone(a, b, r) /\ b.rows = a.rows /\ b.doubt = a.doubt
      BY <1>0, <1>1, <3>1 DEF Gone
    <3>3. ListsOK(b, db)
      BY <1>3, <1>4, <1>5, <2>1, <3>2, QuietAnswer
    <3> QED BY <3>3 DEF b, c
  <2>2. CASE ~Rejects(r.state)
    <3> DEFINE e == [c EXCEPT !.brought = c.brought \cup {r.id}, !.busy = FALSE, !.reveal = r.id]
    <3>1. b = Reread(e)
      BY <1>1, <2>0, <2>2 DEF KeyIssued, issueApiKey, getAllApiKeys, AdmType
    <3> HIDE DEF b
    <3>2. Gone(a, e, r) /\ e.rows = a.rows
      BY <1>0, <1>1 DEF Gone, AdmType
    <3> HIDE DEF e
    <3>3. Loose(e, db)
      BY <1>0, <1>9, <3>2, GoneLoose
    <3>4. ListsOK(Reread(e), db)
      BY <3>3, RereadKeeps
    <3> QED BY <3>1, <3>4 DEF b, c
  <2> QED BY <2>1, <2>2
<1> QED BY <1>0, <1>7, <1>8, <1>9 DEF Sends, c

\* A device or the profile has been saved, or not.
LEMMA UpdatedKeeps ==
    ASSUME NEW a, NEW db, NEW r \in a.reqs, ListsOK(a, db), r.kind = "update", r.state # "sent"
    PROVE  ListsOK(RowUpdated(Without(a, r), r), db)
<1> DEFINE c == Without(a, r)
           b == RowUpdated(c, r)
           w == Row(r.id, r.name)
           rows == {IF x.id = r.id THEN w ELSE x : x \in a.rows}
           d == a.doubt \/ ~r.clean
<1>0. /\ a \in AdmType /\ Loose(a, db) /\ r \in Request /\ r.state \in Outcomes /\ r.clean \in BOOLEAN
      /\ r.id \in Nat /\ a.doubt \in BOOLEAN /\ a.rows \in SUBSET RowType
  BY DEF ListsOK, Loose, AdmType, Request
<1>1. /\ c \in AdmType /\ c.page = a.page /\ c.rows = a.rows /\ c.reqs = a.reqs \ {r}
      /\ c.del = a.del /\ c.edit = a.edit /\ c.doubt = a.doubt
  BY <1>0, WithoutIs
<1>2. w \in RowType /\ w.id = r.id
  BY <1>0 DEF Row, RowType, Request
<1>3. rows \in SUBSET RowType
  BY <1>0, <1>2
<1>4. a.page # "keys" => \A x \in rows : x.id <= db.last
  BY <1>0, <1>2 DEF Loose, Bounded
<1>5. d \in BOOLEAN /\ (~d => ~a.doubt /\ r.clean)
  BY <1>0
<1>6. /\ r \notin Made(a) /\ r \notin Deleted(a)
      /\ (r.state = "ok" <=> r \in Changed(a)) /\ (r.state = "ok" <=> ~Rejects(r.state))
  BY DEF Made, Deleted, Changed, Rejects, Throws, HasData
<1>7. /\ b \in AdmType /\ b.page = a.page /\ b.reqs = a.reqs \ {r} /\ b.del = a.del
      /\ b.edit \in {a.edit, 0}
      /\ Rejects(r.state) => b.rows = a.rows /\ b.doubt = a.doubt
      /\ ~Rejects(r.state) => b.rows = rows /\ b.doubt = d
  <2>0. \A e : /\ e.rows = a.rows /\ e.doubt = a.doubt /\ e \in AdmType
                   => Replaced(e, r) = [e EXCEPT !.doubt = d, !.rows = rows]
    BY DEF Replaced, AdmType
  <2> HIDE DEF c, d, rows, w
  <2>1. CASE a.page = "profile"
    <3> DEFINE u == c.busy /\ r.mount # c.mount
               e == [c EXCEPT !.busy = u]
    <3>1. u \in BOOLEAN
      BY <1>1 DEF AdmType
    <3>2. b = IF Rejects(r.state) THEN e ELSE [Replaced(e, r) EXCEPT !.edit = 0]
      BY <1>1, <2>1 DEF RowUpdated, ProfileSaved, updateUser, AdmType
    <3> HIDE DEF u, b
    <3>3. /\ e \in AdmType /\ e.page = c.page /\ e.rows = c.rows /\ e.reqs = c.reqs
          /\ e.del = c.del /\ e.edit = c.edit /\ e.doubt = c.doubt
      BY <1>1, <3>1 DEF AdmType
    <3> HIDE DEF e
    <3>4. CASE Rejects(r.state)
      BY <1>1, <3>2, <3>3, <3>4
    <3>5. CASE ~Rejects(r.state)
      <4>1. b = [[e EXCEPT !.doubt = d, !.rows = rows] EXCEPT !.edit = 0]
        BY <1>1, <2>0, <3>2, <3>3, <3>5
      <4> QED BY <1>1, <1>3, <1>5, <3>3, <3>5, <4>1 DEF AdmType
    <3> QED BY <3>4, <3>5
  <2>2. CASE a.page # "profile"
    <3>2. b = IF Rejects(r.state) THEN c ELSE [Replaced(c, r) EXCEPT !.edit = 0]
      BY <1>1, <2>2 DEF RowUpdated, DeviceSaved, updateDevice
    <3> HIDE DEF b
    <3>4. CASE Rejects(r.state)
      BY <1>1, <3>2, <3>4
    <3>5. CASE ~Rejects(r.state)
      <4>1. b = [[c EXCEPT !.doubt = d, !.rows = rows] EXCEPT !.edit = 0]
        BY <1>1, <2>0, <3>2, <3>5
      <4> QED BY <1>1, <1>3, <1>5, <3>5, <4>1 DEF AdmType
    <3> QED BY <3>4, <3>5
  <2> QED BY <2>1, <2>2
<1> HIDE DEF b
<1>8. Gone(a, b, r)
  BY <1>0, <1>7 DEF Gone
<1>9. CASE Rejects(r.state)
  <2>1. ListsOK(b, db)
    BY <1>6, <1>7, <1>8, <1>9, QuietAnswer
  <2> QED BY <2>1 DEF b
<1>10. CASE ~Rejects(r.state)
  <2>1. Loose(b, db)
    BY <1>0, <1>4, <1>7, <1>8, <1>10, GoneLoose DEF Writes
  <2>2. Calm(b) => ~a.doubt /\ ~Doomed(a, r)
    BY <1>5, <1>6, <1>7, <1>10 DEF Calm, Doomed
  <2>3. Applies(a, r, b.rows)
    BY <1>6, <1>7, <1>10 DEF Applies
  <2>4. ListsOK(b, db)
    BY <1>8, <2>1, <2>2, <2>3, AppliedKeeps
  <2> QED BY <2>4 DEF b
<1> QED BY <1>9, <1>10

\* A row has been removed, or the call has thrown.
LEMMA RemovedKeeps ==
    ASSUME NEW a, NEW db, NEW r \in a.reqs, ListsOK(a, db), r.kind = "delete", r.state # "sent"
    PROVE  ListsOK(RowRemoved(Without(a, r), r), db)
<1> DEFINE c == Without(a, r)
           b == RowRemoved(c, r)
           rows == Kept(a.rows, r.id)
<1>0. /\ a \in AdmType /\ Loose(a, db) /\ r.state \in Outcomes
      /\ a.rows \in SUBSET RowType /\ a.page \in {"users", "devices", "keys"}
  BY DEF ListsOK, Loose, AdmType, Request, Sends
<1>1. /\ c \in AdmType /\ c.page = a.page /\ c.rows = a.rows /\ c.reqs = a.reqs \ {r}
      /\ c.del = a.del /\ c.edit = a.edit /\ c.doubt = a.doubt
  BY <1>0, WithoutIs
<1>2. rows \in SUBSET RowType /\ (a.page # "keys" => \A x \in rows : x.id <= db.last)
  BY <1>0 DEF Kept, Loose, Bounded
<1>3. r \notin Made(a) /\ r \notin Changed(a) /\ (r \in Deleted(a) <=> ~Throws(r.state))
  BY <1>0 DEF Made, Changed, Deleted, Throws, Outcomes
<1>4. \/ b \in {c, [c EXCEPT !.delBusy = FALSE]} /\ Throws(r.state)
      \/ b \in {[c EXCEPT !.rows = rows, !.del = 0],
                [c EXCEPT !.delBusy = FALSE, !.rows = rows, !.del = 0]} /\ ~Throws(r.state)
  <2> HIDE DEF c
  <2>1. CASE a.page = "users"
    BY <1>1, <2>1 DEF RowRemoved, UserRemoved, deleteUser, AdmType
  <2>2. CASE a.page = "devices"
    BY <1>1, <2>2 DEF RowRemoved, DeviceRemoved, deleteDevice, AdmType
  <2>3. CASE a.page = "keys"
    BY <1>1, <2>3 DEF RowRemoved, KeyRevoked, revokeApiKey, AdmType
  <2> QED BY <1>0, <2>1, <2>2, <2>3
<1> HIDE DEF b, c, rows
<1>5. /\ b \in AdmType /\ b.page = a.page /\ b.reqs = a.reqs \ {r} /\ b.del \in {a.del, 0}
      /\ b.edit = a.edit /\ b.doubt = a.doubt
      /\ Throws(r.state) => b.rows = a.rows
      /\ ~Throws(r.state) => b.rows = rows
  <2>1. CASE b = c /\ Throws(r.state)
    BY <1>1, <2>1
  <2>2. CASE b = [c EXCEPT !.delBusy = FALSE] /\ Throws(r.state)
    BY <1>1, <2>2 DEF AdmType
  <2>3. CASE b = [c EXCEPT !.rows = rows, !.del = 0] /\ ~Throws(r.state)
    BY <1>1, <1>2, <2>3 DEF AdmType
  <2>4. CASE b = [c EXCEPT !.delBusy = FALSE, !.rows = rows, !.del = 0] /\ ~Throws(r.state)
    BY <1>1, <1>2, <2>4 DEF AdmType
  <2> QED BY <1>4, <2>1, <2>2, <2>3, <2>4
<1>6. Gone(a, b, r)
  BY <1>0, <1>5 DEF Gone
<1>7. Loose(b, db)
  BY <1>0, <1>2, <1>5, <1>6, GoneLoose DEF Writes, Loose, Bounded
<1>8. ~Doomed(a, r) /\ Applies(a, r, b.rows)
  BY <1>3, <1>5 DEF Doomed, Applies, rows
<1>9. ListsOK(b, db)
  BY <1>5, <1>6, <1>7, <1>8, AppliedKeeps DEF Calm
<1> QED BY <1>9 DEF b, c

\* Every answer.
LEMMA ListAnswersKeep ==
    ASSUME ListsOK(adm, rowsDb), NEW r \in adm.reqs, ListAnswer(r)
    PROVE  ListsOK(adm', rowsDb')
<1> DEFINE c == Without(adm, r)
<1>0. /\ adm \in AdmType /\ r \in Request /\ r.state # "sent" /\ r.kind \in ListKinds /\ rowsDb' = rowsDb
      /\ r.state \in Outcomes /\ r.id \in Nat
  BY DEF ListsOK, Loose, AdmType, Request, ListAnswer
<1>1. Screen(CASE r.kind = "list"   -> RowsListed(c, r)
               [] r.kind = "create" -> RowCreated(c, r)
               [] r.kind = "update" -> RowUpdated(c, r)
               [] r.kind = "delete" -> RowRemoved(c, r)
               [] r.kind = "get"    -> GotUser(c, r)
               [] r.kind = "mail"   -> Mailed(c, r))
  BY <1>0 DEF ListAnswer, Without, AdmType
<1>2. /\ c \in AdmType /\ c.page = adm.page /\ c.rows = adm.rows /\ c.reqs = adm.reqs \ {r}
      /\ c.del = adm.del /\ c.edit = adm.edit /\ c.doubt = adm.doubt
  BY <1>0, WithoutIs
<1>3. CASE r.kind = "list"
  BY <1>0, <1>1, <1>3, ListedRows, ScreenKeeps
<1>4. CASE r.kind = "create"
  BY <1>0, <1>1, <1>4, CreatedKeeps, ScreenKeeps
<1>5. CASE r.kind = "update"
  BY <1>0, <1>1, <1>5, UpdatedKeeps, ScreenKeeps
<1>6. CASE r.kind = "delete"
  BY <1>0, <1>1, <1>6, RemovedKeeps, ScreenKeeps
<1>7. ASSUME r.kind \in {"get", "mail"}, NEW b, Screen(b),
             \/ b = c \/ b = [c EXCEPT !.user = r.id] \/ b = [c EXCEPT !.temp = r.id]
             \/ b = [c EXCEPT !.seen = c.seen \cup {r.id}]
             \/ b = [c EXCEPT !.excused = c.excused \cup {r.id}]
      PROVE  ListsOK(adm', rowsDb')
  <2> HIDE DEF c
  <2>1. /\ b \in AdmType /\ b.page = adm.page /\ b.rows = adm.rows /\ b.reqs = adm.reqs \ {r}
        /\ b.del = adm.del /\ b.edit = adm.edit /\ b.doubt = adm.doubt
    BY <1>0, <1>2, <1>7 DEF AdmType
  <2>2. Gone(adm, b, r)
    BY <1>0, <2>1 DEF Gone
  <2>3. r \notin Made(adm) \cup Changed(adm) \cup Deleted(adm)
    BY <1>7 DEF Made, Changed, Deleted
  <2>4. ListsOK(b, rowsDb)
    BY <1>7, <2>1, <2>2, <2>3, QuietAnswer
  <2> QED BY <1>0, <1>7, <2>4, ScreenKeeps
<1>8. CASE r.kind = "get"
  <2>1. Screen(GotUser(c, r))
    BY <1>1, <1>8
  <2>2. GotUser(c, r) = c \/ GotUser(c, r) = [c EXCEPT !.user = r.id]
    BY DEF GotUser
  <2> HIDE DEF c
  <2> QED BY <1>7, <1>8, <2>1, <2>2
<1>9. CASE r.kind = "mail"
  <2>1. Screen(Mailed(c, r))
    BY <1>1, <1>9
  <2>2. \/ Mailed(c, r) = [c EXCEPT !.temp = r.id]
        \/ Mailed(c, r) = [c EXCEPT !.seen = c.seen \cup {r.id}]
        \/ Mailed(c, r) = [c EXCEPT !.excused = c.excused \cup {r.id}]
    BY <1>0, <1>2 DEF Mailed, Outcomes, AdmType
  <2> HIDE DEF c
  <2> QED BY <1>7, <1>9, <2>1, <2>2
<1> QED BY <1>0, <1>3, <1>4, <1>5, <1>6, <1>8, <1>9 DEF ListKinds, Writes

---------------------------------------------------------------------------
(* The user's gestures                                                     *)

\* Rows, requests and doubts are left alone; a modal is opened for a row at most.
Plain(b) ==
    /\ b \in AdmType /\ b.page = adm.page /\ b.rows = adm.rows /\ b.reqs = adm.reqs
    /\ b.doubt = adm.doubt
    /\ Aims(adm.del, b.del, adm.rows) /\ Aims(adm.edit, b.edit, adm.rows)

\* A gesture that leaves rows and requests alone ...
LEMMA PlainKeeps ==
    ASSUME ListsOK(adm, rowsDb), NEW b, Plain(b), Screen(b)
    PROVE  ListsOK(adm', rowsDb)
BY NeutralKeeps, ScreenKeeps DEF Plain

\* ... and one that also sends a request.
LEMMA AsksKeep ==
    ASSUME ListsOK(adm, rowsDb), NEW b, Plain(b),
           NEW kind \in Writes \cup {"get"}, NEW id \in Nat, NEW name \in AnyName,
           Sends(adm.page, kind),
           kind = "delete" => id = b.del, kind = "update" => id = b.edit,
           Screen(Put(b, kind, id, name))
    PROVE  ListsOK(adm', rowsDb)
<1>1. ListsOK(b, rowsDb) /\ b.page = adm.page
  BY NeutralKeeps DEF Plain
<1>2. kind \in {"delete", "update"} /\ b.page # "keys" => id <= rowsDb.last
  BY <1>1 DEF ListsOK, Loose, Bounded
<1>3. kind = "delete" /\ Calm(b) => \A r \in Made(b) : r.id # id
  BY <1>1 DEF ListsOK, Apart
<1>4. ListsOK(Put(b, kind, id, name), rowsDb)
  BY <1>1, <1>2, <1>3, PutKeeps
<1> QED BY <1>4, ScreenKeeps

\* What opens and closes.
LEMMA ModalsKeep ==
    ASSUME ListsOK(adm, rowsDb),
           \/ OpenAdd \/ OpenAddKey \/ CloseAdd \/ CloseAddKey \/ CloseDelete \/ CloseEdit
           \/ CloseDetail \/ CloseTemp \/ \E i \in 1..MaxRows \cup {1} : AskDelete(i) \/ AskEdit(i)
    PROVE  ListsOK(adm', rowsDb)
<1>0. adm \in AdmType
  BY DEF ListsOK, Loose
<1>1. CASE OpenAdd
  <2>1. Plain([adm EXCEPT !.add = TRUE])
    BY <1>0 DEF Plain, Aims, AdmType
  <2> QED BY <1>1, <2>1, PlainKeeps DEF OpenAdd
<1>2. CASE OpenAddKey
  <2>1. Plain([adm EXCEPT !.add = TRUE, !.reveal = 0, !.busy = FALSE])
    BY <1>0 DEF Plain, Aims, AdmType
  <2> QED BY <1>2, <2>1, PlainKeeps DEF OpenAddKey
<1>3. CASE CloseAdd
  <2>1. Plain([adm EXCEPT !.add = FALSE])
    BY <1>0 DEF Plain, Aims, AdmType
  <2> QED BY <1>3, <2>1, PlainKeeps DEF CloseAdd
<1>4. CASE CloseAddKey
  <2> DEFINE E == adm.excused \cup {r.id : r \in {q \in adm.reqs : q.kind = "create"}}
             b == [adm EXCEPT !.add = FALSE, !.excused = E]
  <2>1. E \in SUBSET Nat
    BY <1>0 DEF AdmType, Request
  <2>2. Screen(b)
    BY <1>0, <1>4 DEF CloseAddKey, AdmType
  <2> HIDE DEF E
  <2>3. Plain(b)
    BY <1>0, <2>1 DEF Plain, Aims, AdmType
  <2> QED BY <2>2, <2>3, PlainKeeps
<1>5. CASE CloseDelete
  <2>1. Plain([adm EXCEPT !.del = 0])
    BY <1>0 DEF Plain, Aims, AdmType
  <2> QED BY <1>5, <2>1, PlainKeeps DEF CloseDelete
<1>6. CASE CloseEdit
  <2>1. Plain([adm EXCEPT !.edit = 0])
    BY <1>0 DEF Plain, Aims, AdmType
  <2> QED BY <1>6, <2>1, PlainKeeps DEF CloseEdit
<1>7. CASE CloseDetail
  <2>1. Plain([adm EXCEPT !.target = 0])
    BY <1>0 DEF Plain, Aims, AdmType
  <2> QED BY <1>7, <2>1, PlainKeeps DEF CloseDetail
<1>8. CASE CloseTemp
  <2>1. Plain([adm EXCEPT !.temp = 0])
    BY <1>0 DEF Plain, Aims, AdmType
  <2> QED BY <1>8, <2>1, PlainKeeps DEF CloseTemp
<1>9. ASSUME NEW i, AskDelete(i) \/ AskEdit(i) PROVE ListsOK(adm', rowsDb)
  <2>0. i \in Nat /\ \E x \in adm.rows : x.id = i
    BY <1>0, <1>9 DEF AskDelete, AskEdit, RowIds, AdmType, RowType
  <2>1. Plain([adm EXCEPT !.del = i]) /\ Plain([adm EXCEPT !.edit = i])
    BY <1>0, <2>0 DEF Plain, Aims, AdmType
  <2> QED BY <1>9, <2>1, PlainKeeps DEF AskDelete, AskEdit
<1> QED BY <1>1, <1>2, <1>3, <1>4, <1>5, <1>6, <1>7, <1>8, <1>9

\* The refresh buttons and the reload of the profile.
LEMMA RefreshesKeep ==
    ASSUME ListsOK(adm, rowsDb), RefreshUsers \/ RefreshDevices \/ RefreshKeys \/ ReloadProfile
    PROVE  ListsOK(adm', rowsDb)
<1>0. adm \in AdmType /\ Loose(adm, rowsDb)
  BY DEF ListsOK, Loose
<1>1. CASE ~ReloadProfile
  <2>1. Screen(Reread(adm))
    BY <1>1 DEF RefreshUsers, RefreshDevices, RefreshKeys, getAllUsers, getAllDevices, getAllApiKeys
  <2> QED BY <1>0, <2>1, RereadKeeps, ScreenKeeps
<1>2. CASE ReloadProfile
  <2> DEFINE b == [adm EXCEPT !.busy = FALSE, !.mount = adm.mount + 1]
  <2>1. Screen(Reread(b))
    BY <1>0, <1>2 DEF ReloadProfile, getProfile, AdmType
  <2>2. adm.mount + 1 \in Nat
    BY <1>0 DEF AdmType
  <2>3. Plain(b)
    BY <1>0, <2>2 DEF Plain, Aims, AdmType
  <2> HIDE DEF b
  <2>4. Loose(b, rowsDb)
    BY <1>0, <2>3, NeutralLoose DEF Plain
  <2> QED BY <2>1, <2>4, RereadKeeps, ScreenKeeps
<1> QED BY <1>1, <1>2

\* What asks for something.
LEMMA SubmitsKeep ==
    ASSUME ListsOK(adm, rowsDb),
           \/ adm.page = "users" /\ (SubmitUser \/ \E i \in 1..MaxRows : OpenDetail(i))
           \/ adm.page = "devices" /\ (SubmitDevice \/ \E x \in RowNames : SubmitEdit(x))
           \/ adm.page = "keys" /\ \E d \in 1..MaxRows : SubmitKey(d)
           \/ adm.page = "profile" /\ \E x \in RowNames : SubmitProfile(x)
           \/ adm.page # "profile" /\ ConfirmDelete
    PROVE  ListsOK(adm', rowsDb)
<1>0. adm \in AdmType /\ adm.del \in Nat /\ adm.edit \in Nat /\ FirstName \in AnyName /\ RowNames \subseteq AnyName
  BY DEF ListsOK, Loose, AdmType, AnyName
<1>1. CASE adm.page = "users" /\ SubmitUser
  <2>1. Plain([adm EXCEPT !.busy = TRUE])
    BY <1>0 DEF Plain, Aims, AdmType
  <2> QED BY <1>0, <1>1, <2>1, AsksKeep DEF SubmitUser, Sends, Writes
<1>2. ASSUME adm.page = "users", NEW i \in 1..MaxRows, OpenDetail(i) PROVE ListsOK(adm', rowsDb)
  <2>0. i \in Nat
    BY ListsAssumption
  <2>1. Plain([adm EXCEPT !.target = i, !.user = 0])
    BY <1>0, <2>0 DEF Plain, Aims, AdmType
  <2> QED BY <1>0, <1>2, <2>0, <2>1, AsksKeep DEF OpenDetail, Sends, Writes
<1>3. Plain(adm)
  BY <1>0 DEF Plain, Aims
<1>4. CASE adm.page = "devices" /\ SubmitDevice
  BY <1>0, <1>3, <1>4, AsksKeep DEF SubmitDevice, Sends, Writes
<1>5. ASSUME adm.page = "devices", NEW x \in RowNames, SubmitEdit(x) PROVE ListsOK(adm', rowsDb)
  BY <1>0, <1>3, <1>5, AsksKeep DEF SubmitEdit, Sends, Writes
<1>6. ASSUME adm.page = "keys", NEW d \in 1..MaxRows, SubmitKey(d) PROVE ListsOK(adm', rowsDb)
  <2> DEFINE b == [adm EXCEPT !.busy = TRUE, !.brought = adm.brought \ {d}, !.seen = adm.seen \ {d},
                              !.excused = adm.excused \ {d}]
  <2>0. d \in Nat
    BY ListsAssumption
  <2>1. Plain(b)
    BY <1>0 DEF Plain, Aims, AdmType
  <2>2. Screen(Put(b, "create", d, FirstName))
    BY <1>0, <1>6 DEF SubmitKey, AdmType
  <2> HIDE DEF b
  <2> QED BY <1>0, <1>6, <2>0, <2>1, <2>2, AsksKeep DEF Sends, Writes
<1>7. ASSUME adm.page = "profile", NEW x \in RowNames, SubmitProfile(x) PROVE ListsOK(adm', rowsDb)
  <2> DEFINE b == [adm EXCEPT !.busy = TRUE]
  <2>1. Plain(b) /\ b.edit = adm.edit
    BY <1>0 DEF Plain, Aims, AdmType
  <2>2. Screen(Put(b, "update", adm.edit, x))
    BY <1>7 DEF SubmitProfile
  <2> HIDE DEF b
  <2> QED BY <1>0, <1>7, <2>1, <2>2, AsksKeep DEF Sends, Writes
<1>8. CASE adm.page # "profile" /\ ConfirmDelete
  <2> DEFINE y == adm.page # "devices"
             b == [adm EXCEPT !.delBusy = y]
  <2>1. y \in BOOLEAN
    OBVIOUS
  <2>2. Screen(Put(b, "delete", adm.del, FirstName))
    BY <1>8 DEF ConfirmDelete
  <2> HIDE DEF y
  <2>3. Plain(b) /\ b.del = adm.del
    BY <1>0, <2>1 DEF Plain, Aims, AdmType
  <2> HIDE DEF b
  <2> QED BY <1>0, <1>8, <2>2, <2>3, AsksKeep DEF Sends, Writes
<1> QED BY <1>1, <1>2, <1>4, <1>5, <1>6, <1>7, <1>8

\* Every gesture.
LEMMA ListGesturesKeep ==
    ASSUME ListsOK(adm, rowsDb), ListGesture
    PROVE  ListsOK(adm', rowsDb')
<1>0. rowsDb' = rowsDb /\ (UsersPage \/ DevicesPage \/ AccessPage \/ ProfilePage)
  BY DEF ListGesture
<1>1. CASE UsersPage
  BY <1>0, <1>1, ModalsKeep, RefreshesKeep, SubmitsKeep DEF UsersPage, UserRow
<1>2. CASE DevicesPage
  BY <1>0, <1>2, ModalsKeep, RefreshesKeep, SubmitsKeep DEF DevicesPage, DeviceRow
<1>3. CASE AccessPage
  BY <1>0, <1>3, ModalsKeep, RefreshesKeep, SubmitsKeep DEF AccessPage, KeyRow
<1>4. CASE ProfilePage
  BY <1>0, <1>4, ModalsKeep, RefreshesKeep, SubmitsKeep DEF ProfilePage, CloseProfile
<1> QED BY <1>0, <1>1, <1>2, <1>3, <1>4

\* Every step.
LEMMA ListsStep ==
    ASSUME ListsOK(adm, rowsDb), [ListsNext]_listVars
    PROVE  ListsOK(adm', rowsDb')
<1>1. ASSUME NEW r \in adm.reqs, NEW o \in Outcomes, ServeList(r, o) PROVE ListsOK(adm', rowsDb')
  <2>0. Loose(adm, rowsDb) /\ o # "sent"
    BY DEF ListsOK, Outcomes
  <2>1. PICK s : /\ Handled(adm, adm', r, s) /\ r.state = "sent" /\ s.state = o
                 /\ s.got = rowsDb.rows /\ rowsDb' \in DbType
                 /\ Leaves(adm, r, s, rowsDb, rowsDb')
                 /\ adm.doubt => adm'.doubt
                 /\ r.kind \in Writes /\ o = "network" => adm'.doubt
                 /\ r.kind = "delete" /\ o = "refused" /\ (\E y \in rowsDb.rows : y.id = r.id)
                       => adm'.doubt
    BY <1>1, <2>0, ServesAs
  <2>2. Loose(adm', rowsDb')
    BY <2>0, <2>1, HandledLoose
  <2> QED BY <1>1, <2>1, <2>2, HandledKeeps
<1>2. ASSUME NEW r \in adm.reqs, ListAnswer(r) PROVE ListsOK(adm', rowsDb')
  BY <1>2, ListAnswersKeep
<1>3. CASE UNCHANGED listVars
  BY <1>3 DEF listVars
<1> QED BY <1>1, <1>2, <1>3, ListGesturesKeep DEF ListsNext

\* The pages start empty.
LEMMA ListsStart == ListsInit => ListsOK(adm, rowsDb)
<1> SUFFICES ASSUME ListsInit PROVE ListsOK(adm, rowsDb)
  OBVIOUS
<1> DEFINE z(p) == [page |-> p, rows |-> {}, loading |-> FALSE, n |-> 0, reqs |-> {},
                    add |-> FALSE, busy |-> FALSE, reveal |-> 0, del |-> 0, delBusy |-> FALSE,
                    edit |-> 0, target |-> 0, user |-> 0, temp |-> 0, doubt |-> TRUE, mount |-> 0,
                    brought |-> {}, seen |-> {}, excused |-> {}]
<1>1. PICK p \in {"users", "devices", "keys", "profile"} : adm = getAll(z(p))
  BY DEF ListsInit
<1>2. rowsDb = [rows |-> {Row(1, FirstName)}, last |-> 1]
  BY DEF ListsInit
<1>3. rowsDb \in DbType /\ rowsDb.last = 1 /\ \A x \in rowsDb.rows : x.id = 1
  BY <1>2 DEF DbType, RowType, Row, AnyName
<1> DEFINE y == z(p)
           e == [y EXCEPT !.busy = FALSE, !.mount = y.mount + 1]
<1>4. y \in AdmType /\ y.reqs = {} /\ y.rows = {} /\ y.del = 0 /\ y.edit = 0 /\ y.page = p
  BY DEF AdmType
<1>5. adm = getAll(y)
  BY <1>1
<1> HIDE DEF y
<1>6. adm = Reread(y) \/ adm = Reread(e)
  BY <1>4, <1>5 DEF getAll, getAllUsers, getAllDevices, getAllApiKeys, getProfile, AdmType
<1>7. e \in AdmType /\ e.reqs = {} /\ e.rows = {} /\ e.del = 0 /\ e.edit = 0
  <2>1. y.mount + 1 \in Nat
    BY <1>4 DEF AdmType
  <2> QED BY <1>4, <2>1 DEF AdmType
<1> HIDE DEF e
<1>8. Loose(y, rowsDb) /\ Loose(e, rowsDb)
  BY <1>3, <1>4, <1>7 DEF Loose, Bounded, Cleans
<1> QED BY <1>6, <1>8, RereadKeeps

\* Once no list and no write is out, the page shows the backend's rows, unless
\* one of the answers named with ListsFollowServer has spoilt them: whatever
\* the user creates, edits, removes and refreshes meanwhile (useUserService,
\* useDeviceService, useApiKeyService).
THEOREM ListsFollow == ListSpec => []ListsFollowServer
<1>1. ASSUME ListsOK(adm, rowsDb) PROVE ListsFollowServer
  <2> SUFFICES ASSUME Out(Writes \cup {"list"}) = {}, ~adm.doubt PROVE adm.rows = rowsDb.rows
    BY DEF ListsFollowServer
  <2>1. \A r \in adm.reqs : r.kind \notin Writes \cup {"list"}
    BY DEF Out
  <2>2. Made(adm) = {} /\ Deleted(adm) = {} /\ Changed(adm) = {}
    BY <2>1 DEF Made, Deleted, Changed, Writes
  <2>3. Tallies(adm, rowsDb)
    BY <1>1, <2>1, <2>2 DEF ListsOK, Calm, Doomed
  <2>4. adm.rows \subseteq RowType /\ rowsDb.rows \subseteq RowType
    BY <1>1 DEF ListsOK, Loose, AdmType, DbType
  <2> QED BY <2>2, <2>3, <2>4 DEF Tallies
<1>2. ListsOK(adm, rowsDb) /\ [ListsNext]_listVars => ListsOK(adm, rowsDb)'
  BY ListsStep
<1>3. ListsOK(adm, rowsDb) => ListsFollowServer
  BY <1>1
<1> QED
  BY <1>2, <1>3, ListsStart, PTL DEF ListSpec

---------------------------------------------------------------------------
(* Secrets                                                                 *)

InMail(a, i) == \E r \in a.reqs : r.kind = "mail" /\ r.id = i

\* Each secret has been seen, is excused or is being mailed.
Noted(a) == \A i \in a.brought : i \in a.seen \cup a.excused \/ InMail(a, i)

\* The same once what is on the screen has been noted.
ShowsAll(a) == \A i \in a.brought : i \in a.seen \cup a.excused \cup Visible(a) \/ InMail(a, i)

\* A key that is being issued has its form open, or is excused.  No id is 0,
\* the page's sign of no secret.
Excuses(a) ==
    \A r \in a.reqs :
        /\ r.kind = "mail" => r.id # 0
        /\ r.kind = "create" /\ a.page = "keys" => r.id # 0 /\ (a.add \/ r.id \in a.excused)

SecretsOK(a) == Noted(a) /\ Excuses(a)

\* What is shown when a step ends is seen.
LEMMA ScreenNotes ==
    ASSUME NEW b \in AdmType, Screen(b), ShowsAll(b), Excuses(b)
    PROVE  SecretsOK(adm')
BY ScreenIs DEF ShowsAll, Noted, InMail, Excuses, SecretsOK

\* A request that is put out takes nothing away.
LEMMA PutShows ==
    ASSUME NEW a \in AdmType, NEW kind \in ListKinds, NEW id \in Nat, NEW name \in AnyName,
           kind = "create" /\ a.page = "keys" => a.add /\ id # 0,
           kind = "mail" => id # 0
    PROVE  LET b == Put(a, kind, id, name)
           IN  /\ b \in AdmType /\ (Excuses(a) => Excuses(b))
               /\ \A i : InMail(b, i) <=> InMail(a, i) \/ (kind = "mail" /\ i = id)
               /\ Visible(b) = Visible(a)
               /\ b.brought = a.brought /\ b.seen = a.seen /\ b.excused = a.excused
<1> DEFINE b == Put(a, kind, id, name)
<1>1. /\ b \in AdmType /\ b.page = a.page /\ b.add = a.add /\ b.reveal = a.reveal /\ b.temp = a.temp
      /\ b.brought = a.brought /\ b.seen = a.seen /\ b.excused = a.excused
  BY PutIs
<1>2. PICK q : Joined(a, b, q) /\ q.kind = kind /\ q.id = id
  BY PutJoins
<1> HIDE DEF b
<1>3. /\ \A x \in b.reqs : x = q \/ \E r \in a.reqs : x.kind = r.kind /\ x.id = r.id
      /\ \A r \in a.reqs : \E x \in b.reqs : x.kind = r.kind /\ x.id = r.id
      /\ q \in b.reqs
  BY <1>2, MarksAll
<1>4. Visible(b) = Visible(a)
  BY <1>1 DEF Visible
<1>5. \A i : InMail(b, i) <=> InMail(a, i) \/ (kind = "mail" /\ i = id)
  BY <1>2, <1>3 DEF InMail
<1>6. Excuses(a) => Excuses(b)
  BY <1>1, <1>2, <1>3 DEF Excuses
<1> QED BY <1>1, <1>4, <1>5, <1>6 DEF b

\* The list is read again.
LEMMA RereadShows ==
    ASSUME NEW a \in AdmType
    PROVE  LET b == Reread(a)
           IN  /\ b \in AdmType /\ (Excuses(a) => Excuses(b)) /\ (ShowsAll(a) => ShowsAll(b))
<1> DEFINE e == [a EXCEPT !.rows = {}]
           b == Put(e, "list", 0, FirstName)
<1>1. /\ e \in AdmType /\ e.page = a.page /\ e.add = a.add /\ e.reqs = a.reqs
      /\ e.reveal = a.reveal /\ e.temp = a.temp
      /\ e.brought = a.brought /\ e.seen = a.seen /\ e.excused = a.excused
  BY DEF AdmType
<1>2. Reread(a) = b
  BY DEF Reread
<1> HIDE DEF e
<1>3. /\ b \in AdmType /\ (Excuses(e) => Excuses(b)) /\ (\A i : InMail(b, i) <=> InMail(e, i))
      /\ Visible(b) = Visible(e) /\ b.brought = e.brought /\ b.seen = e.seen /\ b.excused = e.excused
  BY <1>1, PutShows DEF ListKinds, AnyName
<1> HIDE DEF b
<1>4. Visible(e) = Visible(a)
  BY <1>1 DEF Visible
<1>5. (Excuses(a) => Excuses(e)) /\ \A i : InMail(e, i) <=> InMail(a, i)
  BY <1>1 DEF Excuses, InMail
<1>6. ShowsAll(a) => ShowsAll(b)
  BY <1>1, <1>3, <1>4, <1>5 DEF ShowsAll
<1> QED BY <1>2, <1>3, <1>5, <1>6

\* A step that brings no secret, forgets none and closes no form of a key.
LEMMA QuietShows ==
    ASSUME NEW a, SecretsOK(a), NEW b,
           b.page = a.page, b.brought = a.brought, b.seen = a.seen, b.excused = a.excused,
           \A r \in a.reqs : r.kind = "mail" => r \in b.reqs,
           \A r \in b.reqs : r.kind \in {"create", "mail"} => r \in a.reqs,
           b.add = a.add \/ b.add = TRUE \/ a.page # "keys"
    PROVE  ShowsAll(b) /\ Excuses(b)
BY DEF SecretsOK, Noted, ShowsAll, Excuses, InMail

\* The backend takes no secret off the screen.
LEMMA ServesShow ==
    ASSUME Loose(adm, rowsDb), SecretsOK(adm), NEW r \in adm.reqs, NEW o \in Outcomes, ServeList(r, o)
    PROVE  SecretsOK(adm')
<1>1. PICK s : /\ Handled(adm, adm', r, s)
               /\ \A f \in {"add", "reveal", "temp", "brought", "seen", "excused"} : adm'[f] = adm[f]
  BY ServesAs
<1>2. /\ adm'.page = adm.page /\ adm'.reqs = (adm.reqs \ {r}) \cup {s} /\ s.kind = r.kind
      /\ adm'.add = adm.add /\ adm'.brought = adm.brought /\ adm'.seen = adm.seen
      /\ adm'.excused = adm.excused
      /\ r.kind # "create" \/ adm.page = "keys" => s.id = r.id
  BY <1>1 DEF Handled
<1>3. Noted(adm')
  BY <1>2 DEF SecretsOK, Noted, InMail
<1>4. Excuses(adm')
  BY <1>2 DEF SecretsOK, Excuses
<1> QED BY <1>3, <1>4 DEF SecretsOK

\* What an answer other than a creation's or a mail's leaves alone.
Quiet(c, b) ==
    /\ b \in AdmType /\ b.page = c.page /\ b.reqs = c.reqs /\ b.brought = c.brought
    /\ b.seen = c.seen /\ b.excused = c.excused /\ (b.add = c.add \/ c.page # "keys")

\* The answers to lists, updates, deletions and lookups are quiet.
LEMMA QuietAnswers ==
    ASSUME NEW c \in AdmType, NEW r \in Request, Sends(c.page, r.kind)
    PROVE  /\ r.kind = "list" => Quiet(c, RowsListed(c, r))
           /\ r.kind = "update" => Quiet(c, RowUpdated(c, r))
           /\ r.kind = "delete" => Quiet(c, RowRemoved(c, r))
           /\ r.kind = "get" => Quiet(c, GotUser(c, r))
<1>0. /\ r.got \in SUBSET RowType /\ (~r.clean) \in BOOLEAN /\ r.id \in Nat /\ r.name \in AnyName
      /\ c.rows \in SUBSET RowType /\ (c.doubt \/ ~r.clean) \in BOOLEAN
      /\ (c.busy /\ r.mount # c.mount) \in BOOLEAN
  BY DEF Request, AdmType
<1>1. Quiet(c, RowsListed(c, r))
  <2>1. CASE Rejects(r.state)
    <3>1. RowsListed(c, r) = [c EXCEPT !.doubt = TRUE]
      BY <2>1 DEF RowsListed
    <3> QED BY <3>1 DEF Quiet, AdmType
  <2>2. CASE ~Rejects(r.state)
    <3>1. RowsListed(c, r) = [c EXCEPT !.rows = r.got, !.doubt = ~r.clean]
      BY <2>2 DEF RowsListed
    <3> QED BY <1>0, <3>1 DEF Quiet, AdmType
  <2> QED BY <2>1, <2>2
<1>2. Quiet(c, GotUser(c, r))
  <2>1. GotUser(c, r) \in {c, [c EXCEPT !.user = r.id]}
    BY DEF GotUser
  <2> QED BY <1>0, <2>1 DEF Quiet, AdmType
<1>3. ASSUME NEW e, Quiet(c, e), e.rows = c.rows, e.doubt = c.doubt
      PROVE  Quiet(c, [Replaced(e, r) EXCEPT !.edit = 0])
  <2> DEFINE w == Row(r.id, r.name)
             rows == {IF x.id = r.id THEN w ELSE x : x \in c.rows}
             d == c.doubt \/ ~r.clean
  <2>1. w \in RowType
    BY <1>0 DEF Row, RowType
  <2>2. rows \in SUBSET RowType /\ d \in BOOLEAN
    BY <1>0, <2>1
  <2>3. Replaced(e, r) = [e EXCEPT !.doubt = d, !.rows = rows]
    BY <1>3 DEF Replaced, Quiet, AdmType
  <2> HIDE DEF rows, d
  <2> QED BY <1>3, <2>2, <2>3, ZenonT(40) DEF Quiet, AdmType
<1>4. Quiet(c, RowUpdated(c, r))
  <2> DEFINE u == c.busy /\ r.mount # c.mount
             e == [c EXCEPT !.busy = u]
  <2>0. u \in BOOLEAN
    BY <1>0
  <2>1. RowUpdated(c, r) \in {c, e, [Replaced(c, r) EXCEPT !.edit = 0], [Replaced(e, r) EXCEPT !.edit = 0]}
    BY DEF RowUpdated, ProfileSaved, DeviceSaved, updateUser, updateDevice, AdmType
  <2> HIDE DEF u
  <2>2. Quiet(c, e) /\ e.rows = c.rows /\ e.doubt = c.doubt
    BY <2>0 DEF Quiet, AdmType
  <2> HIDE DEF e
  <2>3. Quiet(c, c)
    BY DEF Quiet
  <2> QED BY <1>3, <2>1, <2>2, <2>3
<1>5. ASSUME r.kind = "delete" PROVE Quiet(c, RowRemoved(c, r))
  <2> DEFINE rows == Kept(c.rows, r.id)
  <2>1. rows \in SUBSET RowType
    BY <1>0 DEF Kept
  <2>2. c.page \in {"users", "devices", "keys"}
    BY <1>5 DEF Sends, AdmType
  <2>3. \/ RowRemoved(c, r) = c
        \/ RowRemoved(c, r) = [c EXCEPT !.delBusy = FALSE]
        \/ RowRemoved(c, r) = [c EXCEPT !.rows = rows, !.del = 0]
        \/ RowRemoved(c, r) = [c EXCEPT !.delBusy = FALSE, !.rows = rows, !.del = 0]
    <3>1. CASE c.page = "users"
      BY <3>1 DEF RowRemoved, UserRemoved, deleteUser, AdmType
    <3>2. CASE c.page = "devices"
      BY <3>2 DEF RowRemoved, DeviceRemoved, deleteDevice, AdmType
    <3>3. CASE c.page = "keys"
      BY <3>3 DEF RowRemoved, KeyRevoked, revokeApiKey, AdmType
    <3> QED BY <2>2, <3>1, <3>2, <3>3
  <2> HIDE DEF rows
  <2>4. Quiet(c, c) /\ Quiet(c, [c EXCEPT !.delBusy = FALSE])
    BY DEF Quiet, AdmType
  <2>5. Quiet(c, [c EXCEPT !.rows = rows, !.del = 0])
    BY <2>1 DEF Quiet, AdmType
  <2>6. Quiet(c, [c EXCEPT !.delBusy = FALSE, !.rows = rows, !.del = 0])
    BY <2>1 DEF Quiet, AdmType
  <2> QED BY <2>3, <2>4, <2>5, <2>6
<1> QED BY <1>1, <1>2, <1>4, <1>5

\* A new user's password is mailed; a new key is revealed, or excused.
LEMMA CreatedShows ==
    ASSUME NEW a \in AdmType, SecretsOK(a), NEW r \in a.reqs, r.kind = "create", Sends(a.page, r.kind),
           r.state = "ok" /\ a.page = "users" => r.id # 0
    PROVE  LET b == RowCreated(Without(a, r), r)
           IN  b \in AdmType /\ ShowsAll(b) /\ Excuses(b)
<1> DEFINE c == Without(a, r)
           b == RowCreated(c, r)
           w == Row(r.id, r.name)
<1>0. /\ r \in Request /\ r.before \in SUBSET RowType /\ r.id \in Nat
      /\ a.page \in {"users", "devices", "keys"}
      /\ a.rows \in SUBSET RowType /\ a.brought \in SUBSET Nat
  BY DEF AdmType, Request, Sends
<1>1. /\ c \in AdmType /\ c.page = a.page /\ c.rows = a.rows /\ c.reqs = a.reqs \ {r}
      /\ c.add = a.add /\ c.brought = a.brought /\ c.seen = a.seen /\ c.excused = a.excused
      /\ c.doubt \in BOOLEAN
  BY WithoutIs DEF AdmType
<1>2. w \in RowType
  BY <1>0 DEF Row, RowType, Request
<1> HIDE DEF c, w
<1>3. CASE a.page = "users"
  <2>0. b = UserCreated(c, r)
    BY <1>1, <1>3 DEF RowCreated
  <2>1. CASE Rejects(r.state)
    <3>1. b = [c EXCEPT !.busy = FALSE]
      BY <2>0, <2>1 DEF UserCreated
    <3> HIDE DEF b
    <3>2. /\ b \in AdmType /\ b.page = c.page /\ b.reqs = c.reqs /\ b.brought = c.brought
          /\ b.seen = c.seen /\ b.excused = c.excused
      BY <1>1, <3>1 DEF AdmType
    <3>3. ShowsAll(b) /\ Excuses(b)
      BY <1>1, <1>3, <3>2, QuietShows
    <3> QED BY <3>2, <3>3 DEF b, c
  <2>2. CASE ~Rejects(r.state)
    <3> DEFINE e == [c EXCEPT !.busy = FALSE, !.rows = c.rows \cup {w}, !.brought = c.brought \cup {r.id},
                              !.add = FALSE]
    <3>1. b = Put(e, "mail", r.id, FirstName)
      BY <1>1, <2>0, <2>2 DEF UserCreated, createUser, handleSendEmail, w, AdmType
    <3> HIDE DEF b
    <3>2. /\ e \in AdmType /\ e.page = c.page /\ e.reqs = c.reqs /\ e.brought = c.brought \cup {r.id}
          /\ e.seen = c.seen /\ e.excused = c.excused
      BY <1>0, <1>1, <1>2 DEF AdmType
    <3> HIDE DEF e
    <3>3. /\ b \in AdmType /\ (Excuses(e) => Excuses(b))
          /\ \A i : InMail(b, i) <=> InMail(e, i) \/ i = r.id
          /\ b.brought = e.brought /\ b.seen = e.seen /\ b.excused = e.excused
      <4>1. r.id # 0
        BY <1>3, <2>2 DEF Rejects, Throws, HasData
      <4> QED BY <1>0, <3>1, <3>2, <4>1, PutShows DEF ListKinds, AnyName
    <3>4. Excuses(e) /\ \A i : InMail(a, i) => InMail(e, i)
      BY <1>1, <1>3, <3>2 DEF SecretsOK, Excuses, InMail
    <3>5. ShowsAll(b)
      BY <1>1, <3>2, <3>3, <3>4 DEF SecretsOK, Noted, ShowsAll
    <3> QED BY <3>3, <3>4, <3>5 DEF b, c
  <2> QED BY <2>1, <2>2
<1>4. CASE a.page = "devices"
  <2> DEFINE d == c.doubt \/ ~r.clean
  <2>0. d \in BOOLEAN
    BY <1>1
  <2>1. b \in {c, [c EXCEPT !.rows = r.before \cup {w}, !.doubt = d, !.add = FALSE]}
    BY <1>1, <1>4 DEF RowCreated, DeviceCreated, createDevice, w, AdmType
  <2> HIDE DEF b, d
  <2>2. /\ b \in AdmType /\ b.page = c.page /\ b.reqs = c.reqs /\ b.brought = c.brought
        /\ b.seen = c.seen /\ b.excused = c.excused
    <3>1. CASE b = c
      BY <1>1, <3>1
    <3>2. CASE b = [c EXCEPT !.rows = r.before \cup {w}, !.doubt = d, !.add = FALSE]
      BY <1>0, <1>1, <1>2, <2>0, <3>2 DEF AdmType
    <3> QED BY <2>1, <3>1, <3>2
  <2>3. ShowsAll(b) /\ Excuses(b)
    BY <1>1, <1>4, <2>2, QuietShows
  <2> QED BY <2>2, <2>3 DEF b, c
<1>5. CASE a.page = "keys"
  <2>0. b = KeyIssued(c, r)
    BY <1>1, <1>5 DEF RowCreated
  <2>1. CASE Rejects(r.state)
    <3>1. b = c
      BY <2>0, <2>1 DEF KeyIssued
    <3> HIDE DEF b
    <3>2. ShowsAll(b) /\ Excuses(b)
      BY <1>1, <3>1, QuietShows
    <3> QED BY <1>1, <3>1, <3>2 DEF b, c
  <2>2. CASE ~Rejects(r.state)
    <3> DEFINE e == [c EXCEPT !.brought = c.brought \cup {r.id}, !.busy = FALSE, !.reveal = r.id]
    <3>1. b = Reread(e)
      BY <1>1, <2>0, <2>2 DEF KeyIssued, issueApiKey, getAllApiKeys, AdmType
    <3> HIDE DEF b
    <3>2. /\ e \in AdmType /\ e.page = c.page /\ e.reqs = c.reqs /\ e.brought = c.brought \cup {r.id}
          /\ e.seen = c.seen /\ e.excused = c.excused /\ e.add = c.add /\ e.reveal = r.id
      BY <1>0, <1>1 DEF AdmType
    <3> HIDE DEF e
    <3>3. r.id \in e.excused \cup Visible(e)
      BY <1>1, <1>5, <3>2 DEF SecretsOK, Excuses, Visible
    <3>5. Excuses(e) /\ \A i : InMail(a, i) => InMail(e, i)
      BY <1>1, <3>2 DEF SecretsOK, Excuses, InMail
    <3>6. ShowsAll(e)
      BY <1>1, <3>2, <3>3, <3>5 DEF SecretsOK, Noted, ShowsAll
    <3>7. ShowsAll(Reread(e)) /\ Excuses(Reread(e)) /\ Reread(e) \in AdmType
      BY <3>2, <3>5, <3>6, RereadShows
    <3> QED BY <3>1, <3>7 DEF b, c
  <2> QED BY <2>1, <2>2
<1> QED BY <1>0, <1>3, <1>4, <1>5

\* Every answer.
LEMMA AnswersShow ==
    ASSUME ListsOK(adm, rowsDb), SecretsOK(adm), NEW r \in adm.reqs, ListAnswer(r)
    PROVE  SecretsOK(adm')
<1> DEFINE c == Without(adm, r)
<1>0. /\ adm \in AdmType /\ r \in Request /\ r.kind \in ListKinds /\ r.state \in Outcomes
      /\ r.id \in Nat /\ Sends(adm.page, r.kind)
  BY DEF ListsOK, Loose, AdmType, Request, ListAnswer
<1>1. Screen(CASE r.kind = "list"   -> RowsListed(c, r)
               [] r.kind = "create" -> RowCreated(c, r)
               [] r.kind = "update" -> RowUpdated(c, r)
               [] r.kind = "delete" -> RowRemoved(c, r)
               [] r.kind = "get"    -> GotUser(c, r)
               [] r.kind = "mail"   -> Mailed(c, r))
  BY <1>0 DEF ListAnswer, Without, AdmType
<1>2. /\ c \in AdmType /\ c.page = adm.page /\ c.reqs = adm.reqs \ {r} /\ c.add = adm.add
      /\ c.brought = adm.brought /\ c.seen = adm.seen /\ c.excused = adm.excused
  BY <1>0, WithoutIs
<1>3. ASSUME NEW b, Quiet(c, b), Screen(b), r.kind # "mail" PROVE SecretsOK(adm')
  <2> HIDE DEF c
  <2>1. ShowsAll(b) /\ Excuses(b)
    BY <1>2, <1>3, QuietShows DEF Quiet
  <2> QED BY <1>3, <2>1, ScreenNotes DEF Quiet
<1>4. CASE r.kind = "create"
  <2>1. r.state = "ok" /\ adm.page = "users" => r.id # 0
    BY <1>4 DEF ListsOK, Loose, Bounded, DbType
  <2> QED BY <1>0, <1>1, <1>4, <2>1, CreatedShows, ScreenNotes
<1>5. CASE r.kind = "mail"
  <2> DEFINE b == Mailed(c, r)
  <2>1. Screen(b)
    BY <1>1, <1>5
  <2>2. \/ b = [c EXCEPT !.temp = r.id]
        \/ b = [c EXCEPT !.seen = c.seen \cup {r.id}]
        \/ b = [c EXCEPT !.excused = c.excused \cup {r.id}]
    BY <1>0, <1>2 DEF Mailed, Outcomes, AdmType
  <2> HIDE DEF b, c
  <2>3. /\ b \in AdmType /\ b.page = c.page /\ b.reqs = c.reqs /\ b.brought = c.brought
        /\ c.seen \subseteq b.seen /\ c.excused \subseteq b.excused /\ b.add = c.add
        /\ r.id \in b.seen \cup b.excused \/ b.temp = r.id
    <3>1. CASE b = [c EXCEPT !.temp = r.id]
      BY <1>0, <1>2, <3>1 DEF AdmType
    <3>2. CASE b = [c EXCEPT !.seen = c.seen \cup {r.id}]
      BY <1>0, <1>2, <3>2 DEF AdmType
    <3>3. CASE b = [c EXCEPT !.excused = c.excused \cup {r.id}]
      BY <1>0, <1>2, <3>3 DEF AdmType
    <3> QED BY <2>2, <3>1, <3>2, <3>3
  <2>4. Excuses(b)
    BY <1>2, <2>3 DEF SecretsOK, Excuses
  <2>5. r.id # 0
    BY <1>5 DEF SecretsOK, Excuses
  <2>6. r.id \in b.seen \cup b.excused \cup Visible(b)
    BY <2>3, <2>5 DEF Visible
  <2>7. \A i : InMail(adm, i) => i = r.id \/ InMail(b, i)
    BY <1>2, <2>3 DEF InMail
  <2>8. ShowsAll(b)
    BY <1>2, <2>3, <2>6, <2>7 DEF SecretsOK, Noted, ShowsAll
  <2> QED BY <2>1, <2>3, <2>4, <2>8, ScreenNotes
<1>6. CASE r.kind = "list"
  BY <1>0, <1>1, <1>2, <1>3, <1>6, QuietAnswers
<1>7. CASE r.kind = "update"
  BY <1>0, <1>1, <1>2, <1>3, <1>7, QuietAnswers
<1>8. CASE r.kind = "delete"
  BY <1>0, <1>1, <1>2, <1>3, <1>8, QuietAnswers
<1>9. CASE r.kind = "get"
  BY <1>0, <1>1, <1>2, <1>3, <1>9, QuietAnswers
<1> QED BY <1>0, <1>4, <1>5, <1>6, <1>7, <1>8, <1>9 DEF ListKinds, Writes

\* A gesture that only opens and closes, or asks for something but a key.
Calmly(b) ==
    /\ b \in AdmType /\ b.page = adm.page /\ b.reqs = adm.reqs /\ b.brought = adm.brought
    /\ b.seen = adm.seen /\ b.excused = adm.excused
    /\ b.add = adm.add \/ b.add = TRUE \/ adm.page # "keys"

\* Such a gesture loses no secret.
LEMMA CalmlyShows ==
    ASSUME SecretsOK(adm), NEW b, Calmly(b)
    PROVE  /\ Screen(b) => SecretsOK(adm')
           /\ Screen(Reread(b)) => SecretsOK(adm')
           /\ \A kind \in ListKinds, id \in Nat, name \in AnyName :
                 Screen(Put(b, kind, id, name)) /\ kind # "mail"
                     /\ (kind = "create" => adm.page # "keys") => SecretsOK(adm')
<1>1. ShowsAll(b) /\ Excuses(b) /\ b \in AdmType /\ b.page = adm.page
  BY QuietShows DEF Calmly
<1>2. ASSUME NEW kind \in ListKinds, NEW id \in Nat, NEW name \in AnyName,
             Screen(Put(b, kind, id, name)), kind # "mail", kind = "create" => adm.page # "keys"
      PROVE  SecretsOK(adm')
  <2> DEFINE p == Put(b, kind, id, name)
  <2>1. /\ p \in AdmType /\ Excuses(p) /\ (\A i : InMail(p, i) <=> InMail(b, i))
        /\ Visible(p) = Visible(b) /\ p.brought = b.brought /\ p.seen = b.seen /\ p.excused = b.excused
    BY <1>1, <1>2, PutShows
  <2>2. Screen(p)
    BY <1>2
  <2> HIDE DEF p
  <2>3. ShowsAll(p)
    BY <1>1, <2>1 DEF ShowsAll
  <2> QED BY <2>1, <2>2, <2>3, ScreenNotes
<1> QED BY <1>1, <1>2, RereadShows, ScreenNotes

\* What the pages share.
LEMMA SharedShow ==
    ASSUME adm \in AdmType, SecretsOK(adm),
           \/ RefreshUsers \/ RefreshDevices \/ RefreshKeys \/ ReloadProfile
           \/ CloseDelete \/ CloseEdit \/ CloseDetail \/ CloseTemp \/ ConfirmDelete
           \/ OpenAdd \/ OpenAddKey \/ \E i : AskDelete(i) \/ AskEdit(i) \/ OpenDetail(i)
           \/ \E x \in RowNames : SubmitEdit(x) \/ SubmitProfile(x)
           \/ adm.page # "keys" /\ (CloseAdd \/ SubmitUser \/ SubmitDevice)
    PROVE  SecretsOK(adm')
<1>0. /\ {"list", "create", "delete", "update", "get"} \subseteq ListKinds /\ FirstName \in AnyName
      /\ RowNames \subseteq AnyName /\ adm.del \in Nat /\ adm.edit \in Nat /\ adm.mount + 1 \in Nat
  BY DEF ListKinds, Writes, AnyName, AdmType
<1>1. Calmly(adm)
  BY DEF Calmly
<1>2. CASE RefreshUsers \/ RefreshDevices \/ RefreshKeys
  BY <1>1, <1>2, CalmlyShows
     DEF RefreshUsers, RefreshDevices, RefreshKeys, getAllUsers, getAllDevices, getAllApiKeys
<1>3. CASE ReloadProfile
  <2> DEFINE b == [adm EXCEPT !.busy = FALSE, !.mount = adm.mount + 1]
  <2>1. Screen(Reread(b))
    BY <1>3 DEF ReloadProfile, getProfile, AdmType
  <2>2. Calmly(b)
    BY <1>0 DEF Calmly, AdmType
  <2> HIDE DEF b
  <2> QED BY <2>1, <2>2, CalmlyShows
<1>4. CASE CloseDelete
  <2>1. Calmly([adm EXCEPT !.del = 0])
    BY DEF Calmly, AdmType
  <2> QED BY <1>4, <2>1, CalmlyShows DEF CloseDelete
<1>5. CASE CloseEdit
  <2>1. Calmly([adm EXCEPT !.edit = 0])
    BY DEF Calmly, AdmType
  <2> QED BY <1>5, <2>1, CalmlyShows DEF CloseEdit
<1>6. CASE CloseDetail
  <2>1. Calmly([adm EXCEPT !.target = 0])
    BY DEF Calmly, AdmType
  <2> QED BY <1>6, <2>1, CalmlyShows DEF CloseDetail
<1>7. CASE CloseTemp
  <2>1. Calmly([adm EXCEPT !.temp = 0])
    BY DEF Calmly, AdmType
  <2> QED BY <1>7, <2>1, CalmlyShows DEF CloseTemp
<1>8. CASE ConfirmDelete
  <2> DEFINE y == adm.page # "devices"
             b == [adm EXCEPT !.delBusy = y]
  <2>1. y \in BOOLEAN
    OBVIOUS
  <2>2. Screen(Put(b, "delete", adm.del, FirstName))
    BY <1>8 DEF ConfirmDelete
  <2> HIDE DEF y
  <2>3. Calmly(b)
    BY <2>1 DEF Calmly, AdmType
  <2> HIDE DEF b
  <2> QED BY <1>0, <2>2, <2>3, CalmlyShows
<1>9. CASE OpenAdd
  <2>1. Calmly([adm EXCEPT !.add = TRUE])
    BY DEF Calmly, AdmType
  <2> QED BY <1>9, <2>1, CalmlyShows DEF OpenAdd
<1>10. CASE OpenAddKey
  <2>1. Calmly([adm EXCEPT !.add = TRUE, !.reveal = 0, !.busy = FALSE])
    BY DEF Calmly, AdmType
  <2> QED BY <1>10, <2>1, CalmlyShows DEF OpenAddKey
<1>11. ASSUME NEW i, AskDelete(i) \/ AskEdit(i) \/ OpenDetail(i) PROVE SecretsOK(adm')
  <2>0. i \in Nat
    <3>1. i \in RowIds
      BY <1>11 DEF AskDelete, AskEdit, OpenDetail
    <3> QED BY <3>1 DEF RowIds, AdmType, RowType
  <2>1. Calmly([adm EXCEPT !.del = i]) /\ Calmly([adm EXCEPT !.edit = i])
    BY <2>0 DEF Calmly, AdmType
  <2>2. Calmly([adm EXCEPT !.target = i, !.user = 0])
    BY <2>0 DEF Calmly, AdmType
  <2> QED BY <1>0, <1>11, <2>0, <2>1, <2>2, CalmlyShows DEF AskDelete, AskEdit, OpenDetail
<1>12. ASSUME NEW x \in RowNames, SubmitEdit(x) PROVE SecretsOK(adm')
  BY <1>0, <1>1, <1>12, CalmlyShows DEF SubmitEdit
<1>13. ASSUME NEW x \in RowNames, SubmitProfile(x) PROVE SecretsOK(adm')
  <2>1. Calmly([adm EXCEPT !.busy = TRUE])
    BY DEF Calmly, AdmType
  <2> QED BY <1>0, <1>13, <2>1, CalmlyShows DEF SubmitProfile
<1>14. CASE adm.page # "keys" /\ CloseAdd
  <2>1. Calmly([adm EXCEPT !.add = FALSE])
    BY <1>14 DEF Calmly, AdmType
  <2> QED BY <1>14, <2>1, CalmlyShows DEF CloseAdd
<1>15. CASE adm.page # "keys" /\ SubmitUser
  <2>1. Calmly([adm EXCEPT !.busy = TRUE])
    BY DEF Calmly, AdmType
  <2> QED BY <1>0, <1>15, <2>1, CalmlyShows DEF SubmitUser
<1>16. CASE adm.page # "keys" /\ SubmitDevice
  BY <1>0, <1>1, <1>16, CalmlyShows DEF SubmitDevice
<1> QED
  BY <1>2, <1>3, <1>4, <1>5, <1>6, <1>7, <1>8, <1>9, <1>10, <1>11, <1>12, <1>13, <1>14, <1>15, <1>16

\* The form of a key is closed: what it issues is excused.
LEMMA CloseKeyShows ==
    ASSUME adm \in AdmType, SecretsOK(adm), CloseAddKey
    PROVE  SecretsOK(adm')
<1> DEFINE E == adm.excused \cup {r.id : r \in {q \in adm.reqs : q.kind = "create"}}
           b == [adm EXCEPT !.add = FALSE, !.excused = E]
<1>1. E \in SUBSET Nat
  BY DEF AdmType, Request
<1>2. Screen(b)
  BY DEF CloseAddKey, AdmType
<1>3. adm.excused \subseteq E /\ \A r \in adm.reqs : r.kind = "create" => r.id \in E
  OBVIOUS
<1> HIDE DEF E
<1>4. /\ b \in AdmType /\ b.page = adm.page /\ b.reqs = adm.reqs /\ b.brought = adm.brought
      /\ b.seen = adm.seen /\ b.excused = E
  BY <1>1 DEF AdmType
<1> HIDE DEF b
<1>5. ShowsAll(b) /\ Excuses(b)
  BY <1>3, <1>4 DEF SecretsOK, Noted, ShowsAll, Excuses, InMail
<1> QED BY <1>2, <1>4, <1>5, ScreenNotes

\* A key is asked for: what came of an older request for it no longer counts.
LEMMA SubmitKeyShows ==
    ASSUME adm \in AdmType, SecretsOK(adm), NEW d \in 1..MaxRows, SubmitKey(d)
    PROVE  SecretsOK(adm')
<1> DEFINE b == [adm EXCEPT !.busy = TRUE, !.brought = adm.brought \ {d}, !.seen = adm.seen \ {d},
                            !.excused = adm.excused \ {d}]
           p == Put(b, "create", d, FirstName)
<1>1. d \in Nat /\ d # 0 /\ adm.add /\ FirstName \in AnyName /\ "create" \in ListKinds
  BY ListsAssumption DEF SubmitKey, AnyName, ListKinds, Writes
<1>2. Screen(p)
  BY DEF SubmitKey, AdmType
<1>3. /\ b \in AdmType /\ b.page = adm.page /\ b.reqs = adm.reqs /\ b.brought = adm.brought \ {d}
      /\ b.seen = adm.seen \ {d} /\ b.excused = adm.excused \ {d} /\ b.add = adm.add
  BY DEF AdmType
<1> HIDE DEF b
<1>4. ShowsAll(b) /\ Excuses(b)
  BY <1>1, <1>3 DEF SecretsOK, Noted, ShowsAll, Excuses, InMail
<1>5. /\ p \in AdmType /\ Excuses(p) /\ (\A i : InMail(p, i) <=> InMail(b, i))
      /\ Visible(p) = Visible(b) /\ p.brought = b.brought /\ p.seen = b.seen /\ p.excused = b.excused
  <2>1. b.add /\ d # 0
    BY <1>1, <1>3
  <2>2. /\ p \in AdmType /\ (Excuses(b) => Excuses(p))
        /\ \A i : InMail(p, i) <=> InMail(b, i) \/ ("create" = "mail" /\ i = d)
        /\ Visible(p) = Visible(b) /\ p.brought = b.brought /\ p.seen = b.seen /\ p.excused = b.excused
    BY <1>1, <1>3, <2>1, PutShows
  <2> QED BY <1>4, <2>2
<1> HIDE DEF p
<1>6. ShowsAll(p)
  BY <1>4, <1>5 DEF ShowsAll
<1> QED BY <1>2, <1>5, <1>6, ScreenNotes

\* Every step.
LEMMA SecretsStep ==
    ASSUME ListsOK(adm, rowsDb), SecretsOK(adm), [ListsNext]_listVars
    PROVE  SecretsOK(adm')
<1>0. adm \in AdmType /\ Loose(adm, rowsDb)
  BY DEF ListsOK, Loose
<1>1. CASE ListGesture
  <2>1. CASE UsersPage
    BY <1>0, <2>1, SharedShow DEF UsersPage, UserRow
  <2>2. CASE DevicesPage
    BY <1>0, <2>2, SharedShow DEF DevicesPage, DeviceRow
  <2>3. CASE AccessPage
    BY <1>0, <2>3, SharedShow, CloseKeyShows, SubmitKeyShows DEF AccessPage, KeyRow
  <2>4. CASE ProfilePage
    BY <1>0, <2>4, SharedShow DEF ProfilePage, CloseProfile
  <2> QED BY <1>1, <2>1, <2>2, <2>3, <2>4 DEF ListGesture
<1>2. ASSUME NEW r \in adm.reqs, NEW o \in Outcomes, ServeList(r, o) PROVE SecretsOK(adm')
  BY <1>0, <1>2, ServesShow
<1>3. ASSUME NEW r \in adm.reqs, ListAnswer(r) PROVE SecretsOK(adm')
  BY <1>3, AnswersShow
<1>4. CASE UNCHANGED listVars
  BY <1>4 DEF listVars
<1> QED BY <1>1, <1>2, <1>3, <1>4 DEF ListsNext

\* No secret is out at the start.
LEMMA SecretsStart == ListsInit => SecretsOK(adm)
<1> SUFFICES ASSUME ListsInit PROVE SecretsOK(adm)
  OBVIOUS
<1> DEFINE z(p) == [page |-> p, rows |-> {}, loading |-> FALSE, n |-> 0, reqs |-> {},
                    add |-> FALSE, busy |-> FALSE, reveal |-> 0, del |-> 0, delBusy |-> FALSE,
                    edit |-> 0, target |-> 0, user |-> 0, temp |-> 0, doubt |-> TRUE, mount |-> 0,
                    brought |-> {}, seen |-> {}, excused |-> {}]
<1>1. PICK p \in {"users", "devices", "keys", "profile"} : adm = getAll(z(p))
  BY DEF ListsInit
<1> DEFINE y == z(p)
           e == [y EXCEPT !.busy = FALSE, !.mount = y.mount + 1]
<1>2. y \in AdmType /\ y.reqs = {} /\ y.brought = {} /\ y.page = p
  BY DEF AdmType
<1>3. adm = getAll(y)
  BY <1>1
<1> HIDE DEF y
<1>4. adm = Reread(y) \/ adm = Reread(e)
  BY <1>2, <1>3 DEF getAll, getAllUsers, getAllDevices, getAllApiKeys, getProfile, AdmType
<1>5. e \in AdmType /\ e.reqs = {} /\ e.brought = {}
  <2>1. y.mount + 1 \in Nat
    BY <1>2 DEF AdmType
  <2> QED BY <1>2, <2>1 DEF AdmType
<1> HIDE DEF e
<1>6. \A c \in AdmType : c.reqs = {} /\ c.brought = {} => Reread(c).brought = {} /\ Excuses(Reread(c))
  <2> SUFFICES ASSUME NEW c \in AdmType, c.reqs = {}, c.brought = {}
               PROVE  Reread(c).brought = {} /\ Excuses(Reread(c))
    OBVIOUS
  <2> DEFINE f == [c EXCEPT !.rows = {}]
  <2>1. f \in AdmType /\ f.brought = {}
    BY DEF AdmType
  <2>2. Reread(c) = Put(f, "list", 0, FirstName)
    BY DEF Reread
  <2> HIDE DEF f
  <2>3. Reread(c).brought = {}
    BY <2>1, <2>2, PutIs DEF ListKinds, AnyName
  <2>4. Excuses(c)
    BY DEF Excuses
  <2> QED BY <2>3, <2>4, RereadShows
<1> QED BY <1>2, <1>4, <1>5, <1>6 DEF SecretsOK, Noted

\* A temporary password and an access key that reached the browser is mailed or
\* comes to the screen, whatever else the user opens, closes or submits, except
\* a key whose form was closed and a password whose mail got no answer
\* (UsersPage.handleSendEmail, AddAccessKeyModal).
THEOREM SecretsReachTheUser == ListSpec => []SecretsAreSeen
<1>1. ASSUME SecretsOK(adm) PROVE SecretsAreSeen
  BY <1>1 DEF SecretsOK, Noted, InMail, SecretsAreSeen, Out
<1> DEFINE Inv == ListsOK(adm, rowsDb) /\ SecretsOK(adm)
<1>2. Inv /\ [ListsNext]_listVars => Inv'
  BY ListsStep, SecretsStep
<1>3. Inv => SecretsAreSeen
  BY <1>1
<1>4. ListsInit => Inv
  BY ListsStart, SecretsStart
<1> HIDE DEF Inv
<1> QED
  BY <1>2, <1>3, <1>4, PTL DEF ListSpec

=============================================================================
