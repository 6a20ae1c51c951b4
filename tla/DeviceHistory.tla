--------------------------- MODULE DeviceHistory ---------------------------
(***************************************************************************)
(* The history panel of the device page: DeviceHistoryView and the two     *)
(* request channels of useLocationService it drives, the table's pages and *)
(* the route on the map.  Neither channel cancels a request: a request id  *)
(* tells a late answer from the current one.                               *)
(***************************************************************************)
EXTENDS PageRequests

CONSTANTS
    Windows,      \* date ranges; the presets and what the user can type
    Today,        \* the range the panel opens with
    HistoryPages  \* pages of the table

VARIABLE hist     \* one mounted DeviceHistoryView, or Unmounted

ASSUME HistoryConstants == Today \in Windows /\ HistoryPages \in Nat \ {0}

Chans == {"history", "route"}

\* What a request asks for; the stored points do not change during a run, so
\* it also names what the answer holds.  The route has no pages.
Query(w, p) == [window |-> w, page |-> p]
Nothing == Query("none", 0)

FreshChan == [id |-> 0, want |-> Nothing, shown |-> Nothing, loading |-> FALSE, err |-> FALSE]

Unmounted ==
    [mounted |-> FALSE, range |-> Today, detective |-> FALSE, style |-> "line",
     chan |-> [c \in Chans |-> FreshChan], reqs |-> {},
     typed |-> FALSE, drift |-> FALSE]

\* getLocationHistory and getLocationRoute: a new id, an empty result, the
\* flags of runLocationRequest, and the request.
getLocation(h, c, q) ==
    LET n == h.chan[c].id + 1
    IN  [h EXCEPT !.chan[c] = [id |-> n, want |-> q, shown |-> Nothing,
                               loading |-> TRUE, err |-> FALSE],
                  !.reqs = @ \cup {[chan |-> c, id |-> n, query |-> q]}]

getLocationHistory(h, w, p) == getLocation(h, "history", Query(w, p))
getLocationRoute(h, w) == getLocation(h, "route", Query(w, 0))

\* The panel's first effect.
MountHistory == getLocationHistory([Unmounted EXCEPT !.mounted = TRUE], Today, 1)

\* loadHistory: rangeChanged compares with what is typed already.
loadHistory(h, w, p) ==
    LET a == getLocationHistory([h EXCEPT !.range = w], w, p)
    IN  IF h.detective /\ (p = 1 \/ w # h.range) THEN getLocationRoute(a, w) ELSE a

\* What the map draws: the route, or the table's page until there is one.
routePath(h) ==
    IF ~h.detective THEN Nothing
    ELSE IF h.chan["route"].shown # Nothing THEN h.chan["route"].shown
    ELSE h.chan["history"].shown

\* Ghosts: the range has been typed over since the table was loaded; the route
\* or a page was asked for after that without loading the other one.
Drifts(h) == [h EXCEPT !.drift = @ \/ h.typed]
Aligned(h) == [h EXCEPT !.typed = FALSE, !.drift = FALSE]

---------------------------------------------------------------------------
(* The user's handlers; each applies to a panel that is on the screen       *)

\* The range inputs exist only in detective mode.
EditRange(w) ==
    /\ hist.detective /\ w # hist.range
    /\ hist' = [hist EXCEPT !.range = w, !.typed = TRUE]

\* The button is disabled while either channel loads.
handleHistorySubmit ==
    /\ hist.detective
    /\ \A c \in Chans : ~hist.chan[c].loading
    /\ hist' = Aligned(loadHistory(hist, hist.range, 1))

\* The presets are not.
Preset(w) ==
    /\ hist.detective
    /\ hist' = Aligned(loadHistory(hist, w, 1))

\* The table's foot is there once a page is.
Paginate(p) ==
    /\ hist.chan["history"].shown # Nothing
    /\ p \in 1..HistoryPages
    /\ hist' = LET h == loadHistory(hist, hist.range, p)
               IN  IF p = 1 /\ hist.detective THEN Aligned(h) ELSE Drifts(h)

handleDetectiveToggle ==
    hist' = IF hist.detective THEN [hist EXCEPT !.detective = FALSE]
            ELSE Drifts(getLocationRoute([hist EXCEPT !.detective = TRUE], hist.range))

setRouteStyle ==
    /\ hist.detective
    /\ hist' = [hist EXCEPT !.style = IF @ = "line" THEN "dots" ELSE "line"]

\* With both errors in detective mode the route is asked for twice.
retryLocations ==
    /\ \E c \in Chans : hist.chan[c].err
    /\ hist' = LET a == IF hist.chan["history"].err
                        THEN IF hist.detective
                             THEN Aligned(loadHistory(hist, hist.range, 1))
                             ELSE Drifts(loadHistory(hist, hist.range, 1))
                        ELSE hist
               IN  IF hist.chan["route"].err /\ hist.detective
                   THEN IF hist.chan["history"].err THEN getLocationRoute(a, hist.range)
                        ELSE Drifts(getLocationRoute(a, hist.range))
                   ELSE a

HistoryGesture ==
    /\ hist.mounted
    /\ Click
    /\ \/ \E w \in Windows : EditRange(w) \/ Preset(w)
       \/ \E p \in 1..HistoryPages : Paginate(p)
       \/ handleHistorySubmit \/ handleDetectiveToggle \/ setRouteStyle \/ retryLocations

---------------------------------------------------------------------------
(* The answers                                                             *)

\* Mutant: every answer is taken.
isCurrentAlways(h, r) == TRUE

isCurrent(h, r) == h.chan[r.chan].id = r.id

\* runLocationRequest after its await: an HTTP error is an empty response.
runLocationRequest(h, r, o) ==
    LET g == [h EXCEPT !.reqs = @ \ {r}]
    IN  IF ~isCurrent(h, r) THEN g
        ELSE IF Rejects(o)
        THEN [g EXCEPT !.chan[r.chan].err = TRUE, !.chan[r.chan].loading = FALSE]
        ELSE [g EXCEPT !.chan[r.chan].shown = r.query, !.chan[r.chan].loading = FALSE]

HistoryAnswer(r, o) ==
    /\ EndsIn(o)
    /\ hist' = runLocationRequest(hist, r, o)

---------------------------------------------------------------------------
(* Properties                                                              *)

\* However the answers of overlapping loads are reordered, each channel ends
\* with what was asked for last or with that request's own error, and its
\* spinner is up exactly while that request is out.  Then the map and the
\* table show the same window, unless a typed range was used without being
\* applied: by a page of the table, by the switch of the detective mode, or by
\* a retry of one channel.
HistoryIsLatest ==
    /\ \A c \in Chans : LET k == hist.chan[c] IN
        /\ k.loading <=> \E r \in hist.reqs : r.chan = c /\ r.id = k.id
        /\ ~k.loading => k.shown = IF k.err THEN Nothing ELSE k.want
    /\ (~hist.drift /\ hist.detective /\ ~hist.chan["history"].loading
            /\ \A c \in Chans : hist.chan[c].shown # Nothing)
            => routePath(hist).window = hist.chan["history"].shown.window

=============================================================================
