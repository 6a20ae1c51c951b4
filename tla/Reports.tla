------------------------------ MODULE Reports ------------------------------
(***************************************************************************)
(* The reports page: one filter, several sections that are loaded side by  *)
(* side at every change of it, and no way to tell a late answer from the   *)
(* current one.                                                            *)
(***************************************************************************)
EXTENDS PageRequests

CONSTANTS
    ReportSections, \* sections, all loaded alike
    MaxRounds,      \* loads of all sections
    Periods,        \* periods of the select, each with the range it sets
    FirstPeriod,    \* the one the page opens with
    TypedRanges,    \* ranges the user can type
    BadRanges,      \* those that end before they begin
    ReportDevices,
    VehicleTypes

ASSUME ReportConstants ==
    BadRanges \subseteq TypedRanges /\ FirstPeriod \in Periods

VARIABLE rep

NoReport == [range |-> "none", devices |-> {}, type |-> "none"]

\* The memo of the page: what every request and the export link ask for.
filter(r) == [range |-> r.range, devices |-> r.devices, type |-> r.type]

\* loadReports: every section forgets its report and asks for a new one.
loadReports(r) ==
    [r EXCEPT !.round = @ + 1,
              !.section = [s \in ReportSections |-> [@[s] EXCEPT !.data = NoReport, !.loading = TRUE,
                                                                 !.err = FALSE]],
              !.reqs = @ \cup {[section |-> s, round |-> r.round + 1, filter |-> filter(r)] :
                                  s \in ReportSections}]

\* The effect on the filter: it runs when the memo has changed.
Filtered(r) ==
    \/ filter(r) = filter(rep) /\ rep' = r
    \/ filter(r) # filter(rep) /\ rep.round < MaxRounds /\ rep' = loadReports(r)

---------------------------------------------------------------------------
(* ReportsFilters and the sections' buttons                                *)

\* "custom" only shows in the select.
applyPeriod(p) ==
    Filtered(IF p = "custom" THEN [rep EXCEPT !.period = p]
             ELSE [rep EXCEPT !.period = p, !.range = p])

\* Either date input: the page loads at once, whatever the range.
EditDates(w) == Filtered([rep EXCEPT !.period = "custom", !.range = w])

toggleDevice(d) ==
    /\ rep.listed
    /\ Filtered([rep EXCEPT !.devices = IF d \in @ THEN @ \ {d} ELSE @ \cup {d}])

\* Mutant: the memo does not depend on the vehicle type.
setVehicleTypeUnwatched(x) == rep' = [rep EXCEPT !.type = x]

setVehicleType(x) == Filtered([rep EXCEPT !.type = x])

\* Only the button looks at the range; its complaint stays until it is used
\* again.
refresh ==
    \/ /\ rep.range \in BadRanges
       /\ rep' = [rep EXCEPT !.invalid = TRUE]
    \/ /\ rep.range \notin BadRanges /\ rep.round < MaxRounds
       /\ rep' = loadReports([rep EXCEPT !.invalid = FALSE])

\* A section without a report offers to load them all again.
retry ==
    /\ \E s \in ReportSections : ~rep.section[s].loading /\ rep.section[s].data = NoReport
    /\ rep.round < MaxRounds
    /\ rep' = loadReports(rep)

ReportGesture ==
    /\ Click
    /\ \/ \E p \in Periods \cup {"custom"} : applyPeriod(p)
       \/ \E w \in TypedRanges : EditDates(w)
       \/ \E d \in ReportDevices : toggleDevice(d)
       \/ \E x \in VehicleTypes \cup {"all"} : setVehicleType(x)
       \/ refresh \/ retry

---------------------------------------------------------------------------
(* The answers                                                             *)

\* loadSection after its await, with no question which round it belongs to.
\* late is a ghost: the answer was not the last round's.
loadSection(r, q, o) ==
    LET k == [data |-> IF Rejects(o) THEN NoReport ELSE q.filter, loading |-> FALSE,
              err |-> Rejects(o), late |-> q.round # r.round]
    IN  [r EXCEPT !.section[q.section] = k, !.reqs = @ \ {q}]

\* The backend refuses a range that ends before it begins.
ReportAnswer(q, o) ==
    /\ IF q.filter.range \in BadRanges THEN o = "refused" /\ UNCHANGED spent ELSE EndsIn(o)
    /\ rep' = loadSection(rep, q, o)

\* The list of devices comes once; without it no device can be picked.
DevicesAnswer(o) ==
    /\ rep.asked
    /\ EndsIn(o)
    /\ rep' = [rep EXCEPT !.asked = FALSE, !.listed = HasData(o)]

---------------------------------------------------------------------------

ReportInit ==
    rep = loadReports([period |-> FirstPeriod, range |-> FirstPeriod, devices |-> {},
                       type |-> "all", invalid |-> FALSE, asked |-> TRUE, listed |-> FALSE,
                       round |-> 0, reqs |-> {},
                       section |-> [s \in ReportSections |->
                           [data |-> NoReport, loading |-> TRUE, err |-> FALSE, late |-> FALSE]]])

ReportNext ==
    \/ ReportGesture
    \/ \E q \in rep.reqs, o \in Outcomes : ReportAnswer(q, o)
    \/ \E o \in Outcomes : DevicesAnswer(o)

---------------------------------------------------------------------------
(* Properties                                                              *)

\* A section shows no spinner that no request will end, and once its requests
\* have been answered it shows the report of the filter on the screen, or that
\* it failed, unless its last answer was one of an older filter overtaking.
\* So sections whose answers kept their order never disagree with each other
\* or with the export link.
ReportsMatchFilter ==
    \A s \in ReportSections :
        LET k == rep.section[s]
            out == {q \in rep.reqs : q.section = s}
        IN  /\ k.loading => out # {}
            /\ (out = {} /\ ~k.late) => k.data = IF k.err THEN NoReport ELSE filter(rep)

=============================================================================
