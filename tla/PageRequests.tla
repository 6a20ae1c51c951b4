---------------------------- MODULE PageRequests ----------------------------
(***************************************************************************)
(* What the modules of the dashboard's pages share: one user, whose        *)
(* gestures are counted, and requests that are out until the browser hands *)
(* their answer to the code that awaits it, in any order.                  *)
(***************************************************************************)
EXTENDS Naturals, FiniteSets, FiniteSetsExt, ApiClient

CONSTANTS
    MaxClicks,   \* gestures of the user
    MaxFailures  \* requests that are refused or get no answer

VARIABLE spent   \* clicks and failures so far

Unspent == [clicks |-> 0, failures |-> 0]

Click ==
    /\ spent.clicks < MaxClicks
    /\ spent' = [spent EXCEPT !.clicks = @ + 1]

\* A request ends well, or as one of the failures the run allows.
EndsIn(o) ==
    \/ o = "ok" /\ UNCHANGED spent
    \/ /\ o \in Outcomes \ {"ok"}
       /\ spent.failures < MaxFailures
       /\ spent' = [spent EXCEPT !.failures = @ + 1]

\* A write is done when it is answered well, not done when it is refused, and
\* may or may not be done when no answer comes.
Written(o, before, after) ==
    CASE o = "ok"      -> {after}
      [] o = "refused" -> {before}
      [] o = "network" -> {before, after}

=============================================================================
