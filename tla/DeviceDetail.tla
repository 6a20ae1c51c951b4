---------------------------- MODULE DeviceDetail ----------------------------
(***************************************************************************)
(* The device page of one owner: the device and its operations             *)
(* (useDeviceService), the views, the modals, the guest links              *)
(* (GuestShareModal) and the history panel.  While the service's one flag  *)
(* isLoading is up the page renders a placeholder, so everything below it  *)
(* is unmounted and mounts anew afterwards; which modal is open is kept in *)
(* the page itself and survives.                                           *)
(***************************************************************************)
EXTENDS DeviceHistory

CONSTANTS
    Names,    \* device names
    Others,   \* users who can be given access
    MaxLinks  \* guest links, named 1..MaxLinks in the order they are made

VARIABLES
    det,      \* DeviceDetailPage and its useDeviceService
    share,    \* GuestShareModal
    owned     \* external: the device, its users and its links on the backend

pageVars == <<det, share, owned, hist, spent>>

NoDevice == [name |-> "none", users |-> {}]
Modals == {"none", "choice", "invite", "guest", "edit", "delete", "revoke"}

FreshShare == [links |-> {}, created |-> 0, loading |-> FALSE, saving |-> FALSE,
               err |-> FALSE, opening |-> 0, n |-> 0, reqs |-> {}, doubt |-> TRUE]

\* The page below the placeholder, the missing-id notice and the error.
Content(d) == d.id /\ ~d.loading /\ d.device # NoDevice /\ ~d.left

\* The modal unmounted: what it has sent is still out, but nobody takes the
\* answers.
Orphaned(s) ==
    [FreshShare EXCEPT !.n = IF s.reqs = {} THEN 0 ELSE s.n,
                       !.reqs = {[r EXCEPT !.gone = TRUE] : r \in s.reqs}]

\* The page becomes d; what is below it is unmounted or mounted with it.
Render(d, s) ==
    /\ det' = d
    /\ share' = IF Content(d) THEN s ELSE Orphaned(s)
    /\ hist' = IF ~(Content(d) /\ d.opened) THEN Unmounted
               ELSE IF hist.mounted THEN hist ELSE MountHistory

---------------------------------------------------------------------------
(* useDeviceService                                                        *)

Call(d, op) == [d EXCEPT !.loading = TRUE, !.ops = @ \cup {op}]
Op(kind, arg) == [kind |-> kind, arg |-> arg, then |-> "nothing"]

getDeviceById(d, then) ==
    Call([d EXCEPT !.device = NoDevice], [kind |-> "get", arg |-> "", then |-> then])

\* What an operation does on the backend.
Done(op) ==
    CASE op.kind = "update" -> [owned EXCEPT !.name = op.arg]
      [] op.kind = "delete" -> [owned EXCEPT !.exists = FALSE]
      [] op.kind = "grant"  -> [owned EXCEPT !.users = @ \cup {op.arg}]
      [] op.kind = "revoke" -> [owned EXCEPT !.users = @ \ {op.arg}]
      [] op.kind = "get"    -> owned

\* The outcomes the backend can give.
Possible(op) == IF owned.exists THEN Outcomes ELSE Outcomes \ {"ok"}
Ended(d, op) == [d EXCEPT !.loading = FALSE, !.ops = @ \ {op}]

\* The device, and the modal that the awaiting handler closes; a handler
\* whose call threw leaves its modal open.
GotDevice(d, op, o) ==
    IF Rejects(o) THEN Ended(d, op)
    ELSE [Ended(d, op) EXCEPT !.device = [name |-> owned.name, users |-> owned.users],
                              !.lost = FALSE,
                              !.modal = IF op.then = "close" THEN "none" ELSE @]

DeviceUpdated(d, op, o) ==
    IF Rejects(o) THEN Ended(d, op)
    ELSE [Ended(d, op) EXCEPT !.device.name = op.arg, !.modal = "none"]

\* An HTTP error is taken for success: the page goes back to the list.
DeviceDeleted(d, op, o) ==
    IF Throws(o) THEN Ended(d, op)
    ELSE [Ended(d, op) EXCEPT !.device = NoDevice, !.left = TRUE]

\* Mutant: the access list is not read again.
AccessChangedInPlace(d, op, o) == [Ended(d, op) EXCEPT !.modal = "none"]

\* grantAccess and revokeAccess do not look at the answer and read the device
\* again, still inside the loading flag.
AccessChanged(d, op, o) ==
    IF Throws(o) THEN Ended(d, op)
    ELSE getDeviceById([d EXCEPT !.ops = @ \ {op}], "close")

Finish(d, op, o) ==
    CASE op.kind = "get"    -> GotDevice(d, op, o)
      [] op.kind = "update" -> DeviceUpdated(d, op, o)
      [] op.kind = "delete" -> DeviceDeleted(d, op, o)
      [] OTHER              -> AccessChanged(d, op, o)

DeviceAnswer(op, o) ==
    /\ o \in Possible(op)
    /\ IF owned.exists THEN EndsIn(o) ELSE UNCHANGED spent
    /\ owned' \in IF owned.exists THEN Written(o, owned, Done(op)) ELSE {owned}
    /\ Render([Finish(det, op, o) EXCEPT !.lost = @ \/ (op.kind # "get" /\ o = "network")],
              share)

---------------------------------------------------------------------------
(* The page's own handlers                                                 *)

\* The id from the URL arrives with the first effect, and starts the load.
SyncFromUrl ==
    /\ ~det.id
    /\ \E v \in {"overview", "history"} :
          Render(getDeviceById([det EXCEPT !.id = TRUE, !.view = v,
                                           !.opened = (v = "history")], "nothing"), share)
    /\ UNCHANGED <<owned, spent>>

\* The panel is only hidden when the view changes, never unmounted.
handleViewChange ==
    /\ Content(det) /\ det.modal = "none"
    /\ Render([det EXCEPT !.view = IF @ = "history" THEN "overview" ELSE "history",
                          !.opened = TRUE], share)

\* Back and forward work over a modal and over the placeholder too.
PopState ==
    /\ det.opened /\ ~det.left
    /\ Render([det EXCEPT !.view = IF @ = "history" THEN "overview" ELSE "history"], share)

\* The retry of an error bar: the page's own, or the live stream's.
Reload ==
    /\ det.id /\ ~det.loading /\ ~det.left
    /\ det.device = NoDevice \/ det.modal = "none"
    /\ Render(getDeviceById(det, "nothing"), share)

goBack ==
    /\ det.id /\ ~det.loading /\ ~det.left /\ det.modal = "none"
    /\ Render([det EXCEPT !.left = TRUE], share)

\* The header's buttons, the access table's, and ShareChoiceModal's.  The
\* owner's own row has no button.
OpenModal(m) ==
    /\ Content(det)
    /\ \/ det.modal = "none" /\ m \in {"choice", "invite", "edit", "delete"}
       \/ det.modal = "choice" /\ m = "invite"
    /\ Render([det EXCEPT !.modal = m], share)

AskRevoke(u) ==
    /\ Content(det) /\ det.modal = "none" /\ u \in det.device.users
    /\ Render([det EXCEPT !.modal = "revoke", !.target = u], share)

CloseModal ==
    /\ Content(det) /\ det.modal \notin {"none", "guest"}
    /\ Render([det EXCEPT !.modal = "none"], share)

\* DeleteModal's button waits for the typed name; GrantAccessModal's for an id.
Confirm(op) ==
    /\ Content(det) /\ det.modal = op.kind
    /\ Render(Call(det, op), share)

handleInvite(u) ==
    /\ Content(det) /\ det.modal = "invite"
    /\ Render(Call(det, Op("grant", u)), share)

ConfirmModal ==
    \/ \E u \in Others : handleInvite(u)
    \/ Confirm(Op("revoke", det.target))
    \/ Confirm(Op("delete", ""))
    \/ \E x \in Names : det.modal = "edit" /\ Content(det)
                        /\ Render(Call(det, Op("update", x)), share)

---------------------------------------------------------------------------
(* GuestShareModal                                                         *)

\* A request joins those that are out; alone is a ghost, true of a request that
\* overlaps no other one of the modal.
Ask(s, kind, guard, link) ==
    [s EXCEPT !.n = @ + 1, !.doubt = @ \/ s.reqs # {},
              !.reqs = {[r EXCEPT !.alone = FALSE] : r \in @} \cup
                       {[n |-> s.n, kind |-> kind, guard |-> guard, link |-> link,
                         alone |-> s.reqs = {}, gone |-> FALSE, state |-> "sent", got |-> {}]}]

\* The modal opens: its effect lists the links, guarded by `active'.
OpenShare ==
    /\ Content(det) /\ det.modal = "choice"
    /\ LET s == [share EXCEPT !.opening = @ + 1, !.created = 0, !.err = FALSE, !.loading = TRUE]
       IN  Render([det EXCEPT !.modal = "guest"], Ask(s, "list", s.opening, 0))

ShareOpen == Content(det) /\ det.modal = "guest"

createLink ==
    /\ ShareOpen /\ ~share.saving
    /\ Render(det, Ask([share EXCEPT !.saving = TRUE, !.err = FALSE, !.created = 0],
                       "create", 0, 0))

\* The list is hidden while it loads; the buttons of its rows are never busy.
revokeLink(l) ==
    /\ ShareOpen /\ ~share.loading /\ l \in share.links
    /\ Render(det, Ask([share EXCEPT !.err = FALSE], "revoke", 0, l))

CloseShare ==
    /\ ShareOpen /\ ~share.saving
    /\ Render([det EXCEPT !.modal = "none"], [share EXCEPT !.created = 0])

\* The backend handles a request of the modal.
ServeShare(r, o) ==
    /\ r.state = "sent"
    /\ EndsIn(o)
    /\ LET new  == owned.last + 1
           link == IF r.kind = "create" THEN new ELSE r.link
           done == CASE r.kind = "create" -> [owned EXCEPT !.links = @ \cup {new}, !.last = new]
                     [] r.kind = "revoke" -> [owned EXCEPT !.links = @ \ {r.link}]
                     [] r.kind = "list"   -> owned
       IN  /\ r.kind = "create" => new <= MaxLinks
           /\ owned' \in Written(o, owned, done)
           /\ share' = [share EXCEPT
                 !.reqs = (@ \ {r}) \cup {[r EXCEPT !.state = o, !.link = link, !.got = owned.links]}]
    /\ UNCHANGED <<det, hist>>

\* `active' is false once the modal was closed, even if it is open again.
Active(r) == r.guard = 0 \/ (ShareOpen /\ r.guard = share.opening)

\* Mutant: the list is not read again after a creation.
LinkCreatedNoList(s, r) ==
    IF Rejects(r.state) THEN [s EXCEPT !.err = TRUE, !.saving = FALSE]
    ELSE [s EXCEPT !.created = r.link, !.saving = FALSE]

LinkCreated(s, r) ==
    IF Rejects(r.state) THEN [s EXCEPT !.err = TRUE, !.saving = FALSE]
    ELSE Ask([s EXCEPT !.created = r.link, !.saving = FALSE], "list", 0, 0)

\* A list that failed, or that overlapped another request, leaves doubt.
LinksListed(s, r) ==
    IF ~Active(r) THEN s
    ELSE IF Rejects(r.state)
    THEN [s EXCEPT !.err = TRUE, !.loading = IF r.guard = 0 THEN @ ELSE FALSE]
    ELSE [s EXCEPT !.links = r.got, !.loading = IF r.guard = 0 THEN @ ELSE FALSE,
                   !.doubt = IF r.alone THEN FALSE ELSE @]

\* An HTTP error is taken for success and the row goes.
LinkRevoked(s, r) ==
    IF Throws(r.state) THEN [s EXCEPT !.err = TRUE] ELSE [s EXCEPT !.links = @ \ {r.link}]

ShareAnswer(r) ==
    /\ r.state # "sent"
    /\ LET s == [share EXCEPT !.reqs = @ \ {r}, !.doubt = @ \/ r.state # "ok"]
           t == CASE r.gone -> s
                  [] ~r.gone /\ r.kind = "create" -> LinkCreated(s, r)
                  [] ~r.gone /\ r.kind = "list"   -> LinksListed(s, r)
                  [] ~r.gone /\ r.kind = "revoke" -> LinkRevoked(s, r)
       IN  Render(det, t)
    /\ UNCHANGED <<owned, spent>>

---------------------------------------------------------------------------

DetailInit ==
    /\ det = [id |-> FALSE, loading |-> FALSE, ops |-> {}, device |-> NoDevice,
              view |-> "overview", opened |-> FALSE, modal |-> "none",
              target |-> CHOOSE u \in Others : TRUE, left |-> FALSE, lost |-> FALSE]
    /\ share = FreshShare
    /\ owned = [exists |-> TRUE, name |-> CHOOSE x \in Names : TRUE, users |-> {},
                links |-> {1}, last |-> 1]
    /\ hist = Unmounted

DetailGesture ==
    /\ Click
    /\ \/ handleViewChange \/ PopState \/ Reload \/ goBack \/ CloseModal \/ ConfirmModal
       \/ OpenShare \/ createLink \/ CloseShare
       \/ \E l \in 1..MaxLinks : revokeLink(l)
       \/ \E m \in Modals : OpenModal(m)
       \/ \E u \in Others : AskRevoke(u)
    /\ UNCHANGED owned

DetailNext ==
    \/ SyncFromUrl
    \/ DetailGesture
    \/ \E op \in det.ops, o \in Outcomes : DeviceAnswer(op, o)
    \/ \E r \in share.reqs, o \in Outcomes : ServeShare(r, o)
    \/ \E r \in share.reqs : ShareAnswer(r)
    \/ /\ Content(det) /\ det.modal = "none" /\ det.view = "history"
       /\ HistoryGesture
       /\ UNCHANGED <<det, share, owned>>
    \/ \E r \in hist.reqs, o \in Outcomes :
          HistoryAnswer(r, o) /\ UNCHANGED <<det, share, owned>>

---------------------------------------------------------------------------
(* Properties                                                              *)

\* One flag guards five operations that share the device: they never overlap,
\* the placeholder is up exactly while one is out, and when it goes the page
\* shows the name and the users the backend has, unless the answer to a write
\* was lost and the device has not been read since.
DetailFollowsServer ==
    /\ Cardinality(det.ops) = IF det.loading THEN 1 ELSE 0
    /\ (Content(det) /\ ~det.lost)
            => det.device = [name |-> owned.name, users |-> owned.users]

\* No live link hides from its owner: with the modal open, nothing out, and a
\* list that was read alone and followed by no failure, the rows are the live
\* links.  Lists and revocations that overlap may bring a dead row back.
LinksAreListed ==
    (ShareOpen /\ share.reqs = {} /\ ~share.doubt) => share.links = owned.links

=============================================================================
