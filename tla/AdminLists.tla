----------------------------- MODULE AdminLists -----------------------------
(***************************************************************************)
(* The pages that show rows of one table: UsersPage, DevicesPage,          *)
(* AccessPage, and ProfilePage with its one user.  With them the services  *)
(* they call (useUserService and useEmailService, useDeviceService,        *)
(* useApiKeyService) and their modals.  The rows are emptied and read      *)
(* again by every refresh, and patched in place by what the user creates,  *)
(* edits and removes; no answer is told from a later one.                  *)
(***************************************************************************)
EXTENDS PageRequests

CONSTANTS
    MaxRows,   \* users, or devices.  An access key has the id of its device,
               \* which has one key at a time
    RowNames   \* names of a device or of the profile, the rows that are edited

ASSUME ListsAssumption == MaxRows \in Nat

VARIABLES
    adm,       \* the page, its services and its modals
    rowsDb     \* external: the rows on the backend, and the last id

listVars == <<adm, rowsDb, spent>>

Row(i, x) == [id |-> i, name |-> x]
FirstName == CHOOSE x \in RowNames : TRUE
Kept(rows, i) == {r \in rows : r.id # i}
Writes == {"create", "update", "delete"}

\* Two requests whose answers depend on their order.
Clash(r, q) ==
    \/ {r.kind, q.kind} \subseteq Writes \cup {"list"} /\ "list" \in {r.kind, q.kind}
       /\ r.kind # q.kind
    \/ {r.kind, q.kind} \subseteq Writes /\ "create" \in {r.kind, q.kind}
    \/ r.kind = "update" /\ q.kind = "update" /\ r.id = q.id

\* A new request; the ghost clean says that none it clashes with overlaps it.
Put(a, kind, id, name) ==
    LET q == [n |-> a.n, kind |-> kind, id |-> id, name |-> name, state |-> "sent", got |-> {},
              before |-> IF kind = "create" /\ a.page = "devices" THEN a.rows ELSE {},
              mount |-> a.mount,
              clean |-> TRUE]
    IN  [a EXCEPT !.n = @ + 1, !.loading = (@ \/ kind # "mail"),
                  !.reqs = {[r EXCEPT !.clean = @ /\ ~Clash(r, q)] : r \in @} \cup
                           {[q EXCEPT !.clean = \A r \in a.reqs : ~Clash(r, q)]}]

\* The list is empty until its answer comes.
Reread(a) == Put([a EXCEPT !.rows = {}], "list", 0, FirstName)
getAllUsers(a) == Reread(a)
getAllDevices(a) == Reread(a)
getAllApiKeys(a) == Reread(a)

\* getUserByID of the profile: without a user the edit form is unmounted, and
\* the next one does not know of the requests of this one.
getProfile(a) == Reread([a EXCEPT !.busy = FALSE, !.mount = @ + 1])

getAll(a) ==
    CASE a.page = "users"   -> getAllUsers(a)
      [] a.page = "devices" -> getAllDevices(a)
      [] a.page = "keys"    -> getAllApiKeys(a)
      [] a.page = "profile" -> getProfile(a)

\* One-time secrets on the screen: the reveal of AddAccessKeyModal, and
\* TempPasswordModal.
Visible(a) == (IF a.add /\ a.reveal # 0 THEN {a.reveal} ELSE {})
              \cup (IF a.temp # 0 THEN {a.temp} ELSE {})

\* Every step of the page; seen is a ghost.
Screen(a) == adm' = [a EXCEPT !.seen = @ \cup Visible(a)]

\* No modal covers the page.  UserDetailModal waits for its user.
Uncovered ==
    ~adm.add /\ adm.temp = 0 /\ adm.edit = 0 /\ adm.del = 0
    /\ (adm.target = 0 \/ adm.user = 0)

---------------------------------------------------------------------------
(* The user                                                                *)

\* The filters and the order choose which rows are on the screen; whatever
\* they hide, clearing them brings back.
RowIds == {r.id : r \in adm.rows}

\* The refresh button of the filter bar, or of an error bar.
RefreshUsers == Uncovered /\ Screen(getAllUsers(adm))
RefreshDevices == Uncovered /\ Screen(getAllDevices(adm))
RefreshKeys == Uncovered /\ Screen(getAllApiKeys(adm))

OpenAdd == Uncovered /\ Screen([adm EXCEPT !.add = TRUE])

\* AddAccessKeyModal starts over: not busy, and without what it revealed.
OpenAddKey ==
    /\ Uncovered
    /\ Screen([adm EXCEPT !.add = TRUE, !.reveal = 0, !.busy = FALSE])

CloseAdd == adm.add /\ Screen([adm EXCEPT !.add = FALSE])

\* The cross, the backdrop and Escape close it while a key is being issued
\* too; only Cancel waits.  That key has no open form to come back to.
CloseAddKey ==
    /\ adm.add
    /\ Screen([adm EXCEPT !.add = FALSE,
                          !.excused = @ \cup {r.id : r \in {q \in adm.reqs : q.kind = "create"}}])

\* AddUserModal's button is busy while the page's createLoading is up.
SubmitUser ==
    /\ adm.add /\ ~adm.busy
    /\ Screen(Put([adm EXCEPT !.busy = TRUE], "create", 0, FirstName))

\* AddDeviceModal has no such prop and can be submitted again.
SubmitDevice == adm.add /\ Screen(Put(adm, "create", 0, FirstName))

\* Only devices without a row are offered.
SubmitKey(d) ==
    /\ adm.add /\ ~adm.busy /\ adm.reveal = 0 /\ d \notin RowIds
    /\ Screen(Put([adm EXCEPT !.busy = TRUE, !.brought = @ \ {d}, !.seen = @ \ {d},
                              !.excused = @ \ {d}],
                  "create", d, FirstName))

AskDelete(i) == Uncovered /\ i \in RowIds /\ Screen([adm EXCEPT !.del = i])
CloseDelete == adm.del # 0 /\ Screen([adm EXCEPT !.del = 0])

\* DeleteModal's button waits for the typed confirmation and for its loading
\* prop, which DeleteDeviceModal does not pass.
ConfirmDelete ==
    /\ adm.del # 0 /\ ~adm.delBusy
    /\ Screen(Put([adm EXCEPT !.delBusy = adm.page # "devices"], "delete", adm.del, FirstName))

AskEdit(i) == Uncovered /\ i \in RowIds /\ Screen([adm EXCEPT !.edit = i])
CloseEdit == adm.edit # 0 /\ Screen([adm EXCEPT !.edit = 0])

\* EditDeviceModal can be submitted again too.
SubmitEdit(x) == adm.edit # 0 /\ Screen(Put(adm, "update", adm.edit, x))

\* ProfilePage has no buttons while its user is loaded.
ReloadProfile == (adm.rows # {} \/ ~adm.loading) /\ Uncovered /\ Screen(getProfile(adm))

\* EditProfileModal does not close while it saves, but Enter submits it again.
CloseProfile == ~adm.busy /\ CloseEdit

SubmitProfile(x) ==
    adm.edit # 0 /\ Screen(Put([adm EXCEPT !.busy = TRUE], "update", adm.edit, x))

\* A click on a user; the effect on detailTarget asks for the details.
OpenDetail(i) ==
    /\ Uncovered /\ i \in RowIds /\ adm.target # i
    /\ Screen(Put([adm EXCEPT !.target = i, !.user = 0], "get", i, FirstName))

CloseDetail == adm.target # 0 /\ adm.user # 0 /\ Screen([adm EXCEPT !.target = 0])
CloseTemp == adm.temp # 0 /\ Screen([adm EXCEPT !.temp = 0])

\* The buttons of the three tables' rows.
UserRow(i) == OpenDetail(i) \/ AskDelete(i)
DeviceRow(i) == AskEdit(i) \/ AskDelete(i)
KeyRow(i) == AskDelete(i)

UsersPage ==
    /\ adm.page = "users"
    /\ \/ RefreshUsers \/ OpenAdd \/ CloseAdd \/ SubmitUser \/ CloseDelete \/ ConfirmDelete
       \/ CloseDetail \/ CloseTemp
       \/ \E i \in 1..MaxRows : UserRow(i)

DevicesPage ==
    /\ adm.page = "devices"
    /\ \/ RefreshDevices \/ OpenAdd \/ CloseAdd \/ SubmitDevice \/ CloseDelete \/ ConfirmDelete
       \/ CloseEdit \/ \E x \in RowNames : SubmitEdit(x)
       \/ \E i \in 1..MaxRows : DeviceRow(i)

AccessPage ==
    /\ adm.page = "keys"
    /\ \/ RefreshKeys \/ OpenAddKey \/ CloseAddKey \/ CloseDelete \/ ConfirmDelete
       \/ \E i \in 1..MaxRows : SubmitKey(i) \/ KeyRow(i)

ProfilePage ==
    /\ adm.page = "profile"
    /\ \/ ReloadProfile \/ CloseProfile \/ AskEdit(1)
       \/ \E x \in RowNames : SubmitProfile(x)

ListGesture ==
    /\ Click
    /\ UsersPage \/ DevicesPage \/ AccessPage \/ ProfilePage
    /\ UNCHANGED rowsDb

---------------------------------------------------------------------------
(* The backend (external)                                                  *)

Stored(i) == i \in {r.id : r \in rowsDb.rows}

\* A device has one key; what is gone cannot be changed.
Refuses(r) ==
    \/ r.kind = "create" /\ adm.page = "keys" /\ Stored(r.id)
    \/ r.kind \in {"update", "delete", "get"} /\ ~Stored(r.id)

Effects(r, i) ==
    CASE r.kind = "create" -> [rows |-> rowsDb.rows \cup {Row(i, r.name)},
                               last |-> IF adm.page = "keys" THEN rowsDb.last ELSE i]
      [] r.kind = "update" -> [rowsDb EXCEPT !.rows = Kept(@, r.id) \cup {Row(r.id, r.name)}]
      [] r.kind = "delete" -> [rowsDb EXCEPT !.rows = Kept(@, r.id)]
      [] OTHER             -> rowsDb

ServeList(r, o) ==
    LET i == IF r.kind = "create" /\ adm.page # "keys" THEN rowsDb.last + 1 ELSE r.id
    IN  /\ r.state = "sent"
        /\ r.kind = "create" => i <= MaxRows
        /\ IF Refuses(r) THEN o = "refused" /\ UNCHANGED <<rowsDb, spent>>
           ELSE EndsIn(o) /\ rowsDb' \in Written(o, rowsDb, Effects(r, i))
        /\ adm' = [adm EXCEPT !.reqs = (@ \ {r}) \cup
                     {[r EXCEPT !.state = o, !.id = i, !.got = rowsDb.rows]},
                     !.doubt = @ \/ ((r.kind \in Writes /\ o = "network")
                                     \/ (r.kind = "delete" /\ o = "refused" /\ ~Refuses(r)))]

---------------------------------------------------------------------------
(* The answers                                                             *)

RowsListed(a, r) ==
    IF Rejects(r.state) THEN [a EXCEPT !.doubt = TRUE]
    ELSE [a EXCEPT !.rows = r.got, !.doubt = ~r.clean]

createUser(a, r) == [a EXCEPT !.rows = @ \cup {Row(r.id, r.name)}, !.brought = @ \cup {r.id}]

\* createDevice puts the device before the list it was called with.
createDevice(a, r) == [a EXCEPT !.rows = r.before \cup {Row(r.id, r.name)},
                                !.doubt = @ \/ ~r.clean]

\* The page's list is left to the caller.
issueApiKey(a, r) == [a EXCEPT !.brought = @ \cup {r.id}]

\* handleSendEmail, which is not awaited, begins with the mail's request.
handleSendEmail(a, r) == Put(a, "mail", r.id, FirstName)

\* Mutant: the new user is handed on without being put in the list.
UserCreatedElsewhere(a, r) ==
    LET b == [a EXCEPT !.busy = FALSE]
    IN  IF Rejects(r.state) THEN b
        ELSE handleSendEmail([b EXCEPT !.add = FALSE, !.brought = @ \cup {r.id}], r)

\* handleCreate of UsersPage; a failure leaves its form open.
UserCreated(a, r) ==
    LET b == [a EXCEPT !.busy = FALSE]
    IN  IF Rejects(r.state) THEN b
        ELSE handleSendEmail([createUser(b, r) EXCEPT !.add = FALSE], r)

\* handleCreate of DevicesPage.
DeviceCreated(a, r) ==
    IF Rejects(r.state) THEN a ELSE [createDevice(a, r) EXCEPT !.add = FALSE]

\* issueApiKey throws on an empty answer, and neither handleIssue nor the
\* form's submit catches: it stays busy until it is opened again.  Otherwise
\* the page reads its rows again and the form, open or not, changes to its
\* reveal.
KeyIssued(a, r) ==
    IF Rejects(r.state) THEN a
    ELSE getAllApiKeys([issueApiKey(a, r) EXCEPT !.busy = FALSE, !.reveal = r.id])

RowCreated(a, r) ==
    CASE a.page = "users"   -> UserCreated(a, r)
      [] a.page = "devices" -> DeviceCreated(a, r)
      [] a.page = "keys"    -> KeyIssued(a, r)

\* Both put what the server answered in place of the row, if it is still there.
Replaced(a, r) == [a EXCEPT !.doubt = @ \/ ~r.clean,
                            !.rows = {IF x.id = r.id THEN Row(r.id, r.name) ELSE x : x \in @}]
updateDevice(a, r) == Replaced(a, r)
updateUser(a, r) == Replaced(a, r)

\* handleSave of DevicesPage, and saveProfile below, close the form.
DeviceSaved(a, r) ==
    IF Rejects(r.state) THEN a ELSE [updateDevice(a, r) EXCEPT !.edit = 0]

\* EditProfileModal's submit goes on after its await, if it is still mounted.
ProfileSaved(a, r) ==
    LET b == [a EXCEPT !.busy = @ /\ r.mount # a.mount]
    IN  IF Rejects(r.state) THEN b ELSE [updateUser(b, r) EXCEPT !.edit = 0]

\* deleteUser, deleteDevice and revokeApiKey take an HTTP error for success.
deleteUser(a, r) == [a EXCEPT !.rows = Kept(@, r.id)]
deleteDevice(a, r) == [a EXCEPT !.rows = Kept(@, r.id)]
revokeApiKey(a, r) == [a EXCEPT !.rows = Kept(@, r.id)]

\* The handlers then close the modal, whichever row it is open for by then; a
\* call that threw leaves it open.
UserRemoved(a, r) ==
    LET b == [a EXCEPT !.delBusy = FALSE]
    IN  IF Throws(r.state) THEN b ELSE [deleteUser(b, r) EXCEPT !.del = 0]

DeviceRemoved(a, r) ==
    IF Throws(r.state) THEN a ELSE [deleteDevice(a, r) EXCEPT !.del = 0]

KeyRevoked(a, r) ==
    LET b == [a EXCEPT !.delBusy = FALSE]
    IN  IF Throws(r.state) THEN b ELSE [revokeApiKey(b, r) EXCEPT !.del = 0]

RowUpdated(a, r) ==
    IF a.page = "profile" THEN ProfileSaved(a, r) ELSE DeviceSaved(a, r)

RowRemoved(a, r) ==
    CASE a.page = "users"   -> UserRemoved(a, r)
      [] a.page = "devices" -> DeviceRemoved(a, r)
      [] a.page = "keys"    -> KeyRevoked(a, r)

\* getUserByID: whoever is the target by then.
GotUser(a, r) == IF Rejects(r.state) THEN a ELSE [a EXCEPT !.user = r.id]

\* Mutant: only a mail that threw falls back to the modal.
MailedOrThrown(a, r) ==
    IF Throws(r.state) THEN [a EXCEPT !.temp = r.id] ELSE a

\* sendWelcomeEmail, and the rest of handleSendEmail: the password is mailed or
\* shown; a call that throws takes it along.
Mailed(a, r) ==
    CASE r.state = "ok"      -> [a EXCEPT !.seen = @ \cup {r.id}]
      [] r.state = "refused" -> [a EXCEPT !.temp = r.id]
      [] r.state = "network" -> [a EXCEPT !.excused = @ \cup {r.id}]

ListAnswer(r) ==
    /\ r.state # "sent"
    /\ LET a == [adm EXCEPT !.reqs = @ \ {r}, !.loading = (@ /\ r.kind = "mail")]
           b == CASE r.kind = "list"   -> RowsListed(a, r)
                  [] r.kind = "create" -> RowCreated(a, r)
                  [] r.kind = "update" -> RowUpdated(a, r)
                  [] r.kind = "delete" -> RowRemoved(a, r)
                  [] r.kind = "get"    -> GotUser(a, r)
                  [] r.kind = "mail"   -> Mailed(a, r)
       IN  Screen(b)
    /\ UNCHANGED <<rowsDb, spent>>

---------------------------------------------------------------------------

\* The page's first effect reads the list.
ListsInit ==
    /\ rowsDb = [rows |-> {Row(1, FirstName)}, last |-> 1]
    /\ \E p \in {"users", "devices", "keys", "profile"} :
          adm = getAll([page |-> p, rows |-> {}, loading |-> FALSE, n |-> 0, reqs |-> {},
                        add |-> FALSE, busy |-> FALSE, reveal |-> 0, del |-> 0, delBusy |-> FALSE,
                        edit |-> 0, target |-> 0, user |-> 0, temp |-> 0, doubt |-> TRUE, mount |-> 0,
                        brought |-> {}, seen |-> {}, excused |-> {}])

ListsNext ==
    \/ ListGesture
    \/ \E r \in adm.reqs, o \in Outcomes : ServeList(r, o)
    \/ \E r \in adm.reqs : ListAnswer(r)

---------------------------------------------------------------------------
(* Properties                                                              *)

Out(kinds) == {r \in adm.reqs : r.kind \in kinds}

\* Once no list and no write is out, the page shows the backend's rows.  What
\* may spoil it until the next refresh that no write overlaps: a refresh that
\* failed or overlapped a write, a write whose answer was lost, a removal that
\* was refused, a device's creation that overlaps another write, and two edits
\* of one row that overlap.  Users may be created and removed at
\* the same time, and refreshes may overlap.
ListsFollowServer ==
    (Out(Writes \cup {"list"}) = {} /\ ~adm.doubt) => adm.rows = rowsDb.rows

\* A temporary password and an access key reach the browser once.  Each one
\* that did is mailed or comes to the screen, whatever else the user opens,
\* closes or submits meanwhile, except a key whose form was closed while it
\* was issued and a password whose mail request got no answer.
SecretsAreSeen ==
    adm.brought \subseteq adm.seen \cup adm.excused \cup {r.id : r \in Out({"mail"})}

=============================================================================
