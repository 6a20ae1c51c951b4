# open-gps: TLA+ specifications

A verification project for open-gps: a LilyGO T-SIM7080G GPS tracker (C++
firmware under `iot/`), a Go backend with PostgreSQL (`backend/`), and an Astro and
React dashboard (`frontend/`). The modules model the parts whose correctness depends
on the order of events: the tracker's flash queue and its delivery to the backend, the
cellular recovery, the charge-only mode, the adaptive sampling, the password recovery,
the live stream from the ingest to the map, and the dashboard's session, pages and
stores. TLC checks each on a small instance; TLAPS proves thirty-eight theorems about
all of them for every instance: every safety property the runs check, and the two
refinements.

## 1. The system

```
 GNSS -> SamplingPolicy -> PersistentFixStore -> transportPostBatch -> IngestBatch -> locations
              ^                (flash ring)          (HTTP, cellular)    (Go, Postgres)     |
              |                                            ^                                v
       ChargeModePolicy                     ConnectivityPolicy / CellularManager     hub -> SSE -> map
                                                                                            |
                     session, guards, forms --- device page, lists, reports, settings (dashboard)
```

| component | state | operations | hard behaviour |
|---|---|---|---|
| fix queue (`persistent_fix_store.cpp`, `fix_queue.cpp`) | two meta files, a data file, the meta in RAM | begin, push, peek, ackFront, commitMeta, reset | power cuts between and inside writes, failed writes and hand-written rollbacks, a full ring |
| drain and transport (`main.cpp`, `transport.cpp`) | offset and retry of a batch | sub-batches, one retry, ack on 201 | lost, late and duplicated requests, a cut between the 201 and the ack |
| batch ingest (`locations/adapter.go`) | `locations`, `location_ingest_keys` | one transaction per batch | concurrent retries of one batch, rollback, lost commit answer |
| cellular recovery (`connectivity_policy.cpp`, `cellular_manager.cpp`) | state, failures, deadline | events, tick | wrap of `millis()`, one counter for two kinds of failures, GNSS and radio exclude each other |
| charge-only mode (`charge_mode_policy.cpp`) | debounced VBUS | update at boot, in the charge loop, in `loop()` | restart loops, noise, transient readings |
| sampling and radio gate (`sampling_policy.cpp`) | motion state, cadence, last sent point | onFix, onUploadResult, notifyGpsReenabled, radioDue | wrap, invalid speeds, frozen receivers, uploads that change the clocks |
| password recovery (`passwordreset/service.go`) | token table, password, flag | Request, Consume | separate statements that concurrent handlers interleave, failures in between |
| live stream and hub (`infra/live/hub.go`, `handlers/locations.go`, `handlers/guest_share.go`) | subscribers, bounded channels, guest slots | publish, subscribe, the SSE writers | slow clients, lost events, streams that end in many ways |
| live maps (`useDeviceLocationStream.ts`, `GuestDevicePage.tsx`) | EventSource, retry and polling timers, marker, route | connect, refresh, events, errors | reordered snapshots, timers against events |
| session (`stores/auth.ts`, `authService.ts`, the guards, gates and forms) | the auth store, one flag per operation, redirects | sign-in, sign-up, sign-out, recovery, forced change | late answers, guards with different information, redirect loops |
| device page and history (`DeviceDetailPage`, `DeviceHistoryView`, `GuestShareModal`) | device, views, modals, two request channels, links | load, rename, delete, grant, revoke, history, route | answers that overlap, one flag for five operations |
| list pages (`UsersPage`, `DevicesPage`, `AccessPage`, `ProfilePage`) | rows, modals, secrets shown once | refresh, create, edit, remove, mail | stale closures, HTTP errors taken for success |
| reports page (`ReportsPage`) | filter, one slot per section | load, retry, filter changes | late answers of an older filter |
| settings (`lib/settings.ts`, `stores/settings.ts`, theme) | an object per tab, localStorage | choose, resize, reset, theme | tabs that overwrite each other, refused writes, garbage |
| device API keys, access, users (Go services) | rows | create, revoke, provision, delete | races over unique indexes, last-admin rule, two stores without a common transaction |
| reports aggregation, e-mail, router, drivers, payload encoding, LED, presentation | - | - | none that a model checker reaches |

The tracker is one thread: `loop()` calls the components in turn, so interleaving
on the device means power cuts, watchdog resets and the outside world. The backend
runs handlers concurrently and its transactions interleave. The dashboard runs one
callback at a time, and what interleaves is the user's gestures, the answers of
requests and the timers. Tracker and backend meet in the batch endpoint, whose
contract is: one sequence id names one fix, 201 means stored. Backend and dashboard
meet in REST calls that may fail or arrive out of order, and in an event stream that
may lose events and must be repaired by reading the state again.

## 2. Modules

| module | models | extends / composes |
|---|---|---|
| `DurableFifo` | abstract: what the store promises, a FIFO of records that a cut changes by at most one operation | |
| `FixStore` | `PersistentFixStore` and its use by `loop()`, one step per file write | refines `DurableFifo` (`ImplementsFifo`) |
| `AtomicIngest` | abstract: a batch is applied in one step | |
| `Ingest` | the handler, service and transaction of `IngestBatch`, one step per statement | refines `AtomicIngest` (`BatchesAreAtomic`) |
| `Delivery` | the drain: `FixStore` on one side, `AtomicIngest` on the other, an unreliable network in between | extends `FixStore`, instantiates `AtomicIngest` |
| `Connectivity` | `ConnectivityPolicy`, `CellularManager` and the passes of `loop()` around them | |
| `ChargeMode` | `ChargeModePolicy` and its three callers | |
| `Sampling` | `SamplingPolicy`, `radioDue` and their callers in `loop()` | |
| `PasswordReset` | `Service.Request` and `Service.Consume`, one step per statement | |
| `LiveStream` | ingest, hub, stream handlers and writers, EventSource, and the owner's or the guest's page | |
| `ApiClient` | what a call of the dashboard's HTTP client can come back with | |
| `Session` | the auth store, its service, the guards, gates and auth forms of one tab | extends `ApiClient` |
| `PageRequests` | what the page modules share: gestures, requests that are out, writes without an answer | extends `ApiClient` |
| `DeviceHistory` | the history panel and its two request channels | extends `PageRequests` |
| `DeviceDetail` | the device page, its modals, guest links and the panel in it | extends `DeviceHistory` |
| `AdminLists` | the users, devices, access keys and profile pages | extends `PageRequests` |
| `Reports` | the reports page | extends `PageRequests` |
| `Preferences` | settings and theme in several tabs | extends `PageRequests` |
| `FixStoreProofs`, `IngestProofs`, `ConnectivityProofs`, `ChargeModeProofs`, `SamplingProofs`, `LiveStreamProofs` | theorems and their proofs; `FixStoreProofs` also covers `Delivery` | extend their component |
| `AccountProofs` | theorems about the session and the password recovery | extends `Session`, `PasswordReset` |
| `PagesProofs` | theorems about the pages, each page on its own | extends `DeviceDetail`, `Reports`, `Preferences`, `AdminLists` |
| `MC*` | constants, bodies, symmetry for TLC; `MCPages` puts the four page modules behind one screen | extend their component |

Names follow the source (`ackFront`, `fixQueueMetaPick`, `InvalidateOutstanding`,
`runLocationRequest`); `PROJECT.json` maps every definition to its lines.

### How the models read the code

* **FixStore.** `flashMeta` and `data` survive `PowerCut`, everything else does
  not. A push is three steps: `Push` (the call), `PushWritesData`, `CommitMeta`;
  a cut may fall between any two and inside the last two. A CRC is the difference
  between a record and `Torn`; a record is its sequence id and its fix, which
  stands for `recorded_at` and all measurements. What LittleFS may do is the
  constant `Faults`: failing and torn writes, flushes that fail silently, a mount
  that formats, an `open("r+")` that fails on a file that is there. `Capacities`
  holds the capacity of each firmware build; a build with another one resets the
  queue.
* **Ingest.** Each `INSERT ... ON CONFLICT DO NOTHING` is a step; a transaction that
  meets a key another one holds waits (Postgres, external). `Rollback` stands for a
  failing statement, a cancelled context and a commit whose answer is lost.
* **Delivery.** A POST ends in 201, in a transport error after which the backend has
  applied the batch, never will, or will later (`delayed`), or in an HTTP error.
  `ackFront` follows only when every sub-batch was answered 201.
* **Connectivity, ChargeMode, Sampling.** Time is the value of `millis()` modulo
  `TimeMod`, which stands for 2^32; comparisons are the code's own modular ones. The
  ghosts (`since`, `steady`, `quiet`, `unpolled`, `tsAge`) measure real time and never
  guard a step of the firmware. A VBUS reading is one of three levels, a speed is an
  integer (or negative, or NaN), positions are near or at least the target spacing
  apart, and whether quality gates or the jump guard refuse a fix is nondeterministic.
* **PasswordReset.** Every SQL statement, the mail and the password store are single
  steps and may fail without effect or after taking effect.
* **ApiClient.** Both clients of `lib/api/client.ts` are created without better-fetch's
  `throw` option: an HTTP error is a resolved promise without data, and only a transport
  failure rejects. Each service is modelled by what it does with that.
* **Session.** One document is one page. `location.replace` only asks for a navigation
  (`leaving`); the document keeps running until it is unloaded, so answers still arrive
  and a later redirect replaces the earlier one. Accounts, sessions and links are the
  external server. `ghost.hops` counts documents opened since the last gesture, failure
  or expiry, and stops at `HopCap`.
* **LiveStream.** One device, one page: the owner's (`useDeviceLocationStream`) or the
  guest's (`GuestDevicePage`), which have different handlers on both sides. A snapshot is
  the `recorded_at` of its location. `GET .../live` calls, events on the wire and
  publishes of concurrent ingests overtake one another. Each request for the stream
  (`handler`) goes its own way through the stages of the handler: the guest's slot, the
  cookie, the second look at the link and the subscription, the snapshot, the writer.
  It may be refused or fail at each of them, and what it holds there is given back by
  the handler's defers or, once the writer runs, by `cleanup`. `served` is the request
  that answers the page's EventSource; a browser that lets go of it leaves it running,
  with its slot and its subscription, until a check, a write or its channel ends it. What
  such a request would still send reaches nobody and is not kept. The presence badge,
  which takes whatever arrives last, is left out.
* **Pages.** A request is out until its answer is delivered, in any order. Reads that
  can meet a change of the backend are served and delivered in two steps. A write
  without an answer may or may not have been done (`Written`). Everything the rendered
  page offers at a moment is a gesture; what the page has unmounted offers nothing, but
  its requests stay out and still reach the backend (`Orphaned`). The
  backend behind a page is external. Ghosts (`drift`, `lost`, `doubt`, `excused`,
  `late`, `behind`, `unsaved`, `spoiled`) mark the deviations that section 3 lists;
  none guards a step. An access key is named by its device, which has one at a time:
  key ids would only differ after two revocations of one key and a reissue, which takes
  seven gestures.

## 3. Runs

Pass:

| run | checks | shows | bounds |
|---|---|---|---|
| `FixStore_faults` | `RamMatchesFlash` `FlashIsRecoverable` `ImplementsFifo` | RAM equals what a boot would read, the last readable meta file is never overwritten, live records keep their order, and the store implements the durable FIFO, with failing and torn writes and two cuts. | capacity 2, 4 fixes: the ring wraps, fills and overflows twice |
| `FixStore_hostile` | `RingsAreSound` | Under every fault at once and two firmware capacities every readable meta describes a ring. | capacities 1 and 2, 3 fixes, 2 cuts |
| `Ingest_concurrent` | `AnsweredIsStored` `EveryRequestAnswered` `BatchesAreAtomic` | 201 means stored, every request is answered, every change of the tables is one atomic batch. | 3 requests over 6 bodies: overlapping, repeated, unnumbered, refused |
| `Delivery` | `AckedIsStored` `IdsAreFresh` `QueueDrains` | What the tracker deletes is stored as long as an id names one fix; ids are reused only after a reset or on a full ring; the backlog drains. | capacity 2, 4 fixes, sub-batches of 1, one cut, one late request, no item out of the DTO's ranges |
| `Connectivity` | `RecoveryOnSchedule` `AttemptsCounted` `ServesAndSamples` | Recoveries are neither early nor late across the wrap, attempts are counted exactly, and unless the policy gave up the queue is served and GNSS comes back. | 3 attempts, delays 1 and 2, clock modulo 9, one reset, one failing enableGPS |
| `ChargeMode` | `OneRestartPerChange` `LeavesDebounced` `ModeFollowsVbus` | Debounced exits, at most one restart per change plus one per transient zero, the mode follows the cable. | 2 changes, one fault, one transient, clock modulo 9 |
| `Sampling` | `SampledOnTime` `SwitchesConfirmed` `EnqueuesFresh` | GNSS is polled on time, the heartbeat is kept, motion needs its confirmations, no stale fix is queued. | 4 speeds with -1 and NaN, 2 places, clock modulo 9, queue of 2, 3 repeats of a frozen fix |
| `PasswordReset_race` | `SingleUse` `OnlyWinnersRotate` `OkMeansUsable` `RateLimited` `FreshestOnly` | Single use, only winners rotate, 200 means usable, the rate limit and the freshest link hold unless requests overlap. | 3 requests, 2 consumes, one account and an unknown address, TTL 2, window 1 |
| `Session` | `FlagsAreOwned` `RedirectsEnd` `GatesFollowServer` `NothingAfterSignOut` `Settles` | A flag is up exactly while its request is out, guards never bounce the browser for ever, gates agree with the server, no late answer signs the old user back in or shows a protected page after the sign-out, and the tab comes to rest on a page that shows its content. | every page and every state of the server to start from, 2 gestures, 1 failure, 1 expiry, cool-down of 2 |
| `Live` | `OneStream` `SlotsAreOwned` `MarkerNeverGoesBack` `PageCatchesUp` | One source of retries, every guest request that runs holds one slot and gives it back whichever way it ends, the owner's marker never moves back, the page ends with the newest fix. | 2 fixes, 2 faults, channel of 1, 2 slots, 2 requests at a time, a route of 1, 1 event on the wire |
| `Pages` | `HistoryIsLatest` `DetailFollowsServer` `LinksAreListed` `ListsFollowServer` `SecretsAreSeen` `ReportsMatchFilter` `SettingsSurvive` | What each page shows at rest is what its last request or the backend says, and secrets that are shown once are shown, within the deviations below. | 5 gestures, 2 failures, 2 windows, 2 history pages, 3 links, 3 rows, 3 report rounds, 2 tabs |

Violation, a disagreement between the code and what the repository says of it:

| run | what happens |
|---|---|
| `Delivery_full_ring` | On a full ring `push()` writes over the oldest live slot before the meta is committed. A cut in between leaves that slot with the id the next push hands out again; the backend takes the second fix for a duplicate, answers 201 and never stores it. |

### Deviations

Met while modelling. The models contain them; properties that would be false because of
one name it as a proviso.

Tracker and backend:

* `reset()` starts the generation at 0 again while the other meta file may keep a
  higher one, which then wins the next boot, and it restarts sequence ids at 1 while
  the backend keeps the keys of the device (`~wasReset`).
* The fallback `open("w")` of `push()` truncates the data file (`truncate` in
  `FixStore_hostile`).
* The DTO validates all items (`dive`, `dto/location.go:35`): one out-of-range item makes
  every batch that contains it a 400 and the tracker sends it for ever, while
  `docs/api/Locations.md:324` describes a rejection per item. `Delivery` runs with
  `BadFixes` empty.
* After the last attempt `ConnectivityPolicy` stays `FAILED`
  (`connectivity_policy.cpp:8`), and coverage that returns later is never used;
  `iot/README.md:209` promises that fixes "flush when connectivity returns".
* `enableGps()` after an upload is tried once; when it fails on an empty queue nothing
  tries again (`gnssFaults` in `ServesAndSamples`).
* `setup()` debounces one sample against itself, so a transient zero of the PMU costs
  an extra restart (`transients` in `OneRestartPerChange`).
* Every acknowledged batch restarts the stationary heartbeat through
  `onUploadResult()`, so draining a backlog postpones it (`quiet` in `SampledOnTime`).
* Two overlapping reset requests both invalidate before either inserts and leave two
  live links (`passwordreset/service.go:160`); the comment at
  `password_reset_tokens.sql:54` promises at most one. They also both count before
  either inserts (`service.go:147`), so that together they exceed `MaxPerEmail`
  (`overlapped` in `FreshestOnly` and `RateLimited`).
* The owner's stream handler defers `unsubscribe()` (`handlers/locations.go:204`) and
  returns before the body writer it installed runs, so the channel is closed, the stream
  ends after its snapshot and the page lives on reconnects and polls;
  `docs/api/Locations.md:412` describes a stream that stays open. `PageCatchesUp` holds
  through the reconnects.

Dashboard:

* `consumePasswordRecovery` resolves for HTTP errors (`authService.ts:361`), while its
  comment at line 352 says it throws on the 400: `ResetPasswordForm.tsx:99` shows success
  for a link that was refused.
* `OnlyAdminRoute.tsx:50` passes a path that already has its locale to `redirectTo`,
  which adds it again; the browser opens `/en/en/no-access`, which no page answers, and
  ends at the entry page instead of `NoAccessNotice`.
* A profile that was asked for before the sign-out and answers after it fills `$profile`
  and raises `$isRoleLoaded` again, until the document is left; `stores/auth.ts:50-51`
  says of it "Never `true` while the user is signed out". `NothingAfterSignOut` states what
  remains true: the user does not come back, and no protected page is shown.
* A guest whose stream was refused (`es = "closed"`) or garbled is not reconnected.
* A refused removal, revocation of a key or of a link takes the row off the page
  (`doubt`); a device's creation puts its row in front of the rows from before the call;
  a write whose answer is lost leaves the page behind the backend until the next read
  (`lost`, `doubt`). Overlapping lists of guest links, or a list and a revocation, leave
  the older answer on the screen (`doubt`).
* A removal that is done closes the confirmation that is open then, which may be
  another row's (`UsersPage.tsx:211`). No property speaks of it.
* An access key whose form is closed while it is issued, and a temporary password whose
  mail request got no answer, are never shown (`excused`).
* `getUserByID` takes whichever answer comes last, so the details may be those of a
  user clicked earlier. No property speaks of it.
* A page of the table, the detective switch or a retry uses a typed range that was not
  applied (`drift`).
* An answer of an older filter overwrites a section of the current one (`late`).
* A tab writes its whole settings object over what another tab saved (`behind`,
  `spoiled`).

### Why the bounds are enough

A ring of two slots has all the cases of a ring: empty, partly filled, full, wrapped.
Four fixes overflow it twice. Two cuts are needed to interrupt a recovery. Clocks are
a little longer than the longest interval the code measures plus the longest pass, so
every deadline is computed on one side of the wrap and compared on the other. Two
consumes race for one link while a third request supersedes it. A channel of one event
overflows with the second fix. The owner's hook falls back to polling at the third
failure in a row: the end of a stream that was open is one, and two faults on the way to
the next one are the others. Two connections that a guest loses leave two requests that hold both slots,
so that the third one meets the 429. Two gestures of `Session` are a sign-in and
a sign-out in one document or two submits of a form, from every page and server state.
Five gestures on a page let two operations overlap with a refresh after opening and
confirming the dialogs they need. Every disjunct of every next-state relation is taken
in a passing run, and every property has a mutant of the code (listed in
`PROJECT.json`) that violates it under the same bounds.

Deadlock is checked in the models of the firmware, the ingest and the delivery. In
`PasswordReset`, `Session`, `Live` and `Pages` a finite number of requests, gestures
and fixes may all be over, and the system may stop.

### Fairness

* `Delivery`: the loop keeps running (the watchdog restarts it otherwise), a drain is
  due again and again, a commit that is retried for ever succeeds now and then, and so
  does the POST of each sub-batch. Without the last one no protocol delivers anything.
* `Ingest`: an open transaction goes on unless it has to wait; no fairness for rollback.
* `Connectivity`: weak fairness of the loop, of its blocking calls (all have timeouts)
  and of time; strong fairness of sampling a new fix, of the drain (`radioDue` is true
  again after each flush interval), and of an upload or a recovery with coverage.
* `ChargeMode`: weak fairness of time and of the firmware.
* `Session`: islands hydrate, timers fire, navigations that were asked for happen, and
  the browser ends every request with an answer or an error. Nothing of the user.
* `Live`: the backend's goroutines and tickers run, the browser handles what has arrived
  and runs the retry timer. Nothing of the tracker, the users or the network.

The runs of the other modules use no fairness.

## 4. Proofs

All theorems hold for every value of the constants the `ASSUME`s of the component
modules admit:

* positive capacities, limits and intervals, sentinels that are not records, non-empty
  bodies, a first period among the periods, a first window among the windows;
* finitely many reset requests (`RequestsAssumption`), so that the tokens of a window can
  be counted, and a natural bound on rows (`ListsAssumption`);
* clocks wider than what they measure: half a turn of `millis()` exceeds the longest
  backoff and the passes around it (`ClockAssumption` of `Connectivity`, whose `due()`
  compares with a signed difference), a turn exceeds the debounce time (`ChargeMode`),
  and a turn exceeds the longest silence and, with one poll interval, `MaxStuck`, the
  longest time a receiver repeats one timestamp (`SamplingClock`). With 2^32 ms, the
  firmware's constants and its watchdog all of these hold by days.

`FlashStaysRecoverable`, `StoreIsFifo`, `SequenceIdsAreFresh` and
`EveryAcknowledgedPointIsStored` also exclude the faults that destroy data unnoticed (see
FixStore below); the other theorems about the store and the delivery exclude nothing.

| module | theorem | property | inductive invariant |
|---|---|---|---|
| `FixStoreProofs` | `TypeCorrect`, `RingsStaySound` | `TypeOK`, `RingsAreSound` | `IndInv`: `TypeOK /\ RingsAreSound /\ PendingOp` |
| | `RamStaysInFlash`, `LastCopySurvives` | `RamMatchesFlash`, `NeverLastCopy` | `IndInv` and `Synced` |
| | `FlashStaysRecoverable` | `FlashIsRecoverable` | `IndInv`, `Synced` and `OrderInv` |
| | `StoreIsFifo` | `ImplementsFifo` | the same: every step of the store is a step of `DurableFifo` or stutters |
| | `AcknowledgedPointsAreStored` | `AckedIsStored` | `IndInv` and `DeliveryInv` |
| | `SequenceIdsAreFresh` | `IdsAreFresh` | the store's three, `DeliveryInv` and `FreshInv` |
| | `EveryAcknowledgedPointIsStored` | | from the two before it |
| `IngestProofs` | `AnswersAreDurable` | `AnsweredIsStored` | `IngestInv` |
| | `TransactionsAreAtomic` | `BatchesAreAtomic` | the same: every commit is a step of `AtomicIngest`, everything else stutters |
| `ConnectivityProofs` | `GivesUpAfterLimit`, `RecoveriesKeepSchedule` | `AttemptsCounted`, `RecoveryOnSchedule` | `ScheduleInv` |
| `ChargeModeProofs` | `RestartsArePaidFor`, `NoHastyRestart` | `OneRestartPerChange`, `LeavesDebounced` | `RestartInv` |
| `SamplingProofs` | `SamplesOnTime`, `FrozenFixesAreRefused` | `SampledOnTime`, `EnqueuesFresh` | `TimeInv` |
| | `SwitchesAreConfirmed` | `SwitchesConfirmed` | `RunsCover` |
| `LiveStreamProofs` | `StreamsAreSingle`, `SlotsComeBack` | `OneStream`, `SlotsAreOwned` | `LiveInv` |
| | `MarkerAdvances` | `MarkerNeverGoesBack` | step by step from `LiveInv` |
| `AccountProofs` | `FlagsStayOwned`, `SignOutIsFinal`, `GatesAgree` | `FlagsAreOwned`, `NothingAfterSignOut`, `GatesFollowServer` | `SessionInv` |
| | `RedirectsComeToAnEnd` | `RedirectsEnd` | `SessionInv` and `HopInv` |
| | `ResetTypeCorrect`, `LinksAreSingleUse`, `WinnersRotate` | `ResetTypeOK`, `SingleUse`, `OnlyWinnersRotate` | `ResetInv` |
| | `OkIsUsable` | `OkMeansUsable` | `ResetInv` and `Rotated` |
| | `FreshestLinksWork` | `FreshestOnly` | `FreshInv` |
| | `AccountsAreRateLimited` | `RateLimited` | `FreshInv` and `QuotaInv` |
| `PagesProofs` | `HistoryShowsLatest` | `HistoryIsLatest` | the panel's invariant, carried through every step of the page around it |
| | `DetailFollows` | `DetailFollowsServer` | `DetailInv` |
| | `LinksFollow` | `LinksAreListed` | `DetailInv` and `ShareLinksOK` |
| | `ReportsFollowFilter` | `ReportsMatchFilter` | `ReportInv` |
| | `SettingsAreKept` | `SettingsSurvive` | `PrefInv` |
| | `ListsFollow` | `ListsFollowServer` | `ListsOK` |
| | `SecretsReachTheUser` | `SecretsAreSeen` | `ListsOK` and `SecretsOK` |

Why strengthenings are needed:

* **FixStore.** A failed commit undoes `head`, `tail`, `count` and `lost_count` by hand,
  and whether that gives back a ring depends on what the pending operation did before.
  `PendingOp` says what an operation in progress remembers: a push that found the ring
  full left `count = capacity`, an acknowledgement can give its records back, a batch is
  not longer than the queue. Ring arithmetic modulo the capacity is reduced to
  comparisons in lemmas of its own (`ModSmall`, `ModOnce`, `AdvanceCases`, `RingCases`).
  `FixStore_hostile` checks the ring part with TLC.
  `Synced` says where the queue in RAM is in flash: between operations in the file that
  the next commit spares, and while a commit of `push` or `ackFront` is pending, it is
  the meta that its rollback would restore that is there; the proof shows that each
  rollback undoes its operation field by field (`PushUndone`, `AckUndone`) and that a
  commit wins the next pick (`CommitWins`). `OrderInv` adds the data file: the records of
  the recovered queue are in order but for the oldest of a full ring, the slot a push
  writes is none of theirs (`HeadIsFree`), and what a commit is about to publish is one
  push or one acknowledgement away from it. `FlashStaysRecoverable` and `StoreIsFifo` assume
  that a flush is not lost silently and that the `open("w")` fallback of `push` does not
  empty an existing data file: either destroys records that the store believes it has.
* **Delivery.** A sub-batch that is answered 201 has its keys in the backend
  (`SentHasKeys`), keys only ever name records that were sent, whose fixes are rows
  (`KeysNameRows`), also through requests that arrive late (`DelayedOffered`). That is
  enough for `AckedIsStored`, whose proviso is that an id names one fix. `FreshInv`
  discharges the proviso: the records that were sent and those a boot would still send
  have different ids below the `next_seq` in flash, which goes back at a cut and runs
  ahead after a failed commit, and a commit under way keeps it so. It rests on the order
  of the ring (`OrderInv`) and fails exactly where the run `Delivery_full_ring` shows it:
  a push into a full ring writes over a live record before its meta is committed.
* **Connectivity.** The failure counter is shared, so `Tally` says for each state how it
  and the recoveries begun go together. `ClockInStep` relates the wrapping clock and its
  deadline to the real time since the backoff began, up to one turn either way; the
  signed comparison of `due()` picks the right turn because the wait stays under half
  of one. `Lateness` bounds the wait by where in its pass the firmware is.
* **ChargeMode.** `TimerInStep` ties the policy's wrapping timer to real time, but only
  until the debounce time is reached: a level that stays undecided for a whole turn
  restarts the timer, and the property must hold all the same. `Budget` is the count
  with the debt in it: a level that the firmware will answer with one more restart
  (`OwesRestart`) has not been paid for yet.
* **Sampling.** `lastPoll` is set back by `notifyGpsReenabled()` and the heartbeat is
  restarted by uploads, so neither is the time that has passed. `PollAge` and `PollGap`
  bound the one by the other for every stage of a pass; `Silence` says that the quiet
  time of a tracker at rest is the poll gap, or what the policy itself counts plus one
  gap. The proof moved the bound `Late` of `HeartbeatOnTime`: a stationary tracker is
  silent for at most a heartbeat and two gaps (the one that ends before the clock starts
  and the one in which it expires), where a gap is a poll interval, a stalled pass and an
  upload. `RunsCover` says that the confirmations the hysteresis has counted are fixes
  that arrived in a row.
* **Ingest.** An answer speaks of the committed tables, a transaction in progress of what
  it holds. The parts say that a transaction holds exactly the keys of the items it has
  passed (`HeldArePassed`, `PassedAreHeld`), that no two hold the same key (`KeysApart`),
  where it starts (`StartsAtOne`), that a committed key has a row (`KeysHaveRows`), and
  that what was answered has its keys (`AnsweredHaveKeys`).
* **PasswordReset.** `ResetInv` adds that rows exist exactly from their insert on
  (`RowsAreIssued`), that a consume under way holds a mailed link and has won exactly if
  it is past `MarkUsed` (`LinksAreMailed`), and that a winner's link is used
  (`WinnersHoldUsed`): a used row never becomes unused, so a second consume finds no row
  to update. `FreshInv` orders the rows of requests that did not overlap: `CreatedInPast`,
  `OneBusy`, `InsertsAlone`. For the quota, a request that is past its count still has
  room for the row it is about to insert (`RoomToInsert`).
* **LiveStream.** The slots are the number of requests that run: the set is finite
  (`RunningIsFinite`), and a request that takes its slot, goes on or ends changes its
  cardinality by one or not at all (`OneMore`, `AsMany`, `OneLess`), whichever stage it
  ends from (`RequestEnds`). `OneStream` and `SlotsAreOwned` are inductive together with the types of
  the backend and of the page; the types include that the stored fixes have a newest one
  (`HasNewest`), without which what `GetLive` answers would not be known to be a time that
  the page can compare.
* **DeviceDetail.** `DetailInv` adds what the one operation that is out may hold and that
  the guest modal, whose requests change the same backend, leaves name and users alone. The
  proof of `HistoryIsLatest` has a lemma per gesture and answer of the panel; the page
  adds that it only ever mounts a fresh panel or drops it. `LinksOK` follows the one
  request of the guest modal that was sent alone and says what its answer will do to
  the rows; requests of a modal that was unmounted over them stay out (`Orphaned`) and
  change the backend behind the next one.
* **Reports.** A section speaks of its last answer, so the invariant says which requests
  of which round may still be out (`AskedInOrder`) and what a settled section holds
  (`Settled`).
* **AdminLists.** While answers are out the rows are not the backend's, so the invariant
  says by what they differ (`Tallies`): the creations, edits and removals that the backend
  has done and the page has not heard of. It holds as long as no such answer will raise
  the doubt or read the list again (`Calm`, `Doomed`), which needs that created rows are
  the target of nothing yet (`Apart`), that ids are new (`Bounded`) and that the ghost
  `clean` marks every overlap (`Cleans`). For the secrets, `Excuses` keeps the form of a
  key that is being issued open, or excuses the key.
* **Preferences.** `InStep` says which tabs have in memory what is stored; `ChoicesStored`
  adds that unless a save failed or overwrote another every choice is stored and needs
  no repair.
* **Session.** A flag is shared by several requests, so `Owners` ties every request to the
  page that sends it and to what that page shows, which keeps the requests of one flag
  apart (`Flags`). `GoneForGood` says that the document that signed out is being left and
  knows no user. `Roles` and `Gate` follow the profile from the server through the
  network into the store, which is what the gates read. `HopInv` gives every page a rank,
  the number of documents that can still follow it as the backend stands: between two
  disturbances only a document's own questions are out and are answered truthfully
  (`Honest`), the store agrees with the backend as soon as it is loaded (`Informed`), so
  a redirect always leads to a page of lower rank (`Descends`).

Only model-checked: the liveness properties `EveryRequestAnswered`, `QueueDrains`,
`ServesAndSamples`, `ModeFollowsVbus`, `Settles` and `PageCatchesUp`, because temporal
reasoning under fairness is beyond the prover. The two refinement theorems are about
safety; the abstract specifications state no fairness. The theorems about pages
speak of each page on its own; `MCPages` only puts them behind one screen.

## 5. Not modelled

* **Presentation**: texts, i18n, tables, maps, icons, formatting and types keep no state;
  toasts are only shown. The OAuth calls, `profileService` and `getApiKeys` are called by
  no component.
* **Backend services for API keys, access, users and devices**: they appear only as the
  external backend of the pages. The last-admin rule and the two-store provisioning with
  its compensation are the parts with hard behaviour and stay in the plan.
* **Reports aggregation** (floating-point tracks), **e-mail**, **router and middleware**
  (stateless), **sqlc code** (generated), **board drivers** (register and AT I/O),
  **power profile, battery policy and VBAT statistics** (only logged), **payload
  encoding**, **LED, secrets, migrations and deployment**.

## 6. Plan

1. `Access` and `ApiKeys`: create and revoke over partial unique indexes, the last admin
   of a device, guest links that expire.
2. `Users`: provisioning and deletion over Authula and `users` with compensation.
