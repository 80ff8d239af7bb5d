# Entryva in TLA+

Entryva lets the residents of a gated estate invite visitors and its security
officers check them at the gate. A NestJS server on PostgreSQL keeps the state;
a Next.js frontend runs on the phones of residents, visitors and officers and
goes on working at a gate that has lost its connection. This directory holds
models of the parts whose correctness depends on the order in which things
happen, the runs that check them with TLC and the proofs that TLAPS checks.

Paths below are relative to the repository; `modules/` stands for
`backend/src/modules/`.

## 1. The system

### How it runs

A request handler is an async function of one Node.js process. Every `await` of
a database statement lets other handlers run, and the database runs at READ
COMMITTED, so what a handler has read may have changed by the time it writes.
What protects the data is (a) conditional updates (`updateMany ... where status =
...` whose count is then tested), (b) row locks inside the few transactions,
(c) unique constraints. The hard questions of this code are where one of them is
missing.

### Components

| Component | State | Operations | What is hard | What makes it correct |
|---|---|---|---|---|
| **Visitor passes** (`modules/invitations`, `verification`, `entry-exit`, `invitation-extensions`, `invitation-expiry`) | `Invitation.status`, window, policy; `Visit` rows; the sweep's `running` flag | create, public lookup, scan, entry, exit, extend, revoke, the sweep every minute | check-then-write across awaits: lazy expiry by id, extension computed from an old read, two entries at once | one admission per activation, revocation is final, no extension beyond the total, one expiry notice of the sweep, expired passes get marked |
| **Extension rules** (`extension.rules.ts`) | none | `evaluateExtension` | order of checks, boundaries, quiet hours over midnight | the total is counted from the start of the pass |
| **Offline gate and sync** (`frontend/src/offline`, the gate page, `modules/offline-sync`) | manifest cache, queue, screen; `OfflineSyncEvent` rows | go offline or online, refresh, verify offline, decide, sync now; server: one event after the other | lost replies, retries, two requests with the same events, stop between two statements | nothing lost, no double admission, a retried event keeps its answer, queues drain |
| **Recurring passes** (`modules/recurring-passes`) | the pass, its exceptions, the linked phone, the scans | create, pause, resume, revoke, skip, extra day, renew, reset, page, scan | concurrent scans, a visit left open over midnight, two phones on one link | in/out alternate, a day begins with an arrival, one phone, revoked for good |
| **Sessions** (`modules/auth`, `frontend/src/lib/api-client.ts`) | `refreshTokenHash`, cookies, the refresh a tab shares | login, refresh, logout, retry after a 401, removal | rotation is a read and then a write; several tabs; a token is made of a second | nobody is logged out without cause, a removed account has no session, every call ends |
| **Resident invites** (`modules/resident-invites`, `components/admin/PendingInvitesPanel.tsx`) | `ResidentInvite.status`, token, expiry; the panel's list and links | create, resend, cancel, preview, complete | unconditional writes after reads; the password hash takes long; a resend kills the link that is shown | one account per invite, a second household only by a race, the link shown works |
| **Estate signup** (`modules/signup`) | `PendingSignup.status` | start, preview, complete | replacement is two statements; completion is a conditional claim | one estate per link, one live link per address |
| **Administration** (`modules/administration`) | buildings, apartments and their occupancy, residents, officers | create, update, remove, move, suspend | counts in transactions at READ COMMITTED, a delete that cascades | OCCUPIED exactly when a resident is left |
| **Emergency alerts** (`modules/alerts`, `components/alerts`) | `EmergencyAlert.status`, bell rows, the button | raise, acknowledge, resolve | duplicate check before create; a stop before the dispatch | staff alarmed once, first responder wins, the resident is told once |
| **Announcements, arrival alerts** (`modules/alerts`, `NoticesPanel.tsx`) | rows, the panel's copy of the list | create, list, delete, arrive | the notice is saved before the answer; a look for an earlier notice before the new one | posted once, the host told once in half an hour |
| **Notifications and push** (`modules/notifications`, `modules/push`, `frontend/src/lib/push.ts`, `frontend/public/sw.js`) | rows, subscriptions | dispatch, read, subscribe, trim, send | a quiet registration is lost, a subscription belongs to another user now, lists answered out of order | where a page says notifications are on they are the user's; a bell catches up |
| **Live location** (`modules/live-location`, `ShareLiveLocation.tsx`) | the latest position on the pass | save, stop, arrived, show | check of the pass before the write, requests out of order | no position kept once the sharing has ended |
| **Calls and presence** (`modules/realtime`, `frontend/src/lib/calls`) | presence map; phase, call id, peer connections, microphone of each client | connect, disconnect, invite, accept, decline, cancel, hang up, signal | messages of an earlier call, set-ups that outlive a call, sockets that die late | a present officer can be reached, the microphone is on in calls only, nobody talks to a dead line |
| **Messages** (`modules/messages`, `hooks/useMessaging.ts`) | rows, marks of what is read, drafts | send, thread, mark read | push and fetch overlap | nothing typed is lost, each page shows every message |
| **Visitor navigation** (`frontend/src/hooks/useVisitorNavigation.ts`, `lib/voice-guidance.ts`, `components/visitor`) | phase, route, step, spoken prompts, screen lock | position, reroute, speak, arrive | readings that jump, answers out of order | no arrival by one jump, no prompt vaguer than the last, the lock is released |
| **Estate location** (`modules/estate-location`, `LocationEditor.tsx`) | pin, gate; the editor's pins, its route | load, place, locate, preview, save | three answers awaited at once | the route shown leads to the gate shown |
| **Pages** (`frontend/src/app`) | lists and forms with the estate's rows | load, edit, create, remove, save | a list or an answer that is late; forms that send every field | own changes are shown, what was not touched is kept |
| Audit log, email, health, guards, cryptography | | | appends, I/O, stateless checks | not modelled, see section 8 |

They meet in few places. A scan, an entry, the offline batch and the live
location read and write the same `Invitation` row; the offline batch calls the
`recordEntry` of the gate; every operation tells people through notifications; an
administrator's change of a resident ends sessions and changes occupancy, on
which invites depend.

The full list of hazards, each at its line, is in `PROJECT.json`.

## 2. Plan

In the order of what the system is for: letting the right people in, then who
lives and works there, then what tells them of it.

1. *Done*: `ExtensionRules`, `Invitations` with `GatePass` as its abstract
   specification; `OfflineSync`; `RecurringRules`, `RecurringPasses`. Inductive
   invariants proved for each.
2. *Done*: `Sessions`, `Residency` (invites composed with the occupancy the
   administration keeps). Inductive invariants proved.
3. *Done*: `Signup`, `Directory`, `EmergencyAlerts`, `VisitorArrival`,
   `NoticeBoard`, `PushDevices`. Inductive invariants proved.
4. *Done*: `OfficerPresence`, `Calls` composed with it (proved), `PolledScreens`.
5. *Done*: the screens: `VoiceGuidance`, `EstateLocation`, `EstateForms`,
   `InvitePanel`, `Messages`, `AdminLists`. Inductive invariants proved.

What is left: the one-step entry of `OfflineSync` shown to be implemented by the
entry of `Invitations`; conversations longer than a page of history; the clicks
a service worker handles.

## 3. The modules

| Module | What it is |
|---|---|
| `ExtensionRules` | `evaluateExtension` as operators over abstract minutes |
| `Invitations`, `GatePass` | visitor passes, one action per statement of each handler; what a one-time pass promises, in four actions |
| `OfflineSync` | gate devices and the server's batch processing |
| `RecurringRules`, `RecurringPasses` | `recurring-pass.rules.ts` as operators; recurring passes, their page and the scans |
| `Sessions` | the refresh token of an account, the cookies, the tabs |
| `Residency` | who lives where, and the invites by which they come |
| `Signup` | an estate's pending signup and its link |
| `Directory` | the names of buildings, flats and officers |
| `EmergencyAlerts` | the emergency button and who answers it |
| `VisitorArrival` | the visitor's page, the position it reports, the notice to the host |
| `PushDevices` | subscriptions of browsers that people share |
| `NoticeBoard` | estate notices and the panel that lists them |
| `OfficerPresence`, `Calls` | the sockets of officers; their calls, over those sockets |
| `Messages` | one conversation between two officers |
| `PolledScreens` | the bell and the list of emergencies, which ask again |
| `VoiceGuidance` | spoken directions |
| `EstateLocation` | the estate's pin and gate, and their editor |
| `AdminLists`, `EstateForms`, `InvitePanel` | the administrator's pages |
| `*Proofs` | `InvitationsProofs`, `OfflineSyncProofs`, `RecurringPassesProofs`; `AccountsProofs` (Sessions, Residency), `ServicesProofs` (Signup, Directory, EmergencyAlerts), `NoticesProofs` (NoticeBoard, VisitorArrival, PushDevices), `CallsProofs` (OfficerPresence, Calls), `ScreensProofs` (EstateForms, InvitePanel, EstateLocation, VoiceGuidance, AdminLists, Messages) |
| `MC*` | instances for TLC |

In the modules, an operator after the comment `Mutant` is a plausible mistake in
the definition that follows it; no specification uses it. `PROJECT.json` says
which property each of them breaks, and for each definition which lines of the
source it models.

Two conventions hold throughout. An action ends where the code awaits: a handler
of three statements whose later ones depend on the earlier is three actions, and
a record (`request`, `admin`, `visitor`, `clerk`, `post` ...) holds what it will do
next with what it has read. And where a race in the code breaks a property, a
history variable says that this race took place (`overwritten`, `unseen`, `offBook`,
`lateWrite`, `overlap`, `overlooked`, `passedBy`, `rushed`, `leftBehind`, `crossed`,
`raced`, `undone`, `unsure`, `slipped`, `unshown`, `apart`, `remade`, `outdated`): the
property then says that nothing else breaks it.

### Invitations

`invitation`, `visit` are the committed rows. `lock` is the request whose open
transaction has updated a row: another update of that row waits, a read does
not. `request` holds what each request will do next with what it has read so
far, so an action ends exactly where the code awaits. `sweep` is the job of
`invitation-expiry.service.ts` with its own `now`, which it takes before the
first statement.

| Actions | Code |
|---|---|
| `CreateInvitation`, `Revoke` | `invitations.service.ts` `create`, `revoke` (the write is by id whatever was read) |
| `VerifyRead`, `PublicLookupRead`, then `LazyExpire` | `evaluateAndRecord`, `findPublicByToken`: the pass is read, and if it has run out EXPIRED is written by id |
| `ExtendRead`, `ExtendWrite` | `extend`: evaluation, then the conditional update, and ACTIVE if EXPIRED was read |
| `EntryRead`, `EntryUpdate`, `EntryCheck`, `EntryCommit` | `recordEntry`: the checks, the compare-and-swap of a one-time pass, the look for an open visit, the inserts and the commit |
| `ExitRead`, `ExitWrite` | `recordExit` |
| `SweepStart`, `SweepFind`, `SweepRow`, `SweepEnd`, `SweepFail` | `sweep`: the update of long-gone passes, the batch, each row with its notice, the `finally` |
| `RequestFail`, `Restart` | a failing statement or the end of the process; open transactions roll back |

`counts`, `revoked` and `overwritten` are history: how often a pass was entered,
activated, and its resident told; which passes were revoked; which lost a USED or
REVOKED to a late lazy expiry.

`GatePass` is the abstract specification: a pass has at most one admission to
give (`credit`), letting the visitor in uses it up. `Invitations` implements it
under the mapping in `Promise`: the passes with credit are the one-time passes
that are ACTIVE, the visitors inside are those with an open visit on such a pass.

### OfflineSync

Server: `pass`, `inside`, `syncRow` (the `OfflineSyncEvent` rows by
`clientEventId`), `batch` (the requests under way, each with the events it still
has to do, those it has done, and the device that waits for the answer, `Nobody`
once the connection is gone). Device: `online` is `navigator.onLine`, which may
say yes while requests fail; `manifest` is the cached copy, `queue` the decisions
in IndexedDB, `screen` the pass last verified. `over` holds for server and
devices alike: clocks are taken to agree.

`syncOne` is three statements long: look for the row (`NextEvent`), record the
entry (`Enter`), write the row (`WriteSynced`), with the `catch` that writes
FAILED (`WriteFailed`), whose own failure ends the batch. `Reply` is the answer
and the removal from the queue in `flushOfflineQueue`. `LoseConnection`, `Reload`
and `ServerRestart` can strike between any two of them.

### RecurringPasses

`pass`, `exceptions`, `phone` and `scans` are rows; only allowed scans are kept,
because only they are read. The resident's operations are one statement that
decides each (`setStatus`, `renew` and the phone link carry their condition in
the `where`), so they are one action each. The page is two or three statements:
`ViewRead`, `ViewLink`, `ViewFresh`. The scan reads the pass, its exceptions and
the time (`ScanRead`), then the last allowed scan (`ScanLast`, where a scan within
the duplicate window ends), and writes its own row (`ScanWrite`): a pass changed
or a scan written in between is not seen. Each scan in the model remembers how
many scans it had found (`saw`), which is how the properties tell a scan decided
from its predecessor from two scans handled at once.

EXPIRED is in the enum of the schema but no statement stores it, and nothing
writes `EstateBlockedPerson`, so the first is left out and the second is the
constant `Blocked`.

### Sessions

`account` is the user's row with `refreshTokenHash`; `jar` the cookies of each
browser; `page` and `inFlight` belong to a tab, `call` to a call of `apiFetch`, and
`exchange` is what the server does for that call. A token is the second it was
issued, because two tokens signed in one second have the same content.

| Actions | Code |
|---|---|
| `Send`, `Denied`, `Retry` | `apiFetch` and `refreshOnce`: a 401 joins or starts the tab's refresh, and is retried once |
| `LoginRead`, `RefreshRead`, `WriteTokens`, `Replayed` | `login`, `refresh`: the row is read, then its hash written; a hash that does not match clears it |
| `SignIn`, `SignOut`, `WriteLogout` | the login page and `logout` |
| `Granted`, `Refused`, `Unheard`, `Lose` | the reply, its cookies, or a connection that broke |
| `RemoveAccount`, `SetAccountStatus`, `ClockTick` | the administration, and tokens that run out |

### Residency

`apartment`, `person` (a user row and its resident profile), `invite` and `buildings`
are rows; a person is an e-mail address, which is unique. `unseen` collects, for a
request, the apartments whose residents have changed since it looked.

| Actions | Code |
|---|---|
| `CreateApartment`, `UpdateApartment`, `RemoveBuildingRead`, `RemoveBuilding` | `administration.service.ts`; the delete takes with it what came after the count |
| `CreateResident`, `UpdateResidentStatus`, `RenameResident` | a direct account, a status, a name |
| `RemoveResidentRead`, `UpdateResidentRead`, `...Count`, `CommitResident` | removal and move: the transaction counts who is left, then writes the statuses |
| `CreateInviteRead`, `CreateInviteSupersede`, `CreateInviteInsert` | `createInvite`: pending invites are revoked, then one is created |
| `ResendInvite`, `CancelInvite`, `CompleteInvite`, each with its `...Read` | `resident-invites.service.ts`; the completion hashes a password between |
| `InviteExpires`, `AdminFails` | time, a failed statement |

### Signup, Directory, EmergencyAlerts

`Signup`: `StartSignup` reads the accounts and deletes rows long expired,
`SupersedePending` supersedes the address's other links, `CreatePending` makes a new
one; `CompleteSignupRead` reads, and `CompleteSignup` is the transaction that claims
the row while it is PENDING, which locks it, and creates the estate. `ClaimRefused`
and `SignupFails` are its other ends.

`Directory`: `CheckName` is the read, in which names are compared without case, and
`WriteName` the write, in which the unique index compares the stored text. Names
of officers, buildings and flats differ in what is trimmed and compared.

`EmergencyAlerts`: `Raise`, `CreateAlert`, `TellStaff` are the statements of `raise`,
`RaiseFails` its failure between any two of them; `Acknowledge` and `Resolve` are the
conditional updates, `TellResident` the notice that follows; `button` is the
device's page with its own idea of the alert.

### VisitorArrival

The page (`phone`): `OpenNavigation`, `StartNavigation`, `HandleFix`, `HandleError`,
`ConfirmArrivedManually`, `LeavePage`, with the counters of `useVisitorNavigation.ts` for two
readings in a row. What it sends (`post`) goes through `FindByToken`, which reads the
pass, then `SaveLivePosition`, `StopLiveSharing` or `MarkLiveArrived`, and
`NotifyHostOfArrival`, `TellHost`; `LosePost` and `PositionRefused` are the other ends.
`HostLooks` is the read that clears the position of a pass that has ended.

### PushDevices and NoticeBoard

`PushDevices`: who is signed in on a browser (`user`), the browser's `subscription`,
and the row that says whose messages it gets (`owner`). `ReadPushState` and
`EnablePush` start a registration, whose statements are `Upsert`, `CountDevices`
and `TrimDevices`; `SendFindsGone` removes a row the push service calls dead.

`NoticeBoard`: `Submit`, `Send`, `Create`, `DispatchMany`, `Posted`/`NotPosted` follow one
post from the form to the bell rows and back; `RemoveNotice`, `Delete`, `Removed`
a removal; the panel loads its list once (`ListNotices`, `Load`) and edits its copy.

### OfficerPresence and Calls

`OfficerPresence` has, per officer, the state of each socket's handshake, the
`line` the page uses and the gateway's `presence` entry. `Join` and `Notice`
(`handleConnection`, `handleDisconnect`) write the entry whichever socket they are for.

`Calls` EXTENDS it: `page` holds the phase and the refs of `useCallManager`, `setUps`
the peer connections being made (`MakePc`, `SetUpEnds`, `SetUpFails`), `pcs` those
open, `inbox` what the gateway has emitted. `StartCall`, `AcceptCall`, `DeclineCall`,
`HangUp` are the officer's; `OnIncoming`, `OnRinging`, `OnSignal`, `OnEnd`, `OnGone` the
gateway's events; `Comes`, `Settles`, `Leaves`, `Drops` and `Reload` are the socket's, with what
the gateway tells the other officer.

### Messages and PolledScreens

`Messages`: `saved` are the rows in order; a page is on the list or in the
thread, and has the set of those it fetched (`PageRead`, `PageShows`) and of those
pushed to it (`HandleNew`). `HandleSend`, `SendMessage`, `SendSettles`, `SendFails`, `DraftBack` follow a
text from the box to the row, or back.

`PolledScreens`: a row has a `level` that only grows; the screen asks (`Poll`, and
again after each action), the server answers (`Answer`), and the list replaces
what is shown (`Refreshed`), in any order. `MarkRead` shows its effect before the
server has it.

### VoiceGuidance, EstateLocation

`VoiceGuidance`: a reading (`VoiceFix`) moves `step` forward and speaks the finest
instruction that is due, with the vaguer ones marked as spoken; after two readings off
the route it asks for another, with the pauses of the code (`SecondsPass`). `locks` follows the
wake lock through `LockAnswered`, `PageHidden` and `PageVisible`.

`EstateLocation`: the editor waits for its load (`Loaded`), for readings of a
position (`Hear`, `Fix`, `NoFix`: the best one heard, refused if it is too rough for
the pin) and for a route (`PreviewRoute`, `Routed`); `Place`, `SetPinHere` and `Save`
come in between.

### AdminLists, EstateForms, InvitePanel

`AdminLists` is what the three list pages have in common: `lists` are those asked
for, put on the screen in the order they come; `changes` the page's own requests
(`Apply`, then `Succeeded` or `Failed`). `Elsewhere` is another administrator.

`EstateForms`: the form of the rules is filled by `LoadShown`, that of the details by
`StartEditingSettings` from what was loaded; `SubmitForm` sends every field,
`UpdateSettings` writes them, `SaveAnswered` shows the answer.

`InvitePanel`: `Resend`, `ResendInvite`, `Resent` follow a resend, after which the
panel shows the link if the e-mail did not go out; `Refresh`, `ListInvites` and
`SetInvites` are the list, asked for again after each change.

## 4. The runs

| Run | Asks | Bounds, and why they are enough |
|---|---|---|
| `pass_safety` | every interleaving of the handlers, the sweep and one fault: one admission per activation, revocation final, and the refinement of `GatePass` | one pass (handlers touch one row each; the sweep's two-row behaviour is in `pass_sweep`), two requests (every race here is between two, the sweep is a third party), two visits, 4 ticks around a window that ends inside them, one fault |
| `pass_sweep` | `RunOutIsMarked`: every pass that runs out is marked EXPIRED, extended or otherwise settled | two passes with a batch of one, so that a backlog exists; one fault |
| `offline_safety` | nothing lost, answers final, one-time passes let in once, through retries and restarts | two events (a device that decides twice on one pass), two requests (a retry during the first), one fault. For several devices see the proof |
| `offline_drain` | `SmallQueueDrains` | a batch of two and two events; one fault at any point |
| `recurring_safety` | scans, phones, duplicates | one pass of a day renewed for the next, days of three ticks with a grace of one, two phones, two requests (two scans, two page loads or one of each), a reset, two allowed scans |
| `sessions` | logged out only for cause, removal ends the session, every call ends | one browser, two calls in one tab or in two (a third only repeats the second), an access cookie of one tick and a refresh cookie of two within a clock of two, so that either can run out; one mishap (a lost reply, a logout, a removal) |
| `residency` | occupancy, households, invites, profiles | two persons and two apartments (a move), one building, one invite (its resend, its cancellation and its completion race), two requests at once, one person made active again; persons, apartments and requests are symmetric |
| `calls` | presence, microphone, dead lines, polled lists, each part for itself | two officers of whom one moves between networks, two calls, one set-up in progress per page, two peer connections per page; inboxes of at most two. Histories after a set-up was overtaken (`raced`) are checked but not followed: the properties except them |
| `services` | the properties of `Signup`, `Directory`, `EmergencyAlerts` (one run with two devices, one with two officers), `VisitorArrival`, `PushDevices`, `NoticeBoard`, each part for itself | two of whatever each distinguishes: links, visitors, rows, clerks, alerts, devices, staff, requests, people, browsers, endpoints, authors. One device allowed per person where the server allows more, so that trimming happens |
| `screens` | the properties of `Messages`, `VoiceGuidance`, `EstateLocation`, `AdminLists`, `EstateForms`, `InvitePanel`, each part for itself | two writers, two messages; a route of two steps with five readings on it and off it; two points, three accuracies on either side of the limits; two rows, two names, two lists in flight; two fields, two values; two invites, three links each |

`MCCalls`, `MCServices` and `MCScreens` hold several modules that share no variable. A
variable `part`, chosen at the start, says which of them runs; the others stay in
their initial state. One run then checks what would be many small ones, and
nothing is interleaved that does not interact. Their `CONSTRAINT`s (`FewCalls`,
`FewAlerts`, `FewPosts`, `FewBrowsers`, `FewMessages`, `FewLists`, `FewResends`) keep the
instances small: each names symmetric choices that are made one way only
(the first alert before the second), or histories after an excepted race. A state
beyond a constraint is still checked, only not followed.
`CHECK_DEADLOCK FALSE` stands where a system may come to its end because nobody has
anything left to ask of it within the bounds; `sessions`, `pass_*` and
`recurring_safety` never do.

The properties that TLC finds violated state what a document or a comment of the
repository says and the code does not do:

| Run | What is said | What happens |
|---|---|---|
| `pass_once` | README: two racing requests cannot both succeed | a scan that read the pass before an entry committed writes EXPIRED over USED; the resident's extension makes the pass ACTIVE again, and it admits again |
| `offline_doubles` | a retried submission never double-records | a stop between the entry and its row: once the visitor has left, the retry records the entry again |

### Known divergences

Met while modelling. The models do what the code does; the properties of the
passing runs are stated so that each shows as their exact exception.

- **Late lazy expiry.** `verification.service.ts:113` and `invitations.service.ts:167`
  write EXPIRED by id, over a USED or REVOKED written since the read, and
  `extension.rules.ts:67` lets such a pass be extended. This is the only way to a second
  admission (`OneTimeUnlessOverwritten`) or out of REVOKED
  (`RevocationFinalUnlessOverwritten`).
- **Extension against the sweep.** If the sweep marks a pass between the read and
  the update of an extension (`invitation-extensions.service.ts:96-100`), the pass
  stays EXPIRED with a later expiry: the resident's list shows it as valid, the gate
  refuses it.
- **Two entries on a multi-entry pass** may both find nobody inside
  (`entry-exit.service.ts:69-73`).
- **The offline queue** is flushed when `navigator.onLine` changes
  (`(security)/gate/page.tsx:192`); decisions queued while it stayed true wait for the
  button, although the page says they sync by themselves (`:307`).
  `SmallQueueDrains` therefore assumes the officer who presses it.
- **The notice of a visitor still inside after hours** goes out with allowed scans
  only (`recurring-scan.service.ts:187`), and the scan of that visitor is denied
  (`recurring-pass.rules.ts:196-197`).
- **Emergencies.** If the server stops between the creation of an alert and the
  dispatch (`emergency.service.ts:93-141`), nobody is told, and a second press is
  answered with the alert that exists.
- **Sessions.** A refresh that read the row before an account was removed writes a
  hash after it; the removed account's status still refuses it (`lateWrite`). Two
  tabs that refresh at once may end the session as if a token had been stolen.
- **Residency.** A removed resident made active again does not make the apartment
  OCCUPIED; counts under READ COMMITTED miss each other (`offBook`). An invite may
  be completed into an apartment that filled up while the password was hashed.
- **Presence.** `handleDisconnect` removes the officer's entry although it is the
  next socket's, and a handshake that ends late writes a dead socket over a live one
  (`crossed`): the officer is connected and cannot be rung.
- **Calls.** A call that ends during a set-up leaves the set-up running, which may
  leave the microphone on with nothing on the screen (`raced`).

## 5. Fairness

- `Invitations!FairSpec`: weak fairness of the sweep's steps, because
  `setInterval` keeps starting it and its `finally` clears the flag, and of the
  statements of a request under way, because an awaited statement returns. No
  fairness of people, faults or the clock.
- `OfflineSync!AutoSpec`: weak fairness of the server's steps of a request and of
  `GoOnline`: a lost connection comes back. `FairSpec` adds the officer who
  presses `Sync now` while decisions wait, an assumption on a person (see Known
  divergences).
- `Sessions`: weak fairness of each call's next step (`Progress`): a request is answered
  or its connection breaks, and a promise that is settled runs its continuation. None
  of people, of the administration, or of the clock.
- `Calls`: weak fairness of `PcAlone` alone: a peer connection whose other end is gone
  is reported as failed by the browser.
- `PolledScreens`: weak fairness of `Poll` (the interval) and `Upserted` (a request
  under way ends); strong fairness of `Answer` and `Refreshed`, because single requests
  may fail again and again, but not for ever.

Everywhere else safety is the question, and steps may stop at any time.

## 6. What is proved

Every theorem holds for any number of passes, requests, devices, phones, events,
people, rows, and for all values of the bounds; the assumptions are the named `ASSUME`s of the
modules (ranges of the constants, and that the placeholders such as `NoRequest`
are not among the real values). TLC checks the properties first, under the same
names.

**Invitations** (`InvitationsProofs`). The properties are not inductive by
themselves. `IInv` adds: a row locked by a transaction is ACTIVE and the holder is
past its update (`LockedRowsActive`, `EntriesLocked`); a pending extension only
lengthens and stays in the estate's total (`ExtensionsFresh`); and an account of
each pass (`Accounts`): entries made, expiries the sweep has told of and the activation still
unused never exceed the activations there were, which is what remains true when
a lazy expiry overwrites USED. From it follow `AdmitsOnce`, `EntriesArePaidFor`,
`InsideOnce`, `RevocationLasts`, `TotalRespected`, `ToldBySweepOnce`, the action
properties `RevokedAdmitsNobody` and `OnlyLengthened`, and the refinement
`PromiseKept`: each step of a handler is a step of `GatePass` or leaves it alone.

**OfflineSync** (`OfflineSyncProofs`). `IInv` says that whatever is queued, in a
request or written down was decided (`Known`), that what a reply will report has
its row (`DoneIsWritten`), that a row about to say SYNCED has its entry
(`EnteredIsRecorded`), that the entry of a one-time pass has used it up
(`RecordedIsUsed`), and that a pass on a screen is not among the queued
admissions (`ScreenIsFresh`). From it `NothingIsLost`, `SyncedHasEntry`,
`OneDeviceWins`, `NoSecondAdmission` and `AnswersNeverChange`.

**RecurringPasses** (`RecurringPassesProofs`). `IInv` bounds a scan under way by
what it has read: it began before now, the scans it found are still there, and it
is apart from the last of them (`AskedBefore`, `PendingIsApart`); a page was shown
to the phone that is linked now, if it was shown since the last reset
(`ServedIsLinked`). From it `ScansAlternate`, `ScansApart`, `FirstScanArrives`, `OnePhone`,
`DatesBounded` and `RevocationIsFinal`.

**Sessions** (`AccountsProofs`). That a refresh is never refused without a cause rests
on several parts at once, `SessionKept`, which holds until something happens that may
cost a session: one exchange changes the account's row at a time (`OneExchange`); a
refresh is its tab's `inFlight` and presents the token of the row (`RefreshFits`); an
answer on its way carries the row's token (`GrantFits`); and one browser has the
cookies, which are the row's token or about to be replaced by it (`JarFits`). From it
`ForcedOutForCause`; from the type invariant and the steps `RemovedHasNoSession`.

**Residency** (`AccountsProofs`). `ResidencyInv` adds to the properties: a profile stands
on an apartment of a standing building and belongs to an account (`HomesStand`); an
invite names its home and person for good, and the account made through it stays
(`InvitesNamed`); and what a request has counted or read is still so, except for the
apartments in its `unseen` (`CountFresh`, `ReadFresh`), which is what makes the second
statement of a removal, a move or a demolition right. From it `OccupancyIsRight`,
`OneAccountPerInvite`, `NoSecondHousehold` and `ProfilesAreKept`, the last two about steps.

**Signup** (`ServicesProofs`). `SignupInv`: a link that has made an estate is used up
and its address has an account (`MadeIsUsed`), no address has made two (`OneEach`), and
unless two submissions for an address met, one submits at a time and past its first
statement no link is left (`OneSubmits`, `NoneIsLeft`). From it `NoSecondEstate` and
`LinksSuperseded`.

**Directory**. `DirectoryInv`: what a clerk is about to write clashes only with rows
named since the look, or that it was let clash with before (`ClerkKnows`), and buildings
are stored without blanks. From it `NamesDiffer`.

**EmergencyAlerts**. `EmergencyInv`: a press past its look has missed every alert it would now
find (`PressKnows`). From it `AlarmedOnce`. `HelpInv`: a notice an officer is about to
send is that officer's own claim or closing, and the first of its kind
(`ResponderFits`); what is on the bell fits the alert's row and is there once
(`BellFits`). From it `HelpIsToldOnce`.

**VisitorArrival** (`NoticesProofs`). Two invariants, since the page and the server
share only messages. `RequestsInv`: unless two looked at once, at most one
report is about to tell the host and then nobody has (`OneTells`); a position that is
stored without being shared will be deleted by a request under way, or is known to
stay (`WillBeDeleted`). From it `ArrivalToldOnce`, `PositionCleared`. `PageInv`
ties the streak to the readings heard; from it `NoArrivalByOneReading`.

**NoticeBoard** (`NoticesProofs`). `BoardInv`: the words an author has in the form are
nobody else's and those of a notice were written (`WordsApart`), and a form that
still holds the words of a saved notice belongs to an author who is waiting, or was
told that it failed (`AuthorFits`). From it `NothingPostedTwice`.

**PushDevices** (`NoticesProofs`). `PushInv`: no two browsers hold one endpoint
(`SubscribedOnce`); a page that waits has one registration of its own that is not a
quiet one (`WaitsForOne`); and where a page says that notifications are on, or is turning
them on, the endpoint's row is for who is signed in, or a registration that will make
it so is still to be applied (`OwnedOrAsked`), but for the browsers in `undone`. From it
`OnIsForWhoIsSignedIn`.

**OfficerPresence** (`CallsProofs`). `PresenceInv`: a socket that was closed while
joining is not the officer's line (`LostIsBehind`), and an entry written in order
names a joined socket, and the line's (`EntryIsCurrent`). From it `ListedIsReachable`.

**Calls** (`CallsProofs`). `CallsInv`: for an officer whose set-ups nothing overtook, a
set-up whose peer connection is open is the one the page knows of and the page is in a
call, and a page in none has no microphone on and no set-up that nothing can stop
(`SetUpFits`). From it `MicIsOffOutside`.

**Screens** (`ScreensProofs`). `FormsInv`: where no other administrator interfered, what was
received is the row and what the form holds untouched is what was received
(`LoadIsRow`, `SeenIsRow`, `FormIsSeen`); from it `UntouchedFieldsKept`. `PanelInv`: a resend
under way is the only one of its invite, with no link shown before it is made and the
newest after (`ResendsFit`); from it `ShownLinkWorks`. `LocationInv`: the best reading kept is the finest heard
(`BestIsFinest`); from it `RouteLeadsToGate` and `DevicePinsAreFine`. `VoiceInv`: what was
spoken is marked, with everything vaguer before it (`SpokenFits`); from it
`GuidanceNeverVaguer`. `LocksInv` gives `ScreenLockReleased`. `ListsInv`: the list asked for
last, or the one shown if none is awaited, has the estate's rows, but for excused ones
and those of a change whose answer will make the page ask again, and a list behind a later one
is known to be (`LastRight`); from it `ScreenIsTheEstate`. `MessagesInv`: a request in an
officer's hand has the text it is about at every stage (`PostFits`), and what a page
owes and was answered without is on it, excused or on its way (`Covered`); from it
`NothingWrittenIsLost` and `NothingIsMissed`.

Every invariant and every action property of the passing runs is so a theorem.
Two modules were written for the prover where nothing is lost by it: the pages of
`Messages` hold sets of messages, as no property tells their order apart, and the
types of `PushDevices` that are proved leave out which rows the trimming picks,
since the prover knows nothing of `SelectSeq`.

Only model-checked: the liveness properties (`RunOutIsMarked`, `SmallQueueDrains`,
`EveryCallEnds`, `NobodyTalksAlone`, `ScreensCatchUp`), since proofs of fairness are out of
the prover's reach, and with the last of them all of `PolledScreens`; and the
violations.

## 7. What is abstracted

- Time is a counter of abstract minutes, or an event that may come at any time where
  only before and after matter (a link that runs out, a notice half an hour old). The
  estate's time zone is that of the clock, without changes of summer time.
- Audit and event rows are appended and never read to decide; they are left out.
  `Visit` rows carry only whether the visitor is inside. The second of two exits
  of one visit only moves its time.
- `OfflineSync` records an entry in one step. The signature of the manifest and
  the encryption of the queue are taken to work, as are the tokens and hashes
  everywhere. The fetch of a manifest and its arrival are one step.
- In `RecurringPasses` the daily code is the date it was made for; a phone may
  present the code of today or of the two days before. The read of the pass and
  its exceptions, the blocked list and the time are one step: no property depends
  on a change between them.
- A transaction whose first statement locks the row it depends on is one step
  (`CompleteSignup`); one that counts at READ COMMITTED is two (`Residency`).
- A person in `Residency` is an e-mail address; passwords and names are left out.
- Places are points on a line (`EstateLocation`), distances to the gate and to the
  route (`VisitorArrival`, `VoiceGuidance`); geometry is left out.
- In `Calls` a peer connection is a number, the officer at its other end and its state; session
  descriptions and candidates are the messages that carry them, not their content.
- Estate rules used by `Invitations` do not change while that model runs; their form is
  `EstateForms`.
- In `AdminLists` the three pages are one: a row is a name, which may be `Gone`.

## 8. What is not modelled

- **Guards and validators, cryptography**: stateless checks and library calls; every
  modelled operation is taken to be called by an account that passes them.
- **Audit log**: an append that no operation reads back. **Email**: I/O, whose failure
  matters only in `InvitePanel`. **Health**: a read.
- **Parts of modelled components**: registration, password changes and the profile
  (`modules/auth`); lists, counts and reports of the administration; the delivery to a push
  service beyond a subscription found dead, and the service worker's clicks;
  the search for an address; the drawing of maps and routes; the resident's
  dashboard and the visitor's pass page, which show what the server answers.
