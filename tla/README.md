# A TLA+ development of aerly

aerly keeps people's trips. A trip holds plans (a flight, a hotel, a dinner),
a plan holds parts, and trips and plans are shared with friends as members or
as passengers. A background poller follows the flight parts and tells the
people concerned when something changes; mail and calendars bring bookings in.
This directory holds TLA+ modules translated from the Go, SQL and TypeScript
of the repository, TLC configurations that check them on small instances, and
proofs checked by TLAPS. Every statement below about the code refers to
`src/`; `PROJECT.json` maps each definition to the lines it stands for.

## 1. The system

One Go process (`cmd/server`) over one PostgreSQL database.

    browser --HTTP--> handlers --authorising query--> store --transaction--> PostgreSQL
       ^                  |                                                      ^
       |                  +--publish--> sse.Hub --events--> browsers             |
       |                                   ^                                     |
    push, mail <-- notify/push/mailer <-- poller (one goroutine, tickers) -------+
                                           |            ^
                                           +--> providers (flight data, positions)
    maildir --> emailingest --> planops --> store
    calendar URLs --> feeds (called by the poller and by handlers) --> store
    uploads --> handlers --> attachments (blob store) and store

Four interactions carry the hard behaviour:

* **handler then transaction.** A handler reads who its caller is and what
  they may do with one query, then calls a store operation that is its own
  transaction. Between the two, other handlers run. Store operations that
  touch passengers lock the trip row (`FOR UPDATE`, or the key-share lock a
  foreign key takes).
* **handler as a chain of transactions.** Creating a plan, committing a
  proposal, uploading a file, adding an address: several statements with a
  compensating one for the failure of a later one, all under a context that a
  departing client cancels.
* **poller beside handlers.** The poller's single goroutine takes a snapshot
  of a part's row, waits for an external resolver, writes the answer in half a
  dozen separate statements, and compares the row with the snapshot. Handlers,
  the geocoder's goroutine and the zone backfill write the same row between
  any two of them, and the process may die there.
* **commit then publish.** A change is committed, its audience is looked up,
  and an event goes out: three steps, after which browsers load or fold.

### Inventory

| component | state | operations | hard behaviour | what makes it correct | module |
|---|---|---|---|---|---|
| poller: flight alerts (`poller/alerts.go`, `poller.go`) | a part's live columns and `last_alert_sig`; pending terminal changes in memory | poll, resolve, store, compare, dispatch, stamp, prune | lost or failed statements, crashes, edits in mid-poll, a provider that flickers | each change told, once, and only when real | `FlightAlerts` |
| poller: status and times (`store/tracker.go`, `timing/effective.go`) | `flight_status`, scheduled, estimated and actual times | revise, derive the status, list the parts to poll | the same rule twice, in SQL and in Go; caps and windows | both agree; a part is on one list; it leaves the lists | `FlightTimes`, `FlightStatus` |
| poller: sweep and cadence (`poller/sweep.go`) | last-resolved times, quota back-off | sweep unconfirmed parts, throttle, adapt the interval | a status stored outside the alert path | nothing stored goes untold | the sweep in `FlightAlerts` |
| poller: reminders, check-ins, departures (`poller/reminders.go`, `checkins.go`, `departures.go`) | marks (`plan_reminder_sent` and its like), inbox rows | find due, deliver, mark, push | a crash or a failure between delivery and mark; a stale audience | told before marked, never after; pushed at most once; every due notice closed | `Notices`, `NoticePromise` |
| poller: quota notices (`poller/quota.go`) | last notice per provider | notify | two callers; a mail that fails after the stamp | throttled, yet not silenced | - |
| sharing: trips, members, passengers (`store/trips.go`, `auto_shares.go`) | `trips`, `trip_members`, `trip_passengers`, `user_auto_shares` | create, delete, add/remove member and passenger, all-friends flag, auto-share | stale authorisation; two owners acting on each other | an owner remains; travellers are on the plans they may see | `TripSharing` |
| sharing: plans (`store/plans.go`, `sharing.go`) | `plans`, `plan_passengers`, `plan_visibility(_members)`, part links | create, delete, move, link, split, passengers, privacy, all-friends flag | derived rows maintained by every operation | privacy wins over derived grants; derived rows have a cause | `TripSharing` |
| sharing: friends (`store/friends.go`) | `friendships`, `pending_friend_invites`, `pending_shares` | invite, accept, remove, cancel, share by e-mail, claim | invitation and share claimed at a first sign-in, in some order | what was queued shows | `TripSharing` |
| accounts and auth (`store/users.go`, `user_emails.go`, `auth`, `handlers/users.go`, `me_emails.go`) | `users`, identities, addresses, tokens, session versions | sign in, link, verify, resend, delete, administer, sign out everywhere | two first sign-ins of one identity; two administrators acting on each other; a link clicked while its row is cleaned up | an administrator remains; no account is stranded; an address is its owner's | `Accounts` |
| part times (`timing`, `geocode/planparts.go`, `store/zone_backfill.go`, `handlers_plans.go`) | instant, zone, source, place and pin of each end; the schedule in `flight_details` | edit, geocode, backfill, re-resolve | four writers that read first and write later | a time means what was said; the two copies agree; a pin holds | `PartTimes` |
| live updates (`sse/sse.go`, `notify`, `web/src/sse.ts`, slices) | subscribers and their buffers of 16; what a tab shows | subscribe, publish, reload, fold, reconnect | full buffers; a visibility list taken before delivery; an empty list means public | nobody hears an event they may not; a tab is up to date in the end | `Events` |
| email ingest and proposals (`emailingest/ingest.go`, `planops/commit.go`, `handlers_ingest.go`, `handlers_import.go`) | files in a maildir, an ingest log, plans | extract, commit, cancel the superseded, reply, remove or set aside | a crash after the plans and before the removal; a clean-up under a cancelled context | nothing booked twice, half, or lost without a word; poison is set aside | `Intake` |
| calendar feeds (`feeds`, `store/trip_feeds.go`) | `trip_feeds`, their events and validators | sweep, refresh, edit the URL | a refresh of the old URL ending after the edit | validators describe the events shown; a feed catches up | `Feeds` |
| attachments (`handlers_attachments.go`, `attachments`) | a row and a blob | upload, delete; deletion of plans and trips | one written and not the other | no row without a blob; no blob without a cause | `Attachments` |
| notify, push, mailer, alert inbox | subscriptions, preferences | fan out to channels | one channel failing | the others still deliver | where `FlightAlerts`, `Notices` call them |
| flight resolution, positions, geocoding, maps, weather, places | caches, rate-limit state | resolve, interpolate | quota, stale cache, floating-point geometry | no answer older than the TTL | environment of the modules above |
| calendar, PDF and statistics output, other handlers, wire types | per-address buckets | render, route | - | - | - |
| schema and migrations | the tables and their keys | migrate | - | - | in `TripSharing`, `Attachments` |
| server, configuration, tools | none | start, stop | shutdown in mid-commit | - | shutdown in `Intake` |

`PROJECT.json` lists every one of them under `components` with its status, and
under `hazards` the places in the code where something could go wrong that a
test would hardly reach, with the properties that would show it.

## 2. The modules

| module | models | extends |
|---|---|---|
| `FlightTimes` | the effective times of a flight, in Go and in SQL, the derived status and the work lists; operators only | |
| `FlightStatus` | the poller's tick over one part: three lists, the polls between them, a clock that runs on | `FlightTimes` |
| `FlightAlerts` | the poller and one part, statement by statement | `FlightTimes` |
| `TripSharing` | trips, plans, people, grants, privacy, invitations and the requests that change them | |
| `NoticePromise` | what a one-off notice promises, in four actions | |
| `Notices` | the three passes of the tick, statement by statement; implements `NoticePromise` | |
| `Events` | publishers, hub and browser tabs | |
| `Intake` | the Maildir loop, confirm and import requests, `planops.Commit` | |
| `Feeds` | the sweep, the handlers of feeds, and the sources | |
| `Attachments` | uploads and deletions over two stores | |
| `Accounts` | sign-ins, administration, addresses, invitations | |
| `PartTimes` | the ends of a part and its four writers | |
| `MC...` | the values TLC gives the constants of the module it names | the module, `TLC` |
| `..._proofs` | theorems on the module it names (`FlightAlerts_proofs`: on `FlightStatus` too; `Plans_proofs`: on `TripSharing` and `PartTimes`, which share nothing) | the modules, `TLAPS` |

An operator whose comment begins *A slip:* is not the code. It is the code
with a plausible bug, kept beside the definition it spoils and used only to
see that a property would notice: `mutants` in `PROJECT.json` says which
property notices which slip.

Variables marked *history* record what happened. No guard reads them; the
properties do, to say under which circumstances they may fail.

### FlightTimes and FlightStatus

`timing.Effective` (Go) and `flightArrivalSQL` with
`RefreshFlightPartStatus` (SQL) say when a flight departs and arrives.
`FlightTimes` translates both, case by case, and the poller's four list
queries. The windows (30 minutes, 12 hours, 45 minutes, 24 hours and so on) are
constants; `WindowsAssumption` asks only that they are naturals and that the
metadata window opens no later than the tracking window.

`FlightStatus` has one part under `tick` (`poller.go:172`), which takes one
`now` at its beginning and then reads three lists, one before each of its
passes. `pass` says which pass the tick has got to, `tickAt` is that `now`:

| action | code |
|---|---|
| `BeginTick` | `tick` begins; the passes are `active`, `metadata` and `landed` |
| `TakeUp` | the pass's list (`Listing`) has the part, and its last poll is old enough (`Due`, `minPollAge`): its poll begins |
| `PassOver` | the list has it not, or it is not due, or `refreshMetadata` finds that the resolver need not be asked |
| `Revise`, `AdoptSchedule` | what the poll's resolve stores: estimates outright, actuals unless it has none, the airline's schedule once |
| `Refresh` | `RefreshFlightPartStatus` ends the poll: the derived status, and `last_polled_at` |
| `RefreshLost`, `ListFails` | that write fails or the poll panics; a list cannot be read and the tick returns |
| `MoveSchedule` | a handler moves the part's schedule, between any two steps |
| `Tick` | the clock, which runs on during a tick, by `TickSpan` at most |

`marked` and `owed` are history: whether a poll of this tick has left its mark,
and whether the part is one the tick had to list and has not. Only the poll of
one part is followed: that a list is read before the polls of other parts, and
this part polled after them, is the clock moving between `TakeUp` and `Refresh`.
Instants are natural numbers, `NoTime` is NULL. `FlightAlerts` has what a poll
writes beside the times, statement by statement; there a poll may begin at any
instant at which the part is listed.

### FlightAlerts

The state is the part's row and stamped signature (which survive a crash),
the terminal tracker's `pending` (which does not), and where the poll of the
part has got to. A poll is one action per statement:

| action | code |
|---|---|
| `StartPoll` | a list query names the part; the row it read is `prev`; a tracking poll may find its resolve throttled and skip it |
| `Resolve`, `ResolveFails` | the provider answers with any report, or fails |
| `WriteGate`, `WriteBelt`, `WriteTimes`, `WriteVerdict`, `WriteTerminal` | the statements of `resolveAndUpdate` in their order; `WriteFails` is the failure of one that returns, `WriteTimes`, `WriteVerdict` and `Confirm` also lose best-effort ones |
| `Confirm`, `RereadFails` | the schedule, the resolved flag if the part was unconfirmed when the poll began, and the read that returns the row |
| `RefreshStatus` | the derived status |
| `RowUnread` | `maybeAlert` cannot read the part and returns: nothing is compared |
| `NothingToTell`, `AlertReadFails`, `Announce` | `maybeAlert`: settle the terminals, name the change, dedupe, choose the recipients |
| `Deliver`, `DeliveryFails`, `Stamp` | `dispatchAlert` one recipient at a time, of whom some no channel reaches, then the signature all the same |
| `Prune` | a tick that lists the part nowhere forgets its pending changes |
| `Crash`, `Panic`, `EditIdent`, `DismissPlanPart` | at any statement: restart, a recovered panic, and the two handlers that write the row |

`settle`, `changeKind`, `signature` and `snapshot` keep their names from
`alerts.go`. A signature string is the record of what it spells out. `EditIdent`
takes another flight's route and times, and anchors a floating part only when
that flight comes with a zone (`Rerouted`). The history variable `passedBy` has
the recipients a verdict in the row has passed by, because the poll that stored
it ended without comparing or no channel reached them (`CutShort`). One part
is enough because every read, write and map entry is keyed by the part and the
poller is one goroutine. Disturbances are counted: `MaxLeft` bounds how many
happen, `Disturb` which kinds a run admits.

### TripSharing

Rows become records: a trip carries its members' roles and its passengers, a
plan its privacy (`mode`, `named`), its passengers by hand (`manual`) and the
ones derived from the trip (`viaTrip`). `CanViewPlan`, `CanViewTrip` and
`plan_visible_to_member` are translated as separate predicates because the
code keeps them as separate queries.

A request is `Authorised`, then `Execute`d. `Serve` does both at once;
`Suspend` stops between them, so that other requests run, and `Resume` executes
on what was true then (`Abandon`: the client left, or the transaction was
refused). There are 24 operations and `SignIn`. Each store operation is one
step because it is one transaction holding the trip row's lock.

Abstractions to know of: `shareTripByEmail` looks the address up, and inserts
or queues, in one step; `SignIn` stands for a first sign-in, a later one, and
the verification of an address, which claim the same way; a plan's booking
fields, and who sees them among those who see the plan, are left out; accounts
are not deactivated or deleted (`Accounts` has that); a plan's parts are a
count (`legs`), enough to say when a split or a link is possible and when the
last part goes.

### NoticePromise and Notices

`NoticePromise` has a set of notices told, muted (every channel switched off),
closed, and a count of echoes (pushes). A notice is told only while open,
closed only once told or muted, and echoed once, after it is closed.

`Notices` is the tick. `StartTick` reads the clock; each pass (`reminder`,
`checkin`, `departure`) is `ListDue` (or `ListFails`), then per item `Take`
(which looks the audience up once a pass; `LookUpFails`), then `Dispatch`:

| step | code |
|---|---|
| `Load`, `LoadFails` | the plan and the trip's names |
| `InApp`, `InAppFails` | the row in `flight_alerts` |
| `Mail`, `MailBounces` | the mail, if the due list found an address and the wish; sending may report an error and have delivered it all the same |
| `Mark`, `MarkFails` | the `..._sent` row; after a failure everything but the push is repeated at the next tick |
| `Push` | the lock-screen echo |
| `EndPass`, `Panic`, `Crash` | the next pass; `guard` recovers and goes on to it; restart |

Meanwhile `WishStep` (trip and plan reminder settings, alert preferences,
plan opt-ins; a trip's reminder may be set by whoever sees the trip, though the
plan be hidden from them), `EditPart` (moved, cancelled, dismissed, deleted),
`Reshare` and `Advance` happen between any two. The three passes differ where the code
does: a reminder always has an inbox row and follows a plan's own setting
before its trip's, a check-in or departure summary follows the preferences as
the due list read them, and a failed mail sends a reminder back only if
nothing was delivered.

The refinement maps `told` to the notices with a row or a mail, `closed` to
the `..._sent` tables and `echoes` to the pushes. A crash or a failed mark is
a stutter of the promise; the repeated row is another `Tell`.

### Events

A publisher is a task of up to four steps: `Update`, `Reshare`, `Delete`,
`Poll` or `Absorb` (linkPlans) begins one, `ReadBack` (a poll reads the part
it will send), `LookUp` (or `LookUpFails`), `Publish`, and for a deletion
`DeleteCommits`, which the handler runs *after* publishing. The hub offers an
event to each connected tab whose user is in the audience, or to all if the
audience is empty, and drops it if the buffer is full. After a failed look-up a
handler goes on (`Then`: the deletion still commits, `linkPlans` still
announces the plan that stays) and the poller publishes to nobody; a cancelled
request, or another query that fails, ends its publisher (`GivesUp`); a
position that cannot be read leaves a payload without (`ReadsNoPosition`).

A plan looks as its `detail` (gates, terminals, belt, times, title) and its
`live` fields (status, effective time, position, track) look: a poll changes
the latter (`Tick`) or both (`Bump`), and `foldUpdate` merges only the latter.
A tab answers `plan.updated` and `plan.deleted` by loading the trip
(`Reload`, `Serve`, `Show`: asked, answered by the server, received;
`LoadFails` leaves what was on screen) and `plan_part.updated` by folding the
payload (`Fold`). While no trip is on screen it ignores the first two
(`Ignores`), even with the response of the first load on its way. `Open` and
`Leave` are the page's, `Cut` breaks a stream and its buffer, `Reconnect` opens
a new one and loads nothing. `doubt` records how a tab may have missed
something since its last load.

### Intake

The Maildir loop: `StartDrain`, `NextFile`, `Admit` (sender and daily limit),
`Extract` (or `Panic`, recovered, the file set aside), `SelectTripForBatch`,
then `planops.Commit`, `LogIngest`, `Reply`, `Remove` or `SetAside`,
`EndDrain`. A confirm request or an import of a calendar (`Request`) enters
`Commit` too. `CommitStep(agent)` is one statement of it: create the plan
(with the calendar's unique index, if imported), passengers, privacy, cancel
the superseded part, and the compensating delete. Each statement works, fails,
works and loses its answer, or fails because its context is dead: `Disconnect`
kills a request's, `Shutdown` the loop's (then `Exit`), `Crash` everything. A
restart lists `new/` again.

### Feeds

`StartSweep` loads the rows that are due, `NextDue` takes one; `AddTripFeed`,
`UpdateTripFeed` (which clears the validators when URL or zone change, and
leaves the events to the refresh that follows) and `DeleteTripFeed` are requests, the first two followed by `Load`.
`Refresh` is fetch, replace, mark, each with its failure; a fetch under a
matching validator answers 304 and only marks. `Change` is the source's. A
sweep may hold rows that an edit has outlived: `alone` and `torn` record it.

### Attachments

`Upload`, `Put`, `Insert` and the clean-up `RemoveBlob`; `DeleteAttachment`,
`Unhang` (the row) and `RemoveBlob`; `DeletePlan` with `ListKeys`, `Drop` and
the sweep of the listed keys; `DeleteTrip` and `LinkPlans`, which drop rows and
sweep nothing. Every call may fail, fail after it worked, or find its context
cancelled (`Disconnect`).

### Accounts

A sign-in is `Callback` (which counts the users), `FindByIdentity`,
`FindByEmail`, `FindByName`, then `LinkLogin` or `SignUp`: separate statements
of a READ COMMITTED transaction. Administration is `StartChange` (authorised
by the middleware's row), then `UpdateUser` or `DeleteUser`; `InviteUser`
opens an account nobody signs in to yet. A user's own addresses:
`StartAddEmail`, `InsertUnverifiedEmail`, `SendVerifyEmail` or `SendFails`,
`UndoAdd`; `StartResend`, `ResendVerification`; `VerifyEmailByToken`,
`DeleteUserEmail`. `InviteFriend` looks an address up and
`UpsertPendingFriendInvite` queues; `CancelOutgoingInvite` withdraws.
`LogoutAll` raises the session version. `Ends` is every refusal: a
deactivated account, a name taken meanwhile, a constraint, a failed statement.
A row's `id` is the token it was inserted with, which tells a row from another
for the same address. The superuser's own password-less bootstrap and name
allocation follow `LinkLogin`; what a claimed invitation grants is in
`TripSharing`.

### PartTimes

An end of a part holds an instant (`at`), a zone (`tz`), the source of the
zone, a place and a pin; `Wall` and `Anchor` translate package `timing` over
zones with one clock change each, with readings that are skipped or repeated.
An edit gives digits or a bare instant, with or without a zone and its source.
It is `StartEdit`, `Locate` (the addresses are geocoded before anything is
read), `pinZones`, then the three statements of `Store.UpdatePlanPart`:
`ReadPart`, `WritePart`, and `ReadBack` where the caller uses the part it gets
back; and for a flight `ReadFlight`, `SyncFlightSchedule`, `applyFlightEdit`,
`UpdateFlightPartRoute`. The geocoder's goroutine is `StartGeocode`,
`GeocodeEnds`, the same three statements and `SyncFlightSchedule`. `timed` are
the ends whose time the caller's own payload gives: a time that `ReadPart`
anchors on the way is not among them, and the callers decide by `timed` whether
to sync. The backfill is `PlanFixes` and
`ApplyZoneFixes`, whose guard compares the part with the one it read; the
poller contributes `RefreshFlightPartSchedule`, `MarkFlightPartResolved` and
`BackfillFlightPart`. `Fails` is a statement that fails in any of them.

The rest of the state is *history*. `said` is what was last said about an end:
the reading typed, or the instant a provider or a calendar gave. `disturbed`
are the ends another worker wrote since this one read them, and `lost` the ends
whose last word was written over by such a writer (`Loses`), or was typed
without a zone in a request that also pins the end into another zone
(`Repinned`). `strayed` names how the schedule came apart from the part since
the two were last made to agree.

## 3. The runs

| run | question | bounds, and why they suffice |
|---|---|---|
| `flight_status` | do SQL and Go agree, does a tick poll a part once, does every part leave the lists | a part from 3 to 5, one with no arrival, each also floating, and one schedule (6 to 8) to move to; live times before, between, after and absurdly far (2, 7, 99); caps 3, 3, 4; a tick may last an instant, so a poll can land the part or move it into a later list; two reports, moves or failures; clock to 14, past every cap |
| `alerts` | is a terminal change announced only when seen twice, and who can miss a verdict, whatever goes wrong | one end, three terminals, two gates, a belt, delays and verdicts, two recipients with thresholds 1 and 3; one disturbance of any kind at any statement; clock to 7, past departure and arrival |
| `alerts_told` | what do recipients with different thresholds hear | two recipients with thresholds 1 and 3; a gate, delays of two and three published and withdrawn, terminals that move and come back, a cancellation; resolver failures and a dismissal; clock to 9, with fairness: long enough for a terminal to come back to the recipient who missed the delay between |
| `sharing` | do passengers, privacy and tiles stay consistent | two people, two trips, two plans of two legs: a move needs two trips, a split or link two plans, privacy someone to hide from |
| `sharing_members` | can overlapping removals drop the last owner; do queued shares show | two owners and a person without an account; any two of the removals and shares by e-mail may overlap |
| `notices` | do the passes keep the promise, and is every due notice closed | two passes (a third differs from the departure pass only in its lead), one leg, two travellers of whom one may be hidden from; two initial sets of wishes; one failed statement or crash, one bounced mail and one change by anybody; clock to 3, past the departure |
| `events` | can an event reach a stranger; which losses leave a tab stale | one tab (tabs share nothing but the plans and the publishers, which never wait for them) and two plans, one hidden from its user; a buffer of one, so that the second unread event is dropped; two changes, two publishers at once, two faults |
| `intake` | is a booking ever half stored, doubled or lost | a mail with two bookings, an unreadable one and one that panics; a confirm request with privacy and a supersession; two imports of one calendar, which alone run beside each other (`Together`: the other agents touch different rows); two failures of any sort, as each claim is about what one or two can do; a daily limit of two |
| `feeds` | do validators describe the events, does a feed catch up | one feed (feeds share nothing but the sweep), one URL in two zones (a change of zone clears as a change of URL does), two versions so that a source can change and change back; two failures, two requests |
| `attachments` | can a row be without bytes, bytes without a cause | two plans, three keys, four requests, two failures or lost answers; plans, keys and requests are interchangeable |
| `accounts` | can the last administrator, an account, an invitation or a verified address be lost | three accounts, two identities asserting one address, two names, two requests at once and five in all, two tokens, one sign-out everywhere; accounts and clients are interchangeable |
| `parts` | does a time keep meaning what was said; do the copies agree; do pins hold | six parts (a stay typed by hand, one imported, a transfer, three flights) in two zones, one whose clocks go forward and one whose clocks go back within the part; two overlapping edits, the geocoder, the backfill and the poller, three requests in all and one failed statement; editors are interchangeable |

One end of a flight suffices in the alert runs because the two ends share only
the alert, and `changeKind` asks of each end the same question. Three
terminals let a change be replaced by another while it waits. Wherever a
property is proved (section 4) it holds for any number of disturbances,
people, trips, feeds, keys and requests.

What the properties say:

* `ArrivalAgrees`, `OncePerTick`, `EventuallyLeavesPollSet`: the two
  renderings agree on an anchored flight; the caps end tracking whatever is
  reported. A tick reads its lists at different moments, so one of its polls
  may land a part and have a later list name it again: what prevents a second
  poll is the mark the first one left, and `OncePerTick` says that it does,
  unless that write was lost. It says too that a tick ends with no part unlisted
  that it had to list when it began. A list that cannot be read ends the tick,
  and a handler can move a part out of a list not yet read into one already
  read: such a part waits for the next tick (and is forgotten by `prune`).
* `UnconfirmedNotAnnounced`, `TerminalSeenTwice`: an alert about something else
  does not smuggle an unconfirmed terminal into the signature; a terminal
  alert follows two fresh comparisons that found the terminal.
* `VerdictTold`: a part comes to rest as cancelled or diverted only with every
  recipient told, or with the verdict having passed them by. `alerts.go:27` has
  a change into Cancelled always alert; the code keeps that on a tracking poll
  whichever of its statements fails, and loses it where the poll that stores
  the verdict is the sweep's, is cut off by a crash or a panic, fails after it
  on a metadata poll, cannot read what the comparison needs, or finds no
  channel. Those are what `passedBy` collects, and nothing else; a recipient
  served before the crash does not count as passed by.
* `NotToldTwice`, `DelayAlertIsNews`, `NothingSwallowed`, `PendingEnds`: nobody hears what they heard last, but for a terminal that came
  back to someone left out of a delay alert; a delay withdrawn and restored is
  no news; when a comparison stays silent every stored gate was told; nothing
  stays pending for ever.
* `TravellersOnBoard`, `DerivedRowsHaveACause`, `HiddenStaysHidden`,
  `TileMatchesPlans`: the rows every operation maintains by hand agree with
  the rule they are meant to follow, and the access predicates with one
  another.
* `TripsKeepAnOwner`, `PreSharesLightUp`: a removal authorised before another
  one ran cannot take the last owner, and a first sign-in shows what was
  queued by an owner who also invited. No request of the run gives an owner a
  lesser role (section 5).
* `NoRepeatWithoutFault`, `HiddenNotTold`, `EligibleIsClosed`, `PromiseKept`:
  a second row is paid for by a fault, a second mail by a fault or by
  one reported lost that arrived; an audience is stale by one
  tick at most; a notice that stays due is closed; and the passes implement
  `NoticePromise`.
* `LeakNeedsAnEmptyAudience`, `StaleOnlyByKnownLoss`, `FreshInTheEnd`: only an
  event published to nobody reaches a stranger; what a tab that has answered
  everything still shows wrong has a cause: a cut stream, an event not
  published, dropped or ignored, a load that failed, a plan taken away, a
  deletion announced early, for details a poll that changed them, and for live
  fields a payload out of order; one that loses nothing more ends up to date.
* `HalfPlanNeedsMoreThanAFault`, `CancelledIsReplaced`, `CopiesHaveACause`,
  `NothingVanishes`, `MailSettles`: what the compensating delete, the order
  of the statements and the file moves guarantee, each with the least
  combination of failures that defeats it.
* `ValidatorsTrue`, `FeedCatchesUp`: a 304 means that nothing is to be done,
  unless refreshes overlapped or were cut in half; and such a feed catches up.
* `RowsHaveBlobs`, `OrphansHaveACause`: see section 5 for the one way to a row
  without bytes and the three to bytes without a row.
* `AdminsRemain`, `NoStrandedAccount`, `InvitesLand`, `ProofIsTheOwners`,
  `VerifiedStays`: what sign-ins, administration and verification preserve
  while they overlap, but for the races they name.
* `TimeIsAsSaid`, `ScheduleStraysKnowingly`, `PinsHold`: a floating time is
  digits and any other an instant, through every change of zone, but for the
  ends a stale writer wrote over or one request zoned twice (`lost`), where an
  edit that gives or takes a zone and no time says anew that the instant stands;
  the schedule follows its part but on the named paths; only the step of a
  request that names a place, an airport or the pin itself, or of a stale
  writer, moves a pinned place.

`alerts` admits every kind of disturbance, `alerts_told` only failing resolves
and a dismissal: its properties do not hold with the sweep, a crash or a lost
write, each of which stores what nobody is told, and the theorems on them say so
(`Untroubled`).

**Deadlock.** The `sharing` and `notices` runs check for deadlock: there,
somebody can always act, or the tick goes on. The others set
`CHECK_DEADLOCK FALSE` because a bounded clock stops, or because a bounded
number of requests, tasks or changes is used up and the system really is at
rest.

**Fairness.** Failures, edits, crashes and requests are never fair.

| specification | fair | because |
|---|---|---|
| `FlightStatus!FairStatusSpec` | weak: `Tick`, `Refresh` | the ticker fires for ever and each tick re-derives every listed part |
| `FlightAlerts!FairSpec` | weak: `PollStep`; strong: `Advance` | each statement returns and the HTTP client times out; the model disables the clock while a poll runs its statements, although time never stops |
| `Notices!FairSpec` | weak: `TickStep` | the ticker fires again and no dispatch blocks for ever |
| `Events!FairSpec` | weak: `PublisherStep`, and `TabStep` of each tab | a handler runs to its end, a browser reads its stream and reconnects |
| `Intake!FairSpec` | weak: `LoopStep`, `Exit`, `CommitStep` of each request | the loop's ticker, a statement that returns, a supervisor that restarts a stopped server |
| `Feeds!FairSpec` | weak: `SweepStep`, and each request's statements; strong: `StartSweep` for each feed | a feed falls due again and again, and fetches have a deadline |

## 4. What is proved

Each theorem holds for every value of the constants that satisfies the named
assumption of its module (`AlertsAssumption`, `SharingAssumption`,
`EventsAssumption` and so on); TLC evaluates each assumption in a run. No module
uses recursion, so nothing rests on induction over data. The bounds of a run
(`MaxChanges`, `MaxFaults` and their like) are constants as well: the theorems
hold for any of them.

**`FlightAlerts_proofs`**: `TypeCorrect`, `PendingIsSound`,
`NoUnconfirmedAnnounced`, `TerminalAlertsConfirmed`, all from `Invariance`,
the inductive

    IInv == TypeOK /\ PollInv /\ PendingSound /\ UnconfirmedNotAnnounced

`TypeOK` does not say that a poll past its first statement has a snapshot, nor
that one past its resolve has a report: that is `PollInv`, and without it no
write preserves the types. `PendingSound` relates the tracker to the history
of what was seen; the lemmas on `settle` (`SettleSound`,
`SettleWaitsForLastSeen`, `SettleAnnouncesConfirmed`) carry it over a
comparison, and the proof of the comparison uses nothing else about it.
`TerminalSeenTwice` is an action property: an announcement of a terminal comes
from the one branch that finds the pending terminal again, and `PendingSound`
says that it was the last one seen. It holds under any number of crashes,
failures and edits.

`VerdictsAreTold` is proved from `IInv` and `VerdictInv` under every disturbance.
`VerdictInv` adds to the property what makes it inductive: a poll never begins
on a verdict, so one that stores a verdict finds it changed; the signature has
a verdict only if the row has, so the alert is not taken for told; and during
the dispatch all but those still to be served have heard of it or been passed by.

What else recipients have been told (`NobodyToldTwice`, `NoGateSwallowed`,
`DelaysAreNews`) is proved from `ToldInv`, beside `IInv`:

    ToldInv  == PollKeeps /\ ToldBetween /\ ToldDuring /\ NotToldTwice
    DelayInv == DelayKeeps /\ DelayBetween /\ DelayDuring

`ToldBetween` says what holds between polls: which gates, verdict and terminals
of the row each recipient was told, and how what he was told differs from the
signature. `ToldDuring` says the same of a dispatch, of those already served
and those still to be. `PollKeeps` says what each statement of a poll has left
of the row it started from. The hypothesis `Untroubled` says that nothing
happens to the part but failing resolves and a dismissal. It is needed: a crash
after the first write, a lost write, the sweep or a new flight number each
leave the row with what nobody was told. It is also what `alerts_told` runs
with.

`DelayInv` says that the delay the last comparison saw is in the signature, or
is past telling for good (`GoneBy`: the part has left, its delayed departure
has come, or the caps have it arrived). `DelaysAreNews` has three more
hypotheses, each for one way in which a part that is past telling could come
back: the arrival's cap is no longer than the other two together (12 against
12 + 24 hours in `tracker.go`); a part begins without an estimate (a client may
send one, `handlers_plans.go:1429`, and then a delay told after a withdrawal
may be shorter than the one the part was created with); and a report with a
landing has a departure (or a revised landing makes an arrived part wait for
its departure again).

On `FlightStatus`: `StatusTypeCorrect`, `ArrivalAlwaysAgrees`,
`TicksPollOnce` and `CapsReleaseThePart`. The last is the half of
`EventuallyLeavesPollSet` that needs no fairness: a poll after both capped
instants takes the part out of the tracking set whatever was reported. The
lemmas `OneArrival` (SQL and Go agree, case by case) and `CapsHold` carry them;
neither depends on a window's length. `TicksPollOnce` follows from

    TickInv == StatusTypes /\ MarkInv /\ OwedInv /\ (open => ~marked /\ ~owed /\ pass # "rest")

where `MarkInv` dates the mark no earlier than the tick's `now`, so that no
positive cadence lets a later pass poll again, and `OwedInv` says on which of
the lists still to be read a part is that the tick owes a look. That the
metadata window is the wider is what closes the gap between the first two.

**`Plans_proofs`**, on `TripSharing`: `TypeCorrect`, by lemmas that replace one row at a
time; it includes that nobody is on a plan twice. `TravellersAlwaysOnBoard`,
`DerivedRowsAlwaysCaused`, `HiddenAlwaysHidden`, `TileAlwaysMatches`,
`SplitAlwaysNarrows` speak of `plan[p].trip` and of its passengers, so
the invariant

    Sound(row, trips): a live plan belongs to a live trip; its derived rows are
    in its audience; unless it was moved, they are passengers of the trip, and
    every passenger of the trip in its audience is aboard; any other plan has
    neither trip nor passengers

must hold of all plans at once. `RequestsKeepSound` has one step per operation
and one lemma per way of changing a row. It never uses `Authorised`: what is
proved does not depend on who asks, so it holds for stale checks too.
`LastOwnerOnlyDemoted` needs no hypothesis: of all operations, whoever overlaps
whom, only `addTripMember` and a share by e-mail take a trip's last owner, by
writing a lesser role over his. `OwnersRemain` is the invariant that follows
where no request does so (`NoDemotion`, which the module of the runs assumes
and TLC evaluates); it is inductive once it says whom requests can make an
owner at all (`MayOwn`). `PreSharesAlwaysLightUp` follows from the types alone:
one transaction claims the invitation and the shares.

On `PartTimes`: `PartsStayWellFormed`, `TimesAreAsSaid`, `PinnedPlacesHold` and
`SchedulesStrayKnowingly`, for any zones and clock changes, any edits, answers
and initial parts. The first three rest on

    TimesInv == PartOK /\ FixesOK /\ JobsOK /\ DisturbedOK /\ HeldOK /\ SaidOK

`SaidOK` is `TimeIsAsSaid` with what it needs to survive a change of zone: an
end whose last word is a reading is not `unknown`. No write preserves it by
itself, because each was computed some statements before. `HeldOK` (`Fresh`)
says what a worker holds of an end that nobody wrote since it read it: what it
has seen is the row, and the change it carries leaves the end meaning what was
said (`Kept`), or what its own request says (`Shows`); `Placed` says the same of
a pin and `Routed` of a route. `FixesOK` is the backfill's part: a fix is the
anchoring of the digits it read, so under the guard that they are still there
it keeps the reading. `Kept` is proved once for every kind of change
(`ToldIsTrue`), from `AnchorShows`: a reading that the clocks of a zone show is
what its anchoring shows. Nothing is used of a clock change but that a zone has
one offset before it and one after.

The schedule needs a second invariant on top,

    Linked: while nothing has strayed, the schedule is the one the part asks
    for, or some worker owes it one (`Owes`); and a geocoder that found no
    flight is right

A worker owes from the moment it writes a time its caller gave until it has
synced. That a sync settles the debt is `ScheduleSettles`: a schedule derived from the block time it
replaces derives itself again. That no debtor walks away is `AnchorsMatch`: the
anchoring of a flight's ends is never refused by the constraints of the table.

**`Notices_proofs`**: `TypeCorrect`; `NobodyHiddenIsTold`, from `Admitted`
(whoever the tick holds an audience of, or is about to tell, has seen the plan
since the tick began); and `PromiseIsKept`, the refinement: every step of the
passes is a step of `NoticePromise` or a stutter. That needs

    PromiseInv == Fresh /\ OnItsWay

`Fresh` says that no notice queued or being dispatched is marked yet and that
no two in the queue are the same, without which marking one could close
another untold. `OnItsWay` says what each step of a dispatch already knows: in
`mark` the notice was told or muted, in `push` it is marked and not pushed.
`RepeatsNeedFaults` counts, in `Sparing`: a notice that a due list can still
name, is in the queue, or has its row or mail still before it in a dispatch,
has at most as many rows as there have been faults, and as many mails as there
have been faults and bounces. So a dispatch may leave a notice unmarked only if
a fault paid for it, or if it inserted no row and at most a bounced mail arrived.

**`Events_proofs`**: `TypeCorrect`, `LeaksNeedNobody`, `StaleOnlyWhenKnown`.
The first carries along that whom an event under way is for could once see the
plan; the leak property follows, as only `Publish` lengthens a buffer. For the
third, call a tab *sure* of a field when nothing that harms the field befell it
since its last load and no reload is waiting, and its *screen* what it will
display once the response on its way arrives. The invariant `Fresh` says of
every tab with a trip on screen, every field it is sure of and every plan:
without a stream its screen is right; and where the screen is not right, an
event for it is on its way from a publisher, or a payload with the live fields
is in its buffer (`Settled`). `Tells` says which publisher is on its way to
which tab, and `ServerSettles` what a step of the server must do to keep it:
that is where a deletion announced early, or a plan taken away, must give
reason to worry instead.

**`Intake_proofs`**: `TypeCorrect`, `CancelledAreReplaced`,
`HalfPlansNeedMore`, `CopiesHaveCauses`, `NoneVanish`. All rest on

    Base == TypeInv /\ JobsOK /\ Numbered(plans) /\ Topped

: an agent's place in `Commit` fits the bookings it holds, plans have numbers
of their own, and the newest plan of an agent in mid-commit is the one it
furnishes. Then one invariant per theorem. `NoOrphan`: the replacement
of a cancelled flight is one no agent is with any more, so that no compensating
delete will take it: the cancellation is the last thing done to a plan.
`NoHalves`: a plan is half furnished while its agent works on it, or after the
failures the property lists; `LiveSpent` ties each failed statement to what it
used up. `InboxOK` with `Counted`: the copies of a booking are at most the
times its mail was begun, which only file moves, crashes and shutdowns raise;
`ImportsOnce` is the unique index. `Traced`: each booking of a mail being
processed is stored, still to be done, in the list of failures that the reply
will name, or a failure has been spent on it.

Two assumptions on constants were made explicit for this: mails are no
requests, and a source names no booking twice (a booking is one item of what
was found in it).

**`Feeds_proofs`**: `TypeCorrect` (with `JobInv`: what a job fetched comes from
the row it loaded) and `ValidatorsAlwaysTrue`, from `AloneInv`: whoever works
alone on a feed holds the row as it stands, nobody else has one, and what it
stored is still there when it stamps.

**`Attachments_proofs`**: `TypeCorrect`; `RowsAlwaysHaveBlobs`, by counting
rows without bytes against inserts whose answer was lost (`HandInv` says which key each request
still has in its hand); `OrphansAlwaysHaveACause`, from `CauseInv`.

**`Accounts_proofs`**: `TypeCorrect`, `VerifiedAlwaysStays`,
`InvitesAlwaysLand`, `ProofAlwaysOwners`, `NoAccountStranded`,
`AdminsAlwaysRemain`. `Shape` is the types, with an owner for every row that is
verified or bears a token. `TokensAgree` ties a token to one address and one
asker wherever it is (row, link, request), which is why a link proves what it
says. `SignInsApart` says that two sign-ins of one identity at once are known
as twins and that what a sign-in has found still fits its identity, so that
only twins strand an account. The last administrator needs all of

    AdminInv == Apart /\ FirstInv /\ SessionsLinked /\ ChangesApart

: who signs in while there is no account becomes the superuser, a cookie is of
an account that an identity signs in to, and who changes an account holds such
a cookie and does not bring himself down. So after a change there is either
the administrator who made it, or he has lost his authority meanwhile
(`crossed`).

`SplitAlwaysNarrows`, `LastOwnerOnlyDemoted` and `PendingIsSound` are proved and
are in no run; the other properties proved are also checked, on the instances of section 3.

**Only model-checked.** Everything with fairness (`EventuallyLeavesPollSet`,
`PendingEnds`, `EligibleIsClosed`, `FreshInTheEnd`, `MailSettles`,
`FeedCatchesUp`) is out of the proof system's reach. Every other property of
the runs is proved.

## 5. Where the code and its words differ

Found while translating. None of them is a run of its own: the properties above
name the circumstance as an exception, so that they say what does hold.

Flights.
* The SQL of the arrival (`store/tracker.go:606`) delays floating timetables
  too, which `timing.Effective` (`:594`) does not; `ArrivalAgrees` speaks of
  anchored flights.
* The window after landing (`store/tracker.go:162`) is measured from the raw
  columns, not from the arrival the status uses (`:152`): a delayed flight
  without an arrival estimate can be declared Arrived after it closed.
* The signature is stamped last so that a crash re-alerts
  (`poller/alerts.go:254`), but the row was overwritten before: after a
  restart the snapshot equals the row and nothing is told.
* The provisional sweep stores Cancelled without comparing
  (`poller/sweep.go:124`), although a change into Cancelled always alerts
  (`poller/alerts.go:27`).
* A terminal is told when two consecutive polls report it
  (`poller/alerts.go:43`); the column keeps the first report when the second
  names none, and that confirms it (`:347`).
* The signature remembers what the flight last announced, not what each
  traveller heard (`poller/alerts.go:226-244`). A terminal confirmed within the
  quiet period of a gate alert is overwritten by it; one who is left out of a
  delay alert by his threshold can then hear of the terminal he was told last
  once more. `NotToldTwice` names that one exception.

Sharing.
* The last owner cannot be removed, but can be made a viewer through
  `addTripMember` (`store/trips.go:437`).
* Splitting a plan leaves `share_all_friends` behind (`store/plans.go:991`);
  moving one leaves its derived passengers (`:823`).
* `CanEditTrip` has no friend gate and ignores the all-friends role
  (`store/trips.go:662`).
* A share by e-mail looks the address up and queues in two statements
  (`handlers/sharing.go:188`); the errors of its writes are only logged
  (`:190`).
* A cancelled invitation leaves the shares queued with it
  (`store/friends.go:323`). A queued share that outlives its target breaks a
  foreign key and rolls back every sign-in with that address
  (`store/sharing.go:95`), although only deactivated accounts are refused
  (`store/users.go:366`).
* `createPlan` applies passengers and privacy after the plan commits
  (`handlers_plans.go:331`).

Live updates.
* `linkPlans` announces the absorbed plan after deleting it: its audience is
  empty by then, which the hub reads as everybody (`handlers_plans.go:713`,
  `publish.go:28`). A failed look-up in the poller does the same
  (`poller.go:472`).
* Deletions are announced before they commit; users who lose a plan get no
  event (`handlers_plans.go:608`); a reconnect loads nothing, although
  `notify.go:41` says a refetch on reconnect covers a loss; a payload that was
  read back before another change is folded over it (`trackerSlice.ts:155`).
* A poll's payload leaves out gates, terminals, belt and times, and no other
  event follows: they change on an open page with the next reload only
  (`trackerSlice.ts:188`). A load that fails is not repeated
  (`tripsSlice.ts:86`), and an event that comes in while the first response is
  on its way is ignored (`App.tsx:101`).

Intake.
* README.md:173-175 has the daily cap bound what the model costs, but a mail
  whose answer is no JSON is retried at every poll without an audit row; a
  refused mail's own audit row counts towards the cap.
* "Each plan commits all-or-nothing" (`planops/commit.go:200-207`): the
  compensating delete runs under the context whose cancellation made it
  necessary. A shutdown in mid-commit fails the bookings, the log and the
  reply, and then removes the mail (`ingest.go:127`, `:372`).
* A half-configured plan is never repaired by importing again; of a request
  with several plans the earlier ones stay; a plan is visible before its
  privacy is set.

Feeds.
* A refresh on its way when the URL is edited stores the old events and
  stamps the old validators after the edit cleared them; overlapping refreshes,
  or a crash between the events and the stamp, do the like. A failed
  `ReplaceFeedEvents` records no error on the feed.

Attachments.
* `handlers_attachments.go:118-120` says the blob goes first; the row does.
  Migration 0042 says blobs are swept before their rows go; deleting a trip
  and linking plans sweep none. An upload that finishes after a deletion
  listed the keys loses its row to the cascade. An insert whose answer was
  lost has its bytes cleaned up under its row.

Accounts.
* `upsertEmailTx` (`store/users.go:270`) speaks of an address already
  *verified* by a different user; it leaves an unverified one alone as well.
* Two first sign-ins of one identity open two accounts, and the identity row
  keeps one (`users.go:316`). Two administrators acting on each other leave
  none (`handlers/users.go:83`).
* The clean-up after a failed send can delete a row that was verified
  meanwhile (`me_emails.go:93`); a resend can put a token on a verified row.

Part times.
* The part and its flight's schedule are meant as two views of the same
  instants (`handlers_plans.go:853-860`, `:1156-1160`). The schedule is left
  behind by an edit of the zone alone, by a pin, by an airport typed on a
  floating flight, by half a provider route and by the backfill. The geocoder
  syncs it after it re-anchored an end (`geocode/planparts.go:491`), but asks its
  own payload whether it did (`:97`, `:501`): when the store anchors digits that
  an edit made floating since the geocoder read them, the part moves and the
  schedule stays.
* The geocoder writes what it worked out from the part it read, over an edit
  made meanwhile; the backfill checks, the geocoder does not. Re-resolving a
  flight or editing its route replaces or clears pinned coordinates.
* A time typed without a zone in a request that also pins its end into another
  zone is anchored in the old zone, and `pinZones`, which takes a time that is
  given as it stands, then shows it in the new one: the reading is not the one
  typed (`handlers_plans.go:975-1003`). An arrival typed equal to the departure
  is taken for no arrival, and anchored with the departure
  (`handlers_plans.go:1161`).

## 6. What is not modelled

* External services, rendering, parsing, geometry, and the generated tables:
  they keep no state that relates to any other, or their content is data.
  What they may answer is the environment of the modules that call them.
* Single-row preferences and the inbox: the database does all there is.
* Booking details and their visibility, tags, derived countries and
  destinations of a trip.
* `createPlan`'s handler chains several transactions (plan, parts, satellites,
  passengers). Each is an operation of `TripSharing`; the chain itself is
  modelled where the same statements are run by `planops.Commit` (`Intake`).
* How a proposal is matched to a trip or an existing flight; `Intake` takes any
  outcome.
* Profile fields, cookie signatures and the OAuth exchanges.
* Positions, provider back-off and its notices. The steps of the cadence before
  a departure are one constant (`RampInterval`); in `FlightAlerts` a poll may
  begin at any instant at which the part is listed.
* The trips list, the offline cache and the screens of the web client.
* Two server processes over one database: the repository runs one.

## 7. What is next

In this order:

* The half of each liveness property that needs no fairness, as
  `CapsReleaseThePart` is for `EventuallyLeavesPollSet`: what one undisturbed
  pass, refresh or reload leaves behind once it has run to its end.
* Provider quota: the back-off of `poller/quota.go`, its stamp and its mail,
  and what a throttled resolve leaves to the next tick.
* The matching of a proposal to a trip, a booking reference or an existing
  flight in `planops`, which `Intake` takes as any outcome, and the hotel and
  transfer times derived there.
* The derived places and dates of a trip, kept by several store operations.
* The offline cache of the web client behind `Events`.
