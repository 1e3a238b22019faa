# A verification project for Aul

Aul is a self-hosted, end-to-end encrypted location service for families: a Go
server (REST, WebSocket, static files), a Flutter app that reports and shows
positions, and a React client. This directory holds TLA+ modules of the parts of
Aul in which requests, isolates, goroutines and faults interleave, TLC runs that
check them on small instances, and TLAPS proofs of the properties that matter
most, for instances of every size.

Every definition that models code is listed in `PROJECT.json` under `map`, with
the lines it stands for.

## The system

| Part | State | Operations | What is hard |
|---|---|---|---|
| Realtime hub (`realtime/hub.go`, `httpapi/ws.go`) | clients, an index circle → clients, four channels, connection counters | Admit, Register, Unregister, Publish, EvictUser, EvictCircle, the select loop; per socket: read circles, upgrade, stream, release | one goroutine against many handlers; channels that are full; closed channels; slots that leak |
| Circles and invites (`httpapi/circles.go`, `invites.go`) | circle_members, invites | create, accept, revoke, remove, leave, delete, precision mode | role and membership are read before the statement that takes effect |
| Sessions (`auth/service.go`) | sessions with a current and a previous refresh hash | issue, refresh, logout, revoke device, expire, clean up | concurrent refreshes with one token; replayed tokens |
| Key envelopes (`httpapi/keyenvelopes.go`, `key_manager.dart`, `key_vault.dart`) | epoch, envelopes; each device's key ring | rotate, fetch, open, acknowledge, prune | several awaited calls per rotation; members leave meanwhile |
| Live-share links (`httpapi/share.go`, `ShareView.tsx`) | session, bound viewer token, one position; each browser's cookie | create, post, fetch and bind, revoke, expire, prune | several devices race to be the one viewer; answers are lost |
| Ping pipeline (`reporter.dart`, `queue_db.dart`, `pings.go`, `retention.go`) | offline queue, table of pings | record, flush, insert, prune | overlapping flushes, retries, refused batches, retention |
| Registration, login, lockout (`auth/service.go`, `lockout.go`) | users, devices, sessions, login attempts | register, sign in, choose or create the device, count and record attempts | check and record are apart; a transaction reads before it writes, and the two databases differ in what that means |
| Rate limiter (`ratelimit.go`) | token buckets by key | allow, drop idle keys | a dropped bucket must not hand out tokens |
| Places (`httpapi/places.go`, `PlacesPanel.tsx`, `map_screen.dart`) | sealed rows with a version and tombstones; each editor's list | create, update by version, delete, prune; list, edit, save | an edit is based on a list that grows old |
| SOS (`httpapi/sos.go`, `SosCenter.tsx`, `store/sos.ts`) | alerts; a web client's banner | raise, resolve, list, prune; events and polls | events are lost, polls arrive late |
| Push and mutes (`httpapi/push.go`, `mutes.go`, `fcm/fcm.go`) | subscriptions, mutes | subscribe, notify, prune, PUT /mutes | workers under a deadline; rows that are pruned by an old read |
| App: session client, share feeder, realtime client, geofences | tokens and keys in the vault, shared by two isolates | | load, wait, write back |
| Launcher (`internal/launcher`) | pid file, session pepper, server child | acquire, provision, supervise, wait until ready, stop, release | two launchers at once; kills anywhere; a server that crashes or does not stop |
| Cryptography, middleware, configuration, audit, user interface, deployment | | | out of scope, see the end |

How the parts interact: the REST handlers write the tables and then call the hub;
a socket reads its circles from the same table when it opens. The app's
background isolate and its foreground share the vault and the queue. A rotation
of the circle's key follows a removal and reads the members' devices. Retention
deletes from every table while requests are served.

What makes each part correct, in a sentence: the hub never panics, never leaks a
slot and stops feeding a circle to whoever left it; a circle is always owned and
only entered through a live invite; a refresh token is exchanged once and its
reuse ends the session; a key reaches current members only and none is lost; a
share link has one viewer for good; no ping is lost and no map goes back in time;
an account has a device, a session belongs to its user's device, and guessing is
bounded; an edit replaces what its user saw; an alert is shown; a push is sent once
and a live subscription kept; one launcher runs one server and takes it along.

## Modules

| Module | Models | Composed with |
|---|---|---|
| `RealtimeHub` | the hub and its sockets, with a free environment | |
| `CircleFeed` | the REST handlers that change memberships, driving the hub | EXTENDS `RealtimeHub` |
| `RefreshChain` | abstract: what rotation of refresh tokens promises | |
| `Sessions` | refresh statement by statement | refines `RefreshChain` (INSTANCE) |
| `KeyRotation` | epoch, envelopes, the app's KeyManager and key ring | |
| `Membership` | circles.go and invites.go as read-then-effect requests | |
| `ShareLink` | share session, posts, viewers' fetches and pages | |
| `PingPipeline` | queue, flushes, batch handler, retention of pings | |
| `TokenBucket` | abstract: buckets that are never dropped | |
| `RateLimiter` | buckets by key with the janitor | refines `TokenBucket` (INSTANCE) |
| `Lockout` | sign-in attempts: limiter, count, then the record of the outcome | EXTENDS `RateLimiter` |
| `StoreBackend` | what overlapping transactions do on Postgres and SQLite | |
| `SignIn` | registration, sign-in, the device of a session | EXTENDS `StoreBackend` |
| `Mutes` | PUT /mutes statement by statement | EXTENDS `StoreBackend` |
| `Places` | rows of places and the editors of app and web | |
| `Notify` | subscriptions and the fan-out of a notification | |
| `SosAlerts` | alerts, events, polls, and a web client's banner with its keyring, selection and visibility | |
| `Launcher` | launchers of one data directory and their servers | |
| `MC*` | small instances for TLC | each EXTENDS its modules; `MCServer`, `MCStores` and `MCAlerts` hold several that share no state, one of which moves in a behaviour |
| `*Proofs` | theorems | each EXTENDS the modules it is about and TLAPS |

An operator that no specification uses, just before the operator it resembles, is
a plausible mistake in that one (its comment often begins with "Mutant");
`PROJECT.json` pairs it with the property that would catch it.

### RealtimeHub and CircleFeed

`clients`, `index`, `circles`, `send`, `closed` and the queues are the hub's
fields and channels; `pc` is the line a handler goroutine is at. `HubRegister`,
`HubUnregister`, `HubDispatch`, `HubEvict` and `HubStop` are the cases of the
select in `Hub.Run`, and each is one step because that goroutine alone owns the
maps. `Admit` and `Release` are the two critical sections on the counters.
`Publish` and `Evict` drop what does not fit, like the `default:` of their
selects. `CircleFeed` adds `circle_members`: a removal first changes the table,
later calls the hub (`CallEvict`, `CallPublish`), and a socket's `ListCircles` is
bound to the table at the time of the read.

### Sessions

A row has a current and a previous token, a request a stage (`rotating`, `missed`,
`revoking`), and each statement is an action. Tokens are numbers in the
order of issue; whoever has held a token may present it at any time.
`RefreshChain` has one atomic `Exchange`; `RefreshIsAtomic` is the refinement.

### KeyRotation

A task is a sequence of awaited calls of one device: bump the epoch, load and
store the ring, list the devices, clamp the epoch, check the recipients, store
the envelopes; or fetch, load, store, acknowledge; or accept an invite and store the
key of its link. Nothing keeps tasks apart: two rotations, on one device or on two,
a `syncKeys` that nobody awaits, a repeated join with an old link and a rotation on
one device all overlap, and any call may fail. Histories record what the properties
except by name: `crossed`, keys whose rotation overlapped another, and `torn`, keys
of a ring that another activity of the device was about to write back from an
older copy. The module is of the app; the web client's `keyManager.ts` differs in that
it saves its own key before the bump.

### Membership

`Begin...` is the middleware's read with the role check, `Effect` the statement or
transaction. Between them anything may happen. `Expire` may come at any time.

### ShareLink

`stage` is how far a page's fetch has come through `handleGetShare`: load, bind by
compare-and-swap, reload after losing the race, read the position, answer. Tabs of
one device share its cookie. A page ends by an answer (403, 404, 410) or by its
own countdown.

### PingPipeline

`Record` is one enqueue, `BeginFlush` the batch taken and sent, `CheckBatch` and
`InsertPings` the two halves of `handlePingBatch`, `EndFlush` what `flush` does
with the answer, `GiveUp` a flush without one (lost, timed out or killed; the
server goes on). `JobStep` is a step of `RunOnce`: it deletes its rows or fails,
and the next step follows. The membership checks of a batch are one step: that
they are several queries shows nothing more, since a membership may be lost
between the check and the insert anyway.

### RateLimiter and Lockout

A bucket has its tokens and the ticks since its last use; `Cleanup` is the
janitor. `EvictionIsInvisible` is the refinement of `TokenBucket`: a key whose
bucket was dropped is one whose bucket is full. `Lockout` takes a sign-in through
`RateLimit` with `checkLockout` and through `recordAttempt` as two steps, so that
others come between the count and the record; the password check changes nothing
and is a choice of the second. Refused attempts are not recorded, and a record may
fail. `attempts` holds the failures of the window; a success is read by one query
alone, the count of an account's failures after the last one, so it is kept as a mark
on those it clears. A tick ages the attempts and refills the buckets.

### StoreBackend, SignIn and Mutes

On Postgres (read committed) a transaction reads what is committed at each
statement. On SQLite one that begins with a write waits for its turn; one that begins
with a read keeps that snapshot, and its first write fails at once if another writer
is at work or has committed since; the caller answers 500. `SignIn` takes a registration or a sign-in from
its first read to its commit: the address, the device by id, the device by key, a
new device, the session. `RequireAuth` joins session, device and user as the
middleware does. In `Mutes` the delete, the wait for rows that another transaction has
deleted, each insert and the commit of a PUT are steps. `victims` are the rows the
delete takes, `added` those the inserts make: on Postgres an insert that finds its row
committed is skipped and takes no lock on it. `last` is the set of the last PUT that was
committed, `mixed` the users for whom that one overlapped another of theirs.

### Places

A row has a state and a version; `UpdatePlace` is a compare-and-swap on it. An
editor has the list as last fetched, a list on its way, and a draft with the
version of what its user saw. The app sends that version; the web client sends the
one its list has when the user saves.

### Notify

A job is one POST /notify: the rows read, the feeding of `work`, the deadline and
the workers' hands. A service takes a message, refuses it, or says that the address
is dead; `MeansDead` is the code's reading of the answer. A row is pruned by its id.

### SosAlerts

`Publish` may be dropped, the connection may be down, and a poll is read on the
server at one time and applied at another; `Reconcile` is the merge of
`store/sos.ts` with its grace period. The effect that calls it runs when an answer
differs from the cached one (`PollApply`) and when the keyring is set (`KeyringLoads`,
`RotateKey`), then with the cached answer, of whatever age (`dataAge`). `SelectionChanges`
is the effect of `Dashboard.tsx` for a new summary of the selected circle: it empties
the store and the keyring and closes the connection. Without a keyring the client
neither polls nor connects, and in a hidden tab the interval does not poll.
`ResolveStart` hides the alert before the request is answered, as the client does.

### Launcher

`main` is where `Run` stands and `sup` where the supervisor's goroutine stands.
The create of the pid file, the write of the pid, its reading and its removal are
four steps, because nothing holds the others off between them. The file is known
by who created it: a pid written to a file that was removed is lost, and a removal
takes whatever is under the name. `Kill` (SIGKILL, a crash) leaves the file and the
child. A child opens its store, listens if nobody else does, and exits by itself,
after a signal, or by the kill at the end of the grace. A process that has ended, and
of which no pid in the file and no child is left, stands for the next one that is
started, so a slow launcher can lose all its tries to others. Files behave as on POSIX,
and a process id is not used twice (the code's comment accepts that risk).

## Runs

| Run | Instance | What it checks | States |
|---|---|---|---|
| `server` | 3 sockets of 2 users, 1 circle, ceilings 1 per user and 2 in all, queues of 1 and 2; 2 accounts, 2 addresses, 2 requests, buckets of 2 refilled by 1, a window of 2 ticks, thresholds 1 and 2 | `HubConsistent`: nothing is sent to or closes a closed channel; `SlotsAccounted`: the counters are exact; `UnsubscribedIsFinal`; `SlotFreed` and `EvictionTakesEffect` (liveness); `GuessesAreBounded`; `EvictionIsInvisible`: refinement of `TokenBucket`; `LocksEnd` (liveness) | 134,460 |
| `feed` | 2 sockets of 1 user, an owner, an eviction channel of 1 | `FeedExplained`: every subscription without a membership has one of three named causes; `LeaverIsUnsubscribed` (liveness) | 258,664 |
| `sessions` | 2 sessions, 3 refreshes at a time, 5 tokens, one fallible request | `ExchangedOnce`; `RefreshIsAtomic`: refinement of `RefreshChain`; `DoubleSpendRevokes` and `PreviousTokenRevokes` (liveness) | 90,211 |
| `rotation` | 2 devices, 2 tasks, 3 keys, 1 join or 1 fault | `NewKeyStaysInside`: no key reaches a device that left before it; `NoKeyLost`: a key that was sealed arrives, or is lost for one of three named reasons | 2,561,611 |
| `key_order` | 2 devices of the owner, 1 task at a time, no faults | **violated**: `CatchesUpInOrder` | |
| `share` | 3 tabs on 2 devices, 1 post, 4 tokens, 1 loss | `OneDevice`: one device ever sees the position; `ViewerKeepsCookie`; `EveryPageEnds` (liveness) | 1,055,571 |
| `pings` | 2 circles, 2 pings, 2 flushes, batches of 1, clock to 3, window 2, 1 fault, 2 membership changes | `NothingLost`, `MapNeverGoesBack`, `DrainsUnlessRefused` (liveness) | 1,403,199 |
| `pings_stale` | 1 flush, a batch of 2 | **violated**: `StalePingsGo` | |
| `launcher` | 2 launchers, each started any number of times, a back-off of 1 | `StartedApartHeldApart`, `StopEndsServer` and `EveryStartSettles` (liveness) | 255,070 |
| `launcher_race` | 2 launchers, back-off 1 and then 2 | **violated**: `OneHolder` | |
| `stores` | Postgres and SQLite; 2 requests of 2 accounts with 2 keys, 3 devices, 3 sessions; 3 PUTs of a user with 2 members and the circle to mute; 1 place, an app and a web editor, 4 versions; a founder and 2 users, 2 invites of at most 2 uses, 2 calls | `SessionsOfOwnDevices`, `AccountsAreWhole`, `DeviceIdentityIsStable`; `MutesInForce`, `NoEmptyMiddle`; `AppEditsAreNotLost`; `OwnedOrGone`, `RoleIsInvited`, `InviteOnlyWearsOut` | 2,471,212 |
| `alerts` | 2 members, a Web Push and an FCM endpoint, 2 workers, 2 rows; 1 alert, a grace of 2 ticks, 2 events on the wire | `SentIsDelivered`, `LiveSubscriptionsStay`, `NotifyIsAnswered` (liveness); `HiddenOnlyByOldAnswer`, `UntouchedAlertIsShown` (liveness) | 341,108 |

The bounds are the smallest at which each race can happen: two actors for a
check-then-act, a third where two of them must differ in device or user, channels
of capacity one so that they fill, one fault so that a retry meets its own effect,
a clock that passes the window. Larger instances are what the proofs are for.
Two launchers are enough for every pair of an acquisition with another, with a
holder or with what a killed one left; a pepper that was there before is in that run one
that an earlier start made. The sign-in gate has two accounts and two
addresses, so that each lock can be fed through the other dimension, and thresholds
that differ, so that a success, which clears the account's count and not the address's,
leaves the address locked alone. Three PUTs are what it takes for a skipped insert to
lose its row before its commit. Deadlock is checked except where the system really
stops: all keys generated and every device up to date (`rotation`), a link on which every
page has ended (`share`), bounded tables that are full or a deleted circle (`stores`).
Symmetry is used in the runs without liveness only.

### Fairness

- `RealtimeHub`: weak fairness of each case of the hub's select and of the steps a
  handler takes without its peer. Go's select chooses uniformly among ready cases,
  so no case is starved, and a handler that can run does. The peer, the publishers
  and shutdown are not fair.
- `Sessions`: a refresh that has begun goes on with its next statement, unless it is
  one of the fallible requests, which may fail at any statement.
- `ShareLink`: time passes (`Expire`), and a fetch that was begun ends; pages poll
  as they like.
- `PingPipeline`: fixes keep coming, and each ends in `flushAll`, so flushes begin;
  requests are served and answers arrive, except for a bounded number of faults.
- `Lockout`: time passes, and a request that passed the limiter goes on; nobody has
  to sign in, and nobody has to stop. `LocksEnd` is of each lock by itself.
- `Notify`: the feeder and each worker go on, and every call to a push service or to
  the store ends (`pushFanoutTimeout` and `pushPruneTimeout` bound them). The
  deadline may pass at any time or not at all.
- `SosAlerts`: time passes, a handler publishes what it stored, what is on the wire
  arrives or the connection ends; a client with a keyring polls every minute while its
  tab is visible (`IntervalPoll`), and polls do not fail for ever (strong fairness of the
  applied answer). Nothing makes the keyring arrive or the tab visible:
  `UntouchedAlertIsShown` is about clients that have both in the end.
- `Launcher`: both goroutines of a live launcher go on and their timers fire; a
  server that can be started again and again is started in the end (strong
  fairness: a binary that has vanished for good is not covered). Nothing is assumed
  of the server: it may hang while it opens, serves or stops.

### What the violations show

- `pings_stale`: a ping older than the retention window is taken, refused with its
  whole batch and taken again for ever; newer pings of every circle wait behind it.
- `key_order`: the owner rotates on a phone and then on a tablet that has not yet
  fetched the phone's envelope. The tablet's ring has the second key before the first
  one arrives, is appended and becomes its sealing key, although every envelope was
  opened. The comment of `key_manager.dart` claims the order for what one fetch
  returns; the ring it is appended to is not sorted. A repeated join with an old link
  does the same.
- `launcher_race`: a launcher that looks at a pid file between its creation and the
  write of the pid takes it for garbage and removes it, by then a live lock; two
  that find the same dead pid do it to each other. Both then provision and
  supervise. `StartedApartHeldApart` says when the lock does hold: as long as no
  launcher is started while another acquires it.

### Observations

Behaviour that the models show or that came up while writing them, and that is not
kept as a run of its own:

- Feed: a socket that read its circles before a removal and registers after the
  eviction was served stays subscribed for as long as it is open; an eviction that
  finds its channel full is dropped. `FeedExplained` names these cases and excludes
  others. After `Hub.Run` has returned, every handler blocks in `Unregister` (the
  process is about to exit).
- Sessions: a refresh token two rotations old is refused and does not revoke the
  session (`service.go:343`, against `DECISIONS.md:349`).
- Rotation: two rotations whose bumps precede both posts store under one epoch, and
  the first key never reaches the members (`keyenvelopes.go:142`); an envelope replaced
  between fetch and acknowledgement is acknowledged unseen; a ring loses a key when two
  activities of a device append to it at once (`key_vault.dart:136`). `NoKeyLost` names
  these and excludes others. A member who leaves between the device check and the
  transaction still gets an envelope.
- Membership: two overlapping accepts of one user consume two uses, and the second
  overwrites the role (`invites.go:171`).
- Share: a revocation between load and bind mints a cookie for a dead link, though
  nothing is served; the loss of the first answer locks the viewer out; two
  overlapping posts may leave the older position; a hidden tab does not poll
  (`ShareView.tsx:84`), so there the end by an answer of `EveryPageEnds` waits for the
  countdown or until the tab is looked at.
- Pings: a retry after the pruning of its ping stores and publishes it again, which
  `MapNeverGoesBack` shows to be harmless for the map; a leaver's last ping stays
  until the horizon.
- Sign-in: on Postgres two overlapping sign-ins with one key create two devices
  (`service.go:274`); on SQLite the second fails with 500, since a read that turns
  into a write on an old snapshot does not wait for the busy timeout
  (`sqlitedb.go:41`).
- Mutes: on Postgres overlapping PUTs of one user may leave the union of their sets, or,
  with three of them, lack a row whose insert was skipped as present
  (`mutes.go:98-118`). `NoEmptyMiddle` holds all the same.
- Lockout: the lock of an account may begin, by failures from another address, as that
  of the address ends, and the other way round, so that sign-ins of one account from
  one address can be refused without end although each lock ends.
- Places: the web editor sends the version its list has at the time of saving, not
  the one its user saw, so it overwrites an edit that arrived while it was open
  (`PlacesPanel.tsx:63`). `AppEditsAreNotLost` is therefore about the app.
- Push: a member who leaves after the query of POST /notify is notified once more.
- SOS: a live alert is hidden by an answer that is older than the grace of 15 s, when it
  arrives late or when a new keyring applies the cached one again (`SosCenter.tsx:29`),
  and by a change of the selected circle's summary, which empties the store
  (`Dashboard.tsx:86`); the comments at `SosCenter.tsx:27` ("must never drop") and in
  `store/sos.ts:30` ("Never hides a live emergency for a poll interval") do not except
  these. A client without a key, or in a hidden tab without a connection, does not show
  the alert at all, against "no emergency is ever silently missed"
  (`SosCenter.tsx:13`). A resolve that fails
  leaves the alert hidden, because an equal answer of the next poll does not run the
  effect again; an event `sos` may arrive after `sos_resolved`.
- Limiter: buckets are in memory, so a restart refills them.
- Launcher: a killed one leaves its server running, and its successor finds that
  server ready while its own child fails to bind and is restarted.

## Proofs

Every safety property that a passing run checks is also a theorem. All theorems hold
for every value of the constants that satisfies the named assumptions (`ASSUME`),
which TLC evaluates on every run: bounds are natural numbers (`MaxDevices` and
`MaxSessions` of `SignIn` among them), maps such as `UserOf` and `DeviceOf` are
functions, and a bucket is kept at least until it is full, `(Ttl + 1) * Rate >= Burst`
(`cmd/aul/main.go` has buckets that fill in a minute and are dropped after ten, or
fill in an hour and are dropped after two). No theorem has a hypothesis beyond these.

| Module | Theorems | Inductive invariant |
|---|---|---|
| `CircleFeedProofs`, the hub | `TypeCorrect`, `HubIsConsistent`, `SlotsAreAccounted`, `UnsubscribedStaysFinal` | `HubConsistent` with what a handler's `pc` says about its client (`ClientsAtPc`); the counters as cardinalities of a finite set of handlers past `Admit` (`SlotInv`); the order in each send channel, empty before registration (`OrderInv`) |
| `CircleFeedProofs`, the feed | `FeedTypeCorrect`, `FeedIsExplained` | a subscription without membership is explained already when the socket has only read its circles |
| `SessionsProofs` | `SessionTypeCorrect`, `NoDoubleSpend`, `RevocationIsFinal`, `RefreshRefinesChain` | a request past its lookup has a row, no two rows have the same current token, and a token that was exchanged is nobody's current one (`RequestsHaveRows`, `CurrentTokens`, `ExchangedTokens`) |
| `KeyRotationProofs` | `RotationTypeCorrect`, `RotationLocksOut` | whoever is a member has been one since every earlier bump, so recipients listed after the bump are insiders of its key (`RotationInv`) |
| | `SealedKeysArrive` | two parts. Epochs: a key stored under an epoch that is not its own crossed another rotation, as did the key the epoch belongs to, and a rotation that other keys have overtaken is crossed (`EpochInv`). Rings: a loaded copy lacks nothing of its ring but what is torn, and a key that is about to be acknowledged is in the ring or one of the exceptions (`RingInv`) |
| `MembershipProofs` | `MembershipTypeCorrect`, `CircleIsOwned`, `RolesAreInvited`, `InvitesWearOut`, `ModesAreOnesOwn` | no accept, leave or removal of the founder is under way, because the founder's role was "owner" whenever it was read; a deleted circle has no invites |
| `PingPipelineProofs` | `PipelineTypeCorrect`, `NoPingIsLost`, `MapsNeverGoBack` | a flush that is told "stored" holds pings that are stored; the newest ping of a circle exists, because times are bounded naturals (`WFMin`), and no pruning query removes it |
| `StoresProofs`, share links | `ShareTypeCorrect`, `OneDeviceOnly`, `ViewersKeepCookie`, `BindingIsFinal`, `PositionsGoToo` | tokens are minted once and held by one fetch; at most one device has a claim: it was served, has the bound cookie, or is about to get it |
| `StoresProofs`, sign-in | `SignInTypeCorrect`, `SessionsJoinOwnDevices`, `RegistrationIsWhole`, `IdentityIsStable` | a sign-in past its password check is of an account and the device it found is that account's (`RequestsAreOwners`); on SQLite, unless its snapshot is old, what it read of the devices is still so (`ReadIsCurrent`); the first device of several is a least element, which exists by `WFMin` |
| `StoresProofs`, mutes | `MutesTypeCorrect`, `MutesStayInForce`, `MutesHaveNoEmptyMiddle` | a transaction that overlaps no other of its user, on SQLite any, deletes all that is committed, so that its inserts meet nothing (`AloneReplacesAll`); an insert never meets a row that its own transaction has deleted (`PutInv`) |
| `StoresProofs`, places | `PlacesTypeCorrect`, `AppEditsReplaceWhatWasSeen` | the version an open or sent draft of the app carries is the one its user saw (`AppDraftsAreBased`) |
| `HostProofs`, launcher | `LauncherTypeCorrect`, `LaunchersAreHeldApart` | while no two starts have overlapped (`HeldApart`): one launcher at a time acquires, whoever has the lock is named in the file, a file without a pid is still being written, whoever is about to remove the file leaves nobody working behind it, and a pepper that is absent has been given to nobody |
| `HostProofs`, limiter | `LimiterImplementsBuckets`, `SignInsSeeIdealBuckets` | a bucket is full or holds at least what its silence has refilled (`SilenceRefills`), so one that the janitor drops was full, and dropping it is a stutter of `TokenBucket` |
| `HostProofs`, lockout | `LockoutTypeCorrect`, `OverlapBoundsGuesses` | recent failures are counted as the cardinality of a finite set of rows; a check adds one guess under way while the count is below the threshold, a failure turns one into a row, a success clears rows, time maps the rows that stay one to one into the old ones (`LockoutInv`) |
| `AlertsProofs`, push | `NotifyTypeCorrect`, `NotificationsReachOnce`, `PruneTakesDeadOnly` | a row is in the queue or with one worker, never both (`RowsAreHandedOutOnce`), what is pushed was handed out (`ReachedOnce`), and the row a prune deletes by its id is of the endpoint that was read (`IdsAreStable`) |
| `AlertsProofs`, SOS | `SosTypeCorrect`, `YoungAnswersHideNothing` | events that say an alert is over are true (`OverEventsAreTrue`), and an active alert that the answer under way or the cached one lacks was raised after the server had read it, so it is no older than the answer (`MissingIsYounger`) |

A file may hold the proofs of several modules (`StoresProofs`, `HostProofs`,
`AlertsProofs`); their theorems do not depend on each other.

Model-checked only: the liveness properties (`SlotFreed`, `EvictionTakesEffect`,
`LeaverIsUnsubscribed`, `DoubleSpendRevokes`, `PreviousTokenRevokes`,
`EveryPageEnds`, `DrainsUnlessRefused`, `LocksEnd`, `NotifyIsAnswered`,
`UntouchedAlertIsShown`, `StopEndsServer`, `EveryStartSettles`), since TLAPS does not
reason about fairness here. Induction over data is out of its reach too; where a
proof needs a least or a newest element it takes it from `WFMin`, an instance of
well-foundedness without an operator parameter.

## Abstractions

Sealing is perfect and left out; a blob is its key or its number. Hashing is
injective. A statement is atomic, and so is a transaction except in `SignIn` and
`Mutes`; SQLite and Postgres agree in what a statement does. Time passes in events
(`Expire`), in ticks, or in a small clock shared by phone and server. Rate limits
(outside `RateLimiter` and `Lockout`), sizes and the parsing of requests are left
out: a malformed request changes nothing. Tokens of a bucket are whole. One circle, one link or one phone is modelled where others do not
touch its rows. A circle's deletion is in `Membership` and `CircleFeed`; for
`PingPipeline` it is a lost membership.

## Plan

Done, in this order: the hub and the feed, sessions, key rotation, membership,
share links, the ping pipeline, each with its proofs; then the lockout and the
limiter, sign-in, mutes, places, push, SOS, the launcher; then the theorems about
those; then key rotation, mutes and SOS without the simplifications they had (activities
that do not overlap, inserts folded into the commit, a client that always has its key).

Next:

1. When a ring is in order after all: one owner device, no repeated join and no
   overlap, as a property of the behaviours in which these hold; and what the abstract
   specifications (`RefreshChain`, `TokenBucket`) promise, proved of them alone so that
   their refinements inherit it.
2. The app's stores shared by two isolates: the session client (refresh by two
   isolates, a failed refresh that clears the session) against `RefreshChain`, and
   the share feeder's key cache (add, forget and sync as load-then-persist).
3. SOS across circles in the app; the realtime client's reconnection with the merge
   of polled and pushed positions; geofences and the arrivals announced across
   restarts.
4. The durations of invites, pings and shares as integers of their width.

## Not modelled

Cryptography (covered by the repository's cross-language vectors), HTTP plumbing
and static files, configuration, the audit log, the launcher's search for its public
origin, screens, self-update, native services beyond what they deliver, deployment
scripts. Each is a component of
`PROJECT.json` with its reason.
