# A TLA+ model of the Domonap Telegram bot

The bot is one asyncio process: aiogram handlers for Telegram updates, a watcher for incoming intercom calls, one
client of the Domonap API, and a SQLite file. Nothing runs in parallel except the SQLite thread and a watchdog
thread, but almost everything awaits, and what was read before an await may be stale after it. That, crashes
between two commits, and a handful of caches kept in step by hand are what the models are about.

Paths below are relative to `src/src/domonap_bot/` of this repository, documents to `src/`.

- [The system](#the-system)
- [The modules](#the-modules)
- [The runs](#the-runs)
- [Fairness](#fairness)
- [What is proved](#what-is-proved)
- [Where the code and its documents disagree](#where-the-code-and-its-documents-disagree)
- [What is not modelled](#what-is-not-modelled)
- [Plan](#plan)

## The system

| Part | State | Operations | Talks to |
|---|---|---|---|
| Call watcher, `telegram/call_watcher.py` | `_seen_ids`/`_seen_order` (1000), `_pending_deliveries`, `_active_notifications`, the door map | `_run`: wait for a session, prepopulate, hub session, polling window; `_handle_payload`, `_handle_entry`, `_send_notification`, `_send_with_retry`, `_close_notification` | client (call log, photos), hub, Telegram, access list |
| Domonap client, `domonap/client.py`, `auth.py` | access and refresh token, expiration, `_refresh_token_invalid`, `_refresh_lock` | `_request` and `_external_authorized_request` with the 401 retry, `_try_refresh`, `refresh_session`, `confirm_login`, `mark_session_expired`, `hydrate_from_storage`; the endpoints | Domonap, session storage, the invalidation callback of `main.py` |
| SignalR transport, `domonap/signalr.py` | WebSocket, reconnect delay | `listen_once`, `_negotiate`, `_handle_record`, keepalive | hub, `refresh_session` |
| Session storage, `storage/tokens.py` | one JSON record, six keys of older versions | `save`, `load_full` with migration, `clear` | SQLite |
| SQLite, `storage/sqlite.py` | one key-value table | `set`, `get`, `delete`, the access keys | |
| Access and roles, `telegram/access.py`, `admin.py`, `bot.py` | access keys on disk, two in-memory lists, `role_lock` | grant, revoke, remove; rebuild at start | SQLite |
| Invites, `telegram/invites.py`, `menu.py` | one record per token hash, `_lock` | create, consume, `/start <token>` | SQLite, access list |
| Actions and cooldown, `telegram/handlers.py`, `doors.py`, `cooldown.py` | one time per (user, action), at most 2048 | `is_ready`, `set`, `clear`; open a door, answer, end | client |
| SMS login, `telegram/auth_flow.py` | per user: waiting for a code | `submit_sms_code`, cancel | client |
| Call and door screens, `telegram/calls.py`, `doors.py`, `navigation.py` | the view remembered per user (LRU), the messages themselves | list, page, filter, detail, back | client |
| Callback aliases, `telegram/callback_utils.py` | two bounded tables | shorten, resolve | screens |
| Health, `health.py` | heartbeat file | heartbeat task, watchdog thread, health check | clock, file system |
| Start and shutdown, `main.py`, `config.py` | the set of background `clear()` tasks | wiring, ordered shutdown | all |
| Backup and storage tools, `backup_daemon.py`, `storage_tools.py` | backup files | copy, verify, prune, replace | file system |
| Camera proxy, `web/camera_proxy.py` | links and sessions with expiry | create, redeem, relay | client |
| Monitor and tools, `domonap/compatibility.py`, `tools/` | counters; a JSON file | reports | |
| Presentation: `keyboards.py`, `ui/`, `commands.py`, `errors.py`, `url_policy.py`, `logging_config.py` | none | pure functions | |

### What is hard

*Call watcher.* One call is reported by a push, by a repeated push, and by the call log, for as long as the log page
shows it; a failed delivery is retried per recipient over several rounds; two bounded caches decide who has been told.
Correct means: each allowed user gets at most one card per call; a retry that is due is not swallowed by a cache; the
single task never gets stuck in one call.

*Session.* Requests that are refused together must rotate the token pair once; a failed rotation must release the
lock; a logout, a login, a rejection and a rotation overlap, and each writes memory and disk at different times.
Correct means: what the disk ends with is the pair in memory or nothing; a pair already exchanged does not come back
once its successor is saved; a session the server still takes is not dropped; a session that was ended stays ended.

*Storage.* Each statement is its own commit. Correct means: what a start finds is what one complete save wrote.

*Roles.* Disk first, memory after an await, and a removal is three commits. Correct means: somebody can administer the
bot; an administrator may use it; a restart changes nobody's rights; an invite admits one user.

*Actions.* The check and the mark of the cooldown are separated by an await in the buttons. Correct means: an action is
not repeated by accident, and nobody is locked out.

*Screens.* The filter is read before and written after the requests, and the way back edits a message that may have
become one of another kind. Lists are read page by page while they change; ids too long for a button are given short
names in a bounded table; overlapping taps on a card each draw controls computed from what they were given. Correct
means: the remembered page exists, the way back leads where README.md says, no entry is lost between pages, a button
never acts on another id than the one it was made for, and a card never shows as done what was not.

*Process.* The loop may stall, the watcher's task may die alone, the wall clock may be set, the start may fail half-way
and every step of the shutdown may hang. Correct means: the stuck process is ended, a healthy one is not, a shutdown
ends, and one that gave up on nothing leaves nothing open and no invalidation unsaved that it could have waited for.

*Hub.* A session may end by the server, by an error of its consumer or by a cancellation, at any await, the one of its own
cleanup included. Correct means: refreshes are bounded, no keepalive outlives its session, a stop stops.

*Files.* Backups are made, named by the wall clock and pruned one by one, beside a database that is written and restored,
by processes that die. Correct means: nothing is half copied, the newest backups are there, no more than the limit.

*Camera proxy.* Requests await the media server after they looked their link up. Correct means: a link works until it
expires, a session can be reached until then, and is deleted once.

## The modules

Each component module has its state as VARIABLES, one action per piece of a coroutine between two awaits (or per
statement, file operation or system call where processes die), a next-state relation, a specification, and its
properties at the end; `<module>Proofs` has the theorems. `MC<module>` adds what TLC needs: symmetry, one checked
assumption, or a sum of components. Definitions whose comment begins with "Mutant" are small plausible errors in the
definition that follows; they show that each property can fail.

*Sums.* Components that share no state are model-checked side by side in one run: a variable `part`, chosen at the start,
says which of them moves, the others stay in their initial states, and each property is about one of them. So the states
of the run are the states of one component plus those of the other, not their product, and fairness is stated for
the steps of a part. The sums are `MCActionCooldown` (ActionCooldown, CardControls), `MCCallScreens` (CallScreens,
Paging, CallbackAlias), `MCTokenStore` (TokenStore, Backup), `MCRuntime` (Runtime, CameraProxy) and `MCClient`
(TokenSession, HubTransport).

### CallWatcher, and CallNotice above it

Calls are numbered in the order they rang, so the log page is an interval; a call id is opaque to the code. The step is
what the one task does between two awaits, and every send of a card is one. `mode` is the position in `_run`, `page` the
entries still to be handled, `cur` the round in progress with the recipients still to be served. `Handle` is
`_handle_entry` up to its first send; `HubCalling` is `_handle_payload`; the bookkeeping that follows the last send
(`_record_delivery_result`, `_add_seen`, including evictions) is part of that send's action, as it is in the code.
`SendTransient` covers flood waits and network errors and the fallback from photo to text. The environment rings, loses
or repeats pushes, changes the access list between any two sends and restarts the process.

`CallNotice` is the promise without caches and transports: per call, `settled`, what is `owed` to whom, and `cards`. A
settled call is forgotten only when the page no longer shows it, a retry serves only users the round before left out,
and no call has `MaxRounds` unfinished rounds. `ImplementsNotice` is the refinement: `settled` is the set of seen ids,
`owed` the pending deliveries.

### TokenSession

A pair is named by the order in which the server issued it; 0 is none. `task` has one program counter for each
`_request`, `refresh_session`, login and logout; `Holding` are the counters inside `async with _refresh_lock`. `db` is
the queue of the SQLite thread, so a task that awaits a statement resumes when `DbStep` has committed it. `clears`
counts the `clear()` tasks the callback in `main.py` has started. The server is `issued`, `good` (refresh tokens it
exchanges), `live` (access tokens it accepts), `expired`. `Exchange` happens at the server, `Granted`/`Denied` when the
answer arrives, `RefreshFails` when it never does: between them the pair is rotated and the client does not know.
`Crash` restores what is on disk. History: `origin` says of every pair which one was exchanged for it, which task it was
issued to, and whether that is a login that registers the device before it saves (`Held`); `lost` are the pairs that went
with an answer, or with a process that died before it saved them. A pair is `Underway` from its exchange until it is on
disk.

Simplifications: reading the session at start is one step; the deletions of legacy keys after a save are left to
TokenStore; a new pair is always complete.

### HubTransport

`hub` is the position of the watcher's task in `listen_once`: negotiation, refresh, upgrade of the socket, connection,
consumer, cleanup. Both retries are there, with the negotiation each of them repeats. `ping` is the keepalive task,
`orphan` a session an error of the consumer left to the garbage collector, which the event loop closes. `Cancelled` says
where a cancellation of the watcher takes its task; in the cleanup it is passed over, because `await keepalive` there
suppresses every `CancelledError`, and `StopInsists` is the second cancellation, by the time limit of `_bounded_close`.
What a refresh does to the token is any outcome; what it does to the session is TokenSession. What a push says is
CallWatcher.

### TokenStore, and SessionRegister above it

`record` is the JSON record, `plain` whether it is unencrypted, `legacy` the keys of an older version still there.
Every action is one committed statement. `Main` is the start (`load_full`, and the save that migrates); the other tasks
save and clear. `SessionRegister` says that the whole is one register in which each save and clear takes effect once or
not at all.

### Backup

A file is represented by the number of the committed state it holds, 0 when it holds none. The service copies, checks,
renames (`Named`), and removes the doomed names one by one (`Unlink`); the restore tool copies beside the database and
renames. The bot writes with a rollback journal: a bot that dies in a write leaves the journal, the next one to open the
database for writing plays it back into whatever file has the name by then, and the service, which opens it for reading,
cannot copy meanwhile. Bot, service and tool die between any two steps; the clock may be set. `origin` (what the database
should hold) and `made` (per backup completed, those completed since) are history.

### AccessRoles

`allowedKeys` and `adminKeys` are on disk, `access` and `admins` in memory. A handler passes the panel's check (`Panel`),
waits for `role_lock`, counts administrators, and then commits and changes memory step by step. `Restart` rebuilds the
lists as `build_bot` does: stored users join the configured ones, a stored administrator counts if his user is stored
too. An invite is created, opened by a link (`StartInvite`, `Consume`, `Claim`), and admits (`Allow`, outside
`role_lock`). A commit of a key that is followed at once by the change in memory is one step. `overlapped` is history:
the users an invite admitted while they were being removed.

### ActionCooldown and CardControls

A mark is represented by its age, capped at the timeout, which makes the state space finite without stopping the
clock. `Tap` checks, `Acknowledged` marks and sends the request (no check in between, as in the code), `Command` is
`/open`, which does both at once. `GivenUp` is the eviction from the full table. `past` and the task's `late` are history
variables the property needs.

`CardControls` is what the same taps do to the card of a call. Its two rows are the door and the call; a handler
holds the controls it was given with the tap (`saw`), marks its row in them after a success (`Marked`), and draws them
(`Drawn`), whatever the card shows by then. `CallEnded` is the watcher taking the controls away. `did` and `missed` are
history: what has succeeded, and what has changed on the card since a tap.

### CallScreens, Paging and CallbackAlias

`CallScreens`: the screens of one user. `shown` is what each message displays with the buttons that follow from it, `nav`
the remembered view, `pages` the log at the server, which only grows. A tap starts a handler (`PageTap`, `FilterTap`,
`CallTap`, `BackTap`), which then acknowledges, loads, possibly loads the last page instead, draws. `Edit` is
`edit_text`: on a photo or a deleted message Telegram refuses. `find_call_log` is known only by its outcome. `calm` is a
history variable: the taps came one at a time and none failed.

`Paging`: `get_all_keys` and `find_call_log`, a step per page, and the loop of `get_doors` that merges the keys read, a
step per key (`MergeKey`; nothing runs in between, so the steps only give the loop an invariant). The lists change
between two pages: entries are added anywhere or removed. The server may give out smaller pages than asked for, leave
out the total or the page size, or call every page the first. `More` is the condition of the loop over the pages.

`CallbackAlias`: `table`, the ordered dictionary as a sequence of aliases with their ids, and `inverse`, with the eviction
of the least recently used alias from both. `given` and `uses` (the tokens in the order of their last use, without a
bound) are history.

### Runtime

`main` is the position in `main()`: the steps of the start, polling, and the steps of its `finally` block in their order.
`hb` is the heartbeat task, which reads the clock (`stamp` is the time it has read), truncates the file and writes it: a
stall or a read of the watchdog can fall between any two of them. `dog` is the thread: it waits, reads the file,
judges the beat it has read by the clock of then, and ends the process without looking again. `BeginStop` sets its
stop flag, and `Joined` goes on when it has ended or when `patience`, the timeout of the join, is used up; the thread
then runs beside the closing steps. `bound` says that the client can call `on_token_update`, which it can even after
it is closed; `clear` are the tasks an invalidated session so starts, `batch` those the drain finds and waits for,
`late` those started after it looked. A step of the start may fail half-way (`Partly`): the storage open and no client,
or a proxy whose runner is set up and whose site cannot be bound, which `main()` knows nothing of. The heartbeat in
`file` is its age on the wall clock, which `SetClock` changes. A stalled loop needs no action: it is a loop that takes
no step while `Tick` and `Watchdog` go on. `Restart` is the container's `restart: unless-stopped`. `late`, `silent` and
`trouble` (the shutdown gave up on a step) are history.

### CameraProxy

Links and sessions are numbered in the order they are created; `left` is the time a link has, `via` the link of a
session. `PrunedLinks` and `PrunedSessions` are `_prune`, which every lookup performs first. A request is a task that
looks up, awaits its body or the media server, and goes on with what it found. `asked` counts the deletions sent.

## The runs

| Run | Instance | Question and answer |
|---|---|---|
| `CallWatcher_safety` | 2 users, 3 calls, seen 2, pending 1, 3 rounds, 2 attempts, 1 restart | Are the caches consistent, is a due retry never marked seen, and does the watcher implement `CallNotice` (which gives each user one card)? Yes. |
| `CallWatcher_polling` | 1 user, 5 calls, seen 4, page 2, pending 1, text only | The same refinement with real evictions; every round ends and every call on the page settles. Yes. |
| `TokenSession_all` | 2 requests, `refresh_session`, login, logout, 2 pairs, a crash into a process that registers its device | Does the disk end with the session in memory (`NeverStale`), when does it hold a pair already exchanged (`SpentOnlyUnderway`), is a pair spent only when its access token was refused, and when is a session dropped that the server still takes (`WipeOnlyDead`), over every interleaving? All hold. |
| `TokenSession_locked` | `MCClient`: 2 requests, a logout, 2 pairs, a crash; and the hub sessions | Every request ends, also when refreshes fail while others wait for the lock. A hub session asks for at most three refreshes, no keepalive outlives its session (`HubSafe`), and a stop closes everything although its cancellation may be lost (`StopClosesAll`). Hold. |
| `TokenSession_logout` | a request, a login, a logout | `LogoutStays` is violated. |
| `AccessRoles_all` | 3 users (one a configured administrator), 2 handlers, 2 invites, 1 crash | `AdminRemains`, `AdminsAreAllowed`, `RestartChangesNothing`, `InviteOnce`. Hold. |
| `AccessRoles_orphan` | 2 users, 1 handler, 1 crash | `AlwaysAdmin` is violated. |
| `TokenStore_crash` | `MCTokenStore`: 2 tasks, an older installation with four of six keys, 2 crashes; and 2 backups kept, a clock of 4, 2 committed states, the clock set once | The storage implements `SessionRegister`. No backup and no database is half copied (`NothingTorn`), the newest backups are kept until the clock is set back, and a finished round leaves no more than the limit. Hold. |
| `ActionCooldown_taps` | `MCActionCooldown`: 2 buttons, a command, 3 keys, a table of 2, timeout of 2 ticks; and a card with 2 handlers | `RateLimited`, `CooldownEnds`; `ShownDoneWasDone`, `RevivedOnlyByOverlap`. Hold. |
| `CallScreens_taps` | `MCCallScreens`: 2 handlers, 2 pages, the menu and a photo; 2 types of lists of up to 3 keys, 2 per page, 1 change; 3 ids, a table of 2, 5 draws | `PageExists`, `ReturnPreserves`; no key is missed (`KeysComplete`), the doors are those of the keys (`DoorsOfKeys`), a call that is there is found (`FoundIfThere`); `NeverAnother`, `RecentWork`. Hold. |
| `CallScreens_photo` | 1 handler | `BackReturns` is violated. |
| `Runtime_life` | `MCRuntime`: beats valid for 1 tick, grace 2, poll 1, 2 `clear()` tasks, 1 change of the clock, 1 restart; and links of 2 ticks, a table of 1, 3 links, 2 sessions, 2 requests | `FreshMeansAlive`, `CondemnsOnlyTheStuck`, `StuckEnds`, `CleanExit`, `StopEnds`; `LinkHonoured`, `SessionReachable`. Hold. |

Every type invariant is proved (below), and a run repeats one only where it bounds what a retry or a loop may do: the
files of Backup, the refreshes of a hub session (in `HubSafe`).

### Bounds, and why they are enough

*Watcher.* `MaxRounds = 3` and three calls with a pending table of one make a delivery be retried, given up, and
pushed out by another. Evictions from the seen ids depend on the proportion of the cache to the page, 1000 to 10 in
the code: with 4 to 2 every eviction happens and the refinement holds; with 3 to 2 a call is forgotten while the page
still shows it and TLC reports a second card. So the run shows that twice the page is enough on that instance, and
`ImplementsNotice` really depends on the constants. For which it is proved to hold is said below.

*Session.* Two pairs allow one rotation or one login after the first; `TokenSession_logout` has the third. One crash
covers a crash in each state, since the state after it does not depend on the past beyond the disk and the server.
`NeverStale` and `SpentOnlyUnderway` speak of the processes before and after it, with the exception of held pairs: those
of a login with device registration, which are used before they are saved (`client.py:508`). The
system may stop when the pairs are used up, or with a stopped transport, so these runs do not look for deadlocks. The hub
sessions need no bound.

*Roles.* Two handlers are the smallest number that overlaps; three users are two administrators and a third who is
invited. Two invites let somebody open one, be removed, and open the other between the removal's commits and its change
of memory (`telegram/menu.py:65` takes no lock); the code sets no limit, and neither do the theorems. `AdminsAreAllowed`
and `RestartChangesNothing` except exactly the users to whom this has happened (`overlapped`) and hold for everybody else
in the same state. `RestartChangesNothing` speaks of the first process and of users who are not configured, since a
configured user returns by design. `AdminRemains` is about the stored administrators, with configured ones beside
them. After a crash nobody may be left to act, so this run does not look for deadlocks.

*Storage and backups.* Two backups kept and four seconds give rounds that make none, one or two too many, two rounds in one
second, and rounds cut short at every step before one that finishes. Two committed states are an old and a new one.

*Cooldown and cards.* The table of two with three keys makes evictions happen, both of expired and of valid marks. Two
ticks distinguish new, old and expired. Two handlers are the smallest overlap; the theorems are for any number. A card
whose call has ended stops, so the run does not look for deadlocks.

*Screens.* Two pages let a page be too high when the filter changes; two handlers overlap at every await. The log
only grows: if it also shrank, a list could say "page 3 of 2", harmlessly. A restart is modelled while no tap is
handled. Three entries at two (or one) per page are up to three pages; more than one change adds no new kind of shift.
Three ids against a table of two evict, and five draws let an id come back under a new alias.

*Process.* A beat may be 0 or 1 ticks old, or of the future, or too old, and the grace is one tick more than that: in the
code 60 seconds against 45 (`health.py:11-13`), with a poll of 5 and a join of 10. A second process is enough to meet the file of a first one. The proxy's table of one
holds two links between an addition and the next pruning, and the third link pushes one out. An ended process that is
not restarted stops, so the run does not look for deadlocks.

## Fairness

*CallWatcher* assumes WF of the watcher's task, because the event loop runs a ready task and every await of it has a
timeout, and SF of a successful poll, because a server that refuses every poll for ever can settle nothing. Nothing is
assumed of pushes, sends or the access list. `PolledCallsSettle` has the premise that the watcher keeps coming back to
polling: a hub session that never ends is legal, and then nobody retries.

*TokenSession* assumes WF of each task's next step and of the SQLite thread, and SF of entering the lock, because
`asyncio.Lock` serves its waiters in order; WF would not do, since the lock is taken and released again and again by others.

*HubTransport* assumes WF of what the event loop does by itself: closing a session left behind, finishing a cleanup,
ending the keepalive once the stop event is set, the time limit of `_bounded_close`, and `close` after it. Nothing is
assumed of the server or of a session in progress.

*Runtime* assumes WF of time, of the watchdog thread and of the steps of the shutdown, which all have time limits, the
join included. It assumes nothing of the heartbeat task and the start, so a loop may stall anywhere in them.

*ActionCooldown* assumes only that time passes; that is enough for `CooldownEnds`, whatever the user does.

The safety properties assume nothing.

## What is proved

The theorems hold for every number of users, calls, tasks, crashes and for every limit the named assumptions allow
(`ConstantsOK`, `TasksOK`, `ConfigOK`, `StoreOK`, `LimitsOK`, `BoundsOK`, `CameraOK`, `RuntimeOK`, `BackupOK`, `AliasOK`,
`PagingOK`, each evaluated by TLC on its instances).

| Module | Theorem | Statement |
|---|---|---|
| CallWatcherProofs | `TypeCorrect` | `Spec => []TypeOK` |
| | `CachesStayConsistent` | `CachesConsistent`: the seen ids and their order agree, no duplicates, bounded; likewise the pending deliveries |
| | `RetriesNotSwallowed` | a call that waits for a retry, or is being delivered, is not in the seen ids |
| | `SeenKeptWhileExposed` | with `MaxSeen >= PrePage + 2 * (3 * PollPage + HubCap)` or `NCalls =< MaxSeen`, `[][...]`: but for a restart, no step drops a seen id whose call is on the log page or queued |
| | `WatcherImplementsNotice` | under the same condition, `Spec => Notice!Spec`: the refinement of `CallNotice`, forgetting and restarts included |
| TokenSessionProofs | `TypeCorrect` | `Spec => []TypeOK` |
| | `NoNeedlessRefresh` | a refresh under the lock spends only the pair whose access token was refused |
| | `OnlyDeadSessionsDropped` | the action property `WipeOnlyDead`: a session the server still takes is dropped only by a logout, or by the rejection of another pair where a refresh outside the lock or a login takes part |
| | `DiskNeverStale` | `NeverStale`: in every process, the disk ends with the session in memory or with none, but for held pairs |
| | `ExchangedPairsPass` | `SpentOnlyUnderway`: the disk holds a pair already exchanged only while its successor is on the way, or if that was lost with an answer or a crash; held pairs excepted |
| | `HubIsSafe` | `HubSpec => []HubSafe`: a hub session asks for at most three refreshes, and its keepalive does not outlive it |
| AccessRolesProofs | `TypeCorrect` | `Spec => []TypeOK` |
| | `AdministratorRemains` | the action property `AdminRemains`: while somebody is a stored administrator no step takes the last key nor, before a crash, the last role |
| | `InvitesAdmitOne` | an invite admits at most one user |
| | `AdministratorsAllowed` | `AdminsAreAllowed`: whoever has the role is allowed, crashes included, unless he was admitted in the middle of his removal |
| | `RestartsChangeNothing` | until the first crash, `RestartChangesNothing`: at rest the memory mirrors the disk, but for the access of such a user |
| StorageProofs | `TypeCorrect` | `Spec => []TypeOK` |
| | `LegacyFoundWhole` | a legacy session that a load would return has all its fields |
| | `StoreIsRegister` | `Spec => Register!Spec`: the refinement, for any tasks, keys and crashes |
| | `FilesTypeCorrect` | `BackupSpec => []BackupTypeOK` |
| | `NothingHalfCopied` | `NothingTorn`: no backup and no restored database is half copied, whoever dies when |
| | `NewestStay` | `NewestKept`: until the clock is set, the newest backups are kept |
| | `PruningReachesLimit` | the action property `PrunedToLimit` |
| TapProofs | `TypeCorrect` | types, and the table of marks stays bounded |
| | `RepeatsLimited` | the action property `RateLimited` |
| | `CardTypeCorrect` | `CardSpec => []CardTypeOK` |
| | `NoFalseDone` | a card shows as done only what has succeeded, for any overlap of taps |
| | `RevivalsAreOverlaps` | the action property `RevivedOnlyByOverlap` |
| CallScreensProofs | `TypeCorrect` | `Spec => []TypeOK` |
| | `ShownPagesExist` | the remembered and the shown pages exist in the log of their filter |
| | `ReturnsPreserve` | the action property `ReturnPreserves` |
| | `TablesCorrect` | `AliasSpec => [](AliasTypeOK /\ TablesAgree)`: the table is bounded, and its two halves are inverse |
| | `ButtonsKeepTheirId` | `NeverAnother`: a button means the id it was made for, or nothing |
| | `RecentOnesWork` | `RecentWork`: as many of the aliases used last as the table holds all work |
| | `PagingTypeCorrect` | `PagingSpec => []PagingTypeOK`: no more pages are asked for than the limit |
| | `NoKeyIsMissed` | `KeysComplete`, for any lists, page sizes, limits and insertions |
| | `NoCallIsMissed` | `FoundIfThere`, likewise |
| | `DoorsAreThoseOfTheKeys` | `DoorsOfKeys`, for any keys: each door once, in the order of the keys, with its first field |
| CameraProxyProofs | `TypeCorrect` | types, and the table of links holds at most one more than the limit |
| | `LinksHonoured` | a link works until it expires and not after, unless the limit's worth of links came after it |
| | `SessionsReachable` | a session is reachable until its link expires or its deletion is asked for, which is done once |
| RuntimeProofs | `TypeCorrect` | `Spec => []TypeOK` |
| | `FreshIsAlive` | `FreshMeansAlive`: unless the clock was set, a fresh beat is of this process, whose loop was alive |
| | `ExitsClean` | `CleanExit`: an exit that gave up on no step leaves nothing open that `main()` knows of, and every invalidation begun before the drain is saved |
| | `OnlyStuckCondemned` | the action property `CondemnsOnlyTheStuck`: on a beat that is still in the file, the thread decides to end only a process that is silent too long, whose watcher is dead, or that is in the closing steps |

The proofs of components that one run checks side by side are in one module, as `StorageProofs` (TokenStore, Backup),
`TapProofs` (ActionCooldown, CardControls), `CallScreensProofs` (CallScreens, CallbackAlias, Paging) and
`TokenSessionProofs` (TokenSession, HubTransport); each component has its own specification and its own invariant.

The arguments, and why each invariant had to be strengthened:

- *Watcher.* `IInv` is the three cache invariants together, since each eviction from the pending table writes to the seen
  ids, plus two facts about the control: before the log is prepopulated both caches are empty (prepopulation replaces
  the seen ids as a whole), and a round runs only inside a handler. Lemmas about `AddSeen`, `PopPending` and
  `StorePending` say what each does to the consistency of both caches; the actions cite them. The refinement adds
  `CardsInv`: whoever a round has still to serve or has left out has no card of the call (`RoundInv`), and between the
  rounds whoever is owed a card has none (`OwedInv`). The hard part is forgetting: an id dropped while its call is
  `Exposed`, that is, on the log page or in a queue of the watcher, would be taken for a new call. Ids are dropped in the
  order they were added, so the question is how many can be added behind one while it is exposed. Not more than may be
  handled meanwhile (`May`): the calls within a page of it and whatever was queued before, because what waits is never
  followed by something a page older (`QueueInv`). But a delivery that is given up also adds an id, of a call that may
  be long gone. `Room` pays for these: it bounds, for every exposed id, what is behind it or may come there, plus what may
  still be stored as a new delivery, since only a new delivery pushes an old one out. No step makes this sum grow
  (`WeightShrinks`, `WeightPays`), and the prepopulated page starts it at no more than
  `PrePage + 2 * (3 * PollPage + HubCap)`. That is 80 and twice the pushes that wait, for the thousand ids of
  `call_watcher.py:27` and the pages of `call_watcher.py:125` and `:137`: enough while no more than 460 pushes wait behind
  a round (how many may wait is the transport's business, the watcher sets no limit). The size of the pending table plays
  no part. The condition is sufficient, not necessary: `CallWatcher_polling` holds with less.
- *Session.* `IInv` is that every token number anywhere has been issued (`Typed`), that a task waits for at most one
  statement and at the place where `DbStep` resumes it (`QueueOK`), and that a task waiting for the lock or posting
  carries a token the server refused (`Refused`), which stays true because access tokens never come back to life.
  `WipeOnlyDead` adds `Alone`: of the tasks that take the lock one is inside, the pair it posts is the one in memory,
  or memory is empty or `Foreign` (of an unlocked refresh or a login), and a rejection it carries is about a dead pair. So
  whoever drops a pair that is alive either took no lock or dropped a foreign one. `NeverStale` needs one more fact than
  itself: a login between the registration of its device and its save carries a held pair (`MineHeld`). Every statement
  that is queued then deletes, or saves what is in memory; and memory is emptied only with a clear to follow.
  `SpentOnlyUnderway` is an order: along the line of pairs that starts with the disk and continues with the queue, each one
  that was exchanged has its successor on the way to a task, lost, or later in the line (`InOrder`). Executing a statement
  only drops the head of the line; appending one is safe because a pair that was given to a task and is not in
  memory yet is known to this task alone (`Secret`), so it is exchanged only after its own save is in the line. A crash
  drops the queue, and what it drops is `lost`.
- *Roles.* `AdminInv`: `role_lock` holds one task at a time, until a crash all stored administrators are in memory
  (`StoredAdmins`), and whoever is about to drop a key leaves another one behind, unless there was none to begin with
  (`AnotherStays`: the count taken under the lock is still right when the key is dropped; `KeyDropped` carries it to the
  change of memory). `InviteInv`: one handler at a time has looked at a record it may claim, whoever has claimed one is
  the only one to have it, and a record still there has admitted nobody. `AdminsAreAllowed` needs that memory holds what
  is stored, but for the users overlapped (`KeysLoaded`, with `Admitted` the users in memory and those), that a grant
  under way is for one of them (`GrantsAllowed`), and that whoever is being removed has no access key left past its
  commit, unless he is overlapped (`RemovalsInOrder`). `MirrorInv` says who may be in memory and not stored, or the other way
  round: only somebody whose removal is between its commits, so that at rest a restart loads what memory holds; that it
  loads no more, but for the overlapped, is `KeysLoaded` again.
- *Storage.* `Inv` is a conjunction of five facts: before the load has finished no other task has begun
  (`StartsAlone`); what a task that has yet to write carries (`Writes`); the access token is the first legacy key deleted
  (`AccessFirst`), so an incomplete legacy session is never returned (`Whole`); a migration saves what was found
  (`Migrates`). Each statement is then one `Take`, or a stutter.
- *Cooldown.* `Remembered` says that a key whose last request is recent and was not given up has a mark of the
  same age, `LetThrough` that a tap between check and mark either found the key ready or is late.
- *Screens.* `Clamped` says a handler about to reload carries a page the log has, `Counted` that one about to draw
  carries a page below the count it was told. Both survive because the log only grows. For the way back, lists and calls as
  text are only ever on the menu message (`MenuOnly`); while taps come one at a time, the remembered view is that of the
  menu, unless a page asked for by another button is on its way and will replace it.
- *Cards.* What a handler holds as done has been done (`DoneIn`), because `Marked` adds only what has just succeeded; and
  a control a handler holds as live is live on the card or has changed since the tap (`Known`), because every change of
  the card is recorded with every handler.
- *Proxy.* `LastLinks`: of the links handed out last, as many as the limit, those not expired are in the table.
  Pruning keeps the newest, and `LastKept` shows that at most that many are newer than such a link; `PrunedFew` bounds
  what pruning leaves by an injection into `0..MaxEntries-1`. `LiveSessions` is the same for sessions, with `asked` equal
  to 0 for those in the table, which is why the second of two overlapping deletions finds nothing; `OfferedLinks` says that
  a request creating a session has a link that was handed out.

- *Process.* `Truthful` is the heart: unless the clock was set, a beat in the file is at least as old as the silence of the
  loop is long, because both are counted from the reading of the clock, and exactly as old while the heartbeat task
  sleeps. So a fresh beat is a loop that was alive, and one too old in the thread's hand that is still in the file is a
  loop that is stuck. `Blank` says that a process starts with nothing of an earlier one but its file. `Graced` covers the time before the first beat: the time left of the first wait
  and the silence so far make up the grace, which is longer than a beat is valid. For the exit, `Closed` and `Persisted`
  follow the shutdown step by step: what it has passed is closed, and a `clear()` still running is in `batch` or `late`.
- *Backups.* `Source` says where the state is that the database should hold: in the file, in the journal of a write, or
  overwritten by the journal of an earlier database. `InOrder`: until the clock is set, names are in the order in which
  the backups were completed, so that the `made` of a name are exactly the greater names. What a pruning has not listed is
  then among the greatest (`Listed`), and what it has listed has as many newer ones as the limit, so it may go. That a
  round reaches the limit needs that the names left are few: each has less than `Retention` above it, which makes the
  count above it an injection into `0..Retention-1`.
- *Hub.* `Counted`: the refreshes of a session are those its two attempts at the handshake, with up to two negotiations
  each, account for. A bound alone is not inductive, since the counts of attempts carry over a refresh.
- *Aliases.* The table is the end of the history of uses, in the same order (`Newest`), and full as soon as anything is
  missing from it: that is what `move_to_end` and the eviction from the front keep, and `RecentWork` follows. `Faithful`
  says that every entry has the id its token was made for. That `ToEnd` permutes is a lemma (`Shuffled`, `ToEndPermutes`).
- *Paging.* What was in a list at the beginning has been read or is on a page still to come (`Reading`, `Ahead`): a page
  reads all its places (`Slices`), an insertion moves an entry to the same place or a later one (`Inserted`), never to a
  page already read, and whoever stops reading a readable list is at its end (`EndOfKeys`, `EndOfLog`). `Kept` carries the
  types that are not begun yet. A removal breaks this, and the properties exclude it. The merge keeps the property of its
  result for the keys merged so far (`DoorsOfFirst`), stated by witnesses and without `CHOOSE`: an invariant of a loop
  where a fold would have needed an induction.

Only model-checked: every liveness property (`RoundEnds`, `PolledCallsSettle`, `RequestsEnd`, `CooldownEnds`, `StuckEnds`,
`StopEnds`, `StopClosesAll`), which is beyond the prover; `ImplementsNotice` with fewer seen ids than the theorem asks for; and what a recursive definition
computes for every input: the one fold in use is checked by TLC, `PrepopulateIsFold` over the sizes of the page.

## Where the code and its documents disagree

- `TokenSession_logout`: a refresh in flight while `/logout` runs sets and saves a new pair afterwards
  (README.md:153).
- `AccessRoles_orphan`: a crash inside `remove_user` leaves an administrator key without a user, which later counts as
  an administrator; the last real one can be removed (README.md:134). The same sentence fails without a crash where
  the last administrator is a configured one (`ADMIN_TELEGRAM_USER_IDS`): `admin.py:249` counts stored keys, he has
  none, and he is removed. With `EnvAdmins = {u1}` and no crash TLC finds it in five steps.
- `CallScreens_photo`: the button back of a call shown as a photo edits the text of a photo message, which Telegram
  refuses (README.md:120, `ui/renderer.py:39`).

Behaviour the models contain, and no document forbids clearly enough to call it a disagreement:

- `refresh_session` rotates without `_refresh_lock` (`client.py:517`). A request and `/status`, or the hub's
  negotiation, post the same refresh token; the second is rejected and drops the pair the first one has just
  obtained (`client.py:319` drops whatever is there). OPERATIONS.md:76 speaks of a session the server rejected.
  `WipeOnlyDead` states precisely this: such a rejection, or that of a pair a login has just replaced, is the only way a
  session the server still takes is lost, and the run has all of these tasks.
- A process that dies between the exchange at the server and the commit, or never gets the answer, finds the exchanged
  pair on disk at the next start, and the owner has to log in again; `SpentOnlyUnderway` says that this window, and a
  held pair, are the only ways to it.
- A `clear()` started before a login may run after it, and the login is lost at the next start; a login whose device
  registration fails is used but not saved.
- Fields of an older version stay in plain text after a crash between the new record and their deletion.
- A user removed during a round still gets that round's card; a card sent by a retry after the call has ended keeps its
  controls; `_active_notifications` is never bounded.
- A spent control comes back to life by the edit of an overlapping tap (README.md:177 calls the states
  terminal, and says nothing of taps that overlap).
- A slow page undoes a filter chosen later.
- Somebody who opens a second invite while he is being removed keeps his key and loses his access in memory: the running
  bot shuts him out, he can be promoted meanwhile, and the next start lets him in again.
- An invalidation by a handler that still runs after the drain has looked at the tasks (`main.py:90`) may be lost in an
  exit without trouble. The runner of a camera proxy whose site cannot be bound is never cleaned up. A watchdog
  thread that outlives its join (`health.py:91`) can end the process in the closing steps, and it does not look at the
  file again between its judgement and `os._exit`, so a beat written there comes too late.
- A heartbeat task that ended with an OSError raises it again when it is cancelled, and the rest of the shutdown is
  skipped. A clock set back makes a healthy beat one of the future, and the watchdog ends the process.
- A clock set back makes the newest backups the first to be pruned. A restore over the database of a bot that died in a
  write leaves that bot's journal beside the new file, and the next start plays it back.
- A camera session whose link expires is forgotten and not deleted at the media server.
- An entry removed between two pages moves the next one to a page already read, which loses it; a server that clamps the
  page size without saying so ends a reading early; `find_call_log` reads one page when the answer has no total.

## What is not modelled

Of the modelled components: the door map (`call_watcher.py:158-186`) and the text of cards; the device registration
while a session is restored; failed writes of SQLite; a wrong encryption key (the start refuses); the evictions of other
users' navigation (`Forgotten` stands for them); the door screens and the home screen; the state of the SMS form
(waiting for a code, cancel), which aiogram keeps per chat and one handler changes at a time; `signalr.py` `listen`, which
nothing calls; the endpoints of the client that are one request each; signatures, bytes and headers of the camera
proxy; permissions and the command line of the storage tools.

Not at all: presentation beyond the controls of a card (pure functions of their arguments), the passive compatibility
monitor (nothing reads its counters to decide anything), and the command-line tools in `tools/`, which keep no state
between runs but a file.

## Plan

Built, most important behaviour first: CallWatcher with CallNotice, TokenSession, AccessRoles, TokenStore with
SessionRegister, ActionCooldown, CallScreens; then Runtime, CardControls, CameraProxy, Backup, HubTransport, Paging,
CallbackAlias, the last seven beside an earlier component in its run.

Left to model: the form of `auth_flow.py`, the door map of the watcher, the door screens. Left to prove: the
least number of seen ids for which the refinement of `CallNotice` holds.
