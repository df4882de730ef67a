# Mnemos Collector: TLA+ models and proofs

Mnemos Collector runs beside a game client, reads the client's log, recognises
raid events in it and delivers them to a realtime service over one WebSocket.
It keeps what it has not delivered in a spool on disk, updates itself through a
helper process, and writes a rotating journal. Its tests exercise the parts one
call at a time; what they hardly reach is the order in which links fail, answers
come late, files are half replaced and processes die. This directory holds TLA+
models of those parts, the configurations that check them with TLC, and proofs
for TLAPS.

Contents: 1 Inventory, 2 Modules, 3 Runs, 4 Fairness, 5 Proofs, 6 Abstractions,
7 What the models found, 8 Plan.

## 1. Inventory

Paths are relative to `src/src/`.

| Component | State | Operations |
|---|---|---|
| Report spool (`spool.rs`) | the queue in memory; `pending-reports.json`, `.tmp`, `.bak` | `open` (recover, quarantine), `enqueue`, `acknowledge`, `discard_before`, `persist` |
| Collector worker (`application.rs`) | connection, session confirmed, parser, pending pings, spool, reconnect delay | `tick`: process check, connect, read log, observe, deliver reports, deliver pings, try update; `shutdown` |
| Realtime client (`realtime/client.rs`) | acknowledged state, link liveness, channel of 32 messages from the reader task | `connect`, `observe`, `pause`, `report`, `report_chat_ping`, `request_update_slot`; the reader: `read_loop`, heartbeats |
| Realtime service (external) | observation state per session, queued reports | answers to the messages of `protocol.rs` |
| Update coordinator (`update/coordinator.rs`) | staged candidate, due time, manual request, next check | `refresh_candidate_if_due`, `poll`, hand-off |
| Release client (`update/release.rs`, `version.rs`, `integrity.rs`, `paths.rs`) | downloaded and verified candidate | `check`, `stage` |
| Update helper (`update/process.rs`) | the executable, its backup, the health marker | wait for parent, replace, launch, health check, rollback |
| Diagnostics journal (`diagnostics.rs`) | open file, byte count, retained files, UI snapshot | `write_line`, `rotate`, snapshot updates |
| Log tailer and session (`cristalix/`) | offset, half line, file identity, process state, the chosen log | inspection of the processes, `discover_latest_log`, `open_from_end`, `read_new_lines`, scan of the existing lines |
| Parser and deduplicator (`parser/`) | mode, pending raid group, two second window | `consume_context_line`, `consume_line`, `accept` |
| Provisioning and credentials (`provisioning.rs`, `credential_validation.rs`, `security/`) | pending secret and access key, each in a file and in the keychain | `provision`, validation, save, clear |
| Installation and autostart (`platform/`) | stable executable, version marker, start entry | `ensure_installed`, `replace_existing_installation` |
| Localization (`localization/`) | catalogue, cache file, ETag | refresh loop, cache replacement |
| Desktop (`desktop/`) | windows, tray, activation dialogue | painting, activation flow, single instance |
| Launcher (`main.rs`, `launch.rs`) | arguments, role of the process | start order |
| Packaging (`scripts/`, workflows) | none at run time | build and release |

How they interact. The worker is one asynchronous task. In a tick it calls the
tailer, the parser, the spool, the realtime client and the update coordinator
in a fixed order and awaits each call; a reader task feeds the client from the
socket, and the desktop thread shares only the diagnostics snapshot and the
user's install request with it. The update helper, the old executable and the
new one are three processes that communicate through files. The journal sits
behind a mutex and is written to by every thread.

What is hard, and what makes each part correct:

* **Spool.** `persist` takes up to seven file operations; each can fail or be
  the last before a crash, and `open` must make sense of whatever is left. An
  accepted report must survive until its removal is requested; a removed one
  must not come back; the order must not change.
* **Worker, client, service.** A receipt may be lost, late, or belong to
  something else; the link may fail at every await; the worker may die between
  the service's receipt and the spool's removal. Accepted reports must reach
  the service in order, nothing may leave a queue undelivered, both ends must
  agree whether the collector observes, and a report the service refuses for
  good must not block the rest for ever.
* **Connection.** The worker looks at the connection once a tick and in its
  calls; the reader task can block in a full channel, end, or hear nothing. A
  collector must come back after any of it, without storming the service, and
  must answer heartbeats and show a required upgrade although it looks only now
  and then.
* **Update.** The hand-off may take place only when the service knows that the
  collector is paused; a failure on the way must leave the session usable. The
  helper must always leave an executable that starts. Over a series of releases
  (bad ones, withdrawn ones, half staged ones) the collector must get to a good
  one, install nothing that is not signed, and give the button back.
* **Journal.** Rotation moves several files; a failure in the middle must
  neither reorder nor lose lines beyond the retained history, and the writer
  must go on working.
* **Tailer, parser and discovery.** The log grows, is truncated and is replaced
  while it is being read, and which log is the right one depends on processes
  that come and go; each line must be read once, in order, and the mode must be
  that of one who has read it all.
* **Activation and the life of a process.** Processes are started with and
  without a token, from the installation and from outside it, hand over to each
  other and die; requests are redeemed late, the two copies of a secret differ.
  A token must not be lost, and one worker may run.
* **Installation and localization.** Each is a short sequence of file operations
  with a remote step in it; a crash between two of them must be repaired by the
  next start.

`PROJECT.json` lists every hazard at its line with the properties that cover
it, or the reason why none does.

## 2. Modules

| Module | Models | Extends / uses |
|---|---|---|
| `DurableQueue` | what the spool promises: a queue whose changes are atomic under crashes | instantiated by `Spool` |
| `Spool` | `spool.rs`, one action per file operation | |
| `Reporting` | what the worker promises: an accepted report is kept until the service has queued it, once and in order, or it is too old | instantiated by `Delivery` |
| `Realtime` | the client's calls, the links and the service as operators: what the messages say | |
| `Delivery` | the worker's tick, the coordinator, and their composition with `Realtime` | `Realtime` |
| `MCDelivery` | symmetry of the links for TLC | `Delivery` |
| `DeliveryProofs` | theorems about `Delivery` | `Delivery`, TLAPS |
| `Connection` | reader task, channel, worker and service with a clock: who notices what, and when | |
| `Pacing` | the events of the log and the deduplicator's window under the worker's pace | `Connection` |
| `WorkerProofs` | theorems about `Spool` and `Pacing`, where the worker meets the disk and the clock | `Spool`, `Pacing`, TLAPS |
| `RotatingLog` | the journal writer and its rotation | |
| `RotatingLogProofs` | theorems about `RotatingLog` | `RotatingLog`, TLAPS |
| `UpdateHelper` | one hand-over: old collector, helper, new collector on probation, and the files between them | |
| `UpdateCycle` | releases, release client, coordinator, desktop button, and one hand-over after the other | `UpdateHelper` |
| `UpdateProofs` | theorems about `UpdateHelper` and `UpdateCycle` | `UpdateCycle`, TLAPS |
| `LogParser` | the parser's modes, as functions of lines: context and live | |
| `Discovery` | what an inspection of the processes shows, and which log is chosen | |
| `LogTail` | the game and its processes against the worker that looks for, tails and scans a log | `LogParser`, `Discovery` |
| `MCLogTail` | two places for a log and five programs | `LogTail` |
| `LogTailProofs` | theorems about `LogTail` | `LogTail`, TLAPS |
| `Installation` | the stable executable and its version marker, between installers | |
| `InstallationProofs` | theorems about `Installation` | `Installation`, TLAPS |
| `Activation` | a process from its start to its end: hand-overs, activation, stored key, guard, window, worker | |
| `ActivationProofs` | theorems about `Activation` | `Activation`, TLAPS |
| `Localization` | the catalogue of texts, its refresh and its cache | |
| `LocalizationProofs` | theorems about `Localization` | `Localization`, TLAPS |

### DurableQueue and Spool

`Spool` has the queue (`reports`), the three files (`disk`), the point in
`persist` that has been reached (`pc`), the operation that called it and what
that operation would restore (`undo`). A file is absent, torn (does not parse)
or a valid snapshot. `CreateTemporary`, `WriteTemporary`, `BeginBackup` /
`FinishBackup` (a copy truncates its target before it fills it), `RemovePrimary`
(Windows only) and `Install` are the file operations in the code's order;
`PersistFails` is the error return of any of them with the roll-back its caller
does; `Crash` may strike anywhere. `Open` loads the first candidate that parses
(primary, temporary, backup), `Quarantine` renames the bad ones, one at a time,
and the recovered queue is persisted. `committed`, `previous`, `attempts`,
`accepted`, `removing` and `settled` are history variables.

`DurableQueue` knows nothing of files: a change is either made, not made, or
outstanding, and a restart chooses between the committed queue and one of the
outstanding ones. `Spool!IsDurableQueue` is the refinement, with
`queue <- committed`, `view <- reports`, `up <- pc # "down"`.

### Reporting, Realtime and Delivery

`Realtime` describes one call at a time: `Send` writes a request to the current
link, `Answered` takes the awaited answer, `IgnoreMessage` drops another
message, `CallFails` is an error frame, a failed link or a timeout. A link
delivers in order. A link that has been abandoned may still deliver what was in
flight on it, which is how a report comes to be received twice.

`Delivery` is the tick. `pc` names the await or the step the worker is in; the
actions appear in the order of `tick` in the source. The worker starts a call
(for instance `SendReport`), and what follows is decided by the answer
(`ReportAnswered`) or its absence (`ReportFails`: the report stays at the head,
the connection is dropped). Reading a line enqueues its report and commits it
(`ReadEvent`), or the spool's write fails and the worker ends (`EnqueueFails`),
or the worker dies (`Crash`); in the last two cases a restart may find the
queue of before or of after the write, which is what `DurableQueue` allows.
`BeginUpdate` to `HandOff` are `try_apply_update` and the coordinator's `poll`;
`hadPending` is the local `had_pending_update` and is read where the code reads
it. `WantInstall` is the desktop's request. `connect_async` and the `send` of
`send_json` have no timeout: `Stalls` holds the worker in one of them, with
everything its tick has still to do, until it `Resumes`, which may be never.

`Reporting` is what the player may rely on, without links, calls, processes or
updates: reports are observed, kept (`held`), queued by the service and released,
and grow too old. `Deliver` says when the service may queue a report: for the
first time, if it is kept or too old, and after every older one that is kept and
that somebody still waits for. `Release` drops the oldest ones when nobody waits
for them. `Delivery!DeliversReports` is the refinement, with `held <- stored`: what
counts as kept is what is on disk, since the queue in memory dies with the
worker. A report that comes a second time over an abandoned link, a start that
finds one commit more or fewer, and a receipt that the dying worker has not
written down are all stutters or the steps above.

### Connection and Pacing

`Delivery` lets a delay or a timeout end at any time; these two have a clock and
leave out what the messages say. `Connection` has the service (`Greet`, `Ping`,
`Serve`, `RequireUpgrade` and what goes wrong with it), the reader task
(`ReadMessage`, `ReadPing`, `ReadFailure`, `ReadEnd`, `Push` into the channel,
`EndReader`) and the worker's side: `ensure_realtime_connection` in its cases
(`KeepConnection`, `NoticeLoss`, `WaitToReconnect`, `BeginConnect`), a call, which
sends first (`BeginCall`, `Sent`) and then waits, and the ways it can end. Time
(`Elapse`) passes only where the worker sleeps or waits; `due`, `timer`, `wait` and
`connectedFor` are measured with it. The wait for an answer ends with its timeout;
an attempt to connect and a send (`Held`) last for any time, and for ever if the
peer is silent (`HandshakeStalls`, `LinkFails`).

`Pacing` adds the log between two ticks: an announcement waits (`unread`) until
the worker reads, and is accepted or suppressed by how long ago the same one was
read, not written. How late the reading can be has a bound (`Lag`: the sleep, or
the timeouts of a tick's calls) only if the time in which the worker is `Held` is
left out of it.

### RotatingLog

`files` maps a file's index (0 is the journal) to its lines. `WriteLine`
decides whether to rotate, `RemoveOldest`, `Shift` and `Create` are the file
operations of a rotation, `Write` writes the line. Each may fail
(`WriteFails`, `RotateFails`), and the process may die between any two. The
writer's `file: Option<File>` is `open`; its `bytes_written` is `counted`, which a
rotation that `open` runs sets from the new file and one that `write_line` runs
sets to zero. `newest` is the last line that was logged, and `fruitless` counts
what has failed or died since.

### UpdateHelper and UpdateCycle

`executable` maps the four places (installed, install file, backup, staged) to
what they hold, a complete old or new executable, a partial one, or nothing.
`pc` is the next step of `ApplyUpdateCommand::run` and of the functions it
calls, one per file or process operation; `child` is the updated collector,
which the helper watches through the health file (`health`) and through its
process. `MayFail` names the steps whose operation may fail, and the failing
steps lead where the code's error handling leads: to a restart of the old
collector (`PrepareFails`, `ReplaceFails`), to the way back (`LaunchFails`), or
out of the helper (`GivesUp`). `Dies` kills the helper anywhere.

`UpdateCycle` runs one such hand-over after the other. `release` is the version
of the published manifest, which moves forward and back; `Poll` is the start of
`UpdateCoordinator::poll`, and `step` the point within it: check (`NoUpdate`,
`Candidate`, `CheckFails`), staging (`Stage`, `StageFails`), the decision (`Wait`,
`Proceed`), slot, pause and hand-off, each with its failure. The button's three
steps (`SeeUpdate`, `StoreRequest`, `ShowWaiting`) run on another thread and
interleave with all of them. "old" and "new" of `UpdateHelper` become the
versions `base` and `target`; `NextCycle` is the collector that runs after it,
with whatever is installed and whatever staged file is left.

### LogParser, Discovery and LogTail

`LogParser` has the parser's mode as a function: `ContextMode` is
`consume_context_line`, `LiveMode` and `IsEvent` are `consume_line`. A line is
its kind, what the patterns tell apart. `Discovery` is functions too: `Inspect`
turns a table of running programs into what `CristalixProcess` reports (a
process matches by what it names, or because it is Java and descends from the
launcher), and `Discover` chooses a log: the user's, then those of the
processes, then those at known places.

In `LogTail` a file is a sequence of pieces of lines; `at` gives the file at each
place, `handle` the open one and `identity` the one the tailer believes it
has. Between any two operations of the tailer (`Identify`, `Open`, `SeekEnd`,
`CheckIdentity`, `CheckSize`, `ReadNew`) and of the scan (`ScanOpen`, `ScanLine`,
`ScanEnds`) the game may write a line or a part of one, move the log away, create
it, or truncate it. `ReadNew` puts what is there behind `pending`; `ConsumeLine`
is the loop of `read_log` over the complete lines, one line a step, and leaves
the half line. A piece has a history field, `live`: the mode of somebody who has
followed the file from its first line up to there. `RefreshProcessState` takes a
new inspection and drops the source where the code does: the game and every Java
are gone (`StrongStop`), or the processes name another log (`Elsewhere`).

### Installation

Installers run `Inspect`, the copy, `MoveAway` and `Activate` (the two renames),
the marker and the launch, each a step that may fail or be the last; next to
them a collector runs from the target, records its version some time after its
start, and replaces itself (`Update`, what `UpdateHelper` promises).

### Activation

The actions of a process follow `run` in `main.rs`. It starts plainly, with a
token, or with `--install` and a token, from the installation or from outside it
(`External`); from outside it installs, launches and ends (`InstallAndLaunch`,
`MigrateAndLaunch`). `LoadPending` to `ClearPending` are `provision`, `LoadKey`
to `DeleteKey` the validation at the start, `AcquireGuard` and `OpenWindow` are
`desktop::run`. The window's activation (`BeginActivation`) runs the same steps
on a task and gets its result in `ActivationCompleted`, `ActivationFailed` or
`ActivationHandedOver`. The worker starts with a key, fails, or stops for an
update. A request is redeemed by the service when it arrives, with somebody
waiting for the answer or not. The two stores have a file and a keychain copy
each, and the operations in `Flaky` may fail on the second without an error, as
`security/macos.rs` ignores those.

### Localization

`DownloadManifest`, `KeepLanguage`, `DownloadPack`, `PackFails` and `PacksDone` are
`refresh_once`; `WriteTemporary`, `RemoveCache` and `RenameCache` are
`persist_snapshot`; `Replace` swaps the store, if the snapshot compiles.
`MergeMissing` fills in from the bundled fallback, `Loaded` is what a start makes
of the cache. `ParseDrop` with `ResolveItemKey` is how a drop's text finds its
item, as a pure function: `Matching` are the places, in the order in which the
language lists its keys, of those with that name and type. An item type is the set
of the keys `item_key_matches_type` accepts for it.

## 3. Runs

| Run | Question | Bounds and why they are enough |
|---|---|---|
| `spool` | Does the queue survive every failure and death? What does a damaged file cost? Does the spool implement `DurableQueue`? | three reports, capacity 2: an enqueue is refused, a report is removed and another takes its place, several interrupted operations follow each other; `Windows = TRUE`, the platform with the window without a primary file (each of its other steps is a step on Unix too); one damage, so that with the torn temporary two files are bad and the third is used |
| `delivery_reports` | Does the worker do what `Reporting` promises, over links that fail? Do client, UI and service agree? Is no answer owed on a connection in use? | two reports and a ping, two links, so one link is in use while the other still delivers; one death of the worker or failed write, one report that expires |
| `delivery_updates` | Is the service paused at the hand-off? Do reports only travel while it observes? Does a report behind a refused one get through, beside an update? | two reports, the first refused for good, one can expire; two events of the kind "release found" or "install asked for", so that a staged release is asked for; one link |
| `pacing` | Do reconnects keep their distance and come about? Are heartbeats answered and an upgrade shown? What is taken for a repetition? | a channel of one, so that it is full; a delay that doubles once and stops; a window and a timeout of one unit, shorter than what a tick may take together; attempts and sends of any length; two faults, so that a failure meets the consequences of another |
| `rotating_log` | Is the journal's history kept and ordered under failing rotations? | four bytes per file, two retained files, lines of 1, 3 and 5 bytes (below, together at, and beyond the limit), five lines, three failures: enough for every retained file to be moved out once and for failures to follow each other |
| `rotating_log_panic` | The counterexample to the `expect` in `write_line` (section 7) | six lines, two failures |
| `update_cycle` | Is there a way back at every moment, one collector at a time, and an orderly end? Is what is installed signed and no step back? Does the collector get to a good release, and the button come back? | five versions: one that hangs at its start, one that is not signed, two good ones; the release changes twice, so an update follows a failed, a withdrawn or an abandoned one; two failures or deaths anywhere; both ways of replacing a file |
| `installation` | Is an executable installed at every moment? Is the marker to be believed? | two concurrent installers, three versions, three starts, one failure or death: two installers meet between the renames, an update comes between two starts, an installer reads the marker that a dead one left |
| `log_tail` | Is every event reported once, in order, none from before? Does the mode agree with the log? Does the worker get in step with the right log? | two lines, one of the two kinds in one or two pieces; two files, at one place after the other or at both; one truncation, change of the processes or choice: a file is replaced or truncated during a scan or within a line, and a line follows |
| `log_tail_stopped` | The counterexample to "Observing --> Paused: session / mode lost" (section 7) | one file, one line, one change of the processes |
| `activation` | Can an unfinished activation be repeated? Does one worker run, with an issued key? Are active keys kept? Does the window always get its answer? | two processes of the installation and one from outside it, one token, two secrets (one more than the pending one), a keychain that may be unreadable or keep what was to be removed |
| `localization` | Does the catalogue keep what it came with and follow the manifest? Does a restart find it? Is a drop attributed only to what it must be? | two languages, one of them bundled; three packs, one without a text, one that does not compile; two failures or restarts between any two steps; three items of two types with two names in all, so that a name can stand for one, for two of a type, or for one of each; one has no Russian name |

The two links are interchangeable (`SYMMETRY LinkSymmetry`): nothing names a
particular one, and the run with symmetry checks no liveness.

`RotatingLog` stops when its lines are used up and when the writer has
panicked, so its runs do not look for deadlock. Nor do those of `LogTail` (the
game stops writing), `UpdateCycle` (the newest release is installed, or one that
does not start), `Installation` (the starts are used up) and `Activation` (no
secrets are left). The runs of `Spool`, `Delivery`, `Pacing` and `Localization` do.

What the runs do not catch, of the hazards in `PROJECT.json`. Each of these is
behaviour of the code that a property excuses or a constant excludes:

* a full spool that ends the worker (`spool.rs:116`): `Spool` has the capacity and
  shows that a refusal drops nothing; `Delivery` has none, and no property says
  that the worker comes back;
* the connection that `try_apply_update` keeps after a timeout
  (`application.rs:719`): `delivery_reports` has `MaxUpdates = 0`, and in
  `delivery_updates`, which has updates, only the hand-over itself is looked at;
* a log that has regrown by the next poll (`Regrows = FALSE`), an event that is
  judged by a mode from later lines (excused in `NothingMissed`), and a better log
  that turns up later (`LateSources = FALSE`);
* a cache that is missing between its removal and the rename, or that does not
  compile (`localization/updater.rs:258`, `:166`): `RestartFindsCatalog` excuses
  both, and only `FollowsManifest` says something of what comes after;
* a bad release that is tried again and again (`coordinator.rs:183`):
  `EventuallyUpdated` speaks of a good one;
* an attempt to connect or a send that never returns (`realtime/client.rs:101`,
  `:261`): the liveness properties of `pacing` and `delivery_updates` excuse it;
* an older version put beneath a newer marker by an installer that died before
  marking it (`installation.rs:154`): `ReusedIsNewEnough` excuses it (`outdone`).

Each property is paired with a mutant in `PROJECT.json`: a definition changed
the way a plausible bug would change it, kept beside the original and marked as
a mutant in its comment. TLC finds the property violated under the mutant.

## 4. Fairness

No fairness forces the environment to be well, or a failure to happen. Failures
are bounded or end with `calm`; the liveness properties speak of what follows.

`EventuallyDelivered` (`Delivery!FairSpec`, run `delivery_updates`):

The environment may fail as it likes until `CalmDown`, which only this
specification has. The next process must find the mode again after an update
that the user installs without a connection, which the property excepts.

* `WF(Tick)`, while the worker is not `stalled`: its task is scheduled by tokio,
  and the wait for an answer has a timeout (`response_timeout`), so it takes a
  step.
* No fairness for `Resumes`: `connect_async` (`realtime/client.rs:101`) and `send`
  (`:261`) have no timeout, and since `run` awaits `tick` within its select, not
  even Ctrl-C is looked at meanwhile. `EventuallyDelivered` has the premise
  `~<>[]stalled`: no such await goes on for ever. Without it TLC finds the property
  violated.
* `SF(ConnectDue)`, while not stalled: the delay before the next attempt is at
  most 30 seconds, so attempts recur; one that can succeed again and again
  eventually does.
* No fairness for `Restart`: nothing starts a worker that has ended with an error
  (`desktop/portable.rs:1651` logs it), so what is then still on disk may stay
  there (the last disjunct of the property).
* `WF(Age)`: time passes.
* `WF(Served(c) \/ Lost(c))`: the service handles what it receives, and what is in
  flight on a dead link arrives or is lost.

`EventuallyConnected`, `UpgradeShown`, `HeartbeatsAnswered` (`Pacing!PacingSpec`):
weak fairness for the reader task, the worker, the clock, and a service that
answers unless it is late (`Serve`). The awaits without a timeout are fair only
while the peer is not silent (`link # "silent" /\ Untimed` in `Worker`). `SF(ReadEnds)`:
a read comes to the end of the file as it finds it, although the game may go on
writing. The premise `Used` (while there is a connection, calls go out again and
again) names what the code relies on: the client looks at its channel only within
calls. `EventuallyConnected` leaves room for a worker that a silent peer holds in
an attempt for good, and `UpgradeShown` assumes that no attempt is (`Answered`);
TLC finds both violated otherwise. Section 7 says what happens then.

`EventuallyUpdated`, `ButtonComesBack` (`UpdateCycle!CycleSpec`): weak fairness for
the coordinator's polls, the steps of a click once begun, and those of the
helper, which is a running process whose waits have deadlines. Strong fairness
where the code comes by again and again: the times to check and to install are
reached (`CheckTimePasses`, `ReadyTimePasses`), the link comes back (`GoOnline`, as
`EventuallyConnected` promises where no attempt or send holds the worker for good,
which is assumed here: ticks go on), delivery is idle at some poll and the service
grants a slot at some request (`Decide(TRUE)`, `Grant`). A good version
acknowledges its start (`ChildAcknowledges`); a bad one owes nothing. The collector
that has handed over exits (`CollectorExits`): `UpdateHandoff::start` of
`update/mod.rs`, which `try_apply_update` calls, starts the helper and then, on
every platform but Windows, a thread that sleeps 250 ms and calls
`std::process::exit(0)` (`schedule_portable_parent_exit`, lines 17 to 34), whatever
the window does when its worker has stopped. On Windows the window closes when it
is told so (`native_shell.rs:1295`).

`Follows` (`LogTail!FairSpec`): `WF(Follow)`: the worker ticks, and no file operation
blocks. The game owes nothing; its bounds make it stop, which is the case the
property speaks of.

`ActivationEnds` (`Activation!FairSpec`): `WF(Step(p))`: the task is scheduled, the
redemption has a timeout of ten seconds, and the installer and the stores return.
The service owes no answer.

`FollowsManifest` (`Localization!FairSpec`): weak fairness for the refresh task, whose
requests have timeouts and which sleeps a bounded time.

## 5. Proofs

Each theorem holds for every value of the constants that the named assumption of
the module admits (the types of the constants; TLC evaluates it in every run of
the module), for any bound on failures, deaths, lines, releases or links, and
from the specification without fairness unless it says otherwise. Where a theorem
assumes more, the table says so.

| Module | Theorem | States |
|---|---|---|
| `WorkerProofs` | `SpoolType` | `[]TypeOK` |
| | `SpoolOrder` | `[]InOrder` |
| | `SpoolRestartAccepted` | `[]RestartAccepted` |
| | `SpoolRestart` | `[]RestartFindsQueue` |
| | `SpoolMemory` | `[]MemoryIsCommitted` |
| | `SpoolNoLoss` | `[]NoAcceptedReportLost` |
| | `SpoolNoReturn` | `[]SettledStaysGone` |
| | `SpoolOneCommitBack` | `[]OneCommitBack` |
| | `SpoolIsDurableQueue` | `IsDurableQueue`: until a file is damaged, every step is a step or a stutter of `DurableQueue` |
| | `PacingBackoffRespected` | `BackoffRespected`, about steps |
| | `PacingDuplicateIsRecent` | `DuplicateIsRecent`, about steps |
| `DeliveryProofs` | `DeliveryTypes` | `[]TypeOK`, of `Spec` and of `FairSpec`, as the next five |
| | `DeliveryNothingLost` | `[]NothingLost` |
| | `DeliveryInOrder` | `[]InOrder` |
| | `DeliveryKeepsPromise` | `DeliversReports`: every step is a step or a stutter of `Reporting` |
| | `DeliveryReportsWhileObserving` | `[]ReportsWhileObserving` |
| | `DeliveryPausedAtHandOff` | `[]PausedAtHandOff` |
| | `DeliveryNothingOwed` | `[]NothingOwed`, if `MaxUpdates = 0` |
| | `DeliverySharedState` | `[]SharedState`, if `MaxUpdates = 0` |
| | `PromiseIsEnough` | `DeliversReports` implies `[](NothingLost /\ InOrder)` |
| `LogTailProofs` | `LogTailTypes` | `[]TypeOK` |
| | `LogTailReportedOnce` | `[]ReportedOnce` |
| | `LogTailModeConverges` | `[]ModeConverges`, if `~Regrows` and `~EventsAnywhere` |
| | `LogTailNothingMissed` | `[]NothingMissed`, if `~Regrows` and `~EventsAnywhere` |
| `UpdateProofs` | `UpdateKeepsPrevious` | `[]PreviousKept`, of one hand-over, as the next four |
| | `UpdateStartable` | `[]AlwaysStartable` |
| | `UpdateOneCollector` | `[]OneCollector` |
| | `UpdateSettles` | `[]Settled` |
| | `UpdateHealthyIsAlive` | `HealthyIsAlive`, about steps |
| | `CycleSafe` | the first four of them, of a series of hand-overs (`CycleSpec`) |
| | `CycleEndorsed` | `[]InstalledIsEndorsed`, of the same |
| `ActivationProofs` | `ActivationTypes` | `[]TypeOK` |
| | `ActivationRetrySafe` | `[]RetrySafe` |
| | `ActivationOneWorker` | `[]OneWorker` |
| | `ActivationActiveKeyKept` | `ActiveKeyKept`, about steps |
| `RotatingLogProofs` | `JournalInOrder` | `[]InOrder` |
| | `JournalNewestKept` | `[]NewestKept` |
| `InstallationProofs` | `InstallationTypes` | `[]TypeOK` |
| | `InstallationKeepsExecutable` | `[]SomeExecutable` |
| | `InstallationReusesNewEnough` | `ReusedIsNewEnough`, about steps, if `~ByPath` |
| `LocalizationProofs` | `LocalizationTypes` | `[]TypeOK` |
| | `LocalizationSound` | `[]CatalogIsSound` |
| | `LocalizationRestart` | `[]RestartFindsCatalog` |
| | `LocalizationDropUnambiguous` | `[]DropIsUnambiguous` |

Hardly any of the properties is inductive as it stands. What had to be added, and
why:

**Spool.** Four inductive invariants, each resting on the ones before it, and a
fifth for a damaged file.

1. `TypeInv`: `TypeOK`, and what each step of `persist` knows of the memory
   (an operation other than enqueue has something to restore).
2. `OrderInv`: every queue there is (in memory, the one that would be restored,
   each valid file) is strictly increasing, within capacity, and below
   `issued`. It is needed because a restart may load any of the three files,
   so it is not enough that the one in use is in order.
3. `DurableInv` with `DiskInv`: for each value of `pc`, what each of the files
   holds: while the temporary file is torn the primary holds the committed
   queue; while the primary is missing the temporary holds the new one; a valid
   temporary or backup that a restart could reach is one of `attempts` or
   `committed`. `RestartFindsQueue` alone is not inductive: it says nothing of
   the files behind the first valid one.
4. `SafeInv` with `AccountInv`: every queue in `attempts` and `committed`
   contains what has been accepted and not asked to be removed, and nothing
   that has been settled. With 3 this gives the two account properties.
5. `DamageInv`: before the damage, the backup holds the queue of one commit
   earlier as soon as nothing is being written (`BackupInv`). After it, until the
   next commit, the backup is left alone, and the damaged file is out of the way
   before `persist` looks at it (`RestoreInv`); from that commit on the files fit
   together again as in 3.

`TypeOK`, `RestartFindsQueue`, `RestartAccepted` and `MemoryIsCommitted` are proved
and are no properties of a run: the others would fail with them.

**Delivery.** `stalled` concerns liveness alone: a step is one of the old variables
(`Moves`) or leaves them be (`OnlyMoves`), and the invariants are about `Moves`.
`Typed` ties the step the worker is in to the request it waits for.
Four invariants speak of the reports: `Spooled` (the queue is on disk, in the
order of observation), `FlightInv` (what is in flight was observed, and an answer
that a report is queued is true), `HeldInv` (every report accepted or sent is on
disk, with the service, or expired) and `OrderInv`: whatever was observed before a
report that has been sent, and may still be sent itself, is with the service or
expired. This is what makes redelivery harmless: an abandoned link still holds
copies of reports, and `InOrder` alone does not exclude that one of them arrives
before an older one. Two speak of the links: a report is alone on its link, which
is OBSERVING (`ReportInv`), and an announcement of OBSERVING is never given up
without giving up the link, so it is the last message out and its answer the last
one in (`LinkInv`). `PausedAtHandOff` rests on the latter.

`NothingOwed` and `SharedState` need the stronger `Settled` (a connection in use
carries the request of the call or its answer, and nothing else) and `ShownInv`.
Both are false with updates, for the reason in section 7 (`had_pending_update`),
so that the theorems assume `MaxUpdates = 0`, as the run does.

`DeliveryKeepsPromise` needs nothing new: most steps change neither what is on
disk nor what the service has (`Unseen`), and the others are steps of
`Reporting` by the same invariants (`ServeDelivers` by `OrderInv`, `DiscardReleases`
and `AcknowledgeReleases` by `HeldInv` and `FlightInv`). `PromiseIsEnough` shows that
nothing is left out of `Reporting` that matters: the two properties about reports
follow from it alone, by an invariant of its own steps (`PromiseInv`), so that a
reader need not know what lies between. `InOrder` is a property of no run
for this reason.

**Connection and Pacing.** `BackoffInv`: what has passed since the last loss and
what is still to be waited for add up to at least the delay that is due, and the
delay in store is at least the one after the next loss. That the delay is set
back only by a connection that was stable, and that by then the losses are made
good, is the part that a reconnect in between could break. `Backoff` is a
recursive function; that there is a function which satisfies its equation is
proved first (`BackoffExists`, by the least number up to which there is none), and
its values are bounded the same way (`BackoffValues`).

`DuplicateIsRecent` compares an announcement's age in the log with the time since
the last one was read. `Oldest` is a bound on the first for each place in the
tick: what was announced after a read waits through the timeouts of the tick's
calls, or through the sleep (`AgesInv`; that it cannot be both is what `due` tells).
What is accepted is therefore at most `Lag` old, and from then on both its ages
grow (`SeenInv`). The time in which the worker is `Held` is in neither age and in
the window, since nothing bounds it: the theorem does not say how long ago by the
wall clock the accepted announcement was written, only what an attempt or a send
cannot add.

**LogTail.** `ReportInv` is for any behaviour of the game: truncations that show
or do not, files that replace each other at any place, lines in pieces. A file's
pieces form whole lines in ascending order, but for the last (`TextInv`); the files
at a place follow each other, and what is written goes to the newest (`FileInv`);
and whatever is still to be read, in the file or in `pending`, lies behind
everything that was reported from that place (`UnreadInv`). The last part must
also hold for the half line that is in `pending` while the file under it is
replaced, and for the line that the game has begun and not finished
(`UnfinishedInv`).

`TailInv` speaks of a tailer whose file was neither replaced nor truncated since
it was opened. What it has taken is a prefix of the file; the mode is that of
somebody who has read that prefix from its start (`Gist`, which counts a half line
that already shows what it is), or that of the place where the context ended,
while lines are taken a second time that were part of the context; and every
event behind that place has been reported. The lemma that carries it is about one
step of `ConsumeLine`: taking a line the second time does not change the mode.
That is where the two conditions come in. With `EventsAnywhere` an activity line
in the lobby changes the mode as context and not as a live line; with `Regrows`
the tailer reads on in text it has never seen the beginning of. The run has both
off, and section 7 says what happens otherwise.

**Update.** `HelperInv` adds to the four invariants what each step of the helper
can rely on: `FilesInv` says where the two executables are, and `ProcessInv` which
collectors can be running. `PreviousKept` alone is not inductive: whether the
backup is complete when the rename is due, and whether nothing but the old
executable is restarted, depends on the step. `CycleInv` keeps it over a series of
hand-overs, in which staged files and verdicts are left from earlier ones, and
adds which versions the executables can be: from its staging to the end of its
hand-over the target is a signed version newer than the base (`TargetInv`),
although releases come and go meanwhile; and the base is never older than what
passed its probation last (`BaseInv`). That a candidate is looked for only while
none is pending (`StepsInv`) is what keeps a later release from taking the place
of a staged one under its name.

**Activation.** The invariants are proved one on top of the other. `StepsInv`: who
holds the guard, has a token, has loaded a key. `KeysInv`: every key that is
stored, loaded or about to be saved is the one the service has issued; with it
`OneWorker`. `RemovalInv`: a key is deleted only after it was revoked. `PendingInv`:
a secret that has been sent, is in a late request or has been redeemed is the one
in the pending slot, until its key is saved or the slot is taken. The proof
failed at first at the step that takes the slot: with two tokens in turn,
`RetrySafe` as it had been stated, `rejected \subseteq saved`, is false (section 7),
which the run with one token could not show. It says now that a refusal is
excused by such a step, and by nothing else.

**RotatingLog.** `InOrder` needs little more than that numbers ascend
(`NumbersInv`). `NewestKept` needs `PlaceInv`, which says how far the newest line can
have moved back at each step: one file for each rotation that failed or died since it was
written, and one more for a rotation that went well and was not followed by a
line.

**Installation.** `PlaceInv`: when the target is gone, an installer that is not
about to discard its backup has one, or one is left over. `MarkerInv`: without
overlap the marker says no more than what is installed, or set aside and about to
be put back, is, also after failures and deaths, unless an older version was put
beneath it (`outdone`: until somebody marks). `~ByPath` names a behaviour of the
platform (section 6).

**Localization.** What is true of the catalogue (`SoundInv`) is true of every
snapshot the task handles, and `MergeMissing` preserves it. `CacheInv` says, for
each step of the replacement of the cache file, what is in it.
`DropIsUnambiguous` is about operators alone, for any finite set of items: a
listing of the keys is a bijection from its places (`EachListedOnce`), so that one
place matches exactly if one key is meant, in whatever order a `HashMap` gives
them (`ResolvesMeant`).

What is only model-checked:

* Liveness, which TLAPS does not prove: `EventuallyDelivered`, `EventuallyConnected`,
  `UpgradeShown`, `HeartbeatsAnswered`, `EventuallyUpdated`, `ButtonComesBack`,
  `Follows`, `FollowsManifest`, `ActivationEnds`.
* `TypeOK` of `RotatingLog`: its `counted` is a sum over the lines of a file (a
  fold), and what a fold yields for every input is an induction over data. Neither
  theorem of the module needs it.

## 6. Abstractions

* A crash is the death of the process. What completed file operations did is on
  disk, in order; loss of power is not modelled (the code calls `sync_all` on
  the temporary file, not on the directory).
* A damaged file is damaged at rest, between runs of the program, and it is the
  primary file; torn temporary and backup files come from crashes.
* Reports are numbered in the order in which they are observed. Their message
  ids are version 7 UUIDs and carry that order. `discard_before` may drop any
  proper subset, since clocks may run backwards; in `Delivery` it drops those
  up to the number that has expired.
* Times are left out but in `Connection` and `Pacing`. A delay that may be over is
  over at some point; a timeout may strike whenever an answer is awaited.
* The service queues a report once per message id, answers in order, takes
  reports only while it holds OBSERVING, and may answer with an error at any
  time. It is written from the client's use of it, and marked external.
* In `Delivery` the log is a source of mode changes, events and pings; it carries
  the spool as a queue in memory and one on disk, which is what the theorem
  `SpoolIsDurableQueue` says `spool.rs` provides.
* `Delivery`: a stalled await comes before the step that connects or sends, which
  is taken when it returns; what the peer does in between, it may do before.
* `Connection`: time stands still while something can be done at once, so that
  one unit is longer than any computation. Only the sleep, the wait for an answer,
  an attempt to connect and a send take time; a read of the log and a click take
  none. The sleep is one unit, an answer takes `Timeout` units at most, an attempt
  and a send any number of them. `Pacing` leaves the time of the latter two out of
  an announcement's age. Frames nobody waits for are one kind, "welcome"; `CallsPerTick` and
  `MaxWire` are bounds. The handshake's headers say what the service requires at
  that time.
* The branch of `rotate_log_files` for zero retained files is left out: the
  program passes a constant above zero.
* `Delivery`'s install request can only be made while the UI shows an update
  (`WantInstall` requires a staged release); `UpdateCycle` has the click's steps.
* `UpdateHelper`: `Platforms` are the ways of replacing a file that are tried; a
  program has one, and with both the run covers what either does, since they
  differ in that step alone. ReplaceFileW either does all it does or nothing. A
  file that is not signed is partial; that the signature tells is taken as given.
  Timeouts may strike at any time.
* `UpdateCycle`: a version stands for its artifact and a hash for its content. A
  version in `Bad` never acknowledges its start, and if it is installed when a
  helper was killed, nothing runs on from it. The next hand-over begins when the
  helper of the last one has ended (section 7). The time of the rollout is due or
  not; one that is asked for by hand is due.
* `LogTail`: a line arrives in one piece or in two, and what it is shows in one of
  the pieces. The file a tailer holds open keeps its identity. The pending raid
  group is left out: no line of the source ever fills it. Three constants name
  behaviour of the surroundings which the run excludes and section 7 describes:
  `Regrows` (a truncated log has its old length again before it is polled),
  `EventsAnywhere` (activity lines outside Master Sword), `LateSources` (a better
  log turns up while another is followed). `Fresh = {TRUE}`: a log that is found
  has been written to within the minute, the case in which more happens.
* `Discovery`: what a path's text says (its roots, whether it lies in the game's
  own directory) is the constant `LocationsOf`; places are numbered in the order
  of their paths, in which the code looks at them.
* `Installation`: an executable is its version; `Update` replaces the target in
  one step, as proved of `UpdateHelper`. `ByPath` says what `current_exe` tells a
  process whose executable was moved: the path it was loaded from, or where the
  file is now. The run has the second.
* `Activation`: an installation step succeeds or fails as a whole (`Installation`
  has its parts). The service redeems a token once and answers the same token and
  secret alike afterwards; this is what the client's retry relies on. A key's id
  carries the time it was issued, by which the newer of two copies is preferred.
  There is one pending slot, as in the code, and the user gives a token only
  while no other activation is under way (`NobodyActivates`). A secret that is
  overwritten in the slot by another token's is recorded in `replaced`. The run
  has one token, for the sake of its liveness property; the theorems have any
  number. The stores are those
  of macOS; Windows and Linux have one copy, which is the case where nothing in
  `Flaky` ever happens. `Flaky` is {"read", "remove"} in the run: with "write" as
  well the liveness property takes too long for it.
* `Localization`: a text is a number, the pack it is from; patterns, style
  prefixes and rarity labels are inputs of `ParseDrop`. An empty snapshot and a
  missing file are one. What is served for a pack is the pack of the manifest or a
  newer one.

Counters that bound the runs: `MaxReports`, `MaxPings`, `MaxExpired`,
`MaxCrashes`, `MaxUpdates`, `MaxCorruptions`, `MaxLines`, `MaxFailures`,
`MaxFiles`, `MaxChanges`, `MaxVersion`, `MaxStarts`, `MaxSecrets`, `MaxReleases`,
`MaxFaults`, `MaxPacks`, `MaxWire`, `MaxUnread`, `CallsPerTick`.

## 7. What the models found

* `rotating_log_panic`: `rotate` takes the open file away first
  (`diagnostics.rs:517`) and a failure leaves none behind; a later line that
  needs no rotation reaches the `expect` at line 507.
* `log_tail_stopped`: when the game's process and every Java are gone, the worker
  drops the session (`application.rs:208`), and the same tick finds the same log
  again; it was written to within the minute, which confirms the session
  (`application.rs:356`), and the scan restores Master Sword. The worker observes a
  game that does not run, against README.md:76, until it is started and seen
  again.

Other behaviour the models have and the properties leave out, each by a
condition that names it; none has a run. Some of it is a matter of taste, and
for most of it no text in the repository promises otherwise.

Connection and updates:

* A peer that accepts a connection and then never answers the handshake, or takes
  nothing more off the socket, holds the worker for good: neither `connect_async`
  (`realtime/client.rs:101`) nor `send` (`:261`) has a timeout, no line of the log is
  read meanwhile, and Ctrl-C is not looked at (`Stalls` in `Delivery`, `Held` in
  `Connection`; the premises named in section 4).
* A release that fails its probation everywhere is found again by the restarted
  old version, which hands over again after each rollout delay: the version that
  failed is not remembered (`coordinator.rs:183`). No property forbids it.
* `try_apply_update` reads `had_pending_update` before `poll`
  (`application.rs:719`). If the release is staged and due within that same `poll`,
  and the answer to the pause is late, the error path keeps the connection: the
  client believes it is OBSERVING while the service holds PAUSED. `SharedState` is
  therefore checked without updates (`MaxUpdates = 0`).
* The client looks at its channel only within calls. While none is made (a paused
  collector) a silent link is not noticed, the reader may wait in a full channel
  with heartbeats unanswered, and UPGRADE_REQUIRED is not shown unless the next
  handshake says the same (`Used`).
* A staged file that is damaged or removed while its update is pending is never
  staged again by that process (`EventuallyUpdated` excepts it). Staged, backup and
  partial files of updates that were superseded or killed are left behind.
* A version that hangs at its start and is left installed by a helper that was
  killed or gave up stays: nothing updates from it. On the way back the health
  file is removed before the backup is restored (`update/process.rs:205`), and an
  error there ends the helper the same way.
* After its acknowledgement a new collector may itself hand over within the first
  helper's stability window; the model does not let it.
* A slot that is denied and then a link that is lost leave the button disabled
  until the link is back (`GoOnline` is fair in `ButtonComesBack`).

The log:

* An error between finding the log and reading its context ends the worker
  (`application.rs:326`, `:450`; `pc = "dead"` in `Follows`), and nothing starts it
  again (`desktop/portable.rs:1651`), although the messages promise retries.
* A log of the running game that is created after its process was seen, and the
  user's choice of a log or of the search, have no effect until the source in use
  is lost (`LateSources`). The cached path that `discover_latest_log` would prefer
  is none whenever it is called.
* A truncation shows only as a smaller size; a log that has grown past the old
  offset by the next poll is read on from there (`Regrows`).
* Context lines and live lines take an activity line in the lobby differently
  (`parser/mod.rs:80` and `:96`; `EventsAnywhere`).

Credentials and processes:

* Two processes with one token each put their secret in the one pending slot;
  the one that redeems may not be the one that is kept (`NobodyActivates`). The
  same happens to one process after the other: a token is tried, its request is
  late; another token is tried, whose secret takes the slot
  (`provisioning.rs:99`); the late request is redeemed; and the first token, tried
  again, is refused, with a new secret (`replaced` in `RetrySafe`; found by the
  proof of it).
* With two tokens, a keychain that cannot be read and the older token used again
  can replace a newer key. A copy that was not removed from the keychain brings
  the removed key back.
* The deletion of a rejected key removes whichever key is stored by then
  (the condition of `ActiveKeyKept`).
* A process that hands over to the installation from its window can still hold
  the guard when the new one asks for it, which then ends; no collector is left
  (`desktop/portable.rs:447`).
* A stored key that cannot be decoded fails every start.

Files:

* The marker is read once and not again before the renames; an update recorded
  in between is replaced by an older version (`~overlapped` in
  `ReusedIsNewEnough`).
* An installer that puts an older version beneath a newer one's marker (an update
  not yet recorded when it looked, or an executable that a failed one left aside)
  and dies before marking leaves the newer one's marker, which later installers
  believe (`outdone` in `ReusedIsNewEnough`).
* A collector records its version some time after its start, if `current_exe` is
  the installed path then. Where that is the path it was loaded from, a collector
  whose executable has been replaced meanwhile records its own version for its
  successor (`ByPath`).
* A snapshot of the catalogue is persisted before it is compiled
  (`localization/updater.rs:166`); one that does not compile is found by the next
  start, which falls back to the bundled one.

### Not modelled

* Packaging: scripts and workflows, no part of the running program.
* Desktop: windows, tray, painting and layout. What their callbacks ask of the
  collector (activation, install request, choice of the log, end) is in
  `Activation`, `UpdateCycle` and `LogTail`.
* Autostart: one registry value or file, written and deleted in one step; whether
  that fails is part of `Activation`.
* The visible journal lines, the text of a problem report, the parsing of
  arguments, manifests, tokens and keys: conversions without state.
* The regular expressions and the catalogue's patterns: what kind of line they
  make of a text is an input.
* The service behind the connection, beyond what the client can see of it.

## 8. Plan

Done: every component but the ones under "Not modelled", and a proof of every
safety property and both refinements that the runs check.

What could follow:

1. `Reporting` with the fairness under which every accepted report is delivered or
   expires, as the property that `Delivery!FairSpec` is shown to imply
   (`EventuallyDelivered` says it of one environment, and TLC only).
2. The keychain's "write" failure in the run `activation`, once its liveness
   property is checked by a run of its own.
3. One model for `Installation` and `UpdateHelper` together: today the first takes
   a hand-over for one step.
