# TLA+ for nx-hub

nx-hub is a desktop hub (Electron window, headless daemon and `nx` command
line) that discovers apps in GitHub releases, downloads, verifies and installs
them, launches and watches them, and keeps several machines in step. This
directory holds its verification: TLA+ modules translated from `src/main`,
`src/cli` and `src/renderer`, TLC runs on small instances, and proofs checked
by TLAPS for every value of the constants. Paths below are relative to the
repository.

## 1. The system

Every hub process (a window, a daemon, an `nx` command) is one Node event loop
with its own job queue. Processes share files: `state.json`, `settings.json`,
`downloads/`, the install directories. Hubs on different machines share nothing
but messages. What is atomic is therefore different at each level: inside a
process, everything between two `await`s; between processes, one system call;
between hubs, one frame.

| Component | Source | State it keeps | Operations | Talks to | Hard because | Must be true |
|---|---|---|---|---|---|---|
| Job queue, download slots | `jobs.js` 24-380 | job table, a FIFO and an active job per app, slot counter and its waiters | enqueue, cancelJob, pump, finish, acquire/release slot | window, tray, CLI, fleet, stacks, policies call it; it calls the install pipeline | late pumps, cancels, a limit that changes under running transfers, waiters with no timeout | one job per app, in order; none lost or stuck; no slot leaked or over-granted |
| Asset lock | `jobs.js` 1630-1740 | `<asset>.lock` with a pid | acquireAssetLock, release | all hub processes | system calls of processes interleave, holders die, lock files may be empty | one holder; a dead one wedges nobody |
| Install pipeline, download cache | `jobs.js` 400-990, 1390-1620 | `downloads/`, recorded pre-downloads, installed record | runInstall, predownload, delta, LAN seed, download, signature gate, clear cache | GitHub client, peers, provenance, engines | what was checked before a wait is used after it; two processes, one file | the engine gets what was fetched for it, signed where that is asked |
| Install directory | `install/util.js`, `archive-dir.js`, `common.js` | `installDir`, `.prev`, temporary siblings | stagedInstall, rollbackDir, standardUninstall | pipeline, launches | renames and removals, each may fail or be the last | old or new version, never a mixture |
| Prefix installs | `install/tarball-prefix.js` | files in a shared prefix, a manifest | copy, undo, drop stale, uninstall | the user's own files | loops whose errors are partly ignored | exact uninstall; others' files untouched |
| Configuration snapshots | `snapshots.js` | archives of an app's configuration | capture, prune, restore, delete | pipeline, window, CLI | tar runs beside everything else; a killed one looks whole | a restore can be undone, a rollback finds its configuration |
| Discovery, update policies | `discovery.js`, `jobs.js` 1480-1628 | the catalogue, what a policy did last | refresh, rebuild, remerge, applyUpdatePolicies | GitHub, settings, queue | decisions on a view that is old by the time they act | the catalogue settles; what is shown as ready is there; no pending update is passed over |
| Launch watcher, supervisor | `jobs.js` 1100-1390, `supervisor.js` | watched launches, recent stops, crash record, restart ladder and budget | trackLaunch, onWatchedExit, noteHubStop, relaunch, bye | each other, connector | an exit, a stop, a goodbye, a timer and a relaunch in any order | restarts bounded; a stop is obeyed; an unexpected exit is answered |
| Stop ladder | `running.js`, `ipc.js`, `cli/index.js` | stops under way | ask, wait, signal; `nx stop` | connector, launch watcher | the program leaves, hides or comes back while it waits | it says what became of the program |
| Stacks and triggers | `stacks.js` | definitions, the current run, armed triggers | run, gates, stop, triggers | queue, launches, fleet, connector | a stop or a trigger while a step is awaited | gates; exact stops; only an arrival triggers |
| Connector bus | `connector/server.js` | sockets, presence, history rings | hello, status, sweep, close | apps; supervisor, stacks, roster | clients evict each other, hang, come back | presence is exact, a change is announced |
| Fleet sessions | `fleet/index.js`, `client.js`, `server.js` | trusted peers, table of sessions, rosters | pair, dial, adopt, forget | peers | crossing dials, superseded sessions, restarts | the table is the open sessions; only paired peers are served; paired hubs meet again |
| Fleet sync | `fleet/sync.js`, `fleet/index.js` | stamped preferences and stacks | merge, push | peers | clocks, lost pushes | hubs agree when nothing is under way |
| Fleet requests | `fleet/index.js` | requests in flight, owners of jobs | ask, serve, relay | peers, queue | answers after a timeout, a new session, a duplicate | who asked is told the truth, and the end |
| Flight recorder, checkpoints | `recorder.js`, `checkpoints.js` | journal, its rotated files | append, rotate, resolve, restore | queue | kills, rotation, restores over other changes | an answer is true or says that it does not know |
| Bisect | `bisect.js`, `cli/bisect.js` | a search in `bisect.json` | start, verdict, reset | pipeline | commands fail half way, other installs interfere | the break stays in the window |
| State store, settings, fleet store, dev links | `state.js`, `config.js`, `fleet/store.js`, `dev.js` | four JSON files | load, change, save | everything | no lock between processes | what is finished stays |
| Window | `renderer/app.js`, `ipc.js` | what it shows | pulls, events, clicks | its hub | answers overtake each other | it catches up, no bar is stuck |
| Process shell | `index.js`, `daemon.js`, `cli/daemon.js` | ports, snapshot, unit | start, refuse, stop, status | each other | processes race for two ports | status is true; a service is served again |
| GitHub client, provenance, other engines, housekeeping, self-update, `nx.json`, audit, CLI, Android app, registry | see `PROJECT.json` | caches, logs | | | mostly I/O, classification or rendering | see `PROJECT.json` |

`PROJECT.json` lists every component with its status and the reason for it, the
lines each definition stands for, and the hazards: what in this code a test
would hardly reach, each with the properties that would notice.

## 2. Modules

```
JobLedger    <-refines-  JobQueue     MCJobQueue     JobQueueProofs
                         AssetLock  \
                         Catalogue   > MCUpdates     UpdatesProofs
KeptVersions <-refines-  DirSwap    \
                         PrefixInstall
                         AssetCache  > MCInstalls    InstallsProofs
                         Snapshots  /
                         Watchdog   \
                         Bus         > MCPrograms    ProgramsProofs
                         StackRun      MCStackRun    StackRunProofs
                         FleetLink  \
                         FleetSync   \
                         Window      / MCMessages    MessagesProofs
                         HubProcesses
                         Bisect     \
                         Replay      \
                         FleetRequest > MCCommands   CommandsProofs, RequestProofs
                         StopLadder  /
                         Stores     /
```

`MCAssetLock` and `MCWatchdog` are the instances of two counterexample runs. A
harness over several components has a variable `part` that says which of them
moves; the others rest at a state where nothing is due, so that a behaviour is
one of a single component and the state space is the sum, not the product. A
proof module extends the harness where a theorem states a property of the
harness' own.

The components meet at named boxes. A run of `JobQueue` "takes a while and may
throw"; `AssetCache` is the inside of an install run up to the engine, `DirSwap`
and `PrefixInstall` are two engines, `Snapshots` what runs before them;
`AssetLock` is the wait at the beginning. `Catalogue` sees jobs as things that
end. `FleetRequest` and `FleetSync` take sessions as `FleetLink` gives them.
`Watchdog` notes a stop, `StopLadder` decides what it says. Operators whose
comment begins with "Mutant" or "Defect" are plausible mistakes, used only to show that a
property can fail.

### JobQueue (and JobLedger)

One action per piece of JavaScript between two awaits. `Enqueue` is the whole
`enqueue`, its duplicate check and its call of `pump` included; `Pump` starts the
first job still queued and runs it up to its first await, which for an install
re-reads the settings, sets the download limit and wakes waiters
(`SetDownloadLimit`, `Drain`). `CancelQueued`/`CancelRunning` are the two branches
of `cancelJob`; `AskSlot`, `EndTransfer`, `ReuseDownload` are the transfers of
`runInstall` and `predownload` with `withDownloadSlot`; `Finish` is `finish` and the
`finally` of `pump`, `Kick` the `setImmediate`.

Job ids are 1..MaxJobs; finished jobs stay in the table (nothing reads them). The
setting `maxConcurrentDownloads` is not a variable: whenever the code reads it, it
may have any legal value. `JobLedger` is the promise: a numbered list of jobs; per
app one runs at a time and in order; an ended job stays ended.

### AssetLock

A client is one acquisition by one process; `open`, `write`, `read`, the staleness
test and `unlink` are separate steps, but a process does not interleave two of its
own synchronous sections (`HasTheThread`). `linked[c]` says that the file c created
is still the one at the path. `aged` is the five seconds of `LOCK_INFANT_MS`. An
acquisition happens once per client; process ids are not used again.

### Catalogue

`RefreshBegins` reads the settings; `RefreshEnds`/`RefreshEndsUnchanged`/`RefreshFails`
replace the rows, with any subset of the release lists answered; `SetAppPref` rebuilds
them without the network (`Rebuilt`). A job that succeeds uses up the download and
brings the rows up to date (`Installs`, `Remerged`); one that fails leaves them as they
are, and one whose file has a wrong signature throws the download away without merging
the rows (`Spurns`). A policy pass keeps the rows of its refresh, as its own once
another model has replaced them (`own`), and walks them in `Order`, one action per
branch of `applyUpdatePolicies`; where it waits for a download (`PolicyLoads` ..
`PolicyLoaded`) everything else goes on, another pass included. `PolicyDone` merges what
it has downloaded. What the policies remember per version is `notified`, `attempts` and
`downloads`. `Truth(a)` is what GitHub, settings and disk say; the properties compare
rows with it.

### AssetCache

Actors are the install queue or the update policy of one process, on one asset
path. The variables are what is at the path (a version's bytes, `Garbage`, nothing),
the lock, the records in `state.json`, and per actor the version whose asset it
handles (`asset`) and the one it records it under (`label`): the two differ where
`applyUpdatePolicies` names a pre-download after the app's latest release but
fetches the artifact's source release. The routes are `tryDelta`, the LAN seed and
the download. The lock is exclusive here, with the one exception `AssetLock` shows: a
holder that dies leaves its lock behind (`stale`); when one process breaks it and locks
(`Lock`), an actor of another process that waits may have read it as well (`judging`), and
removes the new lock (`BreakAgain`). `disturbed` marks the runs under way when that
happened, or when the cache was cleared; the properties do not speak of those.

### DirSwap (and KeptVersions)

Every awaited file system call of install, rollback and uninstall of one directory
is a step that succeeds or fails, with a crash possible before it. A removal that
fails or is killed leaves any part of the directory. Directories under a temporary
name are never looked at again (`stranded`). A retry after a crash is the next job.
One job at a time: within a process the queue gives that, between processes the
asset lock does only for jobs on one asset (hazard, `jobs.js:1537`). `KeptVersions` is
the promise: current, kept and just-replaced version change in single steps from
one complete version to another.

### PrefixInstall

One file copied or removed, one directory removed, per step; each loop with its own
treatment of errors. The user may put files of their own anywhere at any time.
History variables remember what was there before the job (`before`) and before the
app (`base`), and what has failed since (`tainted`, `skipped`).

### Snapshots

A call (`Callers`: jobs, the window, a terminal) captures file by file (`Pack`), with
writes by the app, other calls, kills and failures in between; `Packed` is the end of
tar with the pruning to the newest `Retention`, and what the caller then does: the
update, the uninstall, or the unpacking of the archive asked for (`Unpack`, file by
file). A killed capture leaves an archive that looks like any other (`whole` is known
to the properties only). `lost` remembers what a restore has overwritten, `way` the
archive an update has left behind for a rollback; `PushedOut` says that the
retention rule or the user has removed an archive.

### Watchdog

The watcher (`UserLaunch`, `Launched`, `LaunchFails`, and `Notice`, which is
`onWatchedExit` and the supervisor's `onLaunchExit` in one go), the supervisor's
timer (`Relaunch`), and the stops (`StopApp` is the ladder, `StopPid` the SIGTERM of a
stack or of a peer). `Exit` is the process itself; the hub notices later and may learn
how it exited (a child) or not (polling). A launch is two steps, since `jobs.launch`
awaits the engine. Time is discrete: a `Tick` needs every exit noticed and no due
timer, and stamps are kept as ages. History: `launches`, `recent` (restarts there really
were), `lastExit`, `owed`, and two fields of the timer.

### Bus

Sockets connect, say hello, stream one status field, hang, and are reaped by
`Sweep`; `Hello` evicts the other socket of its app; a change arms the debounced
announcement (`Notify`, `Fire`), which is what the rest of the hub (`told`) knows.
A message that closes its socket (`HangsUp`) may be followed in its chunk by others:
the parser goes on (`rest`, until `ChunkEnds`) and `onHello` does not ask whether the
socket is gone, so that one it registers then is in the table and closed (`late`).
`Status` records numbers into a ring and clears it at a value that is none
(`Recorded`); `Thinned` is the line handed out.

### StackRun

`UserRuns`, `LaunchSucceeds`, `GateOpens`, `GateFails`, `LaunchFails` are the loop of
`run`; `StopCall`/`StopGoesOn` the walk in reverse over what has been started and
not asked yet (`Pending`); `AppToggles`, `DeviceToggles`, `SweepStarts`,
`SweepAnswers` the watcher with its asynchronous sweeps of adb; `Save` and `Remove`
rearm it. Sweeps of a watcher that has been replaced still answer. One answer of adb, or
one change on the bus, tells every armed stack of its kind in one loop: `Tell` begins it
and `Tells` is a turn of it, with nothing between the turns (`Next`), so that of two
stacks about one device (`About`) the first runs and the second finds it running.

### FleetLink, FleetSync, FleetRequest

`FleetLink`: a connection is a slot with an end in each hub and two streams of
frames; a session is an end that has passed the challenge. `Sweep` dials, `Accept`,
`Answer`, `Ready`, `Closed`, `Timeout` are the handshake's handlers, `Adopt` and `Forget`
the table; `Pair`, `Unpair`, `Restart`, `Switch`, `Drop` what users and networks do.
`Restart` is the end of a process and closes all; `Switch` is the fleet switched off and
on, whose `close` calls off no dial (`LeftAlone`): what the old instance was dialling is
`Astray`, and `ReadyAstray` makes it a session that is served and in no table.

`FleetSync`: entries with stamps, a debounce timer, what was sent last (`lastHash`),
and per direction a wire. `Merge` is entry by entry, the later stamp wins.

`FleetRequest`: a request waits in `inflight`; the server answers at once (install,
update-all, asset query, what names nothing) or when a launch, a stop or a probe is
through (`Says`), over the session the request came by; job events go over the session of
that moment. A stop is answered with success whatever became of it: `gone` is the answer
that found nothing to end. An update-all begins or joins one job per app (`Queue`). `owner`
is `jobOwners`, `gap` remembers the ends that were lost or had no session, `last` who was
given a job last.

### Window and HubProcesses

`Window`: a pull reads the settings, waits and then reads the jobs (`building`,
`Answers`), so that answers overtake each other; events and clicks lay over it.
`HubProcesses`: the window's process takes the ports that are free, a daemon probes
both first and gives up when one is taken; the snapshot's stamp and the port are
what `nx daemon status` judges by. `ComesUp` binds the port and stamps the snapshot in one
step; in the code one `await` of the bus' `ready` lies between, and for that instant a bus
that is served may still be reported as stale.

### Bisect, Replay, StopLadder, Stores

`Bisect`: each command is a process that reads the search, writes it moved on and
installs the next candidate, which may fail or be overtaken by another job of the app.
The user judges what is installed, whatever it is, and may start a search over another;
two history variables remember which candidates were judged so (`misjudged`) and what
each start found installed (`starts`). Commands of two terminals at once are not
modelled. `Replay`: the journal buffer, its append, rotation and kills; the resolution
of a moment; the restore that acts on it step by step. `StopLadder`: rows joined from
watched launches and the bus, a stop's wait and its answer; `sole` has the stops that
began when the hub knew of one copy of the app, `joined` those during whose wait a
program came to the bus. `Stores`: every change of the four files as read, change, write
by processes that interleave; a file is a function from cells to values.

## 3. Runs

| Run | Instance | States | Checked |
|---|---|---|---|
| `job_queue` | 2 apps (one with install and uninstall), 3 requests, 3 jobs, 1 pre-download, at most 2 slots, 2 routes | 193,938 | `QueueIsSound SlotsAreSound NoOvergrant ImplementsLedger EveryJobEnds` |
| `updates` | lock: 3 acquisitions in 2 processes; catalogue: 2 apps, 2 versions, one release without artifact, 1 change, 1 policy pass at a time; passes: the same with 2 passes over one app | 206,291 | `ExclusiveUndisturbed ExclusiveOfTwo OnlyHolderRemoves NeverWedged CatalogueSettles PendingIsServed ReadyIsReal` |
| `installs` | swap: 2 versions, 2 failed calls per job; prefix: 3 files in 2 directories, 2 failed calls; cache: 2 releases with one asset name, 2 installers and 1 pre-downloader in 3 processes; snapshots: 2 files, 2 calls, 2 archives kept, 3 captures, 1 write | 1,175,793 | `ImplementsKept JobsAreSafe PrefixIsExact CacheIsSound RestoreIsUndoable RollbackFindsConfig` |
| `programs` | watch: 1 program, 2 launches, 1 watched at a time, 2 restarts per window, 2 rungs; bus: 2 sockets, 2 apps, rings of 2 samples of which 1 is shown | 235,346 | `RestartsAreBounded StandsDown KeptAlive PresenceIsKnown ReapsTheHung` |
| `stack_run` | a stack of 2 steps and one of 1, 2 runs, 2 stops; or a stack behind an app; or one behind a device with 2 watchers; or two behind one device | 449,790 | `GatesHold StopsAreExact OnlyArrivalsTrigger RunsAndStopsEnd` |
| `messages` | link: 3 connections, 3 troubles, 2 codes; sync: 1 preference, 1 stack, 2 edits, 3 sessions; window: 1 field, 1 pull beside the regular one, 1 change, 1 job, 1 click; hubs: a window and 2 daemons, 1 crash | 302,103 | `SessionsAreSound Relinked QuietLinkAgrees ExchangeEnds WindowKeepsUp HubsAreSound` |
| `commands` | bisect: 5 releases, 2 starts since a reset; replay: 2 artifacts, 2 versions, 3 changes, 1 rotated file, old lines up to time 2; request: 2 askers, 2 servers, 2 requests, 2 sessions per link, 1 job, and beside installs a launch on one link, a stop and an update-all on the second, a probe on the third; ladder: 2 launches, 2 hellos; stores: 2 processes, 2 keys, 2 values, 3 changes | 1,137,452 | `WindowHoldsBreak ResetPutsBack HistoryIsHonest AskersAreTold LadderIsHonest StoresAreSound` |
| `asset_lock_stale` | three processes, one acquisition each | | `Exclusive` is violated |
| `watchdog_stop` | as `programs` | | `StopIsNoCrash` is violated |
| `stack_run_overlap` | 3 runs, 1 stop | | `OneRun` is violated |
| `history_guess` | as `commands` | | `NoGuess` is violated |
| `snapshot_restore` | as `installs` | | `RestoreIsNotBlocked` is violated |

The bounds, and why they are enough:

* `job_queue`: two jobs of one app behind each other while a third of the other app
  competes for a slot. A late pump, a cancel of the job the pump would have taken, and
  a duplicate request all happen; waiters exist at both limits, and the limit rises
  and falls while transfers run. `LastRoute = 2` makes one fallback.
* `updates`: three acquisitions give contention within a process, between processes,
  and both; three processes are needed for, and suffice for, the stale-lock
  violation. Two versions and an app whose newest release ships no artifact make
  latest, source, installed and downloaded version differ. A behaviour has one change
  by the user or restart, any number of refreshes, answers that fail, and jobs; one
  pass at a time over two apps, since one app waits while the other is served, and two
  over one app, since passes meet only in an app's row.
* `installs`: a failure and a failure of its undoing in a job; jobs are unlimited, so
  that what one leaves behind meets the next. One file name for both releases is the
  hard case of the cache; with three processes two survive a death. Three captures
  overflow a directory of two; two files make a capture that is half of before and half
  of after a write. In the prefix the first release ships two files into one directory
  and the second one of them, and the third file is only the user's: a directory may be
  new at the first file and the user's at the second, and an update drops what it does
  not ship.
* `programs`: a tick stands for some ten seconds. The times keep their order: a stop and
  a goodbye are forgotten after a tick, the second delay is longer than that, a crash is
  sooner than a healthy run, and the window holds a healthy run and the restarts of the
  budget. Two launches make two lineages of copies that overlap. Two sockets suffice for
  an eviction, for two instances of one app, and for an app that leaves as another comes.
* `stack_run`: two steps make an order to reverse; an optional, a peer's and a wake step
  occur. `Runs = {1, 2}` are the run in flight and the last one; runs themselves are
  unlimited (`Reusable`). Two watchers are the armed one and one that was replaced while
  a sweep was out; two stacks about one device have the one watcher, which is armed again
  only between sweeps (`WatchersOf`), since a replaced one tells nobody anything. A loop
  begins when there is a stop and a run left for what it fires (`Room`).
* `messages`: three slots are the old session, the one that replaces it and a dial that
  crosses. Three troubles: a session lost while it is replaced after a restart. Two edits
  of one entry by two hubs, and a removal; three sessions are one before and two after
  what was lost. A late answer needs one pull beside the regular one.
* `commands`: 5 releases need up to three verdicts and leave room for skipped ones on both
  sides; two starts are one over the other. Three changes are one dropped, one rotated
  and one live. The second session of a link is the one that replaces the first while a
  request is in flight. Each kind of request is asked on one link beside installs
  (`Calls`), an update-all on the link whose app another hub installs too. In `stores` a
  third change makes a stale write collide with a finished one.

Deadlock checking is off where the system may stop for good: an acquisition happens
once, a bounded run is used up, a part with nothing due rests.

### Fairness

* `JobQueue`: weak fairness of every user's next step and of every scheduled pump. The
  event loop runs what is due, and everything a run awaits ends (a request with a
  timeout, an engine, a lock). Requests, cancels and policy runs have none.
* `AssetLock`: weak fairness of each client's step while its process lives; strong
  fairness of `Open` and `Release`, which are disabled while another acquisition of the
  same process is in a synchronous section; weak fairness of `Age`. Death has none.
* `Catalogue`: refreshes come regularly, and again and again one is answered in full
  (strong fairness: the network may fail in between); a pass goes on, as the event loop
  does; a download that is tried again and again succeeds in the end; a job ends.
  Changes, restarts and single failures have none.
* `Watchdog`: weak fairness of launches (the engine returns or throws), of noticing an
  exit (an event, or the next poll), of due timers and of time.
* `Bus`: the announcement's timer, the end of a chunk, and sweeps with the answers of
  apps that answer pings at all (strong fairness: the rest of a chunk goes before them).
  `StackRun`: launches end, gates and stops have deadlines, a loop that tells
  stacks what is there goes on; a gate
  need not open.
* `FleetLink`: the dial sweep's interval, and delivery of what is on an open connection
  (a connection that loses frames is one that drops). `FleetSync`: the debounce timer
  and delivery. Edits, drops, pairings and restarts have none.
* `Window`: the hub's and the window's event loops, the window's heartbeat, the end of
  jobs; strong fairness of "some pull is answered", since one may fail. `HubProcesses`:
  `Restart=on-failure` of the unit, and a daemon's own steps.
* `DirSwap`, `AssetCache`, `PrefixInstall`, `Snapshots`, `FleetRequest`, `Bisect`,
  `Replay`, `StopLadder` and `Stores` state safety only: a crash, a kill or the user may
  end every operation.

`MCMessages` and `MCUpdates` restate the fairness of their parts, each under the
condition that its part is the one that moves; without that condition a resting part
would be fair to nothing. In `MCUpdates` a strong fairness of the lock and one of the
catalogue share a conjunct, which is the same since only one of them moves.

## 4. What the runs show

Everything holds as listed, with five exceptions where the code does not do what
its own text says. Each is a run of its own:

1. **Two holders of an asset lock** (`asset_lock_stale`, `jobs.js:1693`). Reading the
   holder, testing it and unlinking are three calls. With three processes, one of
   them dead, two survivors judge the same stale lock; the first replaces it, the
   second then removes the replacement. With two processes this cannot happen
   (`ExclusiveOfTwo`), and without deaths and failed writes it cannot with any number
   (`ExclusiveUndisturbed`); both are proved.
2. **A stop counts as a crash** (`watchdog_stop`, `jobs.js:1373`). `onWatchedExit` works
   out that the hub has stopped the program and tells the supervisor, but records the
   crash without it: a SIGTERM within thirty seconds of the launch counts, and three of
   them suspend `keepAlive` (`README.md:235` says the opposite).
3. **Two stacks at a time** (`stack_run_overlap`, `stacks.js:877`). `stop` clears the run
   in flight while that run still awaits a launch; its `finally` later clears the run
   that has begun since, and a third starts beside that one.
4. **A checkpoint that guesses** (`history_guess`, `checkpoints.js:412`). `resolveRow` takes
   the first change it finds after a moment for the first change there was; rotation
   may have dropped others. In the journal's reach the answer is true (`HistoryIsHonest`).
5. **A restore blocked by its own capture** (`snapshot_restore`, `snapshots.js:480`). The
   capture before a restore prunes to the newest five and may delete the very archive
   that was asked for.

What holds only with an exception has it in its statement:

* `StandsDown` names where the supervisor falls short of its header (`supervisor.js:9`): it
  does restart a program whose last exit was a stop, a goodbye or the end of a crash loop
  if a restart was pending from an earlier exit while another copy was about; and if the
  goodbye came after the exit and the delay was longer than five seconds.
* `ReadyIsReal` excepts an app while a policy pass is under way that a newer catalogue has
  overtaken and that has downloaded: it records its older version at once and merges
  the rows only when it ends, so that the app may be shown as ready without having that
  version. One pass at a time needs no exception. This came out of the attempt to prove it.
  It also excepts an app whose download was thrown away for a wrong signature, until rows are
  merged or built again: `verifySignature` removes the record (`jobs.js:750`) and the failing
  job does not remerge, so that the app is still shown as ready.
* `JobsAreSafe`: an install whose manifest cannot be written after the swap leaves the
  new version live; a removal that was cut short leaves a `.prev` that `rollbackDir`
  takes for complete (`install/util.js:327`). `PrefixIsExact`: the same manifest failure
  leaves copied files, an aborted update removes files it has replaced
  (`tarball-prefix.js:112`), and an updated app forgets the directories of its first
  version (`tarball-prefix.js:131`).
* `CacheIsSound` excepts jobs whose lock was taken away: by `clearDownloadCache`, or by
  the second of two survivors of a dead holder (the first disagreement above). It does
  not say that the engine gets the version that is recorded: a recorded pre-download of
  another release with the same file name is reused when signatures are not required
  (`jobs.js:876`).
* `RollbackFindsConfig` excepts a second update from the same version, which makes the
  choice of the archive ambiguous. `RestoreIsUndoable` is about what a restore overwrites;
  files it brings back are not removed by its undo.
* `QuietLinkAgrees` and `ExchangeEnds` are about two hubs. With three in a chain a push is
  lost: a session with one hub sets what was sent last, and the pending push to the other
  is then skipped. The clocks must not be behind a stamp received (`Skewed`).
* `TableIsExact` excepts a session that a closed instance of the fleet has dialled. `close`
  (`fleet/index.js:1432`) calls off no dial under way and `adopt` (549) does not ask whether
  its instance is closed: a hub whose fleet is switched off and on may serve a session it
  neither lists nor closes when it unpairs. If the hub is the dialler its next dial
  supersedes it; if not, only a request of its user does. Settings that arrive over such a
  session are merged; `FleetSync` has no such session.
* `Relinked` has the premise that no session is dead in the table (the hazard at
  `client.js:138`), nor astray at the hub that does not dial.
* `EndReachesAsker` excepts a job that another hub was given last: `jobOwners` keeps one
  owner per job (`fleet/index.js:795`), and the first hub is then not told of its end.
  `AnswersAreTrue` claims nothing of a stop whose answer is `gone` (`index.js:964`).
* `WindowHoldsBreak` does not say that the search always finds the break: nothing compares
  what is installed with the candidate (`cli/bisect.js:187`), so a verdict may be booked on
  another release than it is about. It says that such a verdict is the only thing that can
  lose the break, and which of them it was. `ResetPutsBack` goes back to the last start: a
  search started over another forgets what the first one was to restore.
* `PresenceIsKnown` excepts a hello in the rest of a chunk that has closed its socket (behind
  a bye, a close frame, a wrong token, a message over a limit): it registers the closed
  socket (`frame.js:147`, `server.js:455`), against "presence *is* the open socket"
  (`server.js:756`). No sweep releases it, only another instance's hello or the bus' end.
* `LadderIsHonest` has one exception in its statement: a stop that began while the hub knew
  of two copies of the app, a watched launch and another program on the bus. `list` folds
  the bus into the newest launch (`running.js:335`), so that `stop` asks the one copy and
  answers for, or signals, the other (`running.js:469`): it may say `shutdown-request` of a
  process that runs on and was never asked. What comes after the call, a second launch or a
  hello, needs no exception but for a signal to who came to the bus in the meantime.
* `StoresAreSound` is about changes nobody had read before: between overlapping changes
  the last writer wins. `HubsAreSound` excepts a port taken between a daemon's probe and
  its bind (`raced`).

Other limits of the code the models show, with no run of their own: a bus heartbeat of
a window's process beside a daemon overwrites the daemon's snapshot; after a clean stop
`nx daemon status` says "stale" for two minutes; two instances of one app evict each
other; an app that leaves and comes back within the debounce is never seen to have left;
`nx stop <app> <artifact>` can stop nothing, since that process watches no launches;
`nx fleet unpair` beside the hub leaves a session served; a failed release list
empties an app's row; attempts of the install policy are forgotten at a restart; the
window writes a whole preference where one field was meant (`app.js:1056`); a killed
capture leaves a partial archive that is listed and counted; two processes that append
journal lines may append them out of order; an unpaired peer comes back if another
process was writing it at that moment; an unreadable file is read as empty and saved so.

## 5. Proofs

Each theorem goes from an inductive invariant to properties: it holds initially,
every action keeps it (a lemma per action, or per group of actions with one effect), and
the last step combines that with temporal logic. TLC has checked every invariant on the
bounded instance before. Constants are constrained by the named assumption of their
module only; bounds are arbitrary naturals, sets arbitrary unless counted.

**`JobQueueProofs`** (`QueueAssumption`). That a started job is not already running
depends on the queue holding only queued jobs, which depends on what a cancel removes,
which depends on the queue being without repetition. `QueueInv`: types; `Numbered` (ids
beyond `seq` are unborn); `Serial` (running = active = somewhere in a run); `Exact` (each
queue holds exactly its app's queued jobs, in order); `NoLostWakeup`, `NoTwins`; `SlotInv`
(the waiter list is exactly the waiting, the counter the cardinality of the transfers,
nobody waits beside a free slot). The slots are a machine of their own: `DrainEffect` says
what waking any number of waiters does, `PumpEffect` and `WithoutEffect` the same for the
queues. Theorems: `QueueInvariant`, `QueueIsAlwaysSound`, `SlotsAreAlwaysSound`,
`SlotsAreNotOvergranted`, and the refinement `QueueKeepsLedger`, action by action.

**`InstallsProofs`** (extends `MCInstalls`). *DirSwap*: `SwapInv` says at each step of each
job what is at the three places relative to what was there before the job
(`InstallShape`, `RollbackShape`, `UninstallShape`, `RecordShape`, `NoLitter`); from it
`JobsAreAlwaysSafe` (an action property), and `DirectoryKeepsPromise`, the refinement of
`KeptVersions`, with a lemma per action that names the abstract step. *AssetCache*:
`CacheInv` is mutual exclusion (`Locked`: whoever is at work has the lock of its file) with
what each actor has made sure of since it got it, while no lock was taken away; from it
`CacheIsAlwaysSound`, for any number of processes.
*Snapshots*: `SnapInv` says that a capture under way has in its archive all it has read
and nobody has written since (`Read`), that a restore has in its archive what it has
overwritten and what it will (`Saved`), that an archive that is neither there nor pushed
out is nobody's, and that the way back is the newest capture of its kind (`WayIsOpen`). The
pruning is the hard step: what it removes are the archives with at least `Retention` newer
ones (`DroppedIsOut`). `RestoresAreUndoable`, `RollbacksFindConfig`. *Prefix*: a first
install can undo all it has done (`Undoable`, `FirstInv`), a clean uninstall leaves exactly
what others have put there (`Foreigners`, `CleanInv`), and what is at a path that is neither
listed nor about to be shipped is never written (`ForeignStays`). `PrefixAlwaysExact`. The
attempt to prove it showed a former claim to be false, that the directories are as before:
when a release ships two files into a directory it has made and the user puts the second
there in between, that file is overwritten and goes with the undoing, and so does the
directory. `DirsAreBack` says what is true: no directory remains that was not there, and
one that is missing held such a file.

**`ProgramsProofs`** (extends `MCPrograms`). *Watchdog*: `WatchInv` holds that copies
that live and restarts that are pending are together no more than the launches (counted
with cardinalities: a restart is one pending less and one copy more), that the history
of restarts is the supervisor's own list, sorted and never longer than the budget, and
what an undisturbed pending restart knows of the exit it answers (`Undisturbed`).
`RestartsBounded`, and the action property `StandsDownHolds`. *Bus*: `BusInv` is the
table's exactness (open sockets and late ones) with "either everybody has been told or a
timer is due" and the shape of the rings; `PresenceAlwaysKnown`, for any ring size and
number of points.

**`StackRunProofs`** (`StackAssumption`; any number of stacks behind one sweep or one
app). `RunInv`: before the step the loop is at every step has been passed, after it none
is touched. `StopsFollow`: a stop under way has before it all that its record has
pending but stray launches. `AbsenceIsKnown`: the watcher is behind the truth in one
direction only, whether it has seen an absence, a sweep under way may report it or a
loop is about to tell it. `GatesAlwaysHold`, `StopsAreAlwaysExact`,
`ArrivalsAlwaysTrigger`.

**`MessagesProofs`** (extends `MCMessages`). *FleetLink*: `LinkInv` relates the table of
sessions, the two ends of each connection, the secrets and the roster; lemmas say what a
handler does to one connection (`Turned`, `Taken`, `Posted`, `Hung`), what closing and
adopting do to the tables (`ClosingKeeps`, `AdoptKeeps`), and `StartingKeeps` that what is
left alone when the fleet is switched is in no table. `SessionsAreAlwaysSound`.
*FleetSync*, under `~Skewed`: on a session a hub has sent what it has or a push is pending,
and what it has sent last is the last on its way, or merged (`Pushed`, `Reaches`); the
receiver's answer is its own last payload, so the argument is symmetric. `QuietLinksAgree`.
The hypothesis is a value of the constant the run checks too; without it a merge loses
to a stamp from the future and the statement is false. *Window*: what was sent of
the progress of a job that has ended is followed on the wire by its end (`ProgressEnds`),
so that no bar outlives what clears it; `CardsAlwaysHonest`. *HubProcesses*: who listens on
the bus port stamps the snapshot, a stamped one is fresh, and unless a port was taken
after a probe the only daemon that stamps is the one with the bus (`PortsInv`);
`HubsAlwaysSafe`. These are the safety halves of `WindowKeepsUp` and `HubsAreSound`; the
other halves are liveness.

**`UpdatesProofs`** (extends `MCUpdates`). *Catalogue*: `CatalogueInv` is `ReadyIsReal`
with the types of rows and passes and one fact about a pass that waits; each way to make
rows (`Built`, `Merged`, `Remerged`) has a lemma that says "ready means downloaded".
`ReadyAlwaysReal`. *Asset lock* (`LockAssumption`): `LockInv` is typing and `Undisturbed
=> Calm`: a client that owns the lock created the file that is at the path and it names
nobody else; one owner; a lock has one; nobody is about to break one. With nobody dead
what was read earlier names a live process, which is why a judgement made earlier is
harmless. `LockExcludes`, `LockRemovedByHolder`. For two processes that may die the
invariant is another, `TwoInv`: of the acquisitions of one process one at most is in a
synchronous section (`OneInSync`); a lock owned by a living one names its process, and
nobody else alive owns it or is about to break it (`LivingOrder`); and whoever judges
what it read while another of its own process owns the lock has read that process' name,
which it will find alive (`SawItsHub`). `LockExcludesOfTwo`.

**`CommandsProofs`** (extends `MCCommands`). *Bisect*: `SearchInv` relates window,
skipped releases, candidate, the true break and the misjudged candidates, with no
assumption about the user: a verdict about the candidate moves an edge up to the break
at most, one about another release is remembered at the edge it moves; `CandidateExists`
and `SettleEffect` are about the choice of the next candidate, for which the library's
well-founded induction gives a least element. `BreakStaysInWindow`, `AnswersAreRight`,
`CandidatesAreUseful`, `ResetsPutBack`. *Stores*: `StoresInv` says that a cell nobody
has put at risk is on disk what it should be and in every process' copy
(`NothingMissed`), that it therefore survives any write, and that a peer has a secret
exactly when it has an address. `StoresAreAlwaysSound`. *StopLadder*: a row that names
an artifact is of a process of it, and where the hub watches nobody but the program on
the bus, every row is of that one; so a stop that began then acts on whom it has asked
(`SoleOnes`), whatever comes and goes later; any stop is for a process of its artifact,
and who is on the bus was asked or came since (`Waits`). `LadderAlwaysHonest`. *Replay*:
`ReplayInv` holds that each change says what it found there (`Chained`); that from the
first line left in a file on, every later change has a line in that file, a newer one or
the buffer, but for those up to the last that was lost (`Kept`): rotation keeps this
because it drops from the oldest end only, a kill because it moves `lost`; and that what
a restore has still to do is the truth of its moment (`PlanIsTrue`). Then a row is true
in each of the four ways `resolveRow` makes one (`RowIsTrue`), and the others are
uncertain. `HistoryAlwaysHonest`, for any number of rotated files. That number is 1 in
the run and 2 in the code; the proof showed that the former definition of a rotation was
undefined beyond 1, and that the former definition of the truth had overlapping cases.
Both have been restated.

**`RequestProofs`** (extends `MCCommands`). `RequestInv`: a message, a launch or a job under
way belongs to a request that was asked over its link; a search that is not over lacks
the answer of each hub it has not heard (`Lacking`, `Heard`); a job belongs to the last
request that was given it, however often the app is installed (`JobsFit`); an end that is
awaited is still to come, or what it takes to excuse it is recorded in `gap` or `last`
(`EndsAreComing`).
`AskersAlwaysTold`, for any finite set of links and any number of requests, sessions and
jobs.

The assumptions on constants say what the code gives: bounds are naturals, the values
that stand for "nothing" are not among the real ones, apps and links are finitely many
(`ReplayAssumption`, `FleetRequestAssumption`), no app has the name of a verb (a search is
no install), the processes of a hub are distinct
(`HubProcessesAssumption`), `nx` is no artifact (`LadderAssumption`).

No invariant and no safety property of a passing run is without a theorem. Only
model-checked, because they are liveness under fairness, which this prover does not
reach: `EveryJobEnds`, `NeverWedged`, `CatalogueSettles`, `PendingIsServed`, `KeptAlive`,
`ReapsTheHung`, `RunsAndStopsEnd`, `Relinked`, `ExchangeEnds`, and the liveness halves of
`WindowKeepsUp` and `HubsAreSound`. No module uses a recursive operator.

## 6. Not modelled

Cryptography, archive formats, HTTP retries and rate limits, name and version
parsing, rendering, the Android client and the release scripts: no protocol, or
outside what a finite model says something about. The engines other than
`archive-dir` and `tarball-prefix` call external tools; `appimage` and `windows` share
the `stagedInstall` and `rollbackDir` that `DirSwap` models. Self-update (a swap of the
running hub's directory with no put-back), applying `nx.json`, beacons and wake-on-LAN,
the tray, the end-to-end driver and the command line's own parsing are left out.
Two processes in one install directory (`jobs.js:1537`) are not composed: nothing in the
code serialises them, so nothing could be claimed.

## 7. Plan

1. Models: self-update as a variant of `DirSwap`; applying `nx.json` over `JobQueue`;
   beacons and the port conflicts of discovery.
2. Composition: `AssetCache` over the steps of `AssetLock`, with its invariant from
   theirs.
