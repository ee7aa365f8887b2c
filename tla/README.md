# cat-watcher in TLA+

A TLA+ development of [rust-folder-watcher](../src/README.md) ("cat-watcher"), the
program under `src/cat-watcher`, and of what it relies on in its fork of the
`notify` crate, `src/notify-fork`.  cat-watcher watches folders, debounces what the
operating system reports of them, and runs the action chains of the rules that match.

`.tla` files come in groups: `X.tla` is the model of a component, `XProperties.tla`
says what must hold of it, `XProofs.tla` proves some of that with TLAPS, and `MCX.tla`
with `MCX_<run>.cfg` makes small instances for TLC.  `PROJECT.json` lists components,
runs, the source lines each definition stands for, mutants, hazards and theorems.

## 1. Inventory: the system and what makes it hard

```
 service control manager / command line
        │ start, stop                other programs ──change──> folders <─copy / move─ Transfer
        ▼                                                          │                      ▲
 Process: load (Config) ─> logger ─> start_watching                │                      │ awaited,
                                        │ watch                    ▼                      │ inline
                                        └─────────> Inotify / ReadDirectory          execute_chain
                                                        │ callback, blocking_send         ▲
 startup scan (thread) ──blocking_send──> mpsc(100) <───┘                                 │
                                             └────────────────> run_router ───────────────┘
                                                                  │
                                                 loggers ─> files └─publish─> dashboard ─> browsers
```

| Component | State it keeps | Operations | What is hard about it |
|---|---|---|---|
| Event loop, `router.rs` | the debounce map (events, time, kind per path), the batch in progress | `select!` of channel, timer, Ctrl+C; evaluation of rules; awaiting chains | the batch is a snapshot used after awaits; three branches compete; Ctrl+C is a future that is dropped with each iteration |
| Watch registration and scan, `watcher.rs` | registered folders, the scan's list, both senders | `watch`, callback, `spawn_startup_scan`, shutting rule loggers down | two senders and the loop interleave; the seam between "already there" and "arrived"; failures after the scan was spawned; nobody receives yet while folders are registered |
| Linux back end, `notify-fork/src/inotify.rs` | two maps of paths and descriptors, the additions and removals of a batch | read, report, add and remove watches, answer requests | the tree changes between an event and the walk it causes; errors in the middle of a walk; stale descriptors; overflow |
| Windows back end, `notify-fork/src/windows.rs` | per folder a handle, a semaphore, an open read; a channel of requests | watch, unwatch, stop, completion routines | completion routines run nested in whatever waits alertably; a buffer must outlive its read; five ways out of a read |
| Copy and move, `actions/copy.rs`, `move.rs`, `common.rs` | the files on both sides, attempt and skip counts | skip, rename, copy, verify, clean up, retry, remove the folder | every step can fail or be overtaken by other programs; clean-up removes files; nothing keeps the destination out of the source |
| Action chain, `actions/mod.rs`, `placeholder.rs` | `{Destination}` | actions in order until one fails | partial failure; what later actions see |
| External commands, `command.rs`, `execute.rs`, `spawn.rs` | the child and its job or group | start, wait, time out, kill the tree | time-out against a late exit; processes that escape the kill, or resist it |
| Loggers, `logger/` | an unbounded queue per logger, file name, block number | send, batch, roll, append, shut down | what is queued behind a shutdown; the turn of the day between sending and writing |
| Dashboard, `dashboard/` | sequence number, ring buffer, broadcast channel, cursor per connection | publish, replay, live feed, lag | the seam between replay and live feed; slow connections |
| Configuration, `config/`, `exe_path.rs` | none after start-up | parse, default, validate, convert, compile | the same keys are judged in three places; defaults are written in before they are judged |
| Process and Windows service, `main.rs`, `platform/service.rs` | phase, reported status, stop request, exit code | load, open the log, report, watch, stop, shut the log down, end | a failure at any step has to be told in the right place; a stop cancels whatever is going on |
| Log search, `dashboard/search.rs` | none | scan files for a request | - |

The properties that make each component correct are stated in its `...Properties`
module; in brief:

* *event loop* - a notification is neither lost nor multiplied; it is acted on when
  its path has been quiet; the rules that match are run; Ctrl+C stops the program.
* *watch and scan* - whatever exists once the program runs is noticed; it is processed at
  most once per notification, and once more for each watch folder the scan finds it in; no
  thread is left behind.
* *back ends* - every folder below a watched one is followed; what happened is reported
  once, in order and under its present path; requests are answered; nothing is freed in use.
* *copy and move* - no file is lost; existing files are kept unless overwriting was asked
  for; success means that the file is there, and is the file (but for circular
  destinations, section 5).
* *chain and commands* - nothing runs after a failure; a time-out ends what was started, as
  far as the kill reaches.
* *loggers* - what was accepted before the shutdown is in the file, in order.
* *dashboard* - a connection sees events in order, none twice, none missing without notice
  (but see section 5 for the seam of replay and live feed).
* *configuration* - what was accepted can be compiled, converted and run, as it was written.
* *process and service* - nothing is watched that was not checked; a failure is told; a
  stop ends the service.

## 2. Modules

| Module | Models | Source |
|---|---|---|
| `Router` | the event loop, open to any sender | `router.rs` |
| `Delivery` | what the event loop promises: fold, take, complete | (abstract) |
| `Watcher` | `start_watching`: `Router` closed with its two senders and users | `watcher.rs`, what `inotify.rs`/`windows.rs` report |
| `Inotify` | the thread of the Linux back end, the kernel's queue and a changing tree | `notify-fork/src/inotify.rs` |
| `ReadDirectory` | the server thread of the Windows back end and its reads | `notify-fork/src/windows.rs` |
| `Transfer` | one copy or move action on a file or a folder | `copy.rs`, `move.rs`, `common.rs` |
| `Chain` | the actions of a rule in order, and the processes of its commands | `actions/mod.rs`, `spawn.rs`, `command.rs`, `execute.rs`, `win_job.rs`, `win_runas.rs` |
| `LogWriter` | a logger and its writer task: queue, batches, files, shutdown | `logger/` |
| `Dashboard` | the hub and the `/events` connections | `dashboard/mod.rs`, `dashboard/server.rs` |
| `Config` | loading, defaults, checks, conversion, as operators | `config/`, `exe_path.rs`, `placeholder.rs`, `router.rs` (`compile_rules`) |
| `Process` | the process from start to end: `LogWriter` and `Config` composed | `main.rs`, `platform/service.rs`, the frame of `watcher.rs` |

### Router

State: `files` (what is on disk), `chan` (the mpsc channel), `pending` (the `HashMap`
of `PendingEntry`; no events = no entry), `ready` (the vector collected in branch (B)),
`cur`/`ruleNo` (the loop variables), `router` (where the task is), `sigint` (what a
Ctrl+C meets), and the history variables `got`, `runs`, `due`.  One action per branch
and per loop step: `Receive` is branch (A), `Tick` the filter of branch (B), `TakePath`
`pending.remove`, `SkipRule`/`StartChain`/`EndChain` the inner loop over the rules,
`Suspend` a `select!` whose branches are all pending, `Stop` branch (C).

* Time is the age of an entry in units; ages stop at `Quiet` because the code only asks
  whether the debounce time has passed.
* The filters that look only at the name (patterns, exclusions, watch folder, depth, and
  the dot of a hidden entry where that is the convention) read nothing that changes, so a
  rule has the set of paths that pass them (`scope`).  `matches_target` and, on Windows
  (`HiddenAttribute`), `matches_hidden` look at the disk each time a rule is evaluated:
  `hidden` is the set of entries with the attribute, which comes and goes with an entry,
  moves with it, and may be set or cleared by users and by chains (`Attributes`).
* Ctrl+C may be pressed any number of times; `pressed` notes that it was while the chain
  that runs was running.  `SigintStates`: `tokio::signal::ctrl_c()` installs a handler when
  it is first polled - from then on Ctrl+C no longer kills the process - and the
  notification is lost with the future when `select!` takes another branch.
* A chain is one step here, whose effect below the watched folders is any part of what
  it would do; `Transfer` has the details.

### Watcher

`EXTENDS Router` and replaces its open environment by `Callback` and `ScanSend` (both are
`Send` of the router) and its arbitrary file changes by users (`CreateFile`, `ModifyFile`,
`DeleteFile`, `RenameFile`) and by chains, each with the notifications that the back end
makes of it.  `os` is the queue of the operating system; an overrun leaves one `Rescan`
(`Marked`).  `main` is the main thread: it registers the roots one by one in any order,
spawns the scan, compiles the rules and routes; each step that returns an error may do so.
`RootsOf` gives a path every watch folder it lies in, since these may be nested: the walk
visits the path below each of them and sends a `Create` for each (`Visit`, `ScanSend`),
while a change is reported once on Linux, where a folder has one watch, and once per watch
folder on Windows (`PerRoot`).  `Losses` notes what the code reports and goes on from: an
overrun, an entry `walkdir` could not read, a scan thread that did not start.  `notified`
counts, per path, the notifications that came to name it; a renaming, by a user or by a
move action, makes two that name the same path on inotify, so a change is not the unit to
count in.

### Inotify

The kernel's side is external: inodes with paths (`at`), their descriptors (`wd`), the
queue of events (`os`).  The thread's side is `EventLoop`: the maps `watches` and `paths`,
and in `pc` the place in `handle_inotify` - reading a batch, then making all removals, then
all additions it collected.  A walk (`WalkDir`, `add_single_watch`) is several steps,
between which folders are made, removed and renamed.  `told` notes what the handler was
told of (overflow, watch limit, a read that failed and is tried again), `cut` what an
aborted walk never came to.  Two more history variables note what the code does not survive
(section 5): `raced`, that a watched folder was renamed or deleted amid the changes to the
watches or before the thread had caught up with it, and `broken`, that a removal stopped at
a dead descriptor.  `SubfoldersFollowed` and `NoStrayWatch` speak of the runs without them
(`Undisturbed`).

### ReadDirectory

`io` is the read of a folder, `sem` its semaphore, `handle` its handle and buffer; `server`
is the place of the thread in `run` or in `stop_watch`.  `HandleEvent` may run whenever
the thread waits alertably, that is also nested in `stop_watch`; it starts the next read
first and parses its buffer after (`job`).  `StartRead` has every way to go wrong: the extended
call that is not there, the folder that is gone, the call that fails.

### Transfer

`disk` holds what stands at each place, `layout` says where the destination of each file is
and what lies in the source folder: the destination may be another folder, the source
itself, or a folder in it, because `validate.rs` (`check_destination`) does not exclude it.
`Partial` is an unfinished and `Torn` a mixed copy.  A copy truncates the destination also
if it is the source, a rename onto itself changes nothing, and the removal of the source
folder takes what was moved there.  `stage` is the point in
`copy_one_file`/`move_one_file`; every `?` and every retry is an action or a disjunct.
Other programs may change either side at any moment (`Edit`, at most `MaxEdits` times); the
properties speak of places they left alone, or say what they do to the others.  `Circular`
are the layouts with a destination in the source, `Harmless` all others and those circular
ones in which nothing is replaced and no folder removed.

### Chain

`chain` is the rule's list of actions, `no` the loop variable, `stage` the place in
`execute_chain` or in the `spawn_process` it awaits, `dest` the action whose path is in
`ctx.destination`.  A transfer is one step with its three results (`Ok(Some)`, `Ok(None)`,
`Err`).  A command is a shell (`shell`, `code`) that may start one process which does the
work (`work`) and may end before it; `group` says whether the command's tree can be ended
as a whole - by a process group on Unix, by a job on Windows - and `member` how the working
process stands to that: in it, started outside because there was no job yet, or gone from
it (`setsid`).  A kill is three steps, none of whose results the code looks at: `KillGroup`
reaches any of the members, `KillShell` the shell or not, and `Collect` waits for the end
of the shell - without a limit, but five seconds only for `asUser`.  A process that was
reached is `dying` for a while; `ignored` notes what had no effect.  On Windows a command
is either created suspended for the user who is logged on (`asUser`) or put into its job
while it already runs (stage `assign`); which of the two may change from command to
command, because `run_as_logged_in_user` falls back when nobody is logged on.

### LogWriter

One logger, of the system or of a rule: senders put entries into the unbounded `queue`;
the writer task takes all there are (`batch`), then the date (`fileDay`, which decides the
file and restarts the numbers of action blocks), formats and appends.  The turn of the day
(`day`) falls anywhere between these steps, and opening or writing the file may fail.  Its
owner sends a `Shutdown` and awaits the task, or is itself cancelled.

### Dashboard

`publish` has its three steps (`Number`, `Keep`, `Broadcast`); a connection has those of
`stream_events`.  The broadcast channel is the interval of the last `Buffer` events below
`sent`, a receiver a number (`cursor`) in or below it.  A browser may go at any moment and
come back, which is what `EventSource` does.

### Config

The code is pure, and so is the model: `Load` reads two files, writes the defaults of
`global.toml` into the actions (`ApplyDefaults`), and checks both (`Problems`, a set of
pairs of key and fault, one operator per `collect_...` function); `TryFrom` is what the
event loop makes of an action before it runs it, `CompileRules` what `start_watching`
makes of the patterns.  A value stands for what the checks tell apart of it together with
what is on the disk under it: a destination is the state of its root and the names in
braces, a program the candidate files in each folder of `PATH`.

### Process

`phase` is the place in `main` → `run`, or in `run_service` → `run_watcher` →
`run_watcher_inner`; `status`, `stop` and `started` are what passes between the service and
the service control manager; `result`, `errorLine`, `report` and `code` are how the end was
told.  The variables of `LogWriter` are one of the loggers, the system's or a rule's
(`subject`): the process makes the steps of its owner (`Shutdown`, `Cancel`, `Exit`) in its
own actions.  `StartWatching` is only the frame of `start_watching`; while it runs, all
there is here is lines that are logged.

## 3. Runs

| Run | Instance | Shows |
|---|---|---|
| `router_loop` | 2 paths, 2 rules (move away; copy what is new or renamed and not hidden), Windows' hidden attribute, channel of 1, 2 notifications of any kind, debounce 1 | types and channel bound, `SnapshotFresh`, `AtMostOneChainPerEvent`, `KnownKindReachesEveryRule`, refinement of `Delivery` |
| `router_ctrlc` | 1 path, 1 rule | **violation**: a Ctrl+C pressed while a chain runs is lost |
| `watcher_seam` | 2 watch folders, one in the other, a path in both and one in the outer, a change or a renaming, rule working in place, channel of 1, OS queue of 2, fairness | `NoFileMissed`, `ScanAddsOneRunPerRoot`, refinement of `Router`, `EventuallyProcessed`, `ScanEnds` |
| `watcher_startup` | 2 nested roots, each reporting for itself, channel of 1 | **violation**: start-up and watcher thread wait for each other |
| `inotify_tree` | a watched folder with a folder in it and one in that, room for one more, 2 changes, reads that fail, 3 watches, queue of 2 | `SubfoldersFollowed`, `NoStrayWatch`, `UnwatchForgets`, `EveryRequestAnswered` |
| `readdirectory_reads` | 2 folders, 2 events, buffer of 1, with the extended call | `OneToken`, `StreamIsExact`, `EveryRequestEnds`, `EventuallyReported` |
| `transfer_action` | 2 files, 2 contents, 1 retry, 1 foreign change, all options; destination elsewhere, the source itself, or in it | `NothingLost`, `ExistingKept`, `NoBrokenCopyRemains`, `OkMeansTransferred`, `ActionEnds` |
| `transfer_late` | 1 file | **violation**: a file that the walk did not list, or that arrives after it, is removed with its folder |
| `chain_actions` | every chain of up to 3 actions with at most 2 commands, Unix and Windows, kills that may fail, fairness of the chain | types, `NothingAfterFailure`, `OkMeansExited`, `DestinationIsLatest`, `TimeOutEndsTree`, `ChainEnds` |
| `dashboard_feed` | 2 connections, ring buffer of 2, channel of 1, 4 events | types, `StreamAscends`, `NothingSkipped`, `FeedCatchesUp` |
| `process_life` | over a thousand configurations, both modes, every failure, a stop at any moment, a logger with 2 entries and a midnight | `WatchesOnlyWhatWasChecked`, `FailuresAreTold`, `UsesLoggerRight`, `StopEnds`; of the logger `FilesInOrder`, `FlushedAtEnd`, `ShutdownEnds` |
| `process_service` | 1 configuration, 1 line | **violation**: a service that fails after it was Running logs nothing |

Every property of a passing run has a mutant in `PROJECT.json`: a definition of the model
is given the form a plausible mistake would give it, and TLC finds the property violated.
The mutated forms stand in the modules next to the definition, marked "Mutant of".

### Why the bounds are enough

* Two paths: the loop's state per path is independent except for the batch and the order
  of its paths, which two paths exercise.  Two rules: one earlier and one later.
* In `router_loop` the path that no rule looks at holds a plain file or nothing, and a
  Ctrl+C is heard before the first notification (`Bounded`): `router_ctrlc` and the Watcher
  runs have it at any time, and for the loop's properties the theorems.  One rule takes
  hidden entries and the other does not, so an entry can be hidden between the two.
* A channel of one slot makes "full" the normal case; 100 only makes it rarer.
* Two notifications: one before a snapshot and one while its chains run, which is
  what a stale snapshot or a wrong merge needs.  `sent` counts them only to bound the model.
* `Quiet` = 1 separates "just now" from "long enough"; the boundary itself is where the
  mutant of `Settled` fails.
* `MaxChanges` and `MaxEdits` bound what others do; one change at any moment is what
  every race needs.  In `watcher_seam` it comes on top of the entry that the scan finds,
  so a path is reported again while it waits or is being handled; a file renamed to the
  other path stops to exist at the one and begins at the other.  It starts with a file
  in the outer folder and nothing in the inner one, where one may arrive and is then found
  by the scan twice.  Two folders are the least that can be nested, and each further one only adds
  another walk.  The run has inotify's reporting; the proofs hold for both.
* Four folders on two levels and two changes: the second change meets the walk the first
  one caused.  Three watches are one less than there are folders, a queue of two overflows.
  `MaxWds` bounds the descriptors handed out; ten are never used up in this run.
* Two folders and two events: a completed read of the one runs nested in the removal of the
  other; with a buffer of one the second event overflows or waits.
* One retry has a first and a last attempt.  Two files and three layouts are the least in
  which one file's destination is another file of the source.
* Three actions: one that delivers, one that is skipped or fails, one that sees what is left.
  At most two of them are commands: one that goes on in the background or was timed out, and
  one that runs; commands share nothing but the chain.
* Two entries and one midnight: a batch before, across and after the turn of the day, a
  line before a shutdown and one behind it.  The proofs of `FlushedAtEnd` and
  `FilesInOrder` need no bound.
* Four events in a ring buffer of two and a channel of one: the replay is shorter than what
  was published, and a connection falls behind by more than the channel keeps, during the
  replay as well as after it.  Two connections share nothing but the hub.
* The configurations differ from a sound one in one key, or combine all settings and
  defaults of the keys that can be inherited; the checks of different keys share no state.
  Only under the sound one (`Chatty`) lines are logged and modes vary; the others are
  followed until they are rejected or watched.  The theorem about `Config` needs no bound.
* For the properties listed in section 4 the proofs need none of these bounds.

### Fairness

* The event loop is a tokio task: its own steps are weakly fair.  `select!` starts
  polling at a random branch, so a branch that is ready infinitely often is taken: strong
  fairness of `Receive`, `Tick` and `Stop`.
* Chains are assumed to end (`EndChain` weakly fair).  The code gives no bound to an
  external command without a time-out; the README of the program says so.
* `mpsc` queues waiting senders first in, first out: strong fairness of `Callback` and
  `ScanSend`, each of which is enabled again and again while the loop receives.
* The threads of both back ends are scheduled (weakly fair); a read of inotify that fails
  succeeds in the end, as the loop would otherwise spin; the kernel completes a read
  that was cancelled, and delivers what it has queued.  The handler always returns in
  `ReadDirectory` and `Inotify`; the one that waits is in `Watcher`.
* A chain's own steps are weakly fair, the processes it starts are not: they may hang, which
  is why `ChainEnds` only speaks of chains without an unlimited wait.  One thing is assumed
  of them: a shell that SIGKILL or `TerminateProcess` has reached does end (`ShellDies`).
  A shell that no kill reaches is waited for without a limit (`spawn.rs:180`), and
  `ChainEnds` names it as the exception.
* The process and the logger's writer task are weakly fair, and so is a connection of the
  dashboard; browsers may go or stay, and nothing has to be logged.
* `StopEnds` presumes that the part of `start_watching` before its first `await` ends.
  `watcher_startup` shows that it may not; then the service cannot be stopped either.
* Nothing is assumed of users, other programs, the service control manager or Ctrl+C.

## 4. Proofs

Checked by TLAPS for all values of the constants that the `ASSUME`s allow, in particular
any number of paths, rules, notifications and changes and any capacity.

* `WatcherProofs`, the loop: `RouterInvariant` is the inductive invariant `RouterInv`:
  `TypeOK`, what is in hand in each state of the loop (`cur`, `ready`, `ruleNo` agree with
  `router`), the snapshot is fresh, and `runs` is bounded by `got` - strictly while a path
  waits in the map or its rule has not run yet, which is what makes the bound inductive.
  `RouterTypes`, `SnapshotsStayFresh`, `ChainsAreBounded` and `KnownKindsReachEveryRule`
  follow from it, and `RouterImplementsDelivery` shows the refinement step by step.
* `WatcherProofs`, start_watching: `WatcherImplementsRouter` maps every step of the closed
  system to a step of `Router` or a stutter, so all theorems above hold in it.
  `NoFileIsMissed` rests on an invariant that follows an existing entry from registration
  (its root is not yet watched, so the walk has not started), through the walk (unvisited,
  or in `todo`) to the channel.  `ScanAddsOneRunForEachRoot` (`ScanAddsOneRunPerRoot`)
  rests on a law of conservation (`Conserved`): for each path, what the loop has counted
  and what the two queues hold is no more than what came to name it, plus one for each
  watch folder below which the scan has passed it and owes it nothing any more
  (`Allowance`); together with the budget of `RouterInv`, which bounds runs by what was
  counted.  Its lemmas count the notifications of a queue that name a path.
* `ReadDirectoryProofs`: `EveryReadHasItsToken` (`OneToken`): its invariant says where each
  folder stands between its request and the freeing of its buffer.
  `EventsAreReportedExactly` (`StreamIsExact`) compares, for each folder, what was reported
  and what is on its way with what happened, as equations between concatenations
  (`Parts`); the lemmas about `Cat` and `Then` are the algebra of sequences they need.
* `TransferProofs`: `NothingIsLost` and `ExistingFilesAreKept` rest on what is
  known of the source, the destination and the read content at each `stage`, for any layout
  of places in which two files have different destinations.
  `NoBrokenCopyIsLeft` (`NoBrokenCopyRemains`) says at which stages a destination may be
  unfinished or mixed: only the file in hand, and only until it is removed (`Clean`).
  `SuccessIsTransfer` (`OkMeansTransferred`) follows a listed file from the list through
  the file in hand to the ones done (`Accounted`), each done one being `Transferred`.
* `ChainProofs`: `ChainInvariant` is the inductive invariant `ChainInv` for chains of any
  length: what is in hand at each `stage`, that nothing was done for an action that has
  not begun (`Untouched`), that only the last action can have failed (`FailedLast`), that
  `dest` and every `given` name the last delivery (`Latest`), and what a process that
  still runs after the limit owes that to: its standing, or a kill that did not reach it
  (`TreeInv`).  `NothingFollowsAFailure`,
  `DestinationsAreLatest`, `OkMeansItHasExited`, `TypesAreKept` and `TimeOutsEndTrees`
  follow.
* `DashboardProofs`: `FeedInvariant` is the inductive invariant `FeedInv`: the ring buffer is
  a run of consecutive events that ends with the newest one kept, at most one ahead of what
  was broadcast (`HubInv`); so a replay is a run that goes on where the connection's writes
  end and reaches to where its receiver began (`Replaying`, `Whole`), and whatever lies
  below the receiver and was not written was older than that or is among the lost ones
  (`Covered`, `Live`, `Begun`).  `FeedTypes`, `FeedAscends` and `NothingIsSkipped` follow.
* `ProcessProofs`, first part: `LoadedConfigIsSound` - for every configuration, with any
  number of rules and actions: if loading reports no problem, patterns compile and each
  action converts to what its own settings, else the defaults, else the program say, and
  what it runs was found.  `DefaultsRejectNothing` is the lemma about the order of defaults
  and checks.
* `LogWriterProofs`: `FlushedWhenEnded` (`FlushedAtEnd`).  The invariant follows an entry
  through channel, batch and buffer (`OnItsWay`), and says that nothing that was logged
  before a Shutdown stands behind it, where the task drops it (`NothingBehind`).
  `FilesStandInOrder` (`FilesInOrder`) adds to it: lines are in order all the way from the
  files to the channel (`Order`), a batch is dated after its last entry was logged
  (`Dated`), and `block_seq`, unless it is 0, is the number of a header in the file or the
  buffer, the highest one where numbers do not start again (`Numbered`).
* `ProcessProofs`: `LoggerUsedRight` shows that every step of the process is a step of
  `LogWriter` or leaves it alone; so `ProcessFlushes` and `ProcessFilesInOrder` need no
  invariant of their own.  `CheckedBeforeWatching` and `FailureIsTold` follow an error from
  where it arises to where it is told (`Course`, `ByTheEnd`) and the line about it through
  the shutdown (`LineLogged`), together with the invariant of the logger.
* `InotifyProofs`: `UnwatchIsFinal` (`UnwatchForgets`).  One call of `remove_watch` answers
  the request, so everything the thread knows must lie below the folder it is called for:
  the invariant says so of the map, of the batch and of the walk (`AllUnderRoot`), because
  an event only has a path below a watched folder, and a walk lists the folder it opened;
  and that after the removal no event has a path and no batch anything to add
  (`Forgotten`).  That a walk has somebody to answer to (`WalksForSomeone`) needs that
  nothing is queued before the first watch (`SilentAtFirst`).
* `InotifyProofs`, what is followed: `FoldersAreFollowed` (`SubfoldersFollowed`) and
  `NoWatchStrays` (`NoStrayWatch`) speak of the moment at which everything is read.
  `FollowInvariant` says what holds before that, with any events queued and a batch half
  done.  `Leaving` is what the thread has to remove - the batch's removals and those that
  queued events will add to them - and `Coming` what it has to add: the batch, the walk,
  the queue, the second half of a rename, and what an aborted walk left out.  Then each
  folder of the tree is followed and will not be removed, or lies under something in
  `Coming` (`Covered`); a watch under a path its folder has left lies under something in
  `Leaving` (`Stale`); so does the entry of a dead descriptor, with no live watch recorded
  below it (`Dead`), because the removal would leave that behind; and an event queued while
  the watches change can only remove, in the next batch, a folder made anew in the meantime
  if another one adds it again (`Answered`).  When all is read both sets are empty, but for
  `cut`.  All this holds while the run is `Good`: undisturbed, and watching.  Always true,
  and needed throughout, are that the tree stays a tree (`Distinct`, `Closed`, and `HalfWay`
  for a rename between its two events), that a descriptor belongs to one folder and is
  never handed out again (`Numbered`), and what the maps can hold (`Bookkeeping`).  The
  lemmas about paths are an algebra of prefixes; of the constants it is assumed that the
  folders are a tree at the start (`TreeAssumption`).

Every invariant that a passing run checks is stated by a theorem.  Only model-checked are
the liveness properties (fairness and `ENABLED` are out of the prover's reach) and the
violations.

## 5. Where the code and its documents differ

The four violation runs are in `PROJECT.json` under `findings`:

* `router_ctrlc`: a Ctrl+C pressed while a chain is awaited is dropped.
* `watcher_startup`: `watch()` waits for the watcher thread, which may be waiting in the
  callback for room in a channel that nobody receives from before `run_router`.
* `transfer_late`: `remove_dir_all` removes what walkdir did not list (`common.rs:113` drops
  its errors), as well as what arrived after the folder was listed.
* `process_service`: `run_watcher_inner` does not log the error of `start_watching`.

Found as well, without a run of their own:

* Actions run in the event loop, not detached as `detailed-design.md` 2.2 says, so a long
  chain fills the channel and blocks the watcher thread.
* Circular destinations.  `requirements.md:108` (NF-S01), `specification.md:528` and
  `detailed-design.md:250`, 294 and 13.1 (709-718) say that start-up rejects a destination
  that is the watch folder or lies in it; `check_destination` (`validate.rs:396-421`) looks
  only whether it exists, so the actions are run, and `Transfer` models what they do:
  * a file copied onto itself with `overwrite = true` is truncated by `fs::copy`
    (`common.rs:57`) before it is read; the hashes of two empty files agree, and the action
    reports OK.  Where the copy fails instead (on Windows the file is in use), the clean-up
    of the attempt removes the destination, which is the source;
  * a folder moved onto itself or into itself is removed with the files that have just been
    moved (`move.rs:174`), and with those that were at the destination, also with
    `overwrite = false`; the action reports OK.

  `NothingLost` and `OkMeansTransferred` therefore except, by `Harmless`, circular layouts
  in which something is replaced or a folder removed: without that conjunct
  `transfer_action` finds both violated.  `ExistingKept` holds for circular layouts as well,
  with the exception it states, and `NoBrokenCopyRemains` except where a file is its own
  destination.
* An entry that scan and watch both report is processed twice if the two notifications are
  further apart than the debounce time, which `watcher.rs:133-135` excludes.  So is one below
  two nested watch folders, even if nothing but the scan reports it: the scan walks each of
  them (`watcher.rs:183`) and sends two `Create`s.  `ScanAddsOneRunPerRoot` counts one run per
  watch folder; with one run in all TLC finds it violated.
* A rule whose entry has been moved by an earlier rule is passed over unless the
  notification named the entry's kind (section 8.2 says all matching rules are run); so is,
  on Windows, a rule without `include_hidden` whose entry an earlier rule or another program
  has hidden, whatever its kind (`router.rs:262-282`).
* After a `move` the later actions of a chain still get the old path as `{FullName}`
  (`actions/mod.rs:176` only sets the destination), where `detailed-design.md` 9.4 says it
  is updated.
* A connection to the dashboard subscribes before it copies the ring buffer, so that it
  misses nothing at the seam (`server.rs:128`).  It does when `history` events come in
  between: the first of them has left the buffer, and is dropped from the live feed
  because its number is below the last one replayed.  `NothingSkipped` says how far it can
  go: what is missed there was pushed out by a full buffer of newer events.
* Quiet time counts from the receipt of a notification, not from the event
  (`router.rs:425`).
* What an overrun of the operating system's queue lost is never found: the router ignores
  the `Rescan` that reports it, where `detailed-design.md:356` speaks of a full scan.
* The clean-up after a failed attempt also removes, with `overwrite = true`, a file that the
  attempt never opened (`copy.rs:77`).
* The program's README (382) says that a command over its time limit is ended, the comments
  at `spawn.rs:135` and 146 that its whole tree is.  `TimeOutEndsTree` lists what may go on
  although the action is reported as ended:
  * on Windows a process that a shell starts before the shell is in its job (`spawn.rs:150`);
  * on Unix a process that has left the group, by `setsid` or `setpgid`;
  * whatever the kill does not reach: the results of `killpg`, `TerminateJobObject` and
    `TerminateProcess` are ignored (`spawn.rs:171-180`, `win_runas.rs:235-237`), and a process
    of another user (`sudo`, setuid) cannot be signalled;
  * for the logged-on user's process, what is not over after five seconds
    (`win_runas.rs:238-240`); and what a shell has started is never waited for.
* A command that is killed by a signal has no exit status and counts as done
  (`spawn.rs:199`), while the program's README (377) describes OK as status 0;
  `OkMeansExited` says no more than the code does.
* Linux back end: a walk that adds watches ends at its first error, and the folders it never
  came to stay unwatched without a word; a folder that is renamed into one whose watch is
  only being added is not followed (`config.rs:8` of notify-fork promises that it is).
  Three more ways in which it loses track of a folder are what `Undisturbed` excludes from
  `SubfoldersFollowed` and `NoStrayWatch`; they were met on the way to the
  invariant of section 4:
  * (`broken`) The descriptor of a deleted folder stays in `paths`, and a recursive removal
    that meets it stops there; the folders it did not come to stay recorded under their
    old path.  After `rmdir x/y`, a rename of `x` to `y`, `mkdir x`, `mkdir x/x`, `rmdir x/x`
    the removal of the old `x` stops, and the removal of the new `x/x` finds the entry of the
    old one and ends the watch of `y/x`.
  * (`raced`) A folder that goes away before the one it is in is watched tells nobody:
    `mkdir x/x`, then `x` out of the tree and back.  If the second half of the return comes
    late, `x/x` is added by its old event while `x` itself is not watched; when `x/x` then
    leaves, no event says so, and its watch stays.
  * (`raced`) A folder that is renamed between the reading of a batch and the end of its
    removals and additions raises events of descriptors that the batch then removes or
    records under another path.  They are read in the next batch, under a path where by
    then another folder may be followed, whose watch they remove.
* Windows back end: an overflow that is reported as a completed read of 0 bytes is ignored;
  a read that cannot be started again is only logged (`windows.rs:467`) and the folder is
  silent from then on.
* `detailed-design.md` 239, 278-283 and 303 speak of exit code 1; the code has 10 and 12.
* `detailed-design.md:311-314` says a shutdown waits for the copy or move in progress; a
  stop of the service drops the future, and only a call that is already blocking is waited
  for, by the runtime.
* A destination that is blank passes validation; an action's own `timeout_ms = 0` lifts
  the limit of `global.toml`.
* Between the parts of a copy, and between the check for an existing file and the copy,
  other programs can write (`copy.rs:51`): `ExistingKept` speaks of files that were there
  from the start.

## 6. Not modelled

* Log search: one sequential scan per request, without state.
* HTTP requests, assets and the page of the dashboard.  `EventSource` reconnects and is sent
  the ring buffer again; that the page then shows events twice (`app.js:362`) is layout.
* Templates, message texts and layouts, TOML syntax, quoting of arguments, tokens and
  environment blocks.
* The name filters of rules (glob patterns, dot files, depth), see `scope`.
* The macOS, BSD and polling back ends: no binaries are distributed for these systems
  (`README.md:46` of the program), and nothing starts a `PollWatcher`.
* A Ctrl+C that comes before `run_router` first polls `ctrl_c()` kills the process and is
  not in `Process`; nor is a crash: nothing is persisted, and a restart is a new start with
  its scan.
* Two loggers that write one file, a log file that is there before the first line (the
  numbers of its blocks would not be known), and a clock that goes back.
* Symbolic links, permissions, time stamps.

## 7. What is left

1. *Chain in the loop*: show that `Chain` refines what `Router.EndChain` says of a chain,
   and `Transfer` what `Chain.Transfer` says of a transfer.
2. *Back ends under the callback*: replace the queue `os` of `Watcher` by `Inotify`, so that
   files made in a new folder before its watch exists are part of `NoFileMissed`.
3. *Liveness* by proof: it needs a prover for `ENABLED` and for well-founded induction.
4. *Inotify after a loss*: what `SubfoldersFollowed` still promises about the folders that a
   half-done removal or an overtaken walk did not touch.
