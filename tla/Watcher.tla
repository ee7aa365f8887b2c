------------------------------ MODULE Watcher -------------------------------
(***************************************************************************)
(* start_watching (watcher.rs): the router together with its two senders.   *)
(* The main thread registers the watched folders, starts the scan of what   *)
(* already exists and only then runs the event loop; meanwhile the watcher  *)
(* thread forwards what the operating system reports, and users change      *)
(* files.                                                                   *)
(***************************************************************************)
EXTENDS Router, FiniteSets

CONSTANTS
  Roots,         \* watch.path of the enabled rules (keys of watch_map)
  RootsOf,       \* the roots each path lies under, as deep as they are watched
  ScanOnStart,   \* scan_on_start of global.toml
  KindsKnown,    \* do Create and Remove notifications name the entry kind
  PerRoot,       \* is a change reported once per root, see Reports
  OsCapacity,    \* notifications the operating system holds back
  MaxChanges     \* bound of the model: changes users make

ASSUME RootsAssumption      ==
  /\ IsFiniteSet(Roots)
  /\ RootsOf \in [Paths -> (SUBSET Roots) \ {{}}]
ASSUME SwitchesAssumption   ==
  ScanOnStart \in BOOLEAN /\ KindsKnown \in BOOLEAN /\ PerRoot \in BOOLEAN
ASSUME OsCapacityAssumption == OsCapacity \in Nat \ {0}
ASSUME MaxChangesAssumption == MaxChanges \in Nat

VARIABLES
  main,       \* where start_watching is
  watched,    \* roots registered with the operating system
  os,         \* notifications not yet handed to the callback
  busy,       \* the watcher thread has begun to hand them over
  scan,       \* where the startup scan thread is
  unvisited,  \* roots and entries below them the walk has not come to
  todo,       \* what the scan has found and has yet to send
  gaps,       \* history: reported or dropped losses, see Losses
  notified,   \* history: notifications that came to name each path
  changes     \* number of changes users made (bounds the model)

history == <<gaps, notified, changes>>
ownVars == <<main, watched, os, busy, scan, unvisited, todo, history>>
allVars == <<vars, ownVars>>

MainStates == {"registering", "compiling", "routing", "returned", "failed"}
ScanStates == {"off", "walking", "sending", "done"}

\* "overflow": the OS queue overran; "walk": walkdir could not read an entry;
\* "spawn": the scan thread could not be started.
Losses == {"overflow", "walk", "spawn"}

\* Mutant of Closed: a sender does not learn that the receiver is gone.
NeverClosed == FALSE

\* start_watching has dropped, or never handed on, the receiving end.
Closed == main \in {"failed", "returned"} \/ Finished

Running == router # "killed"

CreatedAs(kind) == CASE kind = "File" -> "CreateFile"
                     [] kind = "Dir"  -> "CreateFolder"
                     [] OTHER         -> "CreateAny"
RemovedAs(kind) == CASE kind = "File" -> "RemoveFile"
                     [] kind = "Dir"  -> "RemoveFolder"
                     [] OTHER         -> "RemoveAny"

CreateMessage(p, kind) == [paths |-> {p}, raw |-> CreatedAs(kind)]
RemoveMessage(p, kind) == [paths |-> {p}, raw |-> RemovedAs(kind)]
ModifyMessage(p) == [paths |-> {p}, raw |-> "ModifyOther"]
RenameMessage(p) == [paths |-> {p}, raw |-> "ModifyName"]
BothMessage(p, q) == [paths |-> {p, q}, raw |-> "ModifyName"]
RescanMessage    == [paths |-> {}, raw |-> "Other"]

Reported(kind) == IF KindsKnown THEN kind ELSE Unknown

\* Mutant of Walk: the depth to which a root is watched does not limit it.
DeepWalk == Roots \X Paths

\* The walk goes through every root on its own, also where one lies in another.
Walk == {w \in Roots \X Paths : w[1] \in RootsOf[w[2]]}

Found(r, p, kind) == [root |-> r, event |-> CreateMessage(p, kind)]

StartInit ==
  /\ Init
  /\ main = "registering"
  /\ watched = {}
  /\ os = <<>>
  /\ busy = FALSE
  /\ scan = "off"
  /\ unvisited = {}
  /\ todo = {}
  /\ gaps = {}
  /\ notified = [p \in Paths |-> 0]
  /\ changes = 0

-----------------------------------------------------------------------------
(***************************************************************************)
(* The operating system, as notify and its back ends present it             *)
(***************************************************************************)

\* A queue that overran ends with one Rescan, however much is lost.
Marked(q) == IF q # <<>> /\ q[Len(q)] = RescanMessage THEN q
             ELSE Append(q, RescanMessage)

\* How often a change at p is reported: on Windows by the handle of every
\* watched root it lies under; by inotify once, a folder has one watch.
Reports(p) ==
  LET handles == Cardinality(RootsOf[p] \cap watched)
  IN  IF PerRoot \/ handles = 0 THEN handles ELSE 1

Seen(p, m) == [i \in 1 .. Reports(p) |-> m]

\* The ways a rename from p to q is reported: as two notifications, the old
\* name and the new one, to which inotify adds a third with both names when it
\* can tell that they belong together; on Windows, if q is in another folder,
\* as a removal and a creation.
RenameReports(p, q) ==
  LET names == Seen(p, RenameMessage(p)) \o Seen(q, RenameMessage(q))
      kind  == Reported(files[p])
  IN  {names,
       IF PerRoot
       THEN Seen(p, RemoveMessage(p, kind)) \o Seen(q, CreateMessage(q, kind))
       ELSE IF Reports(p) = 0 \/ Reports(q) = 0 THEN names
       ELSE Append(names, BothMessage(p, q))}

Fits(msgs) == Len(os) + Len(msgs) <= OsCapacity

Naming(q, p) == Cardinality({i \in DOMAIN q : p \in q[i].paths})

\* Notifications the queue cannot take are lost and reported as one Rescan.
Notify(msgs) ==
  \/ /\ Fits(msgs)
     /\ os' = os \o msgs
     /\ notified' = [p \in Paths |-> notified[p] + Naming(msgs, p)]
     /\ gaps' = gaps
  \/ /\ ~ Fits(msgs)
     /\ os' = Marked(os)
     /\ gaps' = gaps \cup {"overflow"}
     /\ notified' = notified

\* Users change files as long as there is a program to notice.
UserChanges ==
  /\ Running
  /\ main \notin {"failed", "returned"}
  /\ changes < MaxChanges
  /\ changes' = changes + 1
  /\ UNCHANGED <<chan, pending, ready, cur, ruleNo, router, sigint, pressed,
                 sent, got, runs, due, main, watched, busy, scan, unvisited, todo>>

CreateFile(p, kind) ==
  /\ UserChanges
  /\ files[p] = "absent"
  /\ SetFile(p, kind)
  /\ Notify(Seen(p, CreateMessage(p, Reported(kind))))

\* Its contents change, or its hidden attribute.
ModifyFile(p) ==
  /\ UserChanges
  /\ files[p] = "File"
  /\ SetFile(p, "File")
  /\ Notify(Seen(p, ModifyMessage(p)))

DeleteFile(p) ==
  /\ UserChanges
  /\ files[p] # "absent"
  /\ SetFile(p, "absent")
  /\ Notify(Seen(p, RemoveMessage(p, Reported(files[p]))))

RenameFile(p, q) ==
  /\ UserChanges
  /\ files[q] = "absent"
  /\ MoveFile(p, q)
  /\ \E msgs \in RenameReports(p, q) : Notify(msgs)

\* The watcher thread wakes up for what the operating system holds; until all
\* of it is handed over it takes no request of the main thread.
ReadBatch ==
  /\ Running /\ ~ busy /\ os # <<>>
  /\ main \notin {"failed", "returned"}
  /\ busy' = TRUE
  /\ UNCHANGED <<vars, main, watched, os, scan, unvisited, todo, history>>

\* Mutant of Callback: a full channel loses its oldest notification.
CallbackOverwrites ==
  /\ busy /\ os # <<>>
  /\ main \notin {"failed", "returned"} /\ ~ Finished
  /\ chan' = Append(IF HasRoom THEN chan ELSE Tail(chan), Head(os))
  /\ sent' = sent + 1
  /\ os' = Tail(os)
  /\ busy' = (Tail(os) # <<>>)
  /\ UNCHANGED <<files, hidden, pending, ready, cur, ruleNo, router, sigint,
                 pressed, got, runs, due, main, watched, scan, unvisited, todo,
                 history>>

\* The callback of the watcher thread: blocking_send, its result ignored.
Callback ==
  /\ busy /\ os # <<>>
  /\ main \notin {"failed", "returned"}
  /\ \/ Send(Head(os))
     \/ router = "stopped" /\ UNCHANGED vars
  /\ os' = Tail(os)
  /\ busy' = (Tail(os) # <<>>)
  /\ UNCHANGED <<main, watched, scan, unvisited, todo, history>>

-----------------------------------------------------------------------------
(***************************************************************************)
(* The main thread                                                          *)
(***************************************************************************)

\* Mutant of AllWatched: the scan does not wait for the registrations.
ScanWithoutWatch == TRUE

\* The loop over watch_map has ended.
AllWatched == watched = Roots

Starting == Running /\ main = "registering"

\* watcher.watch(path, mode), in the order of a HashMap: the watcher thread is
\* asked, and the main thread waits for its answer.
Register(r) ==
  /\ Starting /\ ~ busy
  /\ r \notin watched
  /\ watched' = watched \cup {r}
  /\ UNCHANGED <<vars, main, os, busy, scan, unvisited, todo, history>>

\* A folder cannot be registered, which is found out with or without the
\* watcher thread: the error is returned, the watcher dropped.
RegisterFails ==
  /\ Starting
  /\ watched # Roots
  /\ main' = "failed"
  /\ UNCHANGED <<vars, watched, os, busy, scan, unvisited, todo, history>>

\* All folders are watched: spawn the scan thread, or drop its sender.
SpawnScan ==
  /\ Starting
  /\ AllWatched
  /\ main' = "compiling"
  /\ \/ /\ ScanOnStart
        /\ scan' = "walking"
        /\ unvisited' = Walk
        /\ gaps' = gaps
     \/ /\ ScanOnStart
        /\ scan' = "done"
        /\ gaps' = gaps \cup {"spawn"}
        /\ UNCHANGED unvisited
     \/ /\ ~ ScanOnStart
        /\ UNCHANGED <<scan, unvisited, gaps>>
  /\ UNCHANGED <<vars, watched, os, busy, todo, notified, changes>>

\* compile_rules succeeds and run_router starts, or its error is returned.
CompileRules ==
  /\ Running
  /\ main = "compiling"
  /\ main' \in {"routing", "failed"}
  /\ UNCHANGED <<vars, watched, os, busy, scan, unvisited, todo, history>>

\* run_router has ended: the rule loggers are flushed, the watcher dropped.
Return ==
  /\ main = "routing"
  /\ router = "stopped"
  /\ main' = "returned"
  /\ UNCHANGED <<vars, watched, os, busy, scan, unvisited, todo, history>>

-----------------------------------------------------------------------------
(***************************************************************************)
(* The startup scan thread                                                  *)
(***************************************************************************)

\* Below the root r walkdir comes to an entry, present or not, or cannot read
\* it.
Visit(r, p) ==
  /\ Running
  /\ scan = "walking"
  /\ <<r, p>> \in unvisited
  /\ unvisited' = unvisited \ {<<r, p>>}
  /\ \/ /\ todo' = IF files[p] = "absent" THEN todo
                   ELSE todo \cup {Found(r, p, files[p])}
        /\ gaps' = gaps
     \/ /\ files[p] # "absent"
        /\ gaps' = gaps \cup {"walk"}
        /\ todo' = todo
  /\ UNCHANGED <<vars, main, watched, os, busy, scan, notified, changes>>

\* Everything is collected before the first notification is sent.
WalkDone ==
  /\ Running
  /\ scan = "walking"
  /\ unvisited = {}
  /\ scan' = "sending"
  /\ UNCHANGED <<vars, main, watched, os, busy, unvisited, todo, history>>

ScanSend(found) ==
  /\ scan = "sending"
  /\ found \in todo
  /\ ~ Closed
  /\ Send(found.event)
  /\ todo' = todo \ {found}
  /\ UNCHANGED <<main, watched, os, busy, scan, unvisited, history>>

\* Nothing left, or the receiver is gone.
ScanDone ==
  /\ Running
  /\ scan = "sending"
  /\ todo = {} \/ Closed
  /\ scan' = "done"
  /\ todo' = {}
  /\ UNCHANGED <<vars, main, watched, os, busy, unvisited, history>>

-----------------------------------------------------------------------------
\* The ways what a chain did is reported: what it wrote and what it removed, or
\* for a move the rename it tries first.
ChainReports(p, rule, wrote, took) ==
  LET kind    == Reported(files[p])
      writes  == wrote /\ rule.dest # NoPath
      removes == took /\ rule.takes
      written == IF ~ writes THEN <<>>
                 ELSE IF files[rule.dest] = "absent"
                 THEN Seen(rule.dest, CreateMessage(rule.dest, kind))
                 ELSE Seen(rule.dest, ModifyMessage(rule.dest))
      removed == IF removes THEN Seen(p, RemoveMessage(p, kind)) ELSE <<>>
  IN  {written \o removed}
        \cup (IF writes /\ removes /\ rule.dest # p
              THEN RenameReports(p, rule.dest) ELSE {})

\* A command hid the entry or showed it.
AttributeReport(p) ==
  IF files'[p] # "absent" /\ (p \in hidden) # (p \in hidden')
  THEN Seen(p, ModifyMessage(p)) ELSE <<>>

\* EndChain of the router, with the changes it makes below the roots.
WatchedEndChain(wrote, took) ==
  /\ EndChain(wrote, took)
  /\ IF files[cur.path] # "absent"
     THEN \E msgs \in ChainReports(cur.path, Rules[ruleNo], wrote, took) :
            Notify(AttributeReport(cur.path) \o msgs)
     ELSE UNCHANGED <<notified, os, gaps>>
  /\ UNCHANGED <<main, watched, busy, scan, unvisited, todo, changes>>

\* The steps of the router that leave the files alone.
OtherRouterStep ==
  /\ \/ Receive \/ Tick \/ \E p \in Paths : TakePath(p)
     \/ BatchDone \/ SkipRule \/ StartChain \/ RulesDone \/ Suspend \/ Stop
  /\ UNCHANGED ownVars

RouterRuns ==
  /\ main = "routing"
  /\ \/ OtherRouterStep
     \/ \E wrote, took \in BOOLEAN : WatchedEndChain(wrote, took)

MainProceeds == (\E r \in Roots : Register(r)) \/ SpawnScan \/ CompileRules \/ Return

MainThread == MainProceeds \/ RegisterFails

ScanThread == (\E r \in Roots, p \in Paths : Visit(r, p)) \/ WalkDone
              \/ (\E found \in todo : ScanSend(found)) \/ ScanDone

Users ==
  \/ \E p \in Paths, kind \in Kinds : CreateFile(p, kind)
  \/ \E p \in Paths : ModifyFile(p) \/ DeleteFile(p)
  \/ \E p, q \in Paths : RenameFile(p, q)

\* Time passes, or the user presses Ctrl+C.
Outside == (Elapse \/ Interrupt) /\ UNCHANGED ownVars

WatchNext ==
  RouterRuns \/ MainThread \/ ScanThread \/ ReadBatch \/ Callback \/ Users \/ Outside

\* The loop takes a step of its own.
InLoop == main = "routing" /\ UNCHANGED ownVars

WatchSpec == StartInit /\ [][WatchNext]_allVars

(***************************************************************************)
(* Fairness of the program: of the router as in module Router, of the main  *)
(* thread (no folder has to fail), of the wake-ups and of the walk; the two *)
(* senders wait in the FIFO queue of tokio's mpsc semaphore, so one that    *)
(* could send again and again does.                                         *)
(***************************************************************************)
WatchFairness ==
  /\ WF_allVars(Elapse /\ UNCHANGED ownVars)
  /\ SF_allVars(InLoop /\ Receive)
  /\ SF_allVars(InLoop /\ Tick)
  /\ SF_allVars(InLoop /\ Stop)
  /\ WF_allVars((InLoop /\ Suspend) \/ (~ Selecting /\ RouterRuns))
  /\ WF_allVars(MainProceeds)
  /\ WF_allVars(ReadBatch)
  /\ WF_allVars((\E r \in Roots, p \in Paths : Visit(r, p)) \/ WalkDone
                \/ ScanDone)
  /\ SF_allVars(\E found \in todo : ScanSend(found))
  /\ SF_allVars(Callback)

FairWatchSpec == WatchSpec /\ WatchFairness
=============================================================================
