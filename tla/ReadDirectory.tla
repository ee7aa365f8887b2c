--------------------------- MODULE ReadDirectory ----------------------------
(***************************************************************************)
(* The Windows back end of notify-fork (src/notify-fork/src/windows.rs):    *)
(* one server thread keeps one asynchronous read open for each watched      *)
(* folder.  A completed read is a procedure call that the kernel queues to  *)
(* the thread and that runs only while the thread waits alertably: in its   *)
(* main loop, or nested in stop_watch.                                      *)
(*                                                                          *)
(* Abstractions.  An event is its number among the events of its folder;    *)
(* its kind and its path only matter in that a buffer read in the layout it *)
(* was not filled in yields garbage.  Queued calls of different folders run *)
(* in any order.  Watching a single file, which the program never does,     *)
(* configure, and the unused meta events are left out.  CancelIo and        *)
(* CloseHandle succeed on an open handle.  The handler always returns;      *)
(* module Watcher has the one that waits.                                   *)
(***************************************************************************)
EXTENDS Naturals, Sequences, FiniteSets, Functions

CONSTANTS Dirs,      \* the folders that can be watched
          NoDir,     \* no folder
          Extended,  \* does kernel32 export ReadDirectoryChangesExW
          MaxEvents, \* bound of the model: events in all folders
          BufferCap  \* events that a buffer of BUF_SIZE bytes holds

ASSUME NoDirAssumption     == NoDir \notin Dirs
ASSUME ExtendedAssumption  == Extended \in BOOLEAN
ASSUME OwnerAssumption     == "idle" \notin Dirs /\ "gone" \notin Dirs
ASSUME BoundsAssumption    == MaxEvents \in Nat /\ BufferCap \in Nat \ {0}

VARIABLES
  present,  \* the folders that exist
  happened, \* events of each folder since it was opened
  kbuf,     \* kernel: events that no read has taken yet
  io,       \* the read of each folder: none, pending, or how it completed
  filled,   \* what the kernel put into the buffer of a completed read
  api,      \* was that read made with ReadDirectoryChangesExW
  extended, \* ReadData::use_extended of that read
  handle,   \* WatchState::dir_handle: none, open, closed, or closed and freed
  sem,      \* count of WatchState::complete_sem
  watches,  \* ReadDirectoryChangesServer::watches
  actions,  \* the channel of Actions
  server,   \* where the server thread is
  toStop,   \* the folders stop_watch has still to be called for
  target,   \* the folder stop_watch waits for, or NoDir
  stopped,  \* the flag of run()
  job,      \* the buffer that handle_event is parsing
  owner,    \* where the owner of the watcher is: the folder it waits for,
            \* "idle" or "gone"
  asked,    \* folders it has asked to watch
  answers,  \* folders it was told are watched
  reported, \* history: what the handler was given of each folder
  lost      \* history: events that an overflow dropped

kernel == <<present, happened, kbuf, lost>>
reads  == <<io, filled, api, extended>>
state  == <<handle, sem, watches>>
thread == <<server, toStop, target, stopped>>
client == <<owner, asked, answers>>
readVars == <<kernel, reads, state, actions, thread, job, client, reported>>

Completed == {"success", "aborted", "denied", "error"}
Reads     == {"none", "pending"} \cup Completed
Action    == [op : {"watch", "unwatch", "stop"}, dir : Dirs \cup {NoDir}]
Servers   == {"draining", "waiting", "stopping", "ended"}

NoJob   == [dir |-> NoDir, rest |-> <<>>, good |-> TRUE]
Garbage == 0

Init ==
  /\ present  = Dirs
  /\ happened = [d \in Dirs |-> 0]
  /\ kbuf     = [d \in Dirs |-> <<>>]
  /\ io       = [d \in Dirs |-> "none"]
  /\ filled   = [d \in Dirs |-> <<>>]
  /\ api      = [d \in Dirs |-> FALSE]
  /\ extended = [d \in Dirs |-> FALSE]
  /\ handle   = [d \in Dirs |-> "none"]
  /\ sem      = [d \in Dirs |-> 0]
  /\ watches  = {}
  /\ actions  = <<>>
  /\ server   = "draining"
  /\ toStop   = {}
  /\ target   = NoDir
  /\ stopped  = FALSE
  /\ job      = NoJob
  /\ owner    = "idle"
  /\ asked    = {}
  /\ answers  = {}
  /\ reported = [d \in Dirs |-> <<>>]
  /\ lost     = [d \in Dirs |-> {}]

-----------------------------------------------------------------------------
(***************************************************************************)
(* The kernel and the users of the folders                                  *)
(***************************************************************************)

\* An open folder buffers what happens in it.  An event that does not fit
\* discards the whole buffer; the next read completes with no event, or fails.
Happens(d) ==
  /\ d \in present /\ handle[d] = "open"
  /\ FoldFunction(+, 0, happened) < MaxEvents
  /\ happened' = [happened EXCEPT ![d] = @ + 1]
  /\ IF Len(kbuf[d]) < BufferCap
       THEN /\ kbuf' = [kbuf EXCEPT ![d] = Append(@, happened[d] + 1)]
            /\ UNCHANGED <<lost, io>>
       ELSE /\ kbuf' = [kbuf EXCEPT ![d] = <<>>]
            /\ lost' = [lost EXCEPT ![d] =
                          @ \cup {kbuf[d][i] : i \in DOMAIN kbuf[d]} \cup {happened[d] + 1}]
            /\ io' = IF io[d] # "pending" THEN io
                     ELSE [io EXCEPT ![d] = "success"]
  /\ UNCHANGED <<present, filled, api, extended, state, actions, thread, job,
                 client, reported>>

Completes(d) ==
  /\ io[d] = "pending" /\ kbuf[d] # <<>>
  /\ io'     = [io EXCEPT ![d] = "success"]
  /\ filled' = [filled EXCEPT ![d] = kbuf[d]]
  /\ kbuf'   = [kbuf EXCEPT ![d] = <<>>]
  /\ UNCHANGED <<present, happened, lost, api, extended, state, actions, thread,
                 job, client, reported>>

\* The folder is deleted, or the access rights go; any other error.  A read
\* that has events to return returns them first.
Fails(d) ==
  /\ io[d] = "pending" /\ kbuf[d] = <<>>
  /\ \/ present' = present \ {d} /\ io' = [io EXCEPT ![d] = "denied"]
     \/ present' = present /\ io' = [io EXCEPT ![d] = "denied"]
     \/ present' = present /\ io' = [io EXCEPT ![d] = "error"]
  /\ UNCHANGED <<happened, kbuf, lost, filled, api, extended, state, actions,
                 thread, job, client, reported>>

Kernel == \E d \in Dirs : Happens(d) \/ Completes(d) \/ Fails(d)

-----------------------------------------------------------------------------
(***************************************************************************)
(* The owner: each folder is watched once, as start_watching does, waiting  *)
(* for the answer; unwatch and drop do not wait.                            *)
(***************************************************************************)
Post(op, d) == actions' = Append(actions, [op |-> op, dir |-> d])

AskWatch(d) ==
  /\ owner = "idle" /\ d \notin asked
  /\ asked' = asked \cup {d}
  /\ IF d \in present
       THEN owner' = d /\ Post("watch", d)
       ELSE UNCHANGED <<owner, actions>>
  /\ UNCHANGED <<kernel, reads, state, thread, job, answers, reported>>

AskUnwatch(d) ==
  /\ owner = "idle" /\ d \in answers
  /\ answers' = answers \ {d}
  /\ Post("unwatch", d)
  /\ UNCHANGED <<kernel, reads, state, thread, job, owner, asked, reported>>

DropWatcher ==
  /\ owner = "idle"
  /\ owner' = "gone"
  /\ Post("stop", NoDir)
  /\ UNCHANGED <<kernel, reads, state, thread, job, asked, answers, reported>>

Owner == (\E d \in Dirs : AskWatch(d) \/ AskUnwatch(d)) \/ DropWatcher

-----------------------------------------------------------------------------
(***************************************************************************)
(* start_read: the extended call first, and the plain one when that fails,  *)
(* noted in the request so that its buffer is read in the plain layout and  *)
(* the next read does not try again.  When that fails as well, or the       *)
(* handle is closed, the semaphore is released at once.                     *)
(***************************************************************************)
ReadIs(d, how, x, used) ==
  /\ io'       = [io EXCEPT ![d] = how]
  /\ filled'   = [filled EXCEPT ![d] = <<>>]
  /\ extended' = [extended EXCEPT ![d] = x]
  /\ api'      = [api EXCEPT ![d] = used]

\* A read that ended is not followed by another; its request is freed.
ReadEnds(d) ==
  /\ ReadIs(d, "none", FALSE, FALSE)
  /\ sem' = [sem EXCEPT ![d] = @ + 1]

\* Mutant of StartRead: nothing is released when no read was started.
StartReadOrForget(d, x, open) ==
  \/ open /\ x /\ ReadIs(d, "pending", TRUE, TRUE) /\ UNCHANGED sem
  \/ open /\ ReadIs(d, "pending", FALSE, FALSE) /\ UNCHANGED sem
  \/ ReadIs(d, "none", FALSE, FALSE) /\ UNCHANGED sem

\* Mutant of StartRead: the request does not learn of the plain call.
StartReadUnnoted(d, x, open) ==
  \/ open /\ x /\ ReadIs(d, "pending", TRUE, TRUE) /\ UNCHANGED sem
  \/ open /\ ReadIs(d, "pending", x, FALSE) /\ UNCHANGED sem
  \/ ReadEnds(d)

StartRead(d, x, open) ==
  \/ open /\ x /\ ReadIs(d, "pending", TRUE, TRUE) /\ UNCHANGED sem
  \/ open /\ ReadIs(d, "pending", FALSE, FALSE) /\ UNCHANGED sem
  \/ ReadEnds(d)

-----------------------------------------------------------------------------
(***************************************************************************)
(* run(): all actions first, then a wait of at most 100 ms                  *)
(***************************************************************************)
Taking(op) ==
  /\ server = "draining" /\ actions # <<>> /\ Head(actions).op = op
  /\ actions' = Tail(actions)

Answer(ok) ==
  /\ owner' = "idle"
  /\ answers' = IF ok THEN answers \cup {owner} ELSE answers

\* add_watch: the folder is gone or cannot be opened, or it is watched - the
\* answer does not depend on whether the first read could be started.
TakeWatch ==
  LET d == Head(actions).dir IN
  /\ Taking("watch")
  /\ \/ /\ Answer(FALSE)
        /\ UNCHANGED <<state, reads>>
     \/ /\ d \in present
        /\ handle' = [handle EXCEPT ![d] = "open"]
        /\ watches' = watches \cup {d}
        /\ StartRead(d, Extended, TRUE)
        /\ Answer(TRUE)
  /\ UNCHANGED <<kernel, thread, job, asked, reported>>

\* Mutant of Stopping: the pending read is not cancelled.
StoppingUncancelled(d) ==
  /\ io' = io
  /\ handle' = [handle EXCEPT ![d] = "closed"]
  /\ target' = d
  /\ server' = "stopping"

\* stop_watch begins: CancelIo aborts a read that is pending, the handle is
\* closed, and the thread waits for the semaphore.
Stopping(d) ==
  /\ io' = IF io[d] = "pending" THEN [io EXCEPT ![d] = "aborted"] ELSE io
  /\ handle' = [handle EXCEPT ![d] = "closed"]
  /\ target' = d
  /\ server' = "stopping"

TakeUnwatch ==
  LET d == Head(actions).dir IN
  /\ Taking("unwatch")
  /\ watches' = watches \ {d}
  /\ IF d \in watches THEN Stopping(d) ELSE UNCHANGED <<io, handle, target, server>>
  /\ UNCHANGED <<kernel, filled, api, extended, sem, toStop, stopped, job, client,
                 reported>>

TakeStop ==
  /\ Taking("stop")
  /\ stopped' = TRUE
  /\ toStop'  = watches
  /\ server'  = "stopping"
  /\ UNCHANGED <<kernel, reads, state, target, job, client, reported>>

StopNext(d) ==
  /\ server = "stopping" /\ target = NoDir /\ job.dir = NoDir
  /\ d \in toStop
  /\ toStop' = toStop \ {d}
  /\ Stopping(d)
  /\ UNCHANGED <<kernel, filled, api, extended, sem, watches, actions, stopped,
                 job, client, reported>>

\* The semaphore is signalled: stop_watch returns.
StopEnds ==
  /\ server = "stopping" /\ target # NoDir /\ job.dir = NoDir
  /\ sem[target] > 0
  /\ sem' = [sem EXCEPT ![target] = @ - 1]
  /\ handle' = [handle EXCEPT ![target] = "freed"]
  /\ target' = NoDir
  /\ server' = IF stopped THEN "stopping" ELSE "draining"
  /\ UNCHANGED <<kernel, reads, watches, actions, toStop, stopped, job, client,
                 reported>>

\* Every watch is stopped: the loop is left.
ServerEnds ==
  /\ server = "stopping" /\ target = NoDir /\ toStop = {}
  /\ server' = "ended"
  /\ UNCHANGED <<kernel, reads, state, actions, toStop, target, stopped, job,
                 client, reported>>

Drained ==
  /\ server = "draining" /\ actions = <<>>
  /\ server' = "waiting"
  /\ UNCHANGED <<kernel, reads, state, actions, toStop, target, stopped, job,
                 client, reported>>

\* The wait ends by the semaphore, by the time, or after a call.
WaitEnds ==
  /\ server = "waiting" /\ job.dir = NoDir
  /\ server' = "draining"
  /\ UNCHANGED <<kernel, reads, state, actions, toStop, target, stopped, job,
                 client, reported>>

-----------------------------------------------------------------------------
(***************************************************************************)
(* handle_event: run by an alertable wait.  The next read is started before *)
(* the buffer of this one is parsed.                                        *)
(***************************************************************************)
\* Mutant of Alertable: the wait of the main loop is not.
AlertableWhenStopping ==
  job.dir = NoDir /\ server = "stopping" /\ target # NoDir /\ sem[target] = 0

Alertable ==
  /\ job.dir = NoDir
  /\ \/ server = "waiting"
     \/ server = "stopping" /\ target # NoDir /\ sem[target] = 0

HandleEvent(d) ==
  /\ Alertable
  /\ \/ /\ io[d] = "aborted"
        /\ ReadEnds(d)
        /\ UNCHANGED <<actions, job>>
     \/ /\ io[d] = "error" \/ (io[d] = "denied" /\ d \notin present)
        /\ ReadEnds(d)
        /\ Post("unwatch", d)
        /\ UNCHANGED job
     \/ /\ io[d] = "success" \/ (io[d] = "denied" /\ d \in present)
        /\ job' = [dir |-> d, rest |-> filled[d], good |-> extended[d] = api[d]]
        /\ StartRead(d, extended[d], handle[d] = "open")
        /\ UNCHANGED actions
  /\ UNCHANGED <<kernel, handle, watches, thread, client, reported>>

\* The handler is given the next entry of the buffer.
Emit ==
  /\ job.rest # <<>>
  /\ reported' = [reported EXCEPT ![job.dir] =
                    Append(@, IF job.good THEN Head(job.rest) ELSE Garbage)]
  /\ job' = [job EXCEPT !.rest = Tail(@)]
  /\ UNCHANGED <<kernel, reads, state, actions, thread, client>>

EmitEnds ==
  /\ job.dir # NoDir /\ job.rest = <<>>
  /\ job' = NoJob
  /\ UNCHANGED <<kernel, reads, state, actions, thread, client, reported>>

-----------------------------------------------------------------------------
Server ==
  \/ TakeWatch \/ TakeUnwatch \/ TakeStop \/ Drained \/ WaitEnds
  \/ \E d \in Dirs : StopNext(d) \/ HandleEvent(d)
  \/ StopEnds \/ ServerEnds \/ Emit \/ EmitEnds

Next == Kernel \/ Owner \/ Server

Spec == Init /\ [][Next]_readVars

\* The server thread runs while it can: a wait ends, and calls queued to the
\* thread run when it waits again.  The kernel completes a read that has
\* something to return.  Nobody has to change a file or to ask.
FairSpec ==
  /\ Spec
  /\ WF_readVars(Server) /\ SF_readVars(WaitEnds)
  /\ \A d \in Dirs : SF_readVars(HandleEvent(d)) /\ WF_readVars(Completes(d))
=============================================================================
