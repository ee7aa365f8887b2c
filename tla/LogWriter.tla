----------------------------- MODULE LogWriter ------------------------------
(***************************************************************************)
(* A logger (logger/mod.rs, writer.rs): senders put entries on an           *)
(* unbounded channel; the writer task takes all there are, decides which    *)
(* file they belong to, and appends them with one open-write-close.         *)
(*                                                                          *)
(* The owner ends a logger in one of two ways: it sends Shutdown and awaits *)
(* the task (the system logger; a rule's loggers after run_router), or it   *)
(* is itself cancelled (start_watching when the Windows service stops) and  *)
(* the process exits whether the task has finished or not.                  *)
(***************************************************************************)
EXTENDS Naturals, Sequences

CONSTANTS
  MaxEntries,  \* bound of the model: entries logged
  MaxDay       \* bound of the model: days that pass

ASSUME LogBoundsAssumption == MaxEntries \in Nat /\ MaxDay \in Nat

VARIABLES
  opts,     \* rotation = "daily"; file_name has {Date} or {DateTime}
  day,      \* the calendar day
  queue,    \* the channel
  owner,    \* what the owner of the logger is doing
  writer,   \* where writer_task is
  batch,    \* entries taken and not yet looked at
  fileDay,  \* LogFile.date, which decides LogFile.path
  block,    \* block_seq
  buf,      \* file_buf
  last,     \* shutdown: this is the last batch
  file,     \* the lines of each log file
  logged,   \* history: what was logged, when, and whether before a Shutdown
  missed    \* history: entries an I/O error kept from the file

outside == <<opts, day, owner, logged>>
task    == <<batch, fileDay, block, buf, last>>
logVars == <<outside, queue, writer, task, file, missed>>

\* What file_line tells apart: the header of an action's block, any other
\* line, and what this logger does not write (other kinds, lower levels).
What    == {"block", "line", "other"}
Entries == [no : Nat, what : What \cup {"shutdown"}]
Options == [daily : BOOLEAN, dated : BOOLEAN]

\* A line of a file; "block" is the number a block header carries.
Lines == [no : Nat, block : Nat]

Days         == 0 .. MaxDay
OwnerStates  == {"running", "awaiting", "cancelled", "exited",
                 "aborted"}
WriterStates == {"waiting", "collecting", "dating", "formatting",
                 "appending", "ended"}

\* build_log_path: which file the lines of a day go to.
Path(d) == IF opts.dated THEN d ELSE 0

Init ==
  /\ opts \in Options
  /\ day = 0
  /\ queue = <<>>
  /\ owner = "running"
  /\ writer = "waiting"
  /\ batch = <<>>
  /\ fileDay = 0
  /\ block = 0
  /\ buf = <<>>
  /\ last = FALSE
  /\ file = [d \in Days |-> <<>>]
  /\ logged = <<>>
  /\ missed = {}

-----------------------------------------------------------------------------
(***************************************************************************)
(* Outside                                                                  *)
(***************************************************************************)

Alive == owner \notin {"exited", "aborted"}

Midnight ==
  /\ Alive
  /\ day < MaxDay
  /\ day' = day + 1
  /\ UNCHANGED <<opts, owner, logged, queue, writer, task, file, missed>>

\* tx.send: it never waits, and has no effect once the task has ended.
Post(entry) == queue' = IF writer = "ended" THEN queue ELSE Append(queue, entry)

\* info, log_match, log_action, ...: also after the shutdown, by tasks that
\* hold the logger as well (the dashboard's server).
Log(what) ==
  /\ owner \in {"running", "awaiting"}
  /\ Len(logged) < MaxEntries
  /\ logged' = Append(logged, [what |-> what, day |-> day,
                                due |-> owner = "running"])
  /\ Post([no |-> Len(logged'), what |-> what])
  /\ UNCHANGED <<opts, day, owner, writer, task, file, missed>>

\* log.shutdown(), then the handle is awaited.
Shutdown ==
  /\ owner = "running"
  /\ owner' = "awaiting"
  /\ Post([no |-> 0, what |-> "shutdown"])
  /\ UNCHANGED <<opts, day, logged, writer, task, file, missed>>

\* The owner's future is dropped, and the senders with it.
Cancel ==
  /\ owner = "running"
  /\ owner' = "cancelled"
  /\ UNCHANGED <<opts, day, logged, queue, writer, task, file, missed>>

\* The process ends when what it awaits has ended.
MayExit == \/ owner = "awaiting" /\ writer = "ended"
           \/ owner = "cancelled"

Exit ==
  /\ MayExit
  /\ owner' = IF owner = "awaiting" THEN "exited" ELSE "aborted"
  /\ UNCHANGED <<opts, day, logged, queue, writer, task, file, missed>>

-----------------------------------------------------------------------------
(***************************************************************************)
(* writer_task                                                              *)
(***************************************************************************)

At(state) == Alive /\ writer = state

\* rx.recv
Receive ==
  /\ At("waiting")
  /\ queue # <<>>
  /\ batch' = <<Head(queue)>>
  /\ queue' = Tail(queue)
  /\ writer' = "collecting"
  /\ UNCHANGED <<outside, fileDay, block, buf, last, file, missed>>

\* rx.recv returns None: no entry is left and no sender.
SendersGone ==
  /\ At("waiting")
  /\ queue = <<>>
  /\ owner = "cancelled"
  /\ writer' = "ended"
  /\ UNCHANGED <<outside, queue, task, file, missed>>

\* rx.try_recv
Collect ==
  /\ At("collecting")
  /\ queue # <<>>
  /\ batch' = Append(batch, Head(queue))
  /\ queue' = Tail(queue)
  /\ UNCHANGED <<outside, writer, fileDay, block, buf, last, file, missed>>

Collected ==
  /\ At("collecting")
  /\ queue = <<>>
  /\ writer' = "dating"
  /\ UNCHANGED <<outside, queue, task, file, missed>>

\* Numbers start again when the file is rolled.
FirstBlock == 0

NewDay == opts.daily /\ day # fileDay

Today == day

\* roll_if_new_day, once per batch.
Roll ==
  /\ At("dating")
  /\ IF NewDay
     THEN fileDay' = Today /\ block' = FirstBlock
     ELSE UNCHANGED <<fileDay, block>>
  /\ writer' = "formatting"
  /\ UNCHANGED <<outside, queue, batch, buf, last, file, missed>>

\* file_line for the next entry.
Format ==
  /\ At("formatting")
  /\ batch # <<>>
  /\ LET e == Head(batch)
     IN  /\ e.what # "shutdown"
         /\ block' = IF e.what = "block" THEN block + 1 ELSE block
         /\ buf' = IF e.what = "other" THEN buf
                   ELSE Append(buf, [no |-> e.no,
                          block |-> IF e.what = "block" THEN block + 1 ELSE 0])
  /\ batch' = Tail(batch)
  /\ UNCHANGED <<outside, queue, writer, fileDay, last, file, missed>>

\* Mutant of StopsHere: the Shutdown is skipped like any other entry.
GoesOn == FALSE

\* The loop over the batch was left at a Shutdown.
StopsHere == batch # <<>>

\* The batch is done, or what follows a Shutdown is dropped.
Formatted ==
  /\ At("formatting")
  /\ batch # <<>> => Head(batch).what = "shutdown"
  /\ last' = StopsHere
  /\ batch' = <<>>
  /\ writer' = "appending"
  /\ UNCHANGED <<outside, queue, fileDay, block, buf, file, missed>>

\* Mutant of Leave: a shutdown ends the task before the batch is written.
LeaveUnwritten(n) == IF last THEN 0 ELSE n

\* How many of the n lines that could be written are.
Leave(n) == n

\* Mutant of EmptyBuffer: the buffer outlives its batch.
SameBuffer == buf

\* Every batch has a buffer of its own.
EmptyBuffer == <<>>

\* append_to_file: the first n lines reach the file, all of them unless the
\* file cannot be opened or written.
AppendLines(n) ==
  /\ At("appending")
  /\ file' = [file EXCEPT ![Path(fileDay)] = @ \o SubSeq(buf, 1, Leave(n))]
  /\ missed' = missed \cup {buf[i].no : i \in n + 1 .. Len(buf)}
  /\ buf' = EmptyBuffer
  /\ writer' = IF last THEN "ended" ELSE "waiting"
  /\ UNCHANGED <<outside, queue, batch, fileDay, block, last>>

-----------------------------------------------------------------------------
Writer ==
  \/ Receive \/ SendersGone \/ Collect \/ Collected \/ Roll \/ Format
  \/ Formatted \/ \E n \in 0 .. Len(buf) : AppendLines(n)

Next ==
  \/ Writer
  \/ \E what \in What : Log(what)
  \/ Shutdown \/ Cancel \/ Exit \/ Midnight

Spec == Init /\ [][Next]_logVars
=============================================================================
