------------------------ MODULE LogWriterProperties -------------------------
(***************************************************************************)
(* What a logger guarantees.                                                *)
(***************************************************************************)
EXTENDS LogWriter

LinesOf(d) == {file[d][i] : i \in DOMAIN file[d]}

(***************************************************************************)
(* Within a file lines stand in the order in which they were logged, none   *)
(* twice, and a later day's file holds only later lines, whatever batches   *)
(* and days they were in and whatever failed to be written.                 *)
(***************************************************************************)
LinesInOrder ==
  \A d \in Days :
    /\ \A i, j \in DOMAIN file[d] : i < j => file[d][i].no < file[d][j].no
    /\ \A e \in Days : d < e =>
         \A x \in LinesOf(d), y \in LinesOf(e) : x.no < y.no

(***************************************************************************)
(* Flushed at the end: when the task has ended - at a Shutdown, or because  *)
(* its senders are gone - or the process that awaited it has, all that was  *)
(* logged before is in a file, unless an I/O error kept it out.             *)
(***************************************************************************)
FlushedAtEnd ==
  (writer = "ended" \/ owner = "exited") =>
    \A n \in DOMAIN logged :
      (logged[n].due /\ logged[n].what # "other") =>
        (\E d \in Days : \E x \in LinesOf(d) : x.no = n) \/ n \in missed

(***************************************************************************)
(* Action blocks are numbered 1, 2, 3 ... in each file; in a file that is   *)
(* kept over midnight (daily without a date) they start again.  README.md,  *)
(* "rotation"; lines lost to I/O errors leave holes.                        *)
(***************************************************************************)
BlocksNumbered ==
  missed = {} =>
    \A d \in Days : \A i \in DOMAIN file[d] :
      LET n == file[d][i].block
          before == {file[d][j].block : j \in 1 .. i - 1}
      IN  n > 1 => n - 1 \in before /\ (opts.dated \/ ~ opts.daily => n \notin before)

(***************************************************************************)
(* With a daily, dated file no line is filed under a day that was over      *)
(* when it was logged: the date is taken after the batch.                   *)
(***************************************************************************)
NoLineInThePast ==
  (opts.daily /\ opts.dated) =>
    \A d \in Days : \A x \in LinesOf(d) : logged[x.no].day <= d

(***************************************************************************)
(* The files a logger leaves can be read as one log: lines in order, none   *)
(* filed under a day that was over, blocks numbered in each file.           *)
(***************************************************************************)
FilesInOrder == LinesInOrder /\ NoLineInThePast /\ BlocksNumbered

\* A logger that is shut down ends, and with it the process that awaits it.
ShutdownEnds == owner = "awaiting" ~> owner = "exited"
=============================================================================
