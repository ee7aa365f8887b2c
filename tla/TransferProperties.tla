------------------------- MODULE TransferProperties --------------------------
(***************************************************************************)
(* What a copy or move action guarantees, and what is said of it.           *)
(***************************************************************************)
EXTENDS Transfer

\* What is taken away from the source: a folder with all that lies in it.
Reach == IF opts.folder THEN layout.below ELSE scope

\* The destination is the source or lies in it.  validate.rs lets it through,
\* and then the action destroys files, except when it neither replaces
\* anything nor removes a folder.
Circular == \E n \in scope : Target(n) \in Reach
Harmless == ~ Circular \/ (~ opts.overwrite /\ ~ (opts.move /\ opts.folder))

\* A file that was there, that nobody else changes on either side, and that
\* the walk did report.
Ours(n) == /\ disk0[n] # NoFile
           /\ n \notin unlisted
           /\ {n, Target(n)} \cap touched = {}

(***************************************************************************)
(* Nothing is lost: at every moment, through retries, clean-ups and the     *)
(* removal of the folder, what a file held is at its source or at its       *)
(* destination.                                                             *)
(***************************************************************************)
NothingLost ==
  Harmless =>
    \A n \in scope : Ours(n) => disk0[n] \in {disk[n], disk[Target(n)]}

(***************************************************************************)
(* overwrite = false: a file that is anywhere from the start is never       *)
(* replaced or removed, not even by the clean-up of an attempt, circular or *)
(* not - except by a move what it takes: the file, or the folder with       *)
(* everything in it, were the destination in it too.                        *)
(***************************************************************************)
ExistingKept ==
  ~ opts.overwrite =>
    \A p \in Places \ touched :
      disk0[p] # NoFile /\ ~ (opts.move /\ p \in Reach) => disk[p] = disk0[p]

(***************************************************************************)
(* When the action ends no unfinished or mixed copy remains that it could   *)
(* remove - where no file was copied onto itself; with verify_integrity =   *)
(* false a mixture of two versions may.                                     *)
(***************************************************************************)
NoBrokenCopyRemains ==
  Ended /\ (\A n \in scope : Target(n) # n) => \A p \in Places \ left :
    /\ disk[p] # Partial
    /\ opts.verify => disk[p] # Torn

(***************************************************************************)
(* Success means success: each file listed is at the destination, or was    *)
(* skipped; a move has left no copy of what it moved at the source.         *)
(***************************************************************************)
OkMeansTransferred ==
  stage = "ok" /\ Harmless =>
    \A n \in scope : Ours(n) =>
      \/ disk[Target(n)] = disk0[n] /\ (disk[n] = NoFile <=> opts.move)
      \/ n \in skipped /\ disk[n] = disk0[n] /\ disk[Target(n)] = disk0[Target(n)]

\* The action ends, whatever fails and whatever others do meanwhile.
ActionEnds == <> Ended

-----------------------------------------------------------------------------
(***************************************************************************)
(* A claim of the comments that the code does not keep                      *)
(***************************************************************************)

\* move.rs, move_directory_recursive: the source folder is not removed while
\* it holds files that were not moved.
OnlyMovedFilesRemoved ==
  [][stage = "remove" /\ edits' = edits =>
       \A n \in scope : disk'[n] # disk[n] =>
         Target(n) # n /\ disk'[Target(n)] = disk[n]]_transferVars
=============================================================================
