------------------------------ MODULE Transfer -------------------------------
(***************************************************************************)
(* One copy or move action (actions/copy.rs, actions/move.rs and            *)
(* actions/common.rs): a file, or a folder file by file, goes to its        *)
(* destination through rename or a copy that is verified, cleaned up and    *)
(* retried, while other programs change files on both sides.  Nothing in    *)
(* the code keeps the destination out of the source: a file may be copied   *)
(* or moved onto itself, a folder onto itself or into itself.               *)
(***************************************************************************)
EXTENDS Naturals, FiniteSets

CONSTANTS
  Names,     \* files of the source folder
  Places,    \* where files can stand, the destinations among them
  NoName,    \* no file in hand
  Layouts,   \* where destinations may lie
  Contents,  \* what a file may hold
  Retries,   \* retry.count of global.toml
  MaxEdits   \* bound of the model: changes made by other programs

\* What stands at a place besides a whole file: nothing; a file the copy has
\* created or truncated and not yet filled; a mixture of two versions.
NoFile  == "NoFile"
Partial == "Partial"
Torn    == "Torn"

\* The destination of a file is its relative path, joined to the destination
\* folder; below is what lies in the source folder.
ASSUME NamesAssumption    == Names \subseteq Places /\ NoName \notin Names
ASSUME LayoutsAssumption  ==
  /\ Layouts \subseteq [target : [Names -> Places], below : SUBSET Places]
  /\ \A y \in Layouts :
       /\ Names \subseteq y.below
       /\ \A m, n \in Names : y.target[m] = y.target[n] => m = n
ASSUME ContentsAssumption == Contents \cap {NoFile, Partial, Torn} = {}
ASSUME RetriesAssumption  == Retries \in Nat
ASSUME MaxEditsAssumption == MaxEdits \in Nat

\* The action as configured, and whether its source is a folder.
Options == [move : BOOLEAN, folder : BOOLEAN, overwrite : BOOLEAN,
            verify : BOOLEAN]

VARIABLES
  opts,     \* the options
  layout,   \* where the destinations lie
  scope,    \* the files the action is on: a folder's, or one
  disk,     \* what stands at each place
  stage,    \* where the action is
  listed,   \* files found at the source and not yet begun
  cur,      \* the file in hand
  attempt,  \* the attempt under way, from 1
  read,     \* what the source held when the copy opened it
  hash,     \* what the source held when it was hashed
  skipped,  \* files skipped because the destination exists
  edits,    \* number of changes by others (bounds the model)
  disk0,    \* history: the disk at the start
  touched,  \* history: places others have changed
  unlisted, \* history: files the walk did not report
  left      \* history: copies whose clean-up failed

options  == <<opts, layout, scope, disk0>>
others   == <<edits, touched>>
progress == <<listed, cur, attempt, read, hash, skipped, unlisted, left>>
transferVars == <<options, disk, stage, others, progress>>

Outcomes == {"ok", "skipped", "failed"}
Stages == {"start", "next", "parent", "rename", "copy", "reading", "hashing",
           "comparing", "copied", "cleanup", "remove"} \cup Outcomes

Ended == stage \in Outcomes

Target(n) == layout.target[n]

\* Where the files of the action are and are to go; what stands anywhere else
\* is left out.
Involved == scope \cup {Target(n) : n \in scope}

Init ==
  /\ opts \in Options
  /\ layout \in Layouts
  /\ IF opts.folder THEN scope = Names ELSE \E n \in Names : scope = {n}
  /\ disk \in [Places -> Contents \cup {NoFile}]
  /\ \A p \in Places : disk[p] # NoFile =>
       p \in Involved /\ (p \in layout.below => p \in Names)
  /\ disk0 = disk
  /\ stage = "start"
  /\ listed = {}
  /\ cur = NoName
  /\ attempt = 1
  /\ read = NoFile
  /\ hash = NoFile
  /\ skipped = {}
  /\ edits = 0
  /\ touched = {}
  /\ unlisted = {}
  /\ left = {}

Present == {n \in scope : disk[n] # NoFile}

-----------------------------------------------------------------------------
(***************************************************************************)
(* Preparing                                                                *)
(***************************************************************************)

\* execute on a file: one path, which may be gone by now.
OneFile ==
  /\ stage = "start"
  /\ ~ opts.folder
  /\ listed' = scope
  /\ stage' = "next"
  /\ UNCHANGED <<options, disk, others, cur, attempt, read, hash, skipped,
                 unlisted, left>>

\* execute on a folder: the destination folders are made and walk_entries
\* lists the files; walkdir's errors are dropped, and with them files.
Walk(found) ==
  /\ stage = "start"
  /\ opts.folder
  /\ listed' = found
  /\ unlisted' = Present \ found
  /\ stage' = "next"
  /\ UNCHANGED <<options, disk, others, cur, attempt, read, hash, skipped,
                 left>>

\* A destination folder is missing and may not or cannot be made.
NoFolder ==
  /\ stage = "parent" \/ (stage = "start" /\ opts.folder)
  /\ stage' = "failed"
  /\ UNCHANGED <<options, disk, others, progress>>

\* Mutant of Existing: only an identical file counts.
SameExists(n) == disk[Target(n)] # NoFile /\ disk[Target(n)] = disk[n]

\* dest.exists()
Existing(n) == disk[Target(n)] # NoFile

\* The destination exists and overwrite is false.
Skip(n) ==
  /\ stage = "next"
  /\ n \in listed
  /\ Existing(n) /\ ~ opts.overwrite
  /\ listed' = listed \ {n}
  /\ skipped' = skipped \cup {n}
  /\ UNCHANGED <<options, disk, stage, others, cur, attempt, read, hash,
                 unlisted, left>>

Begin(n) ==
  /\ stage = "next"
  /\ n \in listed
  /\ ~ Existing(n) \/ opts.overwrite
  /\ listed' = listed \ {n}
  /\ cur' = n
  /\ attempt' = 1
  /\ stage' = "parent"
  /\ UNCHANGED <<options, disk, others, read, hash, skipped, unlisted,
                 left>>

\* ensure_parent_dir
MakeParent ==
  /\ stage = "parent"
  /\ stage' = IF opts.move THEN "rename" ELSE "copy"
  /\ UNCHANGED <<options, disk, others, progress>>

-----------------------------------------------------------------------------
(***************************************************************************)
(* One file                                                                 *)
(***************************************************************************)

\* rename moves the file at once, over whatever is at the destination; onto
\* itself it changes nothing.
Rename ==
  /\ stage = "rename"
  /\ disk[cur] # NoFile
  /\ disk' = [disk EXCEPT ![cur] = NoFile, ![Target(cur)] = disk[cur]]
  /\ stage' = "next"
  /\ UNCHANGED <<options, others, progress>>

\* rename fails: is_cross_device falls back to copying, else the action fails.
RenameFails(cross) ==
  /\ stage = "rename"
  /\ stage' = IF cross THEN "copy" ELSE "failed"
  /\ UNCHANGED <<options, disk, others, progress>>

\* fs::copy opens the source, then creates or truncates the destination, were
\* it the source.
OpenCopy ==
  /\ stage = "copy"
  /\ disk[cur] # NoFile
  /\ read' = disk[cur]
  /\ disk' = [disk EXCEPT ![Target(cur)] = Partial]
  /\ stage' = "reading"
  /\ UNCHANGED <<options, others, listed, cur, attempt, hash, skipped,
                 unlisted, left>>

\* What a copy delivers of a file another program may be rewriting; of one it
\* has truncated itself, nothing.
Delivered == IF Target(cur) = cur THEN {Partial}
             ELSE IF disk[cur] \in {read, NoFile} THEN {read}
             ELSE {read, disk[cur], Torn}

FillCopy ==
  /\ stage = "reading"
  /\ \E c \in Delivered : disk' = [disk EXCEPT ![Target(cur)] = c]
  /\ stage' = IF opts.verify THEN "hashing" ELSE "copied"
  /\ UNCHANGED <<options, others, progress>>

\* hash_file_blake3(src)
HashSource ==
  /\ stage = "hashing"
  /\ disk[cur] # NoFile
  /\ hash' = disk[cur]
  /\ stage' = "comparing"
  /\ UNCHANGED <<options, disk, others, listed, cur, attempt, read,
                 skipped, unlisted, left>>

\* hash_file_blake3(dest) is the hash of the source.
Matches == disk[Target(cur)] = hash

Compare ==
  /\ stage = "comparing"
  /\ stage' = IF Matches THEN "copied" ELSE "cleanup"
  /\ UNCHANGED <<options, disk, others, progress>>

\* An I/O error of try_copy_once, among them a source or a copy that is gone.
CopyFails ==
  /\ stage \in {"copy", "reading", "hashing", "comparing"}
  /\ stage' = "cleanup"
  /\ UNCHANGED <<options, disk, others, progress>>

Finish ==
  /\ stage = "copied"
  /\ disk' = IF opts.move THEN [disk EXCEPT ![cur] = NoFile] ELSE disk
  /\ opts.move => disk[cur] # NoFile
  /\ stage' = "next"
  /\ UNCHANGED <<options, others, progress>>

\* The copy is made but the source of a move cannot be removed.
RemoveFails ==
  /\ stage = "copied"
  /\ opts.move
  /\ stage' = "failed"
  /\ UNCHANGED <<options, disk, others, progress>>

\* Mutant of NextAttempt: the attempts are not counted.
SameAttempt == attempt

NextAttempt == attempt + 1

\* attempt < max_attempts, where max_attempts is one more than the retries
MoreAttempts == attempt < Retries + 1

\* Mutant of Cleaned: a failed copy stays where it is.
KeptCopy == disk

\* remove_file(dest)
Cleaned == [disk EXCEPT ![Target(cur)] = NoFile]

\* The destination is removed, an error in doing so is ignored; then the next
\* attempt or the end.
CleanUp(removed) ==
  /\ stage = "cleanup"
  /\ IF removed THEN disk' = Cleaned /\ left' = left
     ELSE disk' = disk /\ left' = left \cup {Target(cur)}
  /\ IF MoreAttempts
     THEN attempt' = NextAttempt /\ stage' = "copy"
     ELSE attempt' = attempt /\ stage' = "failed"
  /\ UNCHANGED <<options, others, listed, cur, read, hash, skipped, unlisted>>

-----------------------------------------------------------------------------
(***************************************************************************)
(* Ending                                                                   *)
(***************************************************************************)

\* Mutant of MayRemoveFolder: skipped files do not keep the folder.
RemoveAnyway == opts.folder /\ opts.move

\* The emptied source folder of a move is removed unless files were skipped.
MayRemoveFolder == opts.folder /\ opts.move /\ skipped = {}

AllDone ==
  /\ stage = "next"
  /\ listed = {}
  /\ stage' = IF MayRemoveFolder THEN "remove"
              ELSE IF skipped # {} /\ ~ opts.folder THEN "skipped"
              ELSE "ok"
  /\ UNCHANGED <<options, disk, others, progress>>

\* remove_dir_all takes what it finds, destinations in the folder included; an
\* error leaves some of it.
RemoveFolder(gone) ==
  /\ stage = "remove"
  /\ disk' = [p \in Places |-> IF p \in gone THEN NoFile ELSE disk[p]]
  /\ stage' = IF gone = layout.below THEN "ok" ELSE "failed"
  /\ UNCHANGED <<options, others, progress>>

Step ==
  \/ OneFile
  \/ \E n \in Names : Skip(n) \/ Begin(n)
  \/ \E found \in SUBSET Present : Walk(found)
  \/ NoFolder \/ MakeParent \/ Rename
  \/ \E cross \in BOOLEAN : RenameFails(cross)
  \/ OpenCopy \/ FillCopy \/ HashSource \/ Compare \/ CopyFails
  \/ Finish \/ RemoveFails
  \/ \E removed \in BOOLEAN : CleanUp(removed)
  \/ AllDone
  \/ \E gone \in SUBSET layout.below : RemoveFolder(gone)

-----------------------------------------------------------------------------
(***************************************************************************)
(* Other programs write, replace or delete whole files on both sides; only  *)
(* the copy being filled is left alone.                                     *)
(***************************************************************************)
Edit(p, c) ==
  /\ edits < MaxEdits
  /\ ~ (stage = "reading" /\ p = Target(cur))
  /\ edits' = edits + 1
  /\ touched' = touched \cup {p}
  /\ disk' = [disk EXCEPT ![p] = c]
  /\ UNCHANGED <<options, stage, progress>>

Others == \E p \in Involved, c \in Contents \cup {NoFile} : Edit(p, c)

Next == Step \/ Others

Spec == Init /\ [][Next]_transferVars

\* The action runs to its end: every await of it is on an operation that ends.
FairSpec == Spec /\ WF_transferVars(Step)
=============================================================================
