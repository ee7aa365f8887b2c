------------------------- MODULE InotifyProperties --------------------------
(***************************************************************************)
(* What the Linux back end promises about the folders it watches.           *)
(***************************************************************************)
EXTENDS Inotify

-----------------------------------------------------------------------------
\* Nothing is left to read or to answer.
Quiet == pc = "idle" /\ os = <<>> /\ half = Nowhere /\ user = "watching"

\* The watched folder is still where it was when the user named it, the
\* handler was told of no loss (a read that failed took nothing), and the thread could follow every change: no
\* watched folder was renamed or deleted amid the changes to the watches or
\* before it had caught up, and no removal stopped at a dead descriptor.  The
\* code survives none of these (README, section 5).
Undisturbed == at[Top] = Root /\ told \subseteq {"error"} /\ ~ raced /\ ~ broken

(***************************************************************************)
(* handle_inotify (inotify.rs:379-397: all removals, then all additions):   *)
(* once everything is read, every folder below the watched one is watched   *)
(* under its present path, however folders were made, removed and renamed   *)
(* while earlier events waited - unless the handler was told of a limit or  *)
(* an overflow, or the folder is one that an aborted walk never came to.    *)
(***************************************************************************)
SubfoldersFollowed ==
  (Quiet /\ Undisturbed) =>
    \A d \in Dirs : IsBelow(at[d], Root) =>
      Followed(d) \/ \E p \in cut : IsBelow(at[d], p)

(***************************************************************************)
(* remove_watch (inotify.rs:473-505): a folder that was moved out of the    *)
(* tree, and every folder in it, stops being watched, so nothing that       *)
(* happens there is reported under a path of the tree.                      *)
(***************************************************************************)
NoStrayWatch ==
  (Quiet /\ Undisturbed) =>
    \A d \in Dirs : (wd[d] # NoWd /\ paths[wd[d]] # Nowhere) => paths[wd[d]] = at[d]

(***************************************************************************)
(* unwatch (inotify.rs:473-505): when it returned Ok, no descriptor is      *)
(* known any more, so no event still queued, and none of a watch that could *)
(* not be recorded, is reported.                                            *)
(***************************************************************************)
UnwatchForgets ==
  user = "unwatched" => \A w \in Wds : paths[w] = Nowhere

(***************************************************************************)
(* watch and unwatch wait for the thread (inotify.rs:553, 569), drop only   *)
(* sends it Shutdown (610): each request is dealt with, whatever fails on   *)
(* the way and however many events the thread has to read first.            *)
(***************************************************************************)
EveryRequestAnswered == \A r \in Requests : user = r ~> user # r

=============================================================================
