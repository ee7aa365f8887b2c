----------------------------- MODULE MCInotify ------------------------------
(***************************************************************************)
(* Instances of InotifyProperties for TLC: a watched folder with a folder,   *)
(* a folder in that one, and one number left for a folder made later.        *)
(***************************************************************************)
EXTENDS InotifyProperties

Tree == <<Root, Root \o <<"x">>, Root \o <<"x", "x">>, Nowhere>>
=============================================================================
