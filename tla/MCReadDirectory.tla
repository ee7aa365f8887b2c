-------------------------- MODULE MCReadDirectory ---------------------------
(***************************************************************************)
(* Instances of ReadDirectoryProperties for TLC.                            *)
(***************************************************************************)
EXTENDS ReadDirectoryProperties
CONSTANTS inbox, outbox
=============================================================================
