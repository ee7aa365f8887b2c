------------------------------ MODULE MCChain -------------------------------
(***************************************************************************)
(* Instances of ChainProperties for TLC.                                    *)
(***************************************************************************)
EXTENDS ChainProperties
=============================================================================
