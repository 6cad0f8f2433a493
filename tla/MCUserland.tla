----------------------------- MODULE MCUserland -----------------------------
(***************************************************************************)
(* The programs of the root file system on a few process control blocks.   *)
(***************************************************************************)
EXTENDS Userland
=============================================================================
