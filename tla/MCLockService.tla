--------------------------- MODULE MCLockService ---------------------------
(***************************************************************************)
(* Every server of the repository (AllKinds) for TLC.                      *)
(***************************************************************************)
EXTENDS LockService
=============================================================================
