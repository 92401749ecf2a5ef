---------------------------- MODULE MCViewSystem ----------------------------
(***************************************************************************)
(* ViewSystem for TLC.  With Timely only crashes cause new views after the *)
(* second, so that those runs have a MaxView that is never reached.        *)
(***************************************************************************)
EXTENDS ViewSystem, TLC

Symmetry == Permutations(Server)
=============================================================================
