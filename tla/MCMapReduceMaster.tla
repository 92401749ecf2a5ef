------------------------- MODULE MCMapReduceMaster -------------------------
(***************************************************************************)
(* MapReduceMaster for TLC: its state space is finite as it stands.        *)
(***************************************************************************)
EXTENDS MapReduceMaster, TLC

Symmetry == Permutations(Worker)
=============================================================================
