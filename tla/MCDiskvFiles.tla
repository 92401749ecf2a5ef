---------------------------- MODULE MCDiskvFiles ----------------------------
(***************************************************************************)
(* The file store for TLC: keys of a few bytes, and one whose file name is *)
(* longer than 255 characters.                                             *)
(***************************************************************************)
EXTENDS DiskvFiles, TLC

CONSTANT long

Lengths == [k \in Keys |-> IF k = long THEN 200 ELSE 3]

Symmetry == Permutations(Keys \ {long}) \cup Permutations(Contents)
=============================================================================
