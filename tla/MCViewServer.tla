---------------------------- MODULE MCViewServer ----------------------------
(***************************************************************************)
(* ViewServer bounded for TLC: the clock stops at MaxTick and no view after *)
(* MaxView is reached; below the bounds every Ping stays possible.         *)
(***************************************************************************)
EXTENDS ViewServer, TLC

CONSTANTS MaxTick, MaxView

MCNext ==
    /\ Next
    /\ currentTick' <= MaxTick
    /\ view'.Viewnum <= MaxView

MCSpec == Init /\ [][MCNext]_vars

Symmetry == Permutations(Server)
=============================================================================
