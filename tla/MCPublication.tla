----------------------------- MODULE MCPublication -----------------------------
(***************************************************************************)
(* Instances of Publication for TLC.                                       *)
(***************************************************************************)
EXTENDS Publication, MCEnvelopes

CONSTANTS tool, stray, p1, p2

PullSymmetry == Permutations({p1, p2})
=============================================================================
