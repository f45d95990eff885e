----------------------------- MODULE MCMaterialize -----------------------------
(***************************************************************************)
(* Instances of Materialize for TLC.                                       *)
(***************************************************************************)
EXTENDS Materialize, MCEnvelopes

CONSTANTS p1, p2

ProcessSymmetry == Permutations({p1, p2})
=============================================================================
