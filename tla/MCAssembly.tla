------------------------------- MODULE MCAssembly -------------------------------
(***************************************************************************)
(* Instances of Assembly for TLC: roots 1 and 2 share the keys of two of   *)
(* the custodians.                                                         *)
(***************************************************************************)
EXTENDS Assembly, MCEnvelopes

CONSTANTS h1, h2, h3, h4, op, x64, arm, out

\* The two custodians of the shared keys, one of root 1 and one of root 2 only.
TwoCustodians     == {h1, h2}
TwoCustodianKeys  == (h1 :> Sig(k1, a)) @@ (h2 :> Sig(k2, b))
AllCustodians     == {h1, h2, h3, h4}
AllCustodianKeys  == TwoCustodianKeys @@ (h3 :> Sig(k3, c)) @@ (h4 :> Sig(k4, d))

\* A manifest, one that weakens its revocation, and one before it with
\* two artifacts of the same content.
Successors == {M2, M3w, [M1 EXCEPT !.artifacts = <<o1, o1>>]}
=============================================================================
