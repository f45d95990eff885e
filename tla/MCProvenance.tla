------------------------------ MODULE MCProvenance ------------------------------
(***************************************************************************)
(* An instance of Provenance for TLC: two custodians, and a third key of   *)
(* root 1 in foreign hands; root 2 replaces it by a custodian's.           *)
(***************************************************************************)
EXTENDS Provenance, MCEnvelopes

CONSTANTS h1, h2, h4, k5, e, f, p1, p2

PullSymmetry == Permutations({p1, p2})

ProvenanceKeyId    == MCKeyId \cup {k5}
ProvenanceMaterial == MCMaterial \cup {e, f}

Custodians   == {h1, h2, h4}
CustodianKey == (h1 :> a) @@ (h2 :> b) @@ (h4 :> d)

\* A later root of two foreign keys and a shared one, signed by those who can:
\* the three foreign keys.  It gives the key ID of a custodian to one of them.
Rogue == <<Sig(k3, c), Sig(k2, e), Sig(k5, f)>>
RogueRoot ==
    [version |-> 3, threshold |-> 2, expires |-> 1,
     keys |-> (k1 :> a) @@ (k2 :> e) @@ (k5 :> f), signatures |-> Rogue]

\* The manifest payload of M2, signed by nobody who has confirmed it.
RogueManifest == [M2 EXCEPT !.signatures = Rogue]

ProvenanceManifests == {M1, M2, RogueManifest}
ProvenanceRoots     == {R1, R2, RogueRoot}
=============================================================================
