------------------------------ MODULE MCEnvelopes ------------------------------
(***************************************************************************)
(* Envelopes for the instances that TLC checks: two successive roots, and  *)
(* manifests that do or do not satisfy both of them.                       *)
(***************************************************************************)
EXTENDS Integers, Sequences, TLC

CONSTANTS s1, s2, k1, k2, k3, k4, a, b, c, d, o1, o2, rv, junk

MCSource           == {s1}
BothSources        == {s1, s2}
MCKeyId            == {k1, k2, k3, k4}
MCMaterial         == {a, b, c, d}
MCObject           == {o1, o2}
MCRevocationId     == {rv}
MCRevocationTarget == {o1}

Sig(k, m) == [key |-> k, by |-> m]
Keys1 == (k1 :> a) @@ (k2 :> b) @@ (k3 :> c)
Keys2 == (k1 :> a) @@ (k2 :> b) @@ (k4 :> d)

Both == <<Sig(k1, a), Sig(k2, b)>>  \* a threshold of both roots
Old  == <<Sig(k1, a), Sig(k3, c)>>  \* of root 1 only
New  == <<Sig(k2, b), Sig(k4, d)>>  \* of root 2 only

\* Root 1; root 2 bridged from it; and the payload of root 2 signed by a
\* threshold of its own only.
R1  == [version |-> 1, threshold |-> 2, expires |-> 1, keys |-> Keys1,
        signatures |-> Old]
R2  == [version |-> 2, threshold |-> 2, expires |-> 1, keys |-> Keys2,
        signatures |-> Both]
R2n == [R2 EXCEPT !.signatures = New]

Manifest(v, objects, revs, sigs) ==
    [source |-> s1, version |-> v, artifacts |-> objects,
     revocations |-> revs, signatures |-> sigs]
Revoked(v) == [id |-> rv, target |-> o1, version |-> v]

M1  == Manifest(1, <<o1>>, <<>>, Old)
M2  == Manifest(2, <<o1, o2>>, <<Revoked(2)>>, Both)
M2n == Manifest(2, <<o1, o2>>, <<Revoked(2)>>, New)   \* the payload of M2
M3  == Manifest(3, <<o2>>, <<Revoked(2)>>, Both)
M3w == Manifest(3, <<o2>>, <<Revoked(1)>>, Both)      \* weakened revocation

MCSignedManifest == {M1, M2, M2n, M3, M3w}
MCSignedRoot     == {R1, R2, R2n}

\* A smaller universe, for the runs in which heads are also edited by hand.
FewManifests == {M1, M2}
FewRoots     == {R1, R2}

\* The smallest: one release.
OneManifest == {M1}
OneRoot     == {R1}

\* Two releases with neither a rotation nor a revocation between them.
PlainSecond    == Manifest(2, <<o2>>, <<>>, Old)
PlainManifests == {M1, PlainSecond}

\* A release of a second source.
N1 == [M1 EXCEPT !.source = s2]
RaceManifests == MCSignedManifest \cup {N1}
=============================================================================
