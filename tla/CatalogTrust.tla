----------------------------- MODULE CatalogTrust -----------------------------
(***************************************************************************)
(* Signed Catalog metadata and the rules that decide whether it is         *)
(* trusted: the 2-of-3 root, the threshold check of the assembler and of   *)
(* the release verifier, and the forward-only rules for revocations.       *)
(*                                                                         *)
(* Keys.  A key ID names a public key; "material" is the key pair itself.  *)
(* An ed25519 value is abstracted to the material that produced it over    *)
(* the payload of the envelope that carries it: it verifies exactly under  *)
(* that material.  A value that verifies under nothing is one made by a    *)
(* material that no root lists.                                            *)
(***************************************************************************)
EXTENDS Integers, Sequences, FiniteSets

CONSTANTS KeyId, Material

Signature == [key : KeyId, by : Material]

\* The trust threshold and key count validateRoot insists on.
RootThreshold == 2
RootKeyCount  == 3

(***************************************************************************)
(* A root: version, threshold, expiry (0 is the zero time) and the map     *)
(* from key IDs to key material.                                           *)
(***************************************************************************)
IsKeyMap(keys) ==
    /\ DOMAIN keys \subseteq KeyId
    /\ \A k \in DOMAIN keys : keys[k] \in Material

DistinctMaterial(keys) ==
    \A k, l \in DOMAIN keys : keys[k] = keys[l] => k = l

ValidateRoot(root) ==
    /\ root.version # 0
    /\ root.threshold = RootThreshold
    /\ Cardinality(DOMAIN root.keys) = RootKeyCount
    /\ root.expires # 0
    /\ DistinctMaterial(root.keys)

(***************************************************************************)
(* Threshold checks.                                                       *)
(***************************************************************************)
Trusted(sig, root)  == sig.key \in DOMAIN root.keys
Verifies(sig, root) == Trusted(sig, root) /\ sig.by = root.keys[sig.key]

UniqueKeyIds(sigs) ==
    \A i, j \in DOMAIN sigs : sigs[i].key = sigs[j].key => i = j

\* The key IDs of a root whose holder signed.
Signers(sigs, root) ==
    {k \in DOMAIN root.keys :
        \E i \in DOMAIN sigs : sigs[i].key = k /\ sigs[i].by = root.keys[k]}

\* VerifyThreshold: one foreign, repeated or invalid fragment is an error.
VerifyThreshold(sigs, root) ==
    /\ ValidateRoot(root)
    /\ UniqueKeyIds(sigs)
    /\ \A i \in DOMAIN sigs : Verifies(sigs[i], root)
    /\ Cardinality(Signers(sigs, root)) >= root.threshold

\* verifySignedBytes: signatures under key IDs the root does not list are
\* skipped; those it lists must all verify and reach the threshold.
VerifySignedBytes(sigs, root) ==
    /\ ValidateRoot(root)
    /\ UniqueKeyIds(sigs)
    /\ \A i \in DOMAIN sigs : Trusted(sigs[i], root) => Verifies(sigs[i], root)
    /\ Cardinality(Signers(sigs, root)) >= root.threshold

(***************************************************************************)
(* Revocations.  "target" stands for the kind, target and reason of a      *)
(* revocation, which only ever matter together.                            *)
(***************************************************************************)
UniqueRevocationIds(revs) ==
    \A i, j \in DOMAIN revs : revs[i].id = revs[j].id => i = j

RevocationKept(old, revs) ==
    \E j \in DOMAIN revs :
        /\ revs[j].id = old.id
        /\ revs[j].target = old.target
        /\ revs[j].version >= old.version

RevocationsKept(prior, next) ==
    \A i \in DOMAIN prior : RevocationKept(prior[i], next)

\* Mutant: the version of a kept revocation is not compared.
MutVerifyRevocationsForward(prior, next) ==
    /\ UniqueRevocationIds(next)
    /\ \A i \in DOMAIN prior : \E j \in DOMAIN next :
          next[j].id = prior[i].id /\ next[j].target = prior[i].target

VerifyRevocationsForward(prior, next) ==
    /\ UniqueRevocationIds(next)
    /\ RevocationsKept(prior, next)
=============================================================================
