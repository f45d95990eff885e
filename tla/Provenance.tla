------------------------------- MODULE Provenance -------------------------------
(***************************************************************************)
(* From the custodians to main: the ceremony that Assembly implements, and *)
(* the protected publication of what was signed in it.  The two meet only  *)
(* in the envelopes: anybody may put any envelope into a pull request, but *)
(* an Ed25519 signature under the key of a custodian exists only over what *)
(* that custodian has signed.                                              *)
(*                                                                         *)
(* Keys of a root that no custodian holds are foreign: lost, stolen, or    *)
(* never theirs.  Their signatures are over whatever anybody likes.        *)
(***************************************************************************)
EXTENDS Publication

CONSTANTS
    Custodian,  \* the holders of offline keys
    KeyOf       \* per custodian, the material of the key

CustodianKeys == {KeyOf[h] : h \in Custodian}

AtMostOneForeign(root) ==
    \A k, l \in DOMAIN root.keys :
        root.keys[k] \notin CustodianKeys /\ root.keys[l] \notin CustodianKeys
            => k = l

ASSUME CustodianAssumption ==
    /\ KeyOf \in [Custodian -> Material]
    /\ \A g, h \in Custodian : KeyOf[g] = KeyOf[h] => g = h

\* A custodian signs a root only if he knows the keys it lists, but for one.
\* (AssembleSignedRoot asks for two keys of the root before in the next one.)
ASSUME RootCeremonyAssumption ==
    \A r \in SignedRoot :
        (\E i \in DOMAIN r.signatures : r.signatures[i].by \in CustodianKeys)
            => AtMostOneForeign(r)

VARIABLES
    confirmed,  \* per custodian, the payloads inspected and confirmed
    signed      \* per custodian, the payloads signed

allVars == <<main, pulls, published, edits, overlooked, confirmed, signed>>

Payload == {ManifestPayload(m) : m \in SignedManifest}

C == INSTANCE Ceremony WITH Holder <- Custodian

\* Every signature in an envelope that verifies under the key of a custodian
\* has been made by then.
Made(m) ==
    \A i \in DOMAIN m.signatures, h \in Custodian :
        m.signatures[i].by = KeyOf[h] => ManifestPayload(m) \in signed[h]

Unforged(repo) ==
    \A s \in Source, p \in Path :
        repo.files[s][p] \in SignedManifest => Made(repo.files[s][p])

ProvenanceInit == Init /\ C!Init

CeremonyStep == C!Next /\ UNCHANGED vars

\* A step of Publication, in which no branch gets a forged signature.
PublicationStep ==
    /\ Next
    /\ \A q \in Pull : Unforged(pulls'[q].head)
    /\ UNCHANGED <<confirmed, signed>>

ProvenanceNext == CeremonyStep \/ PublicationStep

ProvenanceSpec == ProvenanceInit /\ [][ProvenanceNext]_allVars

-----------------------------------------------------------------------------
(***************************************************************************)
(* Properties.                                                             *)
(***************************************************************************)

\* The ceremony keeps its type, signatures follow confirmations.
CeremonyTypeOK == C!TypeOK

Reviewers(m) == {h \in Custodian : ManifestPayload(m) \in confirmed[h]}

\* Two custodians stand behind what subscribers get: once main has shown a
\* root with at most one foreign key, every release that is live was confirmed
\* by a custodian, and by two of them if its own root lists no foreign key,
\* whoever opened the pull requests, however stale their checks were, and
\* however often the root was replaced since.  verify-release sees neither
\* custodians nor confirmations, and compares a root with its predecessor only.
LiveWasReviewed ==
    ~overlooked => \A s \in Source : \A first \in published[s] :
        AtMostOneForeign(first.root) =>
            LET m == main.files[s][LiveManifest]
                r == main.files[s][LiveRoot]
            IN  /\ AtMostOneForeign(r)
                /\ Reviewers(m) # {}
                /\ (\A k \in DOMAIN r.keys : r.keys[k] \in CustodianKeys) =>
                      \E g, h \in Reviewers(m) : g # h

(***************************************************************************)
(* The inductive invariant: no tree that can reach main holds an envelope  *)
(* with a signature that was not made.                                     *)
(***************************************************************************)
ProvenanceInv ==
    /\ C!TypeOK
    /\ Unforged(main)
    /\ \A q \in Pull : Unforged(pulls[q].head)
=============================================================================
