---------------------------- MODULE Provenance_proofs ----------------------------
(***************************************************************************)
(* Proofs about Provenance, for any custodians, keys, envelopes and pull   *)
(* requests: what is live on main was reviewed.  What Publication does by  *)
(* itself is taken from its theorems, which hold in the composition.       *)
(***************************************************************************)
EXTENDS Provenance, Publication_proofs, FiniteSetTheorems

-----------------------------------------------------------------------------
(***************************************************************************)
(* A threshold of signatures.                                              *)
(***************************************************************************)

\* An envelope that verifies under a root has signatures under two of its keys.
LEMMA TwoSigners ==
    ASSUME NEW sigs, NEW root, VerifySignedBytes(sigs, root)
    PROVE  \E k, l \in DOMAIN root.keys :
              /\ k # l /\ root.keys[k] # root.keys[l]
              /\ \E i \in DOMAIN sigs : sigs[i].by = root.keys[k]
              /\ \E i \in DOMAIN sigs : sigs[i].by = root.keys[l]
<1> DEFINE S == Signers(sigs, root)
<1>1. Cardinality(S) >= 2
    BY DEF VerifySignedBytes, ValidateRoot, RootThreshold
<1>2. S # {}
    BY <1>1, FS_EmptySet
<1>3. PICK k \in S : TRUE
    BY <1>2
<1>4. S # {k}
    <2>1. Cardinality({k}) = 1
        BY FS_Singleton
    <2>2. QED BY <1>1, <2>1
<1>5. PICK l \in S : l # k
    BY <1>3, <1>4
<1>6. /\ k \in DOMAIN root.keys /\ l \in DOMAIN root.keys
      /\ \E i \in DOMAIN sigs : sigs[i].by = root.keys[k]
      /\ \E i \in DOMAIN sigs : sigs[i].by = root.keys[l]
    BY <1>3, <1>5 DEF Signers
<1>7. root.keys[k] # root.keys[l]
    BY <1>5, <1>6 DEF VerifySignedBytes, ValidateRoot, DistinctMaterial
<1>8. QED BY <1>5, <1>6, <1>7

\* A bridge cannot lead out of the custodians' hands: of the two keys that
\* signed it one at least is a custodian's.
LEMMA BridgeStays ==
    ASSUME NEW old, AtMostOneForeign(old), NEW new \in SignedRoot,
           VerifySignedBytes(new.signatures, old)
    PROVE  AtMostOneForeign(new)
<1>1. PICK k, l \in DOMAIN old.keys :
          /\ k # l
          /\ \E i \in DOMAIN new.signatures : new.signatures[i].by = old.keys[k]
          /\ \E i \in DOMAIN new.signatures : new.signatures[i].by = old.keys[l]
    BY TwoSigners
<1>2. old.keys[k] \in CustodianKeys \/ old.keys[l] \in CustodianKeys
    BY <1>1 DEF AtMostOneForeign
<1>3. \E i \in DOMAIN new.signatures : new.signatures[i].by \in CustodianKeys
    BY <1>1, <1>2
<1>4. QED BY <1>3, RootCeremonyAssumption

\* What a custodian has signed for an envelope that exists he has confirmed.
LEMMA SignerReviewed ==
    ASSUME C!TypeOK, NEW m, Made(m), NEW i \in DOMAIN m.signatures,
           NEW h \in Custodian, m.signatures[i].by = KeyOf[h]
    PROVE  h \in Reviewers(m)
BY DEF C!TypeOK, Made, Reviewers

\* An envelope that exists and verifies under a root of at most one foreign
\* key has a reviewer, and two if no key is foreign.
LEMMA VerifiedIsReviewed ==
    ASSUME C!TypeOK, NEW m, Made(m), NEW root, VerifySignedBytes(m.signatures, root),
           AtMostOneForeign(root)
    PROVE  /\ Reviewers(m) # {}
           /\ (\A k \in DOMAIN root.keys : root.keys[k] \in CustodianKeys) =>
                 \E g, h \in Reviewers(m) : g # h
<1>1. PICK k, l \in DOMAIN root.keys :
          /\ k # l /\ root.keys[k] # root.keys[l]
          /\ \E i \in DOMAIN m.signatures : m.signatures[i].by = root.keys[k]
          /\ \E i \in DOMAIN m.signatures : m.signatures[i].by = root.keys[l]
    BY TwoSigners
<1>2. \A h \in Custodian : KeyOf[h] \in {root.keys[k], root.keys[l]} =>
          h \in Reviewers(m)
    BY <1>1, SignerReviewed
<1>3. root.keys[k] \in CustodianKeys \/ root.keys[l] \in CustodianKeys
    BY <1>1 DEF AtMostOneForeign
<1>4. Reviewers(m) # {}
    BY <1>2, <1>3 DEF CustodianKeys
<1>5. ASSUME \A j \in DOMAIN root.keys : root.keys[j] \in CustodianKeys
      PROVE  \E g, h \in Reviewers(m) : g # h
    <2>1. PICK g, h \in Custodian : KeyOf[g] = root.keys[k] /\ KeyOf[h] = root.keys[l]
        BY <1>1, <1>5 DEF CustodianKeys
    <2>2. g # h
        BY <1>1, <2>1
    <2>3. QED BY <1>2, <2>1, <2>2
<1>6. QED BY <1>4, <1>5

-----------------------------------------------------------------------------
(***************************************************************************)
(* The composition takes the steps of its parts.                           *)
(***************************************************************************)

\* Publication runs as it does alone: all its theorems hold.
LEMMA PublicationRuns == ProvenanceSpec => Spec
<1>1. ProvenanceInit => Init
    BY DEF ProvenanceInit
<1>2. [ProvenanceNext]_allVars => [Next]_vars
    BY DEF ProvenanceNext, CeremonyStep, PublicationStep, allVars, vars
<1>3. QED BY <1>1, <1>2, PTL DEF ProvenanceSpec, Spec

\* So does the ceremony.
LEMMA CeremonyRuns == ProvenanceSpec => C!Spec
<1>1. ProvenanceInit => C!Init
    BY DEF ProvenanceInit
<1>2. [ProvenanceNext]_allVars => [C!Next]_<<confirmed, signed>>
    BY DEF ProvenanceNext, CeremonyStep, PublicationStep, allVars
<1>3. QED BY <1>1, <1>2, PTL DEF ProvenanceSpec, C!Spec

\* A step of the ceremony keeps its type and takes no signature back.
LEMMA CeremonyGrows ==
    ASSUME C!TypeOK, [C!Next]_<<confirmed, signed>>
    PROVE  C!TypeOK' /\ \A h \in Custodian : signed[h] \subseteq signed'[h]
<1>1. /\ confirmed \in [Custodian -> SUBSET Payload]
      /\ signed \in [Custodian -> SUBSET Payload]
      /\ \A h \in Custodian : signed[h] \subseteq confirmed[h]
    BY DEF C!TypeOK
<1>2. ASSUME NEW h \in Custodian, C!Confirm(h)
      PROVE  C!TypeOK' /\ \A x \in Custodian : signed[x] \subseteq signed'[x]
    BY <1>1, <1>2 DEF C!TypeOK, C!Confirm
<1>3. ASSUME NEW h \in Custodian, C!Sign(h)
      PROVE  C!TypeOK' /\ \A x \in Custodian : signed[x] \subseteq signed'[x]
    BY <1>1, <1>3 DEF C!TypeOK, C!Sign
<1>4. CASE UNCHANGED <<confirmed, signed>>
    BY <1>1, <1>4 DEF C!TypeOK
<1>5. QED BY <1>2, <1>3, <1>4 DEF C!Next

\* Signatures follow confirmations, and have their types.
THEOREM CeremonyTypeTheorem == ProvenanceSpec => []CeremonyTypeOK
<1>1. C!Init => C!TypeOK
    BY DEF C!Init, C!TypeOK
<1>2. C!TypeOK /\ [C!Next]_<<confirmed, signed>> => C!TypeOK'
    BY CeremonyGrows
<1>3. C!TypeOK => CeremonyTypeOK
    BY DEF CeremonyTypeOK
<1>4. QED BY <1>1, <1>2, <1>3, CeremonyRuns, PTL DEF C!Spec

-----------------------------------------------------------------------------
(***************************************************************************)
(* No forged signature reaches main.                                       *)
(***************************************************************************)
LEMMA InitProvenance == ProvenanceInit => ProvenanceInv
<1> SUFFICES ASSUME ProvenanceInit PROVE ProvenanceInv
    OBVIOUS
<1>1. C!TypeOK
    BY DEF ProvenanceInit, C!Init, C!TypeOK
<1>2. NoFile \notin SignedManifest
    BY NoFileAssumption DEF Content
<1>3. Unforged(EmptyRepository)
    BY <1>2 DEF Unforged, EmptyRepository, EmptyTree
<1>4. QED BY <1>1, <1>3 DEF ProvenanceInv, ProvenanceInit, Init, NoPull

\* A merge takes every file from one of its sides.
LEMMA MergedFile ==
    ASSUME NEW fork, NEW ours, NEW theirs, NEW s \in Source, NEW p \in Path
    PROVE  ThreeWayMerge(fork, ours, theirs).files[s][p] \in
               {ours.files[s][p], theirs.files[s][p]}
BY DEF ThreeWayMerge, MergeFiles

LEMMA NextProvenance == ProvenanceInv /\ [ProvenanceNext]_allVars => ProvenanceInv'
<1> SUFFICES ASSUME ProvenanceInv, [ProvenanceNext]_allVars PROVE ProvenanceInv'
    OBVIOUS
<1>1. C!TypeOK' /\ \A h \in Custodian : signed[h] \subseteq signed'[h]
    <2>1. [C!Next]_<<confirmed, signed>>
        BY DEF ProvenanceNext, CeremonyStep, PublicationStep, allVars
    <2>2. QED BY <2>1, CeremonyGrows DEF ProvenanceInv
<1>2. CASE UNCHANGED <<main, pulls>>
    <2>1. Unforged(main)'
        BY <1>1, <1>2 DEF ProvenanceInv, Unforged, Made
    <2>2. \A q \in Pull : Unforged(pulls[q].head)'
        BY <1>1, <1>2 DEF ProvenanceInv, Unforged, Made
    <2>3. QED BY <1>1, <2>1, <2>2 DEF ProvenanceInv
<1>3. CASE PublicationStep
    <2>1. \A q \in Pull : Unforged(pulls[q].head)'
        BY <1>3 DEF PublicationStep, Unforged, Made
    <2>2. Unforged(main)'
        <3>1. CASE main' = main
            BY <1>1, <3>1 DEF ProvenanceInv, Unforged, Made
        <3>2. CASE main' # main
            <4>1. PICK q \in Pull : MergePull(q)
                BY <1>3, <3>2, OnlyMerges DEF PublicationStep
            <4>2. main' = ThreeWayMerge(pulls[q].fork, main, pulls[q].head)
                BY <4>1 DEF MergePull
            <4>3. ASSUME NEW s \in Source, NEW p \in Path,
                         main'.files[s][p] \in SignedManifest
                  PROVE  Made(main'.files[s][p])
                <5>1. main'.files[s][p] \in
                          {main.files[s][p], pulls[q].head.files[s][p]}
                    BY <4>2, MergedFile
                <5>2. QED BY <4>3, <5>1 DEF ProvenanceInv, Unforged
            <4>4. QED BY <1>1, <4>3 DEF Unforged, Made
        <3>3. QED BY <3>1, <3>2
    <2>3. QED BY <1>1, <2>1, <2>2 DEF ProvenanceInv
<1>4. QED BY <1>2, <1>3 DEF ProvenanceNext, CeremonyStep, vars, allVars

THEOREM ProvenanceInvTheorem == ProvenanceSpec => []ProvenanceInv
BY InitProvenance, NextProvenance, PTL DEF ProvenanceSpec

-----------------------------------------------------------------------------
(***************************************************************************)
(* Two custodians stand behind what is live.                               *)
(***************************************************************************)

\* The chain of archived roots carries the custodians' hold on the keys from
\* any root that was ever live to the one that is.
LEMMA LiveRootHeld ==
    ASSUME VerifiedInv, ChainArchived, NEW s \in Source,
           NEW first \in published[s], AtMostOneForeign(first.root)
    PROVE  AtMostOneForeign(main.files[s][LiveRoot])
<1> DEFINE t == main.files[s]
           R == {x \in ArchivedRoots(t) : AtMostOneForeign(x)}
<1>1. first.root \in R
    BY DEF VerifiedInv, HistoryBehindMain, Retained, TypeOK, Release, ArchivedRoots
<1>2. ASSUME NEW x \in R, NEW y \in ArchivedRoots(t), Bridged(x, y)
      PROVE  y \in R
    BY <1>2, BridgeStays DEF ArchivedRoots, Bridged
<1>3. R \in SUBSET ArchivedRoots(t)
    OBVIOUS
<1>4. LeadsTo(t, first.root, t[LiveRoot])
    BY DEF ChainArchived, VerifiedInv
<1>5. t[LiveRoot] \in R
    <2> HIDE DEF R
    <2>1. \A x \in R, y \in ArchivedRoots(t) : Bridged(x, y) => y \in R
        BY <1>2
    <2>2. QED BY <1>1, <1>3, <1>4, <2>1 DEF LeadsTo
<1>6. QED BY <1>5

LEMMA LiveReviewed ==
    ASSUME VerifiedInv, ChainArchived, ProvenanceInv
    PROVE  LiveWasReviewed
<1> SUFFICES ASSUME NEW s \in Source, NEW first \in published[s],
                    AtMostOneForeign(first.root)
             PROVE  LET m == main.files[s][LiveManifest]
                        r == main.files[s][LiveRoot]
                    IN  /\ AtMostOneForeign(r)
                        /\ Reviewers(m) # {}
                        /\ (\A k \in DOMAIN r.keys : r.keys[k] \in CustodianKeys) =>
                              \E g, h \in Reviewers(m) : g # h
    BY DEF LiveWasReviewed
<1> DEFINE m == main.files[s][LiveManifest]
           r == main.files[s][LiveRoot]
<1>1. AtMostOneForeign(r)
    BY LiveRootHeld
<1>2. m \in SignedManifest /\ VerifySignedBytes(m.signatures, r)
    <2>1. VerifyPublishedSource(s, main.files[s])
        BY DEF VerifiedInv, HistoryBehindMain, Sound
    <2>2. QED BY <2>1 DEF VerifyPublishedSource
<1>3. Made(m)
    <2>1. LiveManifest \in Path
        BY DEF Path
    <2>2. QED BY <1>2, <2>1 DEF ProvenanceInv, Unforged
<1>4. C!TypeOK
    BY DEF ProvenanceInv
<1>5. QED BY <1>1, <1>2, <1>3, <1>4, VerifiedIsReviewed

\* From the custodians to main: behind every live release stand custodians who
\* confirmed its payload, one in spite of a foreign key, two without any, as
\* long as no green check has overlooked a change.
THEOREM ReviewTheorem == ProvenanceSpec => []LiveWasReviewed
<1>1. PublicationInv /\ ChainArchived /\ ProvenanceInv => LiveWasReviewed
    <2>1. CASE overlooked
        BY <2>1 DEF LiveWasReviewed
    <2>2. CASE ~overlooked
        BY <2>2, LiveReviewed DEF PublicationInv
    <2>3. QED BY <2>1, <2>2
<1>2. QED BY <1>1, PublicationRuns, InvariantTheorem, ChainTheorem,
             ProvenanceInvTheorem, PTL
=============================================================================
