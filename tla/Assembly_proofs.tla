---------------------------- MODULE Assembly_proofs ----------------------------
(***************************************************************************)
(* Proofs about Assembly for every number of custodians, operators,        *)
(* candidates, roots, fragments and changes of the candidate directory.    *)
(***************************************************************************)
EXTENDS Assembly, FiniteSetTheorems, TLAPS

(***************************************************************************)
(* Types of the inputs.                                                    *)
(***************************************************************************)
LEMMA PayloadType ==
    ASSUME NEW pl \in Payload
    PROVE  /\ pl.source \in Source
           /\ pl.version \in Nat
           /\ pl.artifacts \in Seq(Object)
           /\ pl.revocations \in Seq(Revocation)
           /\ ArtifactSet(pl) \subseteq Object
<1>1. PICK m \in SignedManifest : pl = ManifestPayload(m)
    BY DEF Payload
<1>2. /\ pl.source = m.source /\ pl.version = m.version
      /\ pl.artifacts = m.artifacts /\ pl.revocations = m.revocations
    BY <1>1 DEF ManifestPayload
<1>3. /\ m.source \in Source
      /\ m.version \in Nat
      /\ m.artifacts \in Seq(Object)
      /\ m.revocations \in Seq(Revocation)
    BY ManifestAssumption
<1>4. ArtifactSet(pl) \subseteq Object
    BY <1>2, <1>3 DEF ArtifactSet
<1>5. QED BY <1>2, <1>3, <1>4

LEMMA EnvelopePayload ==
    ASSUME NEW pl \in Payload, NEW sigs
    PROVE  /\ ManifestPayload(SignedEnvelope(pl, sigs)) = pl
           /\ ArtifactSet(SignedEnvelope(pl, sigs)) = ArtifactSet(pl)
<1>1. PICK m \in SignedManifest : pl = ManifestPayload(m)
    BY DEF Payload
<1>2. ManifestPayload(SignedEnvelope(pl, sigs)) = pl
    BY <1>1 DEF ManifestPayload, SignedEnvelope
<1>3. QED BY <1>2 DEF SignedEnvelope, ArtifactSet

LEMMA PriorType ==
    ASSUME NEW prior \in PriorRevocations
    PROVE  prior \in Seq(Revocation)
<1>1. CASE prior = <<>>
    BY <1>1
<1>2. CASE \E m \in SignedManifest : prior = m.revocations
    BY <1>2, ManifestAssumption
<1>3. QED BY <1>1, <1>2 DEF PriorRevocations

LEMMA FilesType ==
    ASSUME NEW files \in FragmentFiles
    PROVE  \E n \in Nat : files \in [1..n -> FragmentPath]
<1>1. PICK n \in 0..Cardinality(FragmentPath) :
          files \in {f \in [1..n -> FragmentPath] :
                        \A i, j \in 1..n : i < j => f[i] < f[j]}
    BY DEF FragmentFiles
<1>2. n \in Nat
    BY <1>1
<1>3. QED BY <1>1, <1>2

(***************************************************************************)
(* A threshold is two different keys.                                      *)
(***************************************************************************)
LEMMA TwoMaterials ==
    ASSUME NEW sigs, NEW root, VerifyThreshold(sigs, root)
    PROVE  \E i, j \in DOMAIN sigs : sigs[i].by # sigs[j].by
<1> DEFINE S == Signers(sigs, root)
<1>1. Cardinality(S) >= 2
    BY DEF VerifyThreshold, ValidateRoot, RootThreshold
<1>2. S # {}
    BY <1>1, FS_EmptySet
<1>3. PICK k \in S : TRUE
    BY <1>2
<1>4. S # {k}
    <2>1. Cardinality({k}) = 1
        BY FS_Singleton
    <2>2. QED BY <1>1, <2>1
<1>5. PICK l \in S : l # k
    BY <1>3, <1>4
<1>6. /\ k \in DOMAIN root.keys /\ l \in DOMAIN root.keys
      /\ \E i \in DOMAIN sigs : sigs[i].by = root.keys[k]
      /\ \E i \in DOMAIN sigs : sigs[i].by = root.keys[l]
    BY <1>3, <1>5 DEF Signers
<1>7. root.keys[k] # root.keys[l]
    BY <1>5, <1>6 DEF VerifyThreshold, ValidateRoot, DistinctMaterial
<1>8. QED BY <1>6, <1>7

LEMMA ThresholdIsReviewed ==
    ASSUME NEW fragments, NEW request, NEW payload, NEW root, NEW confirmed,
           \A i \in DOMAIN fragments : GenuineFragment(fragments[i], confirmed),
           FragmentsVerify(fragments, request, payload, root)
    PROVE  TwoReviewed(payload, confirmed)
<1>1. PICK i, j \in DOMAIN fragments : fragments[i].by # fragments[j].by
    <2>1. DOMAIN Signatures(fragments) = DOMAIN fragments
        BY DEF Signatures
    <2>2. \A n \in DOMAIN fragments : Signatures(fragments)[n].by = fragments[n].by
        BY DEF Signatures
    <2>3. \E i, j \in DOMAIN Signatures(fragments) :
              Signatures(fragments)[i].by # Signatures(fragments)[j].by
        BY TwoMaterials DEF FragmentsVerify
    <2>4. QED BY <2>1, <2>2, <2>3
<1>2. PICK g \in Holder : /\ fragments[i].by = HolderKey[g].by
                          /\ fragments[i].request \in confirmed[g]
    BY <1>1 DEF GenuineFragment
<1>3. PICK h \in Holder : /\ fragments[j].by = HolderKey[h].by
                          /\ fragments[j].request \in confirmed[h]
    BY <1>1 DEF GenuineFragment
<1>4. g # h
    BY <1>1, <1>2, <1>3
<1>5. /\ fragments[i].request.payload = payload
      /\ fragments[j].request.payload = payload
    BY <1>1 DEF FragmentsVerify, GenuineFragment
<1>6. QED BY <1>2, <1>3, <1>4, <1>5 DEF TwoReviewed, Confirms

\* What the assembler checks is what the verifier checks.
LEMMA ThresholdIsVerified ==
    ASSUME NEW sigs, NEW root, VerifyThreshold(sigs, root)
    PROVE  VerifySignedBytes(sigs, root)
BY DEF VerifyThreshold, VerifySignedBytes

\* A root in its envelope is judged like the root itself.
LEMMA EnvelopeRoot ==
    ASSUME NEW r, NEW current, RootPayload(r) = current,
           NEW sigs, VerifySignedBytes(sigs, current)
    PROVE  VerifySignedBytes(sigs, r)
BY DEF RootPayload, VerifySignedBytes, ValidateRoot, Trusted, Verifies, Signers

LEMMA StagedIsAccepted ==
    ASSUME NEW fragments, NEW request, NEW payload \in Payload, NEW current,
           NEW signed, NEW prior, NEW now, NEW x,
           CanAssemble(fragments, request, payload, current, signed, prior, now),
           x.root = signed, x.current = current, x.prior = prior,
           x.manifest = SignedEnvelope(payload, Signatures(fragments)),
           PolicyAdmits(payload)
    PROVE  AcceptedByCurrent(x) /\ AcceptedByNext(x)
<1>1. x.root.version > x.current.version
    BY DEF CanAssemble, VerifySignedRoot, BridgeAllowed, RootPayload
<1>2. VerifySignedBytes(x.root.signatures, x.current)
    BY DEF CanAssemble, VerifySignedRoot, VerifyBridgeFragments
<1>3. VerifySignedBytes(x.manifest.signatures, x.current)
    <2>1. x.manifest.signatures = Signatures(fragments)
        BY DEF SignedEnvelope
    <2>2. VerifyThreshold(Signatures(fragments), current)
        BY DEF CanAssemble, FragmentsVerify
    <2>3. QED BY <2>1, <2>2, ThresholdIsVerified
<1>4. VerifyRevocationsForward(x.prior, x.manifest.revocations)
    BY DEF CanAssemble, SignedEnvelope
<1>5. x.manifest.version # 0
    BY DEF PolicyAdmits, SignedEnvelope
<1>6. VerifySignedBytes(x.root.signatures, x.root)
    <2>1. VerifySignedBytes(x.root.signatures, RootPayload(x.root))
        BY DEF CanAssemble, VerifySignedRoot, VerifyBridgeFragments
    <2>2. QED BY <2>1, EnvelopeRoot
<1>7. VerifySignedBytes(x.manifest.signatures, x.root)
    <2>1. x.manifest.signatures = Signatures(fragments)
        BY DEF SignedEnvelope
    <2>2. VerifyThreshold(Signatures(fragments), RootPayload(x.root))
        BY DEF CanAssemble, FragmentsVerify
    <2>3. QED BY <2>1, <2>2, ThresholdIsVerified, EnvelopeRoot
<1>8. QED BY <1>1, <1>2, <1>3, <1>4, <1>5, <1>6, <1>7
          DEF AcceptedByCurrent, AcceptedByNext

(***************************************************************************)
(* Reviews are never withdrawn.                                            *)
(***************************************************************************)
Grows == \A h \in Holder : reviewed[h] \subseteq reviewed'[h]

LEMMA GrowStep ==
    ASSUME TypeOK, [Next]_vars
    PROVE  Grows
BY DEF TypeOK, Next, vars, Grows, Rebuild, ReplaceFile, Changed, ReadPayload,
       ReadRequest, CheckObjects, Abort, Inspect, Sign, RereadPayload, Stage,
       CopyObject, Publish

LEMMA GenuineStays ==
    ASSUME Grows, NEW f, GenuineFragment(f, reviewed)
    PROVE  GenuineFragment(f, reviewed')
BY DEF Grows, GenuineFragment

LEMMA SoundStays ==
    ASSUME Grows, NEW x, SoundRelease(x, reviewed)
    PROVE  SoundRelease(x, reviewed')
<1>1. TwoReviewed(ManifestPayload(x.manifest), reviewed)
    BY DEF SoundRelease
<1>2. TwoReviewed(ManifestPayload(x.manifest), reviewed')
    BY <1>1 DEF Grows, TwoReviewed, Confirms
<1>3. QED BY <1>2 DEF SoundRelease

(***************************************************************************)
(* Types.                                                                  *)
(***************************************************************************)

\* TypeOK, one reader at a time.
GoodPrep(e) ==
    /\ e \in Prep
    /\ e.step \notin {"idle", "payload"} =>
          /\ e.request \in Request
          /\ e.request.payload = e.payload
          /\ PolicyAdmits(e.payload)
    /\ e.release = NoFile <=> e.step # "staging"

LEMMA TypeByReader ==
    TypeOK <=>
        /\ candidate \in Candidate
        /\ DOMAIN prep = Reader /\ prep = [x \in Reader |-> prep[x]]
        /\ \A x \in Reader : GoodPrep(prep[x])
        /\ reviewed \in [Holder -> SUBSET Request]
        /\ fragmentFile \in [FragmentPath -> Fragment \cup {NoFile}]
        /\ output \in [OutputDir -> Assembled \cup {NoFile}]
        /\ changes \in 0..MaxChanges
BY DEF TypeOK, GoodPrep

LEMMA IdleType == GoodPrep(Idle)
BY DEF GoodPrep, Prep, Idle

LEMMA CandidateType ==
    ASSUME NEW request \in Request
    PROVE  BuildCandidate(request) \in Candidate
<1>1. request.payload \in Payload
    BY DEF Request
<1>2. QED BY <1>1 DEF BuildCandidate, Candidate, ObjectState

\* A step of one reader that leaves a good record for it.
LEMMA ReaderStep ==
    ASSUME TypeOK, NEW x \in Reader, NEW e, GoodPrep(e),
           prep' = [prep EXCEPT ![x] = e]
    PROVE  /\ prep' = [y \in Reader |-> prep'[y]]
           /\ \A y \in Reader : GoodPrep(prep'[y])
<1>1. DOMAIN prep = Reader /\ \A y \in Reader : GoodPrep(prep[y])
    BY TypeByReader
<1>2. \A y \in Reader : prep'[y] = IF y = x THEN e ELSE prep[y]
    BY <1>1
<1>3. \A y \in Reader : GoodPrep(prep'[y])
    BY <1>1, <1>2
<1>4. QED BY <1>1, <1>3

LEMMA StagedType ==
    ASSUME TypeOK, NEW x \in Reader, prep[x].step = "reread",
           NEW files \in FragmentFiles, NEW current \in TrustRoot,
           NEW signed \in SignedRoot, NEW prior \in PriorRevocations,
           \A i \in DOMAIN files : fragmentFile[files[i]] # NoFile
    PROVE  /\ StagedRelease(x, ReadFragments(files), current, signed, prior)
                  \in Assembled
           /\ \A i \in DOMAIN ReadFragments(files) :
                  \E p \in FragmentPath :
                      /\ fragmentFile[p] # NoFile
                      /\ ReadFragments(files)[i] = fragmentFile[p]
<1> DEFINE fragments == ReadFragments(files)
<1>1. PICK n \in Nat : files \in [1..n -> FragmentPath]
    BY FilesType
<1>2. fragments \in [1..n -> Fragment]
    <2>1. \A i \in 1..n : fragmentFile[files[i]] \in Fragment
        BY <1>1 DEF TypeOK
    <2>2. DOMAIN files = 1..n
        BY <1>1
    <2>3. QED BY <2>1, <2>2 DEF ReadFragments
<1>3. Signatures(fragments) \in [1..n -> Signature]
    <2> HIDE DEF fragments
    <2>1. DOMAIN fragments = 1..n /\ \A i \in 1..n : fragments[i] \in Fragment
        BY <1>2
    <2>2. \A i \in 1..n :
              [key |-> fragments[i].key, by |-> fragments[i].by] \in Signature
        BY <2>1 DEF Fragment, Signature
    <2>3. QED BY <2>1, <2>2 DEF Signatures
<1>4. Signatures(fragments) \in Seq(Signature)
    <2> HIDE DEF fragments
    <2>1. QED BY <1>3
<1>5. prep[x].request \in Request /\ prep[x].request.payload = prep[x].payload
    BY DEF TypeOK
<1>6. prep[x].payload \in Payload
    BY <1>5 DEF Request
<1>7. SignedEnvelope(prep[x].payload, Signatures(fragments)) \in Envelope
    <2> HIDE DEF fragments
    <2>1. QED BY <1>4, <1>6, PayloadType DEF SignedEnvelope, Envelope
<1>8. NoObjects \in [Object -> ObjectState]
    BY DEF NoObjects, ObjectState
<1>9. prior \in Seq(Revocation)
    BY PriorType
<1> HIDE DEF fragments
<1>10. StagedRelease(x, fragments, current, signed, prior) \in Assembled
    BY <1>5, <1>7, <1>8, <1>9 DEF Assembled, StagedRelease
<1>11. \A i \in DOMAIN files : files[i] \in FragmentPath
    BY <1>1
<1>12. QED BY <1>10, <1>11 DEF fragments, ReadFragments

LEMMA TypeStep ==
    ASSUME TypeOK, [Next]_vars
    PROVE  TypeOK'
<1> USE TypeByReader
<1>1. CASE UNCHANGED vars
    BY <1>1 DEF vars, TypeOK
<1>2. ASSUME NEW new \in Candidate, Changed(new)
      PROVE  TypeOK'
    BY <1>2, ChangeAssumption DEF Changed, TypeOK
<1>3. CASE Rebuild
    <2>1. PICK request \in Request : Changed(BuildCandidate(request))
        BY <1>3 DEF Rebuild
    <2>2. QED BY <1>2, <2>1, CandidateType
<1>4. CASE ReplaceFile
    <2>1. CASE \E pl \in (Payload \cup OtherBytes) \ {candidate.payload} :
                   Changed([candidate EXCEPT !.payload = pl])
        <3>1. PICK pl \in Payload \cup OtherBytes :
                  Changed([candidate EXCEPT !.payload = pl])
            BY <2>1
        <3>2. [candidate EXCEPT !.payload = pl] \in Candidate
            BY DEF TypeOK, Candidate
        <3>3. QED BY <1>2, <3>1, <3>2
    <2>2. CASE \E rq \in (Request \cup OtherBytes) \ {candidate.request} :
                   Changed([candidate EXCEPT !.request = rq])
        <3>1. PICK rq \in Request \cup OtherBytes :
                  Changed([candidate EXCEPT !.request = rq])
            BY <2>2
        <3>2. [candidate EXCEPT !.request = rq] \in Candidate
            BY DEF TypeOK, Candidate
        <3>3. QED BY <1>2, <3>1, <3>2
    <2>3. CASE \E o \in Object, st \in ObjectState :
                   /\ candidate.objects[o] # st
                   /\ Changed([candidate EXCEPT !.objects[o] = st])
        <3>1. PICK o \in Object, st \in ObjectState :
                  Changed([candidate EXCEPT !.objects[o] = st])
            BY <2>3
        <3>2. [candidate EXCEPT !.objects[o] = st] \in Candidate
            BY DEF TypeOK, Candidate
        <3>3. QED BY <1>2, <3>1, <3>2
    <2>4. QED BY <1>4, <2>1, <2>2, <2>3 DEF ReplaceFile
<1>5. ASSUME NEW x \in Reader, ReadPayload(x)
      PROVE  TypeOK'
    <2> DEFINE e == [prep[x] EXCEPT !.step = "payload",
                                    !.payload = candidate.payload]
    <2>1. GoodPrep(e)
        BY <1>5 DEF ReadPayload, GoodPrep, Prep, Candidate
    <2>2. prep' = [prep EXCEPT ![x] = e]
        BY <1>5 DEF ReadPayload
    <2> HIDE DEF e
    <2>3. QED BY <1>5, <2>1, <2>2, ReaderStep DEF ReadPayload, TypeOK, GoodPrep
<1>6. ASSUME NEW x \in Reader, ReadRequest(x)
      PROVE  TypeOK'
    <2> DEFINE e == [prep[x] EXCEPT !.step = "request",
                                    !.request = candidate.request]
    <2>1. GoodPrep(e)
        BY <1>6 DEF ReadRequest, ValidateRequest, GoodPrep, Prep
    <2>2. prep' = [prep EXCEPT ![x] = e]
        BY <1>6 DEF ReadRequest
    <2> HIDE DEF e
    <2>3. /\ prep' = [y \in Reader |-> prep'[y]]
          /\ \A y \in Reader : GoodPrep(prep'[y])
        BY <2>1, <2>2, ReaderStep
    <2>4. UNCHANGED <<candidate, reviewed, fragmentFile, output, changes>>
        BY <1>6 DEF ReadRequest
    <2>5. QED BY <2>3, <2>4 DEF TypeOK, GoodPrep
<1>7. ASSUME NEW x \in Reader, CheckObjects(x)
      PROVE  TypeOK'
    <2> DEFINE e == [prep[x] EXCEPT !.step = "prepared"]
    <2>1. GoodPrep(e)
        BY <1>7 DEF CheckObjects, GoodPrep, Prep
    <2>2. prep' = [prep EXCEPT ![x] = e]
        BY <1>7 DEF CheckObjects
    <2> HIDE DEF e
    <2>3. QED BY <1>7, <2>1, <2>2, ReaderStep DEF CheckObjects, TypeOK, GoodPrep
<1>8. ASSUME NEW x \in Reader, Abort(x)
      PROVE  TypeOK'
    BY <1>8, IdleType, ReaderStep DEF Abort, TypeOK, GoodPrep
<1>9. ASSUME NEW h \in Holder, Inspect(h)
      PROVE  TypeOK'
    <2>1. h \in Reader /\ prep[h].request \in Request
        BY <1>9 DEF Reader, Inspect, GoodPrep
    <2>2. reviewed' \in [Holder -> SUBSET Request]
        BY <1>9, <2>1 DEF Inspect
    <2>3. QED
        BY <1>9, <2>1, <2>2, IdleType, ReaderStep DEF Inspect, TypeOK, GoodPrep
<1>10. ASSUME NEW h \in Holder, Sign(h)
       PROVE  TypeOK'
    <2>1. /\ h \in Reader
          /\ prep[h].request \in Request
          /\ prep[h].payload = prep[h].request.payload
        BY <1>10 DEF Reader, Sign, GoodPrep
    <2>2. FragmentOf(h) \in Fragment
        <3>1. HolderKey[h] \in Signature
            BY HolderAssumption
        <3>2. prep[h].payload \in Payload
            BY <2>1 DEF Request
        <3>3. QED BY <2>1, <3>1, <3>2 DEF FragmentOf, Fragment, Signature
    <2>3. fragmentFile' \in [FragmentPath -> Fragment \cup {NoFile}]
        BY <1>10, <2>2 DEF Sign
    <2>4. QED
        BY <1>10, <2>1, <2>3, IdleType, ReaderStep DEF Sign, TypeOK, GoodPrep
<1>11. ASSUME NEW x \in Operator, RereadPayload(x)
       PROVE  TypeOK'
    <2> DEFINE e == [prep[x] EXCEPT !.step = "reread"]
    <2>1. x \in Reader
        BY DEF Reader
    <2>2. GoodPrep(e)
        BY <1>11, <2>1 DEF RereadPayload, GoodPrep, Prep
    <2>3. prep' = [prep EXCEPT ![x] = e]
        BY <1>11 DEF RereadPayload
    <2> HIDE DEF e
    <2>4. QED
        BY <1>11, <2>1, <2>2, <2>3, ReaderStep DEF RereadPayload, TypeOK, GoodPrep
<1>12. ASSUME NEW x \in Operator, Stage(x)
       PROVE  TypeOK'
    <2>1. x \in Reader
        BY DEF Reader
    <2>2. PICK r \in Assembled :
              prep' = [prep EXCEPT ![x].step = "staging", ![x].release = r]
        BY <1>12, <2>1, StagedType DEF Stage
    <2> DEFINE e == [prep[x] EXCEPT !.step = "staging", !.release = r]
    <2>3. GoodPrep(e)
        BY <1>12, <2>1, AbsentAssumption DEF Stage, GoodPrep, Prep
    <2>4. prep' = [prep EXCEPT ![x] = e]
        BY <2>2
    <2> HIDE DEF e
    <2>5. QED
        BY <1>12, <2>1, <2>3, <2>4, ReaderStep DEF Stage, TypeOK, GoodPrep
<1>13. ASSUME NEW x \in Operator, CopyObject(x)
       PROVE  TypeOK'
    <2>1. x \in Reader
        BY DEF Reader
    <2>2. PICK o \in ArtifactSet(prep[x].payload) :
              prep' = [prep EXCEPT ![x].release.objects[o] = candidate.objects[o]]
        BY <1>13 DEF CopyObject
    <2>3. /\ prep[x].step = "staging"
          /\ prep[x].release # NoFile
          /\ GoodPrep(prep[x])
        BY <1>13, <2>1 DEF CopyObject, GoodPrep
    <2>4. prep[x].release \in Assembled
        BY <2>3 DEF GoodPrep, Prep
    <2>5. o \in Object
        BY <2>3, PayloadType DEF GoodPrep, Request
    <2>6. candidate.objects[o] \in ObjectState
        BY <2>5 DEF Candidate
    <2> DEFINE r == [prep[x].release EXCEPT !.objects[o] = candidate.objects[o]]
               e == [prep[x] EXCEPT !.release = r]
    <2>7. r \in Assembled
        BY <2>4, <2>5, <2>6 DEF Assembled
    <2>8. prep' = [prep EXCEPT ![x] = e]
        BY <2>2
    <2> HIDE DEF r
    <2>9. GoodPrep(e)
        BY <2>3, <2>7, AbsentAssumption DEF GoodPrep, Prep
    <2> HIDE DEF e
    <2>10. QED
        BY <1>13, <2>1, <2>8, <2>9, ReaderStep DEF CopyObject, TypeOK, GoodPrep
<1>14. ASSUME NEW x \in Operator, Publish(x)
       PROVE  TypeOK'
    <2>1. x \in Reader
        BY DEF Reader
    <2>2. prep[x].release \in Assembled
        BY <1>14, <2>1 DEF Publish, GoodPrep, Prep
    <2>3. output' \in [OutputDir -> Assembled \cup {NoFile}]
        BY <1>14, <2>2 DEF Publish
    <2>4. QED
        BY <1>14, <2>1, <2>3, IdleType, ReaderStep DEF Publish, TypeOK, GoodPrep
<1>15. QED
    BY <1>1, <1>3, <1>4, <1>5, <1>6, <1>7, <1>8, <1>9, <1>10, <1>11, <1>12,
       <1>13, <1>14 DEF Next

(***************************************************************************)
(* The inductive invariant.                                                *)
(***************************************************************************)
FragmentsGenuine ==
    \A p \in FragmentPath :
        fragmentFile[p] # NoFile => GenuineFragment(fragmentFile[p], reviewed)

StagedSound(e) ==
    e.step = "staging" =>
        /\ SoundRelease(e.release, reviewed)
        /\ ManifestPayload(e.release.manifest) = e.payload

Finished(x) ==
    /\ SoundRelease(x, reviewed)
    /\ \A o \in ArtifactSet(x.manifest) : x.objects[o] # "absent"

LEMMA InvParts ==
    AssemblyInv <=> /\ TypeOK
                    /\ FragmentsGenuine
                    /\ \A x \in Reader : StagedSound(prep[x])
                    /\ \A d \in OutputDir :
                          output[d] # NoFile => Finished(output[d])
BY DEF AssemblyInv, FragmentsGenuine, StagedSound, Finished, Published

LEMMA FragmentStep ==
    ASSUME AssemblyInv, [Next]_vars
    PROVE  FragmentsGenuine'
<1>1. TypeOK /\ FragmentsGenuine /\ Grows
    BY InvParts, GrowStep
<1>2. SUFFICES ASSUME NEW p \in FragmentPath, fragmentFile'[p] # NoFile
               PROVE  GenuineFragment(fragmentFile'[p], reviewed')
    BY DEF FragmentsGenuine
<1>3. CASE fragmentFile'[p] = fragmentFile[p]
    BY <1>1, <1>2, <1>3, GenuineStays DEF FragmentsGenuine
<1>4. CASE \E h \in Holder : Sign(h) /\ fragmentFile'[p] # fragmentFile[p]
    <2>1. PICK h \in Holder : Sign(h) /\ fragmentFile'[p] # fragmentFile[p]
        BY <1>4
    <2>2. fragmentFile'[p] = FragmentOf(h)
        BY <1>1, <2>1 DEF Sign, TypeOK
    <2>3. prep[h].request \in reviewed[h] /\ prep[h].payload = prep[h].request.payload
        BY <1>1, <2>1 DEF Sign, TypeOK, Reader
    <2>4. GenuineFragment(FragmentOf(h), reviewed)
        BY <2>3 DEF GenuineFragment, FragmentOf
    <2>5. QED BY <1>1, <2>2, <2>4, GenuineStays
<1>5. CASE UNCHANGED fragmentFile
    BY <1>3, <1>5
<1>6. UNCHANGED fragmentFile \/ \E h \in Holder : Sign(h)
    BY DEF Next, vars, Rebuild, ReplaceFile, Changed, ReadPayload, ReadRequest,
           CheckObjects, Abort, Inspect, RereadPayload, Stage, CopyObject, Publish
<1>7. QED BY <1>3, <1>4, <1>5, <1>6

\* A reader whose record is its old one, or is not in staging, is sound.
LEMMA StagedStays ==
    ASSUME AssemblyInv, Grows, NEW x \in Reader, NEW e,
           e = prep[x] \/ e.step # "staging"
    PROVE  e.step = "staging" =>
               /\ SoundRelease(e.release, reviewed')
               /\ ManifestPayload(e.release.manifest) = e.payload
<1>1. StagedSound(prep[x])
    BY InvParts
<1>2. QED BY <1>1, SoundStays DEF StagedSound

LEMMA StageSound ==
    ASSUME AssemblyInv, NEW x \in Operator, Stage(x)
    PROVE  /\ SoundRelease(prep'[x].release, reviewed)
           /\ ManifestPayload(prep'[x].release.manifest) = prep'[x].payload
<1>1. x \in Reader /\ TypeOK /\ FragmentsGenuine
    BY InvParts DEF Reader
<1>2. PICK files \in FragmentFiles, current \in TrustRoot, signed \in SignedRoot,
           prior \in PriorRevocations, now \in Now :
          /\ \A i \in DOMAIN files : fragmentFile[files[i]] # NoFile
          /\ CanAssemble(ReadFragments(files), prep[x].request, prep[x].payload,
                         current, signed, prior, now)
          /\ prep' = [prep EXCEPT
                ![x].step = "staging",
                ![x].release = StagedRelease(x, ReadFragments(files), current,
                                             signed, prior)]
    BY DEF Stage
<1> DEFINE fragments == ReadFragments(files)
           r == StagedRelease(x, fragments, current, signed, prior)
<1>3. prep[x].step = "reread"
    BY DEF Stage
<1>4. prep[x] \in Prep
    BY <1>1 DEF TypeOK
<1>5. prep'[x].release = r /\ prep'[x].payload = prep[x].payload
    BY <1>1, <1>2, <1>4 DEF TypeOK, Prep
<1>6. prep[x].payload \in Payload
    BY <1>1, <1>3 DEF TypeOK, Request
<1>7. \A i \in DOMAIN fragments : GenuineFragment(fragments[i], reviewed)
    BY <1>1, <1>2, <1>3, StagedType DEF FragmentsGenuine
<1> HIDE DEF fragments
<1>8. TwoReviewed(prep[x].payload, reviewed)
    <2>1. FragmentsVerify(fragments, prep[x].request, prep[x].payload, current)
        BY <1>2 DEF CanAssemble, fragments
    <2>2. QED BY <1>7, <2>1, ThresholdIsReviewed
<1>9. r.manifest = SignedEnvelope(prep[x].payload, Signatures(fragments))
    BY DEF StagedRelease
<1>10. ManifestPayload(r.manifest) = prep[x].payload
    BY <1>6, <1>9, EnvelopePayload
<1>11. AcceptedByCurrent(r) /\ AcceptedByNext(r)
    <2>1. CanAssemble(fragments, prep[x].request, prep[x].payload, current,
                      signed, prior, now)
        BY <1>2 DEF fragments
    <2>2. r.root = signed /\ r.current = current /\ r.prior = prior
        BY DEF StagedRelease
    <2>3. PolicyAdmits(prep[x].payload)
        BY <1>1, <1>3 DEF TypeOK
    <2> HIDE DEF r
    <2>4. QED BY <1>6, <1>9, <2>1, <2>2, <2>3, StagedIsAccepted
<1>12. OnlyVerifiedObjects(r)
    BY DEF OnlyVerifiedObjects, StagedRelease, NoObjects
<1> HIDE DEF r
<1>13. SoundRelease(r, reviewed)
    BY <1>8, <1>10, <1>11, <1>12 DEF SoundRelease
<1>14. QED BY <1>5, <1>10, <1>13 DEF fragments, r

LEMMA CopySound ==
    ASSUME AssemblyInv, NEW x \in Operator, CopyObject(x)
    PROVE  /\ SoundRelease(prep'[x].release, reviewed)
           /\ ManifestPayload(prep'[x].release.manifest) = prep'[x].payload
<1>1. /\ x \in Reader /\ TypeOK
      /\ SoundRelease(prep[x].release, reviewed)
      /\ ManifestPayload(prep[x].release.manifest) = prep[x].payload
      /\ prep[x].step = "staging"
    BY InvParts DEF Reader, CopyObject, StagedSound
<1>2. PICK o \in ArtifactSet(prep[x].payload) :
          /\ candidate.objects[o] = "intact"
          /\ prep' = [prep EXCEPT ![x].release.objects[o] = candidate.objects[o]]
    BY DEF CopyObject
<1> DEFINE old == prep[x].release
           new == [old EXCEPT !.objects[o] = "intact"]
<1>3. /\ prep[x] \in Prep
      /\ prep[x].release # NoFile
    BY <1>1 DEF TypeOK
<1>4. old \in Assembled
    BY <1>3 DEF Prep
<1>5. /\ prep'[x].release = new
      /\ prep'[x].payload = prep[x].payload
    BY <1>1, <1>2, <1>3 DEF TypeOK, Prep
<1>6. /\ new.manifest = old.manifest /\ new.root = old.root
      /\ new.current = old.current /\ new.prior = old.prior
      /\ \A q \in Object :
            new.objects[q] = IF q = o THEN "intact" ELSE old.objects[q]
    BY <1>4 DEF Assembled
<1>7. o \in ArtifactSet(old.manifest)
    <2>1. old.manifest.artifacts = prep[x].payload.artifacts
        BY <1>1 DEF ManifestPayload
    <2>2. QED BY <2>1 DEF ArtifactSet
<1> HIDE DEF new
<1>8. OnlyVerifiedObjects(new)
    BY <1>1, <1>6, <1>7 DEF SoundRelease, OnlyVerifiedObjects
<1>9. AcceptedByCurrent(new) /\ AcceptedByNext(new)
    BY <1>1, <1>6 DEF SoundRelease, AcceptedByCurrent, AcceptedByNext
<1>10. QED BY <1>1, <1>5, <1>6, <1>8, <1>9 DEF SoundRelease

\* A release in staging was there before, or is staged or added to now.
LEMMA StagingMoves ==
    ASSUME TypeOK, [Next]_vars, NEW y \in Reader, prep'[y].step = "staging"
    PROVE  \/ prep'[y] = prep[y]
           \/ y \in Operator /\ (Stage(y) \/ CopyObject(y))
<1>1. CASE UNCHANGED prep
    BY <1>1
<1>2. ASSUME NEW x \in Reader,
             ReadPayload(x) \/ ReadRequest(x) \/ CheckObjects(x) \/ Abort(x)
      PROVE  prep'[y] = prep[y]
    BY <1>2 DEF ReadPayload, ReadRequest, CheckObjects, Abort, Idle, TypeOK, Prep
<1>3. ASSUME NEW x \in Holder, Inspect(x) \/ Sign(x)
      PROVE  prep'[y] = prep[y]
    BY <1>3 DEF Inspect, Sign, Idle, TypeOK, Prep, Reader
<1>4. ASSUME NEW x \in Operator, RereadPayload(x) \/ Publish(x)
      PROVE  prep'[y] = prep[y]
    BY <1>4 DEF RereadPayload, Publish, Idle, TypeOK, Prep, Reader
<1>5. ASSUME NEW x \in Operator, Stage(x)
      PROVE  prep'[y] = prep[y] \/ y = x
    BY <1>5 DEF Stage, TypeOK
<1>6. ASSUME NEW x \in Operator, CopyObject(x)
      PROVE  prep'[y] = prep[y] \/ y = x
    BY <1>6 DEF CopyObject, TypeOK
<1>7. UNCHANGED vars \/ Rebuild \/ ReplaceFile => UNCHANGED prep
    BY DEF vars, Rebuild, ReplaceFile, Changed
<1>8. QED BY <1>1, <1>2, <1>3, <1>4, <1>5, <1>6, <1>7 DEF Next

LEMMA StagedStep ==
    ASSUME AssemblyInv, [Next]_vars
    PROVE  (\A x \in Reader : StagedSound(prep[x]))'
<1>1. TypeOK /\ Grows
    BY InvParts, GrowStep
<1>2. SUFFICES ASSUME NEW y \in Reader, prep'[y].step = "staging"
               PROVE  /\ SoundRelease(prep'[y].release, reviewed')
                      /\ ManifestPayload(prep'[y].release.manifest) = prep'[y].payload
    BY DEF StagedSound
<1>3. CASE prep'[y] = prep[y]
    BY <1>1, <1>2, <1>3, StagedStays
<1>4. CASE y \in Operator /\ (Stage(y) \/ CopyObject(y))
    BY <1>1, <1>4, StageSound, CopySound, SoundStays
<1>5. QED BY <1>1, <1>2, <1>3, <1>4, StagingMoves

LEMMA OutputMoves ==
    ASSUME TypeOK, [Next]_vars, NEW d \in OutputDir
    PROVE  \/ output'[d] = output[d]
           \/ \E x \in Operator : Publish(x) /\ output'[d] = prep[x].release
<1>1. UNCHANGED output \/ \E x \in Operator : Publish(x)
    BY DEF Next, vars, Rebuild, ReplaceFile, Changed, ReadPayload, ReadRequest,
           CheckObjects, Abort, Inspect, Sign, RereadPayload, Stage, CopyObject
<1>2. ASSUME NEW x \in Operator, Publish(x)
      PROVE  output'[d] = output[d] \/ output'[d] = prep[x].release
    BY <1>2 DEF Publish, TypeOK
<1>3. QED BY <1>1, <1>2

LEMMA OutputStep ==
    ASSUME AssemblyInv, [Next]_vars
    PROVE  \A d \in OutputDir :
               output'[d] # NoFile =>
                   /\ SoundRelease(output'[d], reviewed')
                   /\ \A o \in ArtifactSet(output'[d].manifest) :
                         output'[d].objects[o] # "absent"
<1>1. TypeOK /\ Grows
    BY InvParts, GrowStep
<1>2. SUFFICES ASSUME NEW d \in OutputDir, output'[d] # NoFile
               PROVE  /\ SoundRelease(output'[d], reviewed')
                      /\ \A o \in ArtifactSet(output'[d].manifest) :
                            output'[d].objects[o] # "absent"
    OBVIOUS
<1>3. CASE output'[d] = output[d]
    <2>1. Finished(output[d])
        BY <1>2, <1>3, InvParts
    <2>2. QED BY <1>1, <1>3, <2>1, SoundStays DEF Finished
<1>4. ASSUME NEW x \in Operator, Publish(x), output'[d] = prep[x].release
      PROVE  /\ SoundRelease(output'[d], reviewed')
             /\ \A o \in ArtifactSet(output'[d].manifest) :
                   output'[d].objects[o] # "absent"
    <2>1. StagedSound(prep[x]) /\ prep[x].step = "staging"
        BY <1>4, InvParts DEF Publish, Reader
    <2>2. ArtifactSet(prep[x].release.manifest) = ArtifactSet(prep[x].payload)
        BY <2>1 DEF StagedSound, ManifestPayload, ArtifactSet
    <2>3. \A o \in ArtifactSet(prep[x].payload) :
              prep[x].release.objects[o] # "absent"
        BY <1>4 DEF Publish
    <2>4. QED BY <1>1, <1>4, <2>1, <2>2, <2>3, SoundStays DEF StagedSound
<1>5. QED BY <1>1, <1>3, <1>4, OutputMoves

LEMMA AssemblyInit ==
    ASSUME Init
    PROVE  AssemblyInv
<1>1. TypeOK
    BY TypeByReader, IdleType, CandidateType, ChangeAssumption DEF Init
<1>2. FragmentsGenuine /\ \A x \in Reader : StagedSound(prep[x])
    BY DEF Init, FragmentsGenuine, StagedSound, Idle
<1>3. \A d \in OutputDir : output[d] = NoFile
    BY DEF Init
<1>4. QED BY <1>1, <1>2, <1>3, InvParts

LEMMA AssemblyStep ==
    ASSUME AssemblyInv, [Next]_vars
    PROVE  AssemblyInv'
<1>1. TypeOK'
    BY TypeStep, InvParts
<1>2. FragmentsGenuine'
    BY FragmentStep
<1>3. (\A x \in Reader : StagedSound(prep[x]))'
    BY StagedStep
<1>4. QED
    BY <1>1, <1>2, <1>3, OutputStep
    DEF AssemblyInv, FragmentsGenuine, StagedSound, Published

\* Fragments are confirmed, staged releases are sound, and published ones are
\* sound and complete, for every number of custodians and operators.
THEOREM AssemblyInvTheorem == Spec => []AssemblyInv
<1>1. Init => AssemblyInv
    BY AssemblyInit
<1>2. AssemblyInv /\ [Next]_vars => AssemblyInv'
    BY AssemblyStep
<1>3. QED BY <1>1, <1>2, PTL DEF Spec

\* Type correctness of the candidate, the programs and their files.
THEOREM AssemblyTypeTheorem == Spec => []TypeOK
<1>1. AssemblyInv => TypeOK
    BY DEF AssemblyInv
<1>2. QED BY <1>1, AssemblyInvTheorem, PTL

\* Every assembled release was inspected by two custodians, whatever happened
\* to the candidate directory and however many fragments and runs there were.
THEOREM ThresholdTheorem == Spec => []ThresholdReviewed
<1>1. AssemblyInv => ThresholdReviewed
    BY DEF AssemblyInv, SoundRelease, TwoReviewed, ThresholdReviewed
<1>2. QED BY <1>1, AssemblyInvTheorem, PTL

\* Every assembled release has exactly the verified objects of its manifest.
THEOREM CompleteTheorem == Spec => []AssembledComplete
<1>1. AssemblyInv => AssembledComplete
    BY DEF AssemblyInv, SoundRelease, OnlyVerifiedObjects, AssembledComplete
<1>2. QED BY <1>1, AssemblyInvTheorem, PTL

\* What the assembler accepted against a root and a list of revocations, the
\* release verifier accepts as their successor.
THEOREM ForwardTheorem == Spec => []AssembledForward
<1>1. ASSUME AssemblyInv PROVE AssembledForward
    <2>1. SUFFICES ASSUME NEW x \in Published, NEW m \in SignedManifest,
                          NEW r \in SignedRoot,
                          RootPayload(r) = x.current \/ r = x.root,
                          m.version < x.manifest.version,
                          m.revocations = x.prior
                   PROVE  VerifyForwardOnly(Pointers(m, r),
                                            Pointers(x.manifest, x.root))
        BY DEF AssembledForward
    <2>2. AcceptedByCurrent(x)
        BY <1>1 DEF AssemblyInv, SoundRelease
    <2>3. /\ Pointers(m, r)[LiveManifest] = m
          /\ Pointers(m, r)[LiveRoot] = r
          /\ Pointers(x.manifest, x.root)[LiveManifest] = x.manifest
          /\ Pointers(x.manifest, x.root)[LiveRoot] = x.root
        BY DEF Pointers, LiveManifest, LiveRoot
    <2>4. /\ m.version \in Nat /\ r.version \in Nat
          /\ x.manifest.version \in Nat /\ x.root.version \in Nat
        <3>1. x \in Assembled
            BY <1>1 DEF AssemblyInv, TypeOK, Published
        <3>2. QED BY <3>1, ManifestAssumption, RootAssumption DEF Assembled, Envelope
    <2>5. VersionForward(m, x.manifest)
        BY <2>1, <2>4 DEF VersionForward
    <2>6. CASE r = x.root
        BY <2>1, <2>2, <2>3, <2>5, <2>6
        DEF VerifyForwardOnly, VersionForward, AcceptedByCurrent
    <2>7. CASE RootPayload(r) = x.current
        <3>1. /\ r.version = x.current.version /\ r.threshold = x.current.threshold
              /\ r.expires = x.current.expires /\ r.keys = x.current.keys
            BY <2>7 DEF RootPayload
        <3>2. /\ VerifySignedBytes(x.root.signatures, r)
              /\ VerifySignedBytes(x.manifest.signatures, r)
            BY <2>2, <2>7, EnvelopeRoot DEF AcceptedByCurrent
        <3>3. VersionForward(r, x.root)
            BY <2>2, <2>4, <3>1 DEF AcceptedByCurrent, VersionForward
        <3>4. QED
            BY <2>1, <2>2, <2>3, <2>5, <3>2, <3>3
            DEF VerifyForwardOnly, AcceptedByCurrent
    <2>8. QED BY <2>1, <2>6, <2>7
<1>2. QED BY <1>1, AssemblyInvTheorem, PTL

\* Every assembled release whose artifacts differ is one that loadRelease takes.
THEOREM LoadsTheorem == Spec => []AssembledLoads
<1>1. ASSUME AssemblyInv PROVE AssembledLoads
    <2>1. SUFFICES ASSUME NEW x \in Published, NoRepeat(x.manifest.artifacts)
                   PROVE  LoadRelease([manifest |-> x.manifest, root |-> x.root])
        BY DEF AssembledLoads
    <2>2. AcceptedByNext(x)
        BY <1>1 DEF AssemblyInv, SoundRelease
    <2>3. x.root.version # 0
        BY <2>2 DEF AcceptedByNext, VerifySignedBytes, ValidateRoot
    <2>4. QED BY <2>1, <2>2, <2>3 DEF AcceptedByNext, LoadRelease
<1>2. QED BY <1>1, AssemblyInvTheorem, PTL

(***************************************************************************)
(* The programs carry out the ceremony.                                    *)
(***************************************************************************)

\* Fragments that are there stay.
FilesStay ==
    \A p \in FragmentPath :
        fragmentFile[p] # NoFile => fragmentFile'[p] = fragmentFile[p]

LEMMA FragmentFileStep ==
    ASSUME TypeOK, [Next]_vars
    PROVE  \/ UNCHANGED fragmentFile
           \/ \E h \in Holder, p \in FragmentPath :
                 /\ FragmentOf(h) \in Fragment
                 /\ prep[h].payload = prep[h].request.payload
                 /\ prep[h].request \in reviewed[h]
                 /\ fragmentFile[p] = NoFile
                 /\ fragmentFile' = [fragmentFile EXCEPT ![p] = FragmentOf(h)]
                 /\ UNCHANGED reviewed
<1>1. \/ UNCHANGED fragmentFile
      \/ \E h \in Holder : Sign(h)
    BY DEF Next, vars, Rebuild, ReplaceFile, Changed, ReadPayload, ReadRequest,
           CheckObjects, Abort, Inspect, RereadPayload, Stage, CopyObject, Publish
<1>2. ASSUME NEW h \in Holder, Sign(h)
      PROVE  /\ prep[h].payload = prep[h].request.payload
             /\ FragmentOf(h) \in Fragment
    <2>1. /\ prep[h].payload = prep[h].request.payload
          /\ prep[h].request \in Request
        BY <1>2 DEF Sign, TypeOK, Reader
    <2>2. prep[h].payload \in Payload
        BY <2>1 DEF Request
    <2>3. HolderKey[h] \in Signature
        BY HolderAssumption
    <2>4. QED BY <2>1, <2>2, <2>3 DEF FragmentOf, Fragment, Signature
<1>3. QED BY <1>1, <1>2 DEF Sign

LEMMA FilesStayStep ==
    ASSUME TypeOK, [Next]_vars
    PROVE  FilesStay
BY FragmentFileStep DEF FilesStay, TypeOK

LEMMA ReviewStep ==
    ASSUME TypeOK, [Next]_vars
    PROVE  \/ UNCHANGED reviewed
           \/ \E h \in Holder :
                 /\ prep[h].request \in Request
                 /\ reviewed' = [reviewed EXCEPT ![h] = @ \cup {prep[h].request}]
                 /\ UNCHANGED fragmentFile
<1>1. \/ UNCHANGED reviewed
      \/ \E h \in Holder : Inspect(h)
    BY DEF Next, vars, Rebuild, ReplaceFile, Changed, ReadPayload, ReadRequest,
           CheckObjects, Abort, Sign, RereadPayload, Stage, CopyObject, Publish
<1>2. ASSUME NEW h \in Holder, Inspect(h)
      PROVE  prep[h].request \in Request
    BY <1>2 DEF Inspect, TypeOK, Reader
<1>3. QED BY <1>1, <1>2 DEF Inspect

\* A fragment file that is written adds its payload to what its holder's key
\* has signed, and nothing to what any other key has.
LEMMA SignedGrows ==
    ASSUME TypeOK, NEW h \in Holder, NEW p \in FragmentPath,
           FragmentOf(h) \in Fragment,
           fragmentFile[p] = NoFile,
           fragmentFile' = [fragmentFile EXCEPT ![p] = FragmentOf(h)]
    PROVE  SignedPayloads' =
               [SignedPayloads EXCEPT ![h] = @ \cup {prep[h].payload}]
<1>1. /\ fragmentFile'[p] = FragmentOf(h)
      /\ \A q \in FragmentPath : q # p => fragmentFile'[q] = fragmentFile[q]
    BY DEF TypeOK
<1>2. /\ FragmentOf(h).by = HolderKey[h].by
      /\ FragmentOf(h).over = prep[h].payload
    BY DEF FragmentOf
<1>3. FragmentOf(h) # NoFile
    BY AbsentAssumption
<1>4. \A g \in Holder : HolderKey[g].by = HolderKey[h].by => g = h
    BY HolderAssumption
<1>5. ASSUME NEW g \in Holder
      PROVE  FragmentsBy(g)' =
                 IF g = h THEN FragmentsBy(g) \cup {p} ELSE FragmentsBy(g)
    BY <1>1, <1>2, <1>3, <1>4 DEF FragmentsBy
<1>6. ASSUME NEW g \in Holder
      PROVE  SignedPayloads'[g] =
                 IF g = h THEN SignedPayloads[g] \cup {prep[h].payload}
                          ELSE SignedPayloads[g]
    <2>1. \A q \in FragmentsBy(g) : q \in FragmentPath /\ q # p
        BY DEF FragmentsBy
    <2>2. \A q \in FragmentsBy(g) : fragmentFile'[q].over = fragmentFile[q].over
        BY <1>1, <2>1
    <2>3. SignedPayloads'[g] = {fragmentFile'[q].over : q \in FragmentsBy(g)'}
        BY DEF SignedPayloads
    <2>4. SignedPayloads[g] = {fragmentFile[q].over : q \in FragmentsBy(g)}
        BY DEF SignedPayloads
    <2>5. QED BY <1>1, <1>2, <1>5, <2>2, <2>3, <2>4
<1>7. SignedPayloads' = [g \in Holder |-> SignedPayloads'[g]]
    BY DEF SignedPayloads
<1>8. SignedPayloads = [g \in Holder |-> SignedPayloads[g]]
    BY DEF SignedPayloads
<1> DEFINE after == [SignedPayloads EXCEPT ![h] = @ \cup {prep[h].payload}]
<1>9. after = [g \in Holder |-> SignedPayloads'[g]]
    BY <1>6, <1>8
<1>10. QED BY <1>7, <1>9

LEMMA InspectionConfirms ==
    ASSUME TypeOK, NEW h \in Holder, NEW rq \in Request,
           reviewed' = [reviewed EXCEPT ![h] = @ \cup {rq}]
    PROVE  Confirmed' = [Confirmed EXCEPT ![h] = @ \cup {rq.payload}]
<1>1. \A g \in Holder :
          {q.payload : q \in reviewed'[g]} =
              IF g = h THEN {q.payload : q \in reviewed[g]} \cup {rq.payload}
                       ELSE {q.payload : q \in reviewed[g]}
    BY DEF TypeOK
<1>2. QED BY <1>1 DEF Confirmed

\* A step of the programs is a step of the ceremony, or none.
LEMMA CeremonyStep ==
    ASSUME AssemblyInv, [Next]_vars
    PROVE  [Custody!Next]_<<Confirmed, SignedPayloads>>
<1>1. TypeOK
    BY InvParts
<1>2. CASE UNCHANGED <<reviewed, fragmentFile>>
    BY <1>2 DEF Confirmed, SignedPayloads, FragmentsBy
<1>3. ASSUME NEW h \in Holder, prep[h].request \in Request,
             reviewed' = [reviewed EXCEPT ![h] = @ \cup {prep[h].request}],
             UNCHANGED fragmentFile
      PROVE  Custody!Confirm(h)
    <2>1. Confirmed' = [Confirmed EXCEPT ![h] = @ \cup {prep[h].request.payload}]
        BY <1>1, <1>3, InspectionConfirms
    <2>2. UNCHANGED SignedPayloads
        BY <1>3 DEF SignedPayloads, FragmentsBy
    <2>3. prep[h].request.payload \in Payload
        BY <1>3 DEF Request
    <2>4. QED BY <2>1, <2>2, <2>3 DEF Custody!Confirm
<1>4. ASSUME NEW h \in Holder, NEW p \in FragmentPath,
             FragmentOf(h) \in Fragment,
             prep[h].payload = prep[h].request.payload,
             prep[h].request \in reviewed[h],
             fragmentFile[p] = NoFile,
             fragmentFile' = [fragmentFile EXCEPT ![p] = FragmentOf(h)],
             UNCHANGED reviewed
      PROVE  Custody!Sign(h)
    <2>1. SignedPayloads' = [SignedPayloads EXCEPT ![h] = @ \cup {prep[h].payload}]
        BY <1>1, <1>4, SignedGrows
    <2>2. prep[h].payload \in Confirmed[h]
        BY <1>4 DEF Confirmed
    <2>3. UNCHANGED Confirmed
        BY <1>4 DEF Confirmed
    <2>4. QED BY <2>1, <2>2, <2>3 DEF Custody!Sign
<1>5. QED
    BY <1>1, <1>2, <1>3, <1>4, FragmentFileStep, ReviewStep DEF Custody!Next

LEMMA CeremonyInit ==
    ASSUME Init
    PROVE  Custody!Init
<1>1. \A h \in Holder : {rq.payload : rq \in reviewed[h]} = {}
    BY DEF Init
<1>2. \A h \in Holder : FragmentsBy(h) = {}
    BY DEF Init, FragmentsBy
<1>3. QED BY <1>1, <1>2 DEF Confirmed, SignedPayloads, Custody!Init

\* Inspection, confirmed digest and signature carry out the ceremony, for every
\* number of custodians, candidates and changes: each key signs only what its
\* holder confirmed.
THEOREM CeremonyTheorem == Spec => CeremonyPromise
<1>1. Init => Custody!Init
    BY CeremonyInit
<1>2. AssemblyInv /\ [Next]_vars => [Custody!Next]_<<Confirmed, SignedPayloads>>
    BY CeremonyStep
<1>3. QED
    BY <1>1, <1>2, AssemblyInvTheorem, PTL DEF Spec, CeremonyPromise, Custody!Spec

(***************************************************************************)
(* Assembly makes no signature.                                            *)
(***************************************************************************)
LEMMA OnlySignedStays ==
    ASSUME FilesStay, NEW x, OnlySigned(x, SignedPayloads)
    PROVE  OnlySigned(x, SignedPayloads')
<1>1. ASSUME NEW h \in Holder
      PROVE  SignedPayloads[h] \subseteq SignedPayloads'[h]
    <2>1. \A p \in FragmentsBy(h) :
              /\ p \in FragmentsBy(h)'
              /\ fragmentFile'[p].over = fragmentFile[p].over
        BY DEF FilesStay, FragmentsBy
    <2>2. /\ SignedPayloads[h] = {fragmentFile[p].over : p \in FragmentsBy(h)}
          /\ SignedPayloads'[h] = {fragmentFile'[p].over : p \in FragmentsBy(h)'}
        BY DEF SignedPayloads
    <2>3. QED BY <2>1, <2>2
<1>2. QED BY <1>1 DEF OnlySigned

StagedUnforged(e) == e.step = "staging" => OnlySigned(e.release, SignedPayloads)

LEMMA UnforgedParts ==
    UnforgedInv <=> /\ AssemblyInv
                    /\ \A x \in Reader : StagedUnforged(prep[x])
                    /\ \A d \in OutputDir :
                          output[d] # NoFile => OnlySigned(output[d], SignedPayloads)
BY DEF UnforgedInv, AssembledUnforged, StagedUnforged, Published

LEMMA StageUnforged ==
    ASSUME AssemblyInv, NEW x \in Operator, Stage(x)
    PROVE  OnlySigned(prep'[x].release, SignedPayloads)
<1>1. x \in Reader /\ TypeOK /\ prep[x].step = "reread"
    BY InvParts DEF Reader, Stage
<1>2. PICK files \in FragmentFiles, current \in TrustRoot, signed \in SignedRoot,
           prior \in PriorRevocations, now \in Now :
          /\ \A i \in DOMAIN files : fragmentFile[files[i]] # NoFile
          /\ CanAssemble(ReadFragments(files), prep[x].request, prep[x].payload,
                         current, signed, prior, now)
          /\ prep' = [prep EXCEPT
                ![x].step = "staging",
                ![x].release = StagedRelease(x, ReadFragments(files), current,
                                             signed, prior)]
    BY DEF Stage
<1> DEFINE fragments == ReadFragments(files)
           r == StagedRelease(x, fragments, current, signed, prior)
<1>3. prep'[x].release = r
    <2>1. prep[x] \in Prep
        BY <1>1 DEF TypeOK
    <2>2. QED BY <1>1, <1>2, <2>1 DEF TypeOK, Prep
<1>4. \A i \in DOMAIN fragments :
          \E p \in FragmentPath :
              /\ fragmentFile[p] # NoFile
              /\ fragments[i] = fragmentFile[p]
    BY <1>1, <1>2, StagedType
<1>5. \A i \in DOMAIN fragments : fragments[i].over = prep[x].payload
    BY <1>2 DEF CanAssemble, FragmentsVerify
<1> HIDE DEF fragments
<1>6. /\ r.manifest.signatures = Signatures(fragments)
      /\ ManifestPayload(r.manifest) = prep[x].payload
    <2>1. prep[x].payload \in Payload
        BY <1>1 DEF TypeOK, Request
    <2>2. r.manifest = SignedEnvelope(prep[x].payload, Signatures(fragments))
        BY DEF StagedRelease
    <2>3. QED BY <2>1, <2>2, EnvelopePayload DEF SignedEnvelope
<1> HIDE DEF r
<1>7. SUFFICES ASSUME NEW i \in DOMAIN r.manifest.signatures, NEW h \in Holder,
                      r.manifest.signatures[i].by = HolderKey[h].by
               PROVE  prep[x].payload \in SignedPayloads[h]
    BY <1>3, <1>6 DEF OnlySigned
<1>8. i \in DOMAIN fragments /\ fragments[i].by = HolderKey[h].by
    BY <1>6, <1>7 DEF Signatures
<1>9. PICK p \in FragmentPath :
          fragmentFile[p] # NoFile /\ fragments[i] = fragmentFile[p]
    BY <1>4, <1>8
<1>10. p \in FragmentsBy(h) /\ fragmentFile[p].over = prep[x].payload
    BY <1>5, <1>8, <1>9 DEF FragmentsBy
<1>11. QED BY <1>10 DEF SignedPayloads

\* Copying an object leaves the manifest in staging alone.
LEMMA CopyUnforged ==
    ASSUME UnforgedInv, NEW x \in Operator, CopyObject(x)
    PROVE  OnlySigned(prep'[x].release, SignedPayloads)
<1>1. /\ x \in Reader /\ TypeOK /\ prep[x].step = "staging"
      /\ StagedUnforged(prep[x])
    BY UnforgedParts, InvParts DEF Reader, CopyObject
<1>2. PICK o \in ArtifactSet(prep[x].payload) :
          prep' = [prep EXCEPT ![x].release.objects[o] = candidate.objects[o]]
    BY DEF CopyObject
<1>3. prep[x] \in Prep /\ prep[x].release \in Assembled
    BY <1>1 DEF TypeOK, Prep
<1>4. prep'[x].release.manifest = prep[x].release.manifest
    BY <1>1, <1>2, <1>3 DEF TypeOK, Prep, Assembled
<1>5. QED BY <1>1, <1>4 DEF StagedUnforged, OnlySigned

LEMMA UnforgedStep ==
    ASSUME UnforgedInv, [Next]_vars
    PROVE  UnforgedInv'
<1>1. TypeOK /\ AssemblyInv /\ AssemblyInv' /\ FilesStay
    BY UnforgedParts, InvParts, AssemblyStep, FilesStayStep
<1>2. ASSUME NEW y \in Reader, prep'[y].step = "staging"
      PROVE  OnlySigned(prep'[y].release, SignedPayloads')
    <2>1. CASE prep'[y] = prep[y]
        <3>1. StagedUnforged(prep[y])
            BY UnforgedParts
        <3>2. QED BY <1>1, <1>2, <2>1, <3>1, OnlySignedStays DEF StagedUnforged
    <2>2. CASE y \in Operator /\ (Stage(y) \/ CopyObject(y))
        BY <1>1, <2>2, StageUnforged, CopyUnforged, OnlySignedStays
    <2>3. QED BY <1>1, <1>2, <2>1, <2>2, StagingMoves
<1>3. ASSUME NEW d \in OutputDir, output'[d] # NoFile
      PROVE  OnlySigned(output'[d], SignedPayloads')
    <2>1. CASE output'[d] = output[d]
        BY <1>1, <1>3, <2>1, UnforgedParts, OnlySignedStays
    <2>2. ASSUME NEW x \in Operator, Publish(x), output'[d] = prep[x].release
          PROVE  OnlySigned(output'[d], SignedPayloads')
        <3>1. StagedUnforged(prep[x]) /\ prep[x].step = "staging"
            BY <2>2, UnforgedParts DEF Publish, Reader
        <3>2. QED BY <1>1, <2>2, <3>1, OnlySignedStays DEF StagedUnforged
    <2>3. QED BY <1>1, <2>1, <2>2, OutputMoves
<1>4. QED BY <1>1, <1>2, <1>3 DEF UnforgedInv, AssembledUnforged, Published

\* In every assembled release, a signature by the key of a holder is over a
\* payload that this key has signed.
THEOREM UnforgedTheorem == Spec => []AssembledUnforged
<1>1. Init => UnforgedInv
    <2>1. ASSUME Init
          PROVE  /\ \A x \in Reader : StagedUnforged(prep[x])
                 /\ \A d \in OutputDir : output[d] = NoFile
        BY <2>1 DEF Init, StagedUnforged, Idle
    <2>2. QED BY <2>1, AssemblyInit, UnforgedParts
<1>2. UnforgedInv /\ [Next]_vars => UnforgedInv'
    BY UnforgedStep
<1>3. UnforgedInv => AssembledUnforged
    BY DEF UnforgedInv
<1>4. QED BY <1>1, <1>2, <1>3, PTL DEF Spec
=============================================================================
