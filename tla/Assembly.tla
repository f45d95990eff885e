-------------------------------- MODULE Assembly --------------------------------
(***************************************************************************)
(* From a candidate to an assembled release, for one source.  Key holders  *)
(* inspect the candidate directory, confirm its request digest and sign;   *)
(* an operator assembles a release from the directory, fragments and a     *)
(* bridge between two roots.  Every program reads the directory file by    *)
(* file, some files twice, and nothing keeps it from being rebuilt or      *)
(* damaged between two reads: the checks must hold up on their own.        *)
(***************************************************************************)
EXTENDS ReleaseTree

CONSTANTS
    Id,            \* the source, and the name of the candidate directory
    Holder,        \* custodians, one offline key each
    HolderKey,     \* per holder the ID and the material of that key
    Operator,      \* runs of catalog-assembler at a time
    Cohort,        \* what a signing request holds beyond the manifest
    FragmentPath,  \* names of fragment files
    OutputDir,     \* names of release directories
    Now,           \* reviewed times
    Window,        \* bridgeCompatibilityWindow
    MaxChanges     \* bound: changes of the candidate after its first build

ASSUME IdAssumption == Id \in Source
ASSUME HolderAssumption ==
    /\ HolderKey \in [Holder -> Signature]
    /\ Holder \cap Operator = {}
    /\ \A g, h \in Holder : HolderKey[g].by = HolderKey[h].by => g = h
ASSUME TimeAssumption == Now \subseteq Nat /\ Window \in Nat
ASSUME PathAssumption == FragmentPath \subseteq Nat
ASSUME ChangeAssumption == MaxChanges \in Nat

Reader == Holder \cup Operator

Payload   == {ManifestPayload(m) : m \in SignedManifest}
TrustRoot == {RootPayload(r) : r \in SignedRoot}

\* A signing request binds a payload by digest; its own digest stands for it.
Request  == [payload : Payload, cohort : Cohort]
Fragment == [request : Request, key : KeyId, by : Material, over : Payload]

ArtifactSet(payload) ==
    {payload.artifacts[i] : i \in DOMAIN payload.artifacts}

\* An object file of the directory is missing, right, or anything else.
ObjectState == {"absent", "intact", "damaged"}
Candidate ==
    [payload : Payload \cup OtherBytes, request : Request \cup OtherBytes,
     objects : [Object -> ObjectState]]

\* BuildCandidate: the three parts are made from one source document.
BuildCandidate(request) ==
    [payload |-> request.payload,
     request |-> request,
     objects |-> [o \in Object |-> IF o \in ArtifactSet(request.payload)
                                   THEN "intact" ELSE "absent"]]

-----------------------------------------------------------------------------
(***************************************************************************)
(* inspectCandidate.                                                       *)
(***************************************************************************)

\* The part of policy.Validate the later programs rely on.
PolicyAdmits(payload) ==
    /\ payload.version # 0
    /\ payload.artifacts # <<>>
    /\ UniqueRevocationIds(payload.revocations)

\* Mutant: the request is not compared with the payload.
MutValidateRequest(payload, request) ==
    /\ payload \in Payload
    /\ request \in Request
    /\ request.payload.source = Id
    /\ PolicyAdmits(payload)

ValidateRequest(payload, request) ==
    /\ payload \in Payload
    /\ request \in Request
    /\ request.payload.source = Id
    /\ request.payload = payload
    /\ PolicyAdmits(payload)

\* validateCandidateTree and validateObjects: the files the request names,
\* no others, with the right bytes.
ValidateObjects(objects, request) ==
    objects = BuildCandidate(request).objects

(***************************************************************************)
(* The bridge between two roots (AssembleSignedRoot, verifyBridgeFragments *)
(* and verifySignedRoot, which repeats them on the published root).  A     *)
(* signature under a key of one root only does not count for the other:    *)
(* the fragments a root lists are judged by VerifySignedBytes.             *)
(***************************************************************************)
SharedKeys(current, next) ==
    {k \in DOMAIN current.keys \cap DOMAIN next.keys :
        current.keys[k] = next.keys[k]}

BridgeAllowed(current, next, now) ==
    /\ ValidateRoot(current)
    /\ ValidateRoot(next)
    /\ next.version > current.version
    /\ current.expires >= now + Window
    /\ next.expires >= now + Window
    /\ Cardinality(SharedKeys(current, next)) >= current.threshold
    /\ Cardinality(SharedKeys(current, next)) >= next.threshold

VerifyBridgeFragments(sigs, current, next) ==
    /\ DOMAIN current.keys \cap DOMAIN next.keys = SharedKeys(current, next)
    /\ \A i \in DOMAIN sigs : Trusted(sigs[i], current) \/ Trusted(sigs[i], next)
    /\ VerifySignedBytes(sigs, current)
    /\ VerifySignedBytes(sigs, next)

VerifySignedRoot(current, signed, now) ==
    /\ BridgeAllowed(current, RootPayload(signed), now)
    /\ VerifyBridgeFragments(signed.signatures, current, RootPayload(signed))

(***************************************************************************)
(* Assembly of a manifest envelope from fragments.                         *)
(***************************************************************************)

\* The files an operator names, in the order the assembler sorts them into.
FragmentFiles ==
    UNION {{f \in [1..n -> FragmentPath] : \A i, j \in 1..n : i < j => f[i] < f[j]} :
               n \in 0..Cardinality(FragmentPath)}

Signatures(fragments) ==
    [i \in DOMAIN fragments |-> [key |-> fragments[i].key, by |-> fragments[i].by]]

\* Mutant: a fragment is not bound to the request and the payload at hand.
MutFragmentsVerify(fragments, request, payload, root) ==
    VerifyThreshold(Signatures(fragments), root)

\* VerifyThreshold with its request digest and its payload.
FragmentsVerify(fragments, request, payload, root) ==
    /\ \A i \in DOMAIN fragments :
          fragments[i].request = request /\ fragments[i].over = payload
    /\ VerifyThreshold(Signatures(fragments), root)

SignedEnvelope(payload, sigs) ==
    [source |-> payload.source, version |-> payload.version,
     artifacts |-> payload.artifacts, revocations |-> payload.revocations,
     signatures |-> sigs]

\* Mutant: the manifest is not verified under the current root.
MutCanAssemble(fragments, request, payload, current, signed, prior, now) ==
    /\ VerifyRevocationsForward(prior, payload.revocations)
    /\ VerifySignedRoot(current, signed, now)
    /\ FragmentsVerify(fragments, request, payload, RootPayload(signed))

\* Mutant: the manifest is not verified under the published root.
MutNextRoot(fragments, request, payload, current, signed, prior, now) ==
    /\ VerifyRevocationsForward(prior, payload.revocations)
    /\ VerifySignedRoot(current, signed, now)
    /\ FragmentsVerify(fragments, request, payload, current)

\* The checks of Assemble on its inputs.
CanAssemble(fragments, request, payload, current, signed, prior, now) ==
    /\ VerifyRevocationsForward(prior, payload.revocations)
    /\ VerifySignedRoot(current, signed, now)
    /\ FragmentsVerify(fragments, request, payload, current)
    /\ FragmentsVerify(fragments, request, payload, RootPayload(signed))

-----------------------------------------------------------------------------
VARIABLES
    candidate,     \* the candidate directory
    prep,          \* per reader: step, what it read, the release in staging
    reviewed,      \* per holder: the requests it has inspected and confirmed
    fragmentFile,  \* per fragment path: the fragment there
    output,        \* per release directory: the release there
    changes        \* number of changes of the candidate

vars == <<candidate, prep, reviewed, fragmentFile, output, changes>>

Envelope ==
    [source : Source, version : Nat, artifacts : Seq(Object),
     revocations : Seq(Revocation), signatures : Seq(Signature)]

\* An assembled release, with (history) the inputs it was assembled from.
Assembled ==
    [manifest : Envelope, root : SignedRoot, objects : [Object -> ObjectState],
     request : Request, current : TrustRoot, prior : Seq(Revocation)]

Prep ==
    [step    : {"idle", "payload", "request", "prepared", "reread", "staging"},
     payload : Payload \cup OtherBytes \cup {NoFile},
     request : Request \cup {NoFile},
     release : Assembled \cup {NoFile}]
Idle ==
    [step |-> "idle", payload |-> NoFile, request |-> NoFile, release |-> NoFile]

\* "Nothing there" is neither of these.
ASSUME AbsentAssumption == NoFile \notin Fragment \cup Assembled

NoObjects == [o \in Object |-> "absent"]

Init ==
    /\ \E request \in Request : candidate = BuildCandidate(request)
    /\ prep = [x \in Reader |-> Idle]
    /\ reviewed = [h \in Holder |-> {}]
    /\ fragmentFile = [p \in FragmentPath |-> NoFile]
    /\ output = [d \in OutputDir |-> NoFile]
    /\ changes = 0

(***************************************************************************)
(* The candidate directory changes.                                        *)
(***************************************************************************)
Changed(new) ==
    /\ changes < MaxChanges
    /\ candidate' = new
    /\ changes' = changes + 1
    /\ UNCHANGED <<prep, reviewed, fragmentFile, output>>

\* The directory is removed and another candidate takes its place.
Rebuild ==
    \E request \in Request :
        /\ candidate # BuildCandidate(request)
        /\ Changed(BuildCandidate(request))

\* One file is replaced by another one, or damaged.
ReplaceFile ==
    \/ \E pl \in (Payload \cup OtherBytes) \ {candidate.payload} :
          Changed([candidate EXCEPT !.payload = pl])
    \/ \E rq \in (Request \cup OtherBytes) \ {candidate.request} :
          Changed([candidate EXCEPT !.request = rq])
    \/ \E o \in Object, st \in ObjectState :
          /\ candidate.objects[o] # st
          /\ Changed([candidate EXCEPT !.objects[o] = st])

(***************************************************************************)
(* Prepare, by every program: payload, request, objects.                   *)
(***************************************************************************)
ReadPayload(x) ==
    /\ prep[x].step = "idle"
    /\ prep' = [prep EXCEPT ![x].step = "payload", ![x].payload = candidate.payload]
    /\ UNCHANGED <<candidate, reviewed, fragmentFile, output, changes>>

ReadRequest(x) ==
    /\ prep[x].step = "payload"
    /\ ValidateRequest(prep[x].payload, candidate.request)
    /\ prep' = [prep EXCEPT ![x].step = "request", ![x].request = candidate.request]
    /\ UNCHANGED <<candidate, reviewed, fragmentFile, output, changes>>

CheckObjects(x) ==
    /\ prep[x].step = "request"
    /\ ValidateObjects(candidate.objects, prep[x].request)
    /\ prep' = [prep EXCEPT ![x].step = "prepared"]
    /\ UNCHANGED <<candidate, reviewed, fragmentFile, output, changes>>

\* Mutant: the staging directory is not removed.
MutAbort(x) ==
    /\ prep[x].step # "idle"
    /\ prep' = [prep EXCEPT ![x].step = "idle"]
    /\ UNCHANGED <<candidate, reviewed, fragmentFile, output, changes>>

\* An error of a check or of a call, or the death of the program: everything
\* it had in memory and in staging is gone.
Abort(x) ==
    /\ prep[x].step # "idle"
    /\ prep' = [prep EXCEPT ![x] = Idle]
    /\ UNCHANGED <<candidate, reviewed, fragmentFile, output, changes>>

(***************************************************************************)
(* catalog-signer.                                                         *)
(***************************************************************************)

\* inspect: the holder reviews the request and keeps its digest.
Inspect(h) ==
    /\ prep[h].step = "prepared"
    /\ reviewed' = [reviewed EXCEPT ![h] = @ \cup {prep[h].request}]
    /\ prep' = [prep EXCEPT ![h] = Idle]
    /\ UNCHANGED <<candidate, fragmentFile, output, changes>>

\* The fragment a holder's provider makes of what was prepared.
FragmentOf(h) ==
    [request |-> prep[h].request, key |-> HolderKey[h].key,
     by |-> HolderKey[h].by, over |-> prep[h].payload]

\* Mutant: --expect-request-digest is not compared.
MutSign(h) ==
    /\ prep[h].step = "prepared"
    /\ \E p \in FragmentPath :
          /\ fragmentFile[p] = NoFile
          /\ fragmentFile' = [fragmentFile EXCEPT ![p] = FragmentOf(h)]
    /\ prep' = [prep EXCEPT ![h] = Idle]
    /\ UNCHANGED <<candidate, reviewed, output, changes>>

\* sign: the digest expected is one that was confirmed; the fragment is
\* linked to a name that is free at that moment.
Sign(h) ==
    /\ prep[h].step = "prepared"
    /\ prep[h].request \in reviewed[h]
    /\ \E p \in FragmentPath :
          /\ fragmentFile[p] = NoFile
          /\ fragmentFile' = [fragmentFile EXCEPT ![p] = FragmentOf(h)]
    /\ prep' = [prep EXCEPT ![h] = Idle]
    /\ UNCHANGED <<candidate, reviewed, output, changes>>

(***************************************************************************)
(* catalog-assembler release.  The inputs of a run are picked where they   *)
(* are first looked at; the listing of a prior manifest is optional.       *)
(***************************************************************************)

\* verifyCandidateReadback, first file.
RereadPayload(x) ==
    /\ prep[x].step = "prepared"
    /\ candidate.payload = prep[x].payload
    /\ prep' = [prep EXCEPT ![x].step = "reread"]
    /\ UNCHANGED <<candidate, reviewed, fragmentFile, output, changes>>

PriorRevocations == {<<>>} \cup {m.revocations : m \in SignedManifest}

ReadFragments(files) == [i \in DOMAIN files |-> fragmentFile[files[i]]]

StagedRelease(x, fragments, current, signed, prior) ==
    [manifest |-> SignedEnvelope(prep[x].payload, Signatures(fragments)),
     root |-> signed, objects |-> NoObjects,
     request |-> prep[x].request, current |-> current, prior |-> prior]

\* Second file, all checks, and the envelopes written to staging.  The program
\* reads the fragments when it starts; a fragment file never changes, so reading
\* it here allows every choice it had then.
Stage(x) ==
    /\ prep[x].step = "reread"
    /\ candidate.request = prep[x].request
    /\ \E files \in FragmentFiles, current \in TrustRoot, signed \in SignedRoot,
          prior \in PriorRevocations, now \in Now :
          /\ \A i \in DOMAIN files : fragmentFile[files[i]] # NoFile
          /\ CanAssemble(ReadFragments(files), prep[x].request, prep[x].payload,
                         current, signed, prior, now)
          /\ prep' = [prep EXCEPT
                ![x].step = "staging",
                ![x].release = StagedRelease(x, ReadFragments(files), current,
                                             signed, prior)]
    /\ UNCHANGED <<candidate, reviewed, fragmentFile, output, changes>>

\* Mutant: verifyObjectReadback is skipped.
MutCopyObject(x) ==
    /\ prep[x].step = "staging"
    /\ \E o \in ArtifactSet(prep[x].payload) :
          /\ prep[x].release.objects[o] = "absent"
          /\ candidate.objects[o] # "absent"
          /\ prep' = [prep EXCEPT ![x].release.objects[o] = candidate.objects[o]]
    /\ UNCHANGED <<candidate, reviewed, fragmentFile, output, changes>>

\* Every object is read again, verified and copied.
CopyObject(x) ==
    /\ prep[x].step = "staging"
    /\ \E o \in ArtifactSet(prep[x].payload) :
          /\ prep[x].release.objects[o] = "absent"
          /\ candidate.objects[o] = "intact"
          /\ prep' = [prep EXCEPT ![x].release.objects[o] = candidate.objects[o]]
    /\ UNCHANGED <<candidate, reviewed, fragmentFile, output, changes>>

\* The package and the archive are written and staging becomes the output
\* directory, whose name is free.
Publish(x) ==
    /\ prep[x].step = "staging"
    /\ \A o \in ArtifactSet(prep[x].payload) :
          prep[x].release.objects[o] # "absent"
    /\ \E d \in OutputDir :
          /\ output[d] = NoFile
          /\ output' = [output EXCEPT ![d] = prep[x].release]
    /\ prep' = [prep EXCEPT ![x] = Idle]
    /\ UNCHANGED <<candidate, reviewed, fragmentFile, changes>>

Next ==
    \/ Rebuild
    \/ ReplaceFile
    \/ \E x \in Reader :
          ReadPayload(x) \/ ReadRequest(x) \/ CheckObjects(x) \/ Abort(x)
    \/ \E h \in Holder : Inspect(h) \/ Sign(h)
    \/ \E x \in Operator :
          RereadPayload(x) \/ Stage(x) \/ CopyObject(x) \/ Publish(x)

Spec == Init /\ [][Next]_vars

-----------------------------------------------------------------------------
(***************************************************************************)
(* Properties.                                                             *)
(***************************************************************************)

\* Every variable has its type, a program that has passed a preflight holds an
\* admitted payload and a request that names it, and only a staging one holds
\* a release.
TypeOK ==
    /\ candidate \in Candidate
    /\ prep \in [Reader -> Prep]
    /\ reviewed \in [Holder -> SUBSET Request]
    /\ fragmentFile \in [FragmentPath -> Fragment \cup {NoFile}]
    /\ output \in [OutputDir -> Assembled \cup {NoFile}]
    /\ changes \in 0..MaxChanges
    /\ \A x \in Reader :
          /\ prep[x].step \notin {"idle", "payload"} =>
                /\ prep[x].request \in Request
                /\ prep[x].request.payload = prep[x].payload
                /\ PolicyAdmits(prep[x].payload)
          /\ prep[x].release = NoFile <=> prep[x].step # "staging"

Published == {output[d] : d \in OutputDir} \ {NoFile}

Confirms(requests, payload) == \E rq \in requests : rq.payload = payload

\* Two custodians stand behind every assembled release: at least two holders
\* inspected exactly the payload in its manifest, with a request and objects
\* that matched, whatever happened to the directory between the reads of the
\* inspections, of the signatures and of the assembly.
ThresholdReviewed ==
    \A x \in Published :
        \E g, h \in Holder :
            /\ g # h
            /\ Confirms(reviewed[g], ManifestPayload(x.manifest))
            /\ Confirms(reviewed[h], ManifestPayload(x.manifest))

\* An assembled release is complete: every object its manifest names was
\* copied with the bytes the manifest names, and nothing else, although the
\* objects are read again long after the inspection.
AssembledComplete ==
    \A x \in Published :
        \A o \in Object :
            x.objects[o] = IF o \in ArtifactSet(x.manifest)
                           THEN "intact" ELSE "absent"

\* The pointers of a source tree that shows a release.
Pointers(manifest, root) ==
    [p \in {LiveManifest, LiveRoot} |-> IF p = LiveManifest THEN manifest ELSE root]

\* What the assembler accepts the release verifier accepts: a release that
\* was assembled against the root that is live, or a root that lies before
\* it, and the revocations of the live manifest passes verifyForwardOnly.
AssembledForward ==
    \A x \in Published : \A m \in SignedManifest, r \in SignedRoot :
        /\ RootPayload(r) = x.current \/ r = x.root
        /\ m.version < x.manifest.version
        /\ m.revocations = x.prior
        => VerifyForwardOnly(Pointers(m, r), Pointers(x.manifest, x.root))

\* What the assembler puts out the materializer takes: loadRelease, which knows
\* neither the root before nor the request, accepts every assembled release.
\* The exception is a manifest with two artifacts of the same content: policy,
\* signers and assembler compare artifact IDs and let it through, loadRelease
\* rejects the object path that the two have in common.
AssembledLoads ==
    \A x \in Published :
        NoRepeat(x.manifest.artifacts) =>
            LoadRelease([manifest |-> x.manifest, root |-> x.root])

(***************************************************************************)
(* The inductive invariant.  A fragment is what its holder confirmed; the  *)
(* release in staging is backed by two fragments, was accepted by the root *)
(* it succeeds and by its own, and holds only verified objects.  "confirmed" is the  *)
(* value of reviewed.                                                      *)
(***************************************************************************)
GenuineFragment(f, confirmed) ==
    /\ f.over = f.request.payload
    /\ \E h \in Holder :
          /\ f.key = HolderKey[h].key /\ f.by = HolderKey[h].by
          /\ f.request \in confirmed[h]

TwoReviewed(payload, confirmed) ==
    \E g, h \in Holder :
        /\ g # h
        /\ Confirms(confirmed[g], payload)
        /\ Confirms(confirmed[h], payload)

AcceptedByCurrent(x) ==
    /\ x.root.version > x.current.version
    /\ VerifySignedBytes(x.root.signatures, x.current)
    /\ VerifySignedBytes(x.manifest.signatures, x.current)
    /\ VerifyRevocationsForward(x.prior, x.manifest.revocations)

AcceptedByNext(x) ==
    /\ x.manifest.version # 0
    /\ VerifySignedBytes(x.root.signatures, x.root)
    /\ VerifySignedBytes(x.manifest.signatures, x.root)

OnlyVerifiedObjects(x) ==
    \A o \in Object :
        \/ x.objects[o] = "absent"
        \/ x.objects[o] = "intact" /\ o \in ArtifactSet(x.manifest)

SoundRelease(x, confirmed) ==
    /\ TwoReviewed(ManifestPayload(x.manifest), confirmed)
    /\ AcceptedByCurrent(x)
    /\ AcceptedByNext(x)
    /\ OnlyVerifiedObjects(x)

AssemblyInv ==
    /\ TypeOK
    /\ \A p \in FragmentPath :
          fragmentFile[p] # NoFile => GenuineFragment(fragmentFile[p], reviewed)
    /\ \A x \in Reader : prep[x].step = "staging" =>
          /\ SoundRelease(prep[x].release, reviewed)
          /\ ManifestPayload(prep[x].release.manifest) = prep[x].payload
    /\ \A x \in Published :
          /\ SoundRelease(x, reviewed)
          /\ \A o \in ArtifactSet(x.manifest) : x.objects[o] # "absent"

-----------------------------------------------------------------------------
(***************************************************************************)
(* The ceremony that the programs carry out.                               *)
(***************************************************************************)

\* The payloads a holder has confirmed: those of the requests.
Confirmed == [h \in Holder |-> {rq.payload : rq \in reviewed[h]}]

FragmentsBy(h) ==
    {p \in FragmentPath :
        fragmentFile[p] # NoFile /\ fragmentFile[p].by = HolderKey[h].by}

\* The payloads a holder's key has signed: those of the fragment files.
SignedPayloads == [h \in Holder |-> {fragmentFile[p].over : p \in FragmentsBy(h)}]

Custody == INSTANCE Ceremony WITH confirmed <- Confirmed, signed <- SignedPayloads

\* Inspections, confirmed digests and fragment files carry out the ceremony:
\* a key only ever signs a payload its holder has confirmed, although the
\* holder confirms the digest of a request, the program signs a payload, and
\* both are read from a directory that changes in between.
CeremonyPromise == Custody!Spec

OnlySigned(x, signed) ==
    \A i \in DOMAIN x.manifest.signatures : \A h \in Holder :
        x.manifest.signatures[i].by = HolderKey[h].by =>
            ManifestPayload(x.manifest) \in signed[h]

\* Assembly makes no signature: where an assembled manifest shows the key of a
\* holder, that key has signed exactly this payload, although fragments are
\* picked by file name and may be of other candidates and requests.
AssembledUnforged == \A x \in Published : OnlySigned(x, SignedPayloads)

\* The release in staging already is so.
UnforgedInv ==
    /\ AssemblyInv
    /\ AssembledUnforged
    /\ \A x \in Reader : prep[x].step = "staging" =>
          OnlySigned(prep[x].release, SignedPayloads)
=============================================================================
