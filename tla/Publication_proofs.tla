-------------------------- MODULE Publication_proofs --------------------------
(***************************************************************************)
(* Proofs about Publication for every set of sources, envelopes, objects   *)
(* and pull requests.  The lemmas up to MergeStep are about trees only;    *)
(* MergeStep is the heart: a verified step from an older base, merged into *)
(* a main that descends from that base, is a verified step of main.        *)
(***************************************************************************)
EXTENDS Publication, TLAPS

\* Paths and contents: what is never equal, and what lies in Path.
LEMMA PathFacts ==
    /\ LiveManifest \in Path /\ LiveRoot \in Path /\ UnknownPath \in Path
    /\ \A o \in Object : ObjectPath(o) \in Path /\ Immutable(ObjectPath(o))
    /\ \A m \in SignedManifest :
          /\ ManifestArchive(m) \in Path /\ Immutable(ManifestArchive(m))
          /\ PackagePath(m) \in Path /\ Immutable(PackagePath(m))
    /\ \A r \in SignedRoot :
          RootArchive(r) \in Path /\ Immutable(RootArchive(r))
BY DEF Path, Immutable, LiveManifest, LiveRoot, UnknownPath, ObjectPath,
       ManifestArchive, RootArchive, PackagePath

LEMMA ContentFacts ==
    /\ UnsafeFile # NoFile
    /\ NoFile \notin SignedManifest /\ NoFile \notin SignedRoot
    /\ NoFile \notin Object
    /\ \A m \in SignedManifest, r \in SignedRoot : BuildPackage(m, r) # NoFile
BY NoFileAssumption DEF Content, Package, BuildPackage

LEMMA TreeEquality ==
    ASSUME NEW t \in Tree, NEW u \in Tree, \A p \in Path : t[p] = u[p]
    PROVE  t = u
BY DEF Tree

\* The later revocation lists keep what the earlier keep.
LEMMA RevocationsKeptTransitive ==
    ASSUME NEW l \in SignedManifest, NEW m \in SignedManifest,
           NEW n \in SignedManifest,
           RevocationsKept(l.revocations, m.revocations),
           RevocationsKept(m.revocations, n.revocations)
    PROVE  RevocationsKept(l.revocations, n.revocations)
<1> SUFFICES ASSUME NEW i \in DOMAIN l.revocations
             PROVE  RevocationKept(l.revocations[i], n.revocations)
    BY DEF RevocationsKept
<1>1. PICK j \in DOMAIN m.revocations :
          /\ m.revocations[j].id = l.revocations[i].id
          /\ m.revocations[j].target = l.revocations[i].target
          /\ m.revocations[j].version >= l.revocations[i].version
    BY DEF RevocationsKept, RevocationKept
<1>2. PICK k \in DOMAIN n.revocations :
          /\ n.revocations[k].id = m.revocations[j].id
          /\ n.revocations[k].target = m.revocations[j].target
          /\ n.revocations[k].version >= m.revocations[j].version
    BY DEF RevocationsKept, RevocationKept
<1>3. /\ l.revocations[i] \in Revocation
      /\ m.revocations[j] \in Revocation
      /\ n.revocations[k] \in Revocation
    <2>1. /\ l.revocations \in Seq(Revocation)
          /\ m.revocations \in Seq(Revocation)
          /\ n.revocations \in Seq(Revocation)
        BY ManifestAssumption
    <2>2. QED BY <2>1
<1>4. /\ l.revocations[i].version \in Nat
      /\ m.revocations[j].version \in Nat
      /\ n.revocations[k].version \in Nat
    BY <1>3 DEF Revocation
<1>5. n.revocations[k].version >= l.revocations[i].version
    BY <1>1, <1>2, <1>4
<1>6. QED BY <1>1, <1>2, <1>5 DEF RevocationKept

LEMMA RevocationsKeptReflexive ==
    ASSUME NEW m \in SignedManifest
    PROVE  RevocationsKept(m.revocations, m.revocations)
<1> SUFFICES ASSUME NEW i \in DOMAIN m.revocations
             PROVE  RevocationKept(m.revocations[i], m.revocations)
    BY DEF RevocationsKept
<1>1. m.revocations[i] \in Revocation
    <2>1. m.revocations \in Seq(Revocation)
        BY ManifestAssumption
    <2>2. QED BY <2>1
<1>2. m.revocations[i].version \in Nat
    BY <1>1 DEF Revocation
<1>3. QED BY <1>2 DEF RevocationKept

(***************************************************************************)
(* Sound trees.                                                            *)
(***************************************************************************)

\* The live envelopes of a sound tree have their types.
LEMMA SoundLive ==
    ASSUME NEW s, NEW t, Sound(s, t), Exists(t)
    PROVE  /\ t[LiveManifest] \in SignedManifest
           /\ t[LiveRoot] \in SignedRoot
           /\ t[LiveManifest].version \in Nat
           /\ t[LiveRoot].version \in Nat
           /\ t[LiveManifest] # NoFile /\ t[LiveRoot] # NoFile
           /\ t[PackagePath(t[LiveManifest])]
                 = BuildPackage(t[LiveManifest], t[LiveRoot])
<1>1. /\ t[LiveManifest] \in SignedManifest
      /\ t[LiveRoot] \in SignedRoot
      /\ t[PackagePath(t[LiveManifest])]
            = BuildPackage(t[LiveManifest], t[LiveRoot])
    BY DEF Sound, VerifyPublishedSource
<1>2. QED BY <1>1, ManifestAssumption, RootAssumption, ContentFacts

LEMMA SoundRead ==
    ASSUME NEW s, NEW t, Sound(s, t)
    PROVE  ReadSourceTree(t)
<1>1. CASE Exists(t)
    BY <1>1 DEF Sound, SourceReadable
<1>2. CASE ~Exists(t)
    BY <1>2, PathFacts, ContentFacts DEF Exists, ReadSourceTree
<1>3. QED BY <1>1, <1>2

LEMMA LiveEquality ==
    ASSUME NEW t, NEW u
    PROVE  LiveRelease(t) = LiveRelease(u) <=>
              t[LiveManifest] = u[LiveManifest] /\ t[LiveRoot] = u[LiveRoot]
BY DEF LiveRelease

\* One package path holds one package: a manifest has one root for ever.
LEMMA OneRootPerManifest ==
    ASSUME NEW s, NEW t, NEW u, Sound(s, t), Sound(s, u), Exists(t), Exists(u),
           t[LiveManifest] = u[LiveManifest],
           t[PackagePath(t[LiveManifest])] = u[PackagePath(t[LiveManifest])]
    PROVE  t[LiveRoot] = u[LiveRoot]
<1>1. BuildPackage(t[LiveManifest], t[LiveRoot])
         = BuildPackage(u[LiveManifest], u[LiveRoot])
    BY SoundLive
<1>2. QED BY <1>1 DEF BuildPackage

\* A tree that keeps the files a sound tree's live release names, and shows
\* the same release, is sound.
LEMMA ClosureMoves ==
    ASSUME NEW s, NEW t, NEW u, Sound(s, t), Exists(t),
           LiveRelease(u) = LiveRelease(t),
           KeepsImmutables(u, t), ReadSourceTree(u)
    PROVE  /\ Exists(u)
           /\ ValidateCompleteSourceTree(u)
           /\ VerifyPublishedSource(s, u)
<1> DEFINE m == t[LiveManifest]
           r == t[LiveRoot]
<1>1. /\ u[LiveManifest] = m /\ u[LiveRoot] = r
      /\ m \in SignedManifest /\ r \in SignedRoot
      /\ m # NoFile /\ r # NoFile
    BY LiveEquality, SoundLive
<1>2. VerifyPublishedSource(s, t) /\ ValidateCompleteSourceTree(t)
    BY DEF Sound, SourceReadable
<1>3. \A p \in Path : Immutable(p) /\ t[p] # NoFile => u[p] = t[p]
    BY DEF KeepsImmutables
<1>4. Exists(u)
    BY <1>1, PathFacts DEF Exists
<1>5. /\ u[ManifestArchive(m)] = m
      /\ u[RootArchive(r)] = r
      /\ u[PackagePath(m)] = BuildPackage(m, r)
    <2>1. /\ t[ManifestArchive(m)] = m
          /\ t[RootArchive(r)] = r
          /\ t[PackagePath(m)] = BuildPackage(m, r)
        BY <1>2 DEF VerifyPublishedSource
    <2>2. BuildPackage(m, r) # NoFile
        BY <1>1, ContentFacts
    <2>3. QED BY <2>1, <2>2, <1>1, <1>3, PathFacts
<1>6. \A i \in DOMAIN m.artifacts :
          u[ObjectPath(m.artifacts[i])] = m.artifacts[i]
    <2> TAKE i \in DOMAIN m.artifacts
    <2>1. t[ObjectPath(m.artifacts[i])] = m.artifacts[i]
        BY <1>2 DEF VerifyPublishedSource
    <2>2. m.artifacts \in Seq(Object)
        BY <1>1, ManifestAssumption
    <2>3. m.artifacts[i] \in Object
        BY <2>2
    <2>4. QED BY <2>1, <2>3, <1>3, PathFacts, ContentFacts
<1>7. VerifyPublishedSource(s, u)
    BY <1>1, <1>2, <1>5, <1>6 DEF VerifyPublishedSource
<1>8. ValidateCompleteSourceTree(u)
    <2>1. PICK o \in Object : t[ObjectPath(o)] # NoFile
        BY <1>2 DEF ValidateCompleteSourceTree
    <2>2. u[ObjectPath(o)] # NoFile
        BY <2>1, <1>3, PathFacts
    <2>3. u[PackagePath(m)] # NoFile
        BY <1>1, <1>5, ContentFacts
    <2>4. QED BY <1>1, <1>5, <2>2, <2>3 DEF ValidateCompleteSourceTree
<1>9. QED BY <1>4, <1>7, <1>8

(***************************************************************************)
(* Descent.                                                                *)
(***************************************************************************)
LEMMA DescendsReflexive ==
    ASSUME NEW s, NEW t, Sound(s, t)
    PROVE  Descends(t, t)
<1>1. KeepsImmutables(t, t)
    BY DEF KeepsImmutables
<1>2. ASSUME Exists(t) PROVE LiveForward(t, t)
    BY <1>2, SoundLive, RevocationsKeptReflexive DEF LiveForward
<1>3. QED BY <1>1, <1>2 DEF Descends

LEMMA DescendsTransitive ==
    ASSUME NEW s, NEW t, NEW u, NEW v, Sound(s, t), Sound(s, u), Sound(s, v),
           Descends(u, t), Descends(v, u)
    PROVE  Descends(v, t)
<1>1. KeepsImmutables(v, t)
    BY DEF Descends, KeepsImmutables
<1>2. ASSUME Exists(t) PROVE LiveForward(v, t)
    <2>1. LiveForward(u, t) /\ LiveForward(v, u)
        BY <1>2 DEF Descends, LiveForward
    <2>2. Exists(u) /\ Exists(v)
        BY <2>1 DEF LiveForward
    <2>3. /\ t[LiveManifest].version \in Nat /\ t[LiveRoot].version \in Nat
          /\ u[LiveManifest].version \in Nat /\ u[LiveRoot].version \in Nat
          /\ v[LiveManifest].version \in Nat /\ v[LiveRoot].version \in Nat
          /\ t[LiveManifest] \in SignedManifest
          /\ u[LiveManifest] \in SignedManifest
          /\ v[LiveManifest] \in SignedManifest
        BY <1>2, <2>2, SoundLive
    <2>4. \/ LiveRelease(v) = LiveRelease(t)
          \/ v[LiveManifest].version > t[LiveManifest].version
        BY <2>1, <2>3, LiveEquality DEF LiveForward
    <2>5. \/ v[LiveRoot] = t[LiveRoot]
          \/ v[LiveRoot].version > t[LiveRoot].version
        BY <2>1, <2>3 DEF LiveForward
    <2>6. RevocationsKept(t[LiveManifest].revocations,
                          v[LiveManifest].revocations)
        BY <2>1, <2>3, RevocationsKeptTransitive DEF LiveForward
    <2>7. QED BY <2>2, <2>4, <2>5, <2>6 DEF LiveForward
<1>3. QED BY <1>1, <1>2 DEF Descends

\* What the verifier accepts from a sound base is sound and descends from it;
\* and when the live release changes, the manifest version grows.
LEMMA VerifiedStepDescends ==
    ASSUME NEW s, NEW t \in Tree, NEW u \in Tree, Sound(s, t),
           VerifiedStep(s, t, u)
    PROVE  Sound(s, u) /\ Descends(u, t)
<1>1. CASE u = t
    BY <1>1, DescendsReflexive
<1>2. CASE u # t
    <2>1. VerifyReleaseDiff(t, u) /\ VerifyPublishedSource(s, u)
        BY <1>2 DEF VerifiedStep
    <2>2. Sound(s, u)
        BY <2>1 DEF Sound, VerifyReleaseDiff
    <2>3. KeepsImmutables(u, t)
        BY <2>1 DEF KeepsImmutables, VerifyReleaseDiff
    <2>4. ASSUME Exists(t) PROVE LiveForward(u, t)
        <3>1. Exists(u)
            BY <2>1, <2>4 DEF VerifyReleaseDiff
        <3>2. CASE LiveRelease(u) = LiveRelease(t)
            BY <2>2, <2>4, <3>1, <3>2, LiveEquality, SoundLive,
               RevocationsKeptReflexive DEF LiveForward
        <3>3. CASE LiveRelease(u) # LiveRelease(t)
            <4>1. VerifyForwardOnly(t, u)
                BY <1>2, <2>4, <3>3 DEF VerifiedStep
            <4>2. RevocationsKept(t[LiveManifest].revocations,
                                  u[LiveManifest].revocations)
                BY <4>1 DEF VerifyForwardOnly, VerifyRevocationsForward
            <4>3. \/ u[LiveRoot] = t[LiveRoot]
                  \/ u[LiveRoot].version > t[LiveRoot].version
                BY <4>1 DEF VerifyForwardOnly, VersionForward
            <4>4. u[LiveManifest] # t[LiveManifest]
                <5> SUFFICES ASSUME u[LiveManifest] = t[LiveManifest]
                             PROVE  FALSE
                    OBVIOUS
                <5> DEFINE pkg == PackagePath(t[LiveManifest])
                <5>1. t[pkg] # NoFile /\ pkg \in Path /\ Immutable(pkg)
                    BY <2>4, SoundLive, ContentFacts, PathFacts
                <5>2. u[pkg] = t[pkg]
                    BY <2>3, <5>1 DEF KeepsImmutables
                <5>3. u[LiveRoot] = t[LiveRoot]
                    BY <2>2, <2>4, <3>1, <5>2, OneRootPerManifest
                <5>4. QED BY <5>3, <3>3, LiveEquality
            <4>5. u[LiveManifest].version > t[LiveManifest].version
                BY <4>1, <4>4 DEF VerifyForwardOnly, VersionForward
            <4>6. QED BY <3>1, <4>2, <4>3, <4>5 DEF LiveForward
        <3>4. QED BY <3>2, <3>3
    <2>5. QED BY <2>2, <2>3, <2>4 DEF Descends
<1>3. QED BY <1>1, <1>2

(***************************************************************************)
(* The merge.  f is the fork point, b the base of the green check, m main, *)
(* h the head of the pull request.                                         *)
(***************************************************************************)
LEMMA MergeType ==
    ASSUME NEW f \in Tree, NEW m \in Tree, NEW h \in Tree
    PROVE  /\ MergeFiles(f, m, h) \in Tree
           /\ \A p \in Path : MergeFiles(f, m, h)[p]
                                 = IF h[p] = f[p] THEN m[p] ELSE h[p]
BY DEF Tree, MergeFiles

\* If main had no source when checked and none now, nothing has moved;
\* if it has one now, its live release stays.  Otherwise main still shows
\* what the check saw, or the merge does not touch what main shows.
LEMMA MergeLive ==
    ASSUME NEW s, NEW f \in Tree, NEW b \in Tree, NEW m \in Tree,
           NEW h \in Tree, Sound(s, f), Sound(s, b), Sound(s, m),
           Descends(b, f), Descends(m, b), Exists(m),
           MergeableFiles(f, b, h), MergeableFiles(f, m, h),
           VerifiedStep(s, b, MergeFiles(f, b, h)),
           KeepsImmutables(MergeFiles(f, m, h), m),
           \A p \in Path :
              Immutable(p) /\ MergeFiles(f, b, h)[p] # NoFile =>
                 MergeFiles(f, m, h)[p] = MergeFiles(f, b, h)[p]
    PROVE  \/ LiveRelease(MergeFiles(f, m, h)) = LiveRelease(m)
           \/ /\ LiveRelease(MergeFiles(f, m, h))
                    = LiveRelease(MergeFiles(f, b, h))
              /\ LiveRelease(m) = LiveRelease(b)
              /\ MergeFiles(f, b, h) # b
<1> DEFINE n == MergeFiles(f, m, h)
           t == MergeFiles(f, b, h)
<1>1. /\ n \in Tree /\ t \in Tree
      /\ \A p \in Path : n[p] = IF h[p] = f[p] THEN m[p] ELSE h[p]
      /\ \A p \in Path : t[p] = IF h[p] = f[p] THEN b[p] ELSE h[p]
    BY MergeType
<1>2. \A p \in Path : h[p] # f[p] => m[p] \in {f[p], h[p]}
    BY DEF MergeableFiles
<1>3. Sound(s, t) /\ Descends(t, b)
    BY <1>1, VerifiedStepDescends
<1>4. LiveManifest \in Path /\ LiveRoot \in Path
    BY PathFacts
<1>5. /\ m[LiveManifest] \in SignedManifest
      /\ m[LiveManifest] # NoFile /\ m[LiveRoot] # NoFile
      /\ m[LiveManifest].version \in Nat /\ m[LiveRoot].version \in Nat
    BY SoundLive
<1> HIDE DEF n, t
<1>6. CASE ~Exists(b)
    <2>1. ~Exists(f)
        BY <1>6 DEF Descends, LiveForward
    <2>2. f[LiveManifest] = NoFile /\ f[LiveRoot] = NoFile
        BY <2>1, <1>4 DEF Exists
    <2>3. n[LiveManifest] = m[LiveManifest] /\ n[LiveRoot] = m[LiveRoot]
        BY <2>2, <1>1, <1>2, <1>4, <1>5
    <2>4. QED BY <2>3, LiveEquality DEF n
<1>7. CASE Exists(b) /\ h[LiveManifest] = f[LiveManifest]
    <2>1. n[LiveManifest] = m[LiveManifest] /\ t[LiveManifest] = b[LiveManifest]
        BY <1>1, <1>4, <1>7
    <2>2. LiveForward(t, b) /\ LiveForward(m, b)
        BY <1>3, <1>7 DEF Descends
    <2>3. /\ b[LiveManifest].version \in Nat
          /\ b[LiveRoot].version \in Nat
        BY <1>7, SoundLive
    <2>4. t[LiveRoot] = b[LiveRoot]
        BY <2>1, <2>2, <2>3, LiveEquality DEF LiveForward
    <2>5. n[LiveRoot] = m[LiveRoot]
        <3>1. CASE h[LiveRoot] = f[LiveRoot]
            BY <3>1, <1>1, <1>4
        <3>2. CASE h[LiveRoot] # f[LiveRoot] /\ m[LiveRoot] = h[LiveRoot]
            BY <3>2, <1>1, <1>4
        <3>3. CASE h[LiveRoot] # f[LiveRoot] /\ m[LiveRoot] = f[LiveRoot]
            <4>1. b[LiveRoot] # f[LiveRoot]
                BY <3>3, <2>4, <1>1, <1>4
            <4>2. Exists(f)
                BY <3>3, <1>4, <1>5 DEF Exists
            <4>3. LiveForward(b, f) /\ f[LiveRoot].version \in Nat
                BY <4>2, SoundLive DEF Descends
            <4>4. b[LiveRoot].version > f[LiveRoot].version
                BY <4>1, <4>3 DEF LiveForward
            <4>5. m[LiveRoot].version > f[LiveRoot].version
                BY <4>3, <4>4, <2>2, <2>3, <1>5 DEF LiveForward
            <4>6. QED BY <4>5, <4>3, <3>3
        <3>4. QED BY <3>1, <3>2, <3>3, <1>2, <1>4
    <2>6. QED BY <2>1, <2>5, LiveEquality DEF n
<1>8. CASE /\ Exists(b) /\ h[LiveManifest] # f[LiveManifest]
           /\ m[LiveManifest] = f[LiveManifest]
    <2>1. Exists(f)
        BY <1>8, <1>4, <1>5 DEF Exists
    <2>2. LiveForward(b, f) /\ LiveForward(m, b)
        BY <2>1, <1>8 DEF Descends
    <2>3. /\ b[LiveManifest].version \in Nat
          /\ f[LiveManifest].version \in Nat
        BY <2>1, <1>8, SoundLive
    <2>4. ~(b[LiveManifest].version > f[LiveManifest].version)
        BY <2>2, <2>3, <1>5, <1>8, LiveEquality DEF LiveForward
    <2>5. ~(m[LiveManifest].version > b[LiveManifest].version)
        BY <2>2, <2>3, <1>5, <1>8, LiveEquality DEF LiveForward
    <2>6. LiveRelease(b) = LiveRelease(f) /\ LiveRelease(m) = LiveRelease(b)
        BY <2>2, <2>4, <2>5 DEF LiveForward
    <2>7. b[LiveManifest] = f[LiveManifest] /\ m[LiveRoot] = b[LiveRoot]
        BY <2>6, LiveEquality
    <2>8. n[LiveManifest] = t[LiveManifest] /\ n[LiveRoot] = t[LiveRoot]
        BY <1>1, <1>4, <1>8, <2>7
    <2>9. t # b
        BY <1>1, <1>4, <1>8, <2>7
    <2>10. QED BY <2>6, <2>8, <2>9, LiveEquality DEF n, t
<1>9. CASE /\ Exists(b) /\ h[LiveManifest] # f[LiveManifest]
           /\ m[LiveManifest] = h[LiveManifest]
    <2> DEFINE pkg == PackagePath(m[LiveManifest])
    <2>1. n[LiveManifest] = m[LiveManifest] /\ t[LiveManifest] = m[LiveManifest]
        BY <1>1, <1>4, <1>9
    <2>2. Exists(t)
        BY <1>3, <1>9 DEF Descends, LiveForward
    <2>3. pkg \in Path /\ Immutable(pkg)
        BY <1>5, PathFacts
    <2>4. t[pkg] # NoFile /\ m[pkg] # NoFile
        BY <1>3, <2>1, <2>2, SoundLive, ContentFacts
    <2>5. t[pkg] = m[pkg]
        BY <2>3, <2>4 DEF KeepsImmutables, n, t
    <2>6. t[LiveRoot] = m[LiveRoot]
        BY <1>3, <2>1, <2>2, <2>5, OneRootPerManifest
    <2>7. n[LiveRoot] = m[LiveRoot]
        BY <2>6, <1>1, <1>4
    <2>8. QED BY <2>1, <2>7, LiveEquality DEF n
<1>10. QED BY <1>2, <1>4, <1>6, <1>7, <1>8, <1>9

\* A step verified from an older base, merged without conflict into a main that
\* descends from that base, is a verified step of main.
LEMMA MergeStep ==
    ASSUME NEW s, NEW f \in Tree, NEW b \in Tree, NEW m \in Tree,
           NEW h \in Tree, Sound(s, f), Sound(s, b), Sound(s, m),
           Descends(b, f), Descends(m, b),
           MergeableFiles(f, b, h), MergeableFiles(f, m, h),
           VerifiedStep(s, b, MergeFiles(f, b, h))
    PROVE  VerifiedStep(s, m, MergeFiles(f, m, h))
<1> DEFINE n == MergeFiles(f, m, h)
           t == MergeFiles(f, b, h)
<1>1. /\ n \in Tree /\ t \in Tree
      /\ \A p \in Path : n[p] = IF h[p] = f[p] THEN m[p] ELSE h[p]
      /\ \A p \in Path : t[p] = IF h[p] = f[p] THEN b[p] ELSE h[p]
    BY MergeType
<1>2. Sound(s, t) /\ Descends(t, b)
    BY <1>1, VerifiedStepDescends
<1>3. CASE ~Exists(m)
    <2>1. ~Exists(b)
        BY <1>3 DEF Descends, LiveForward
    <2>2. m = b
        BY <1>3, <2>1, TreeEquality DEF Exists
    <2>3. QED BY <2>2
<1>4. CASE Exists(m)
    <2> SUFFICES ASSUME n # m
                 PROVE  /\ VerifyReleaseDiff(m, n)
                        /\ VerifyPublishedSource(s, n)
                        /\ Exists(m) /\ LiveRelease(n) # LiveRelease(m) =>
                              VerifyForwardOnly(m, n)
        BY DEF VerifiedStep
    <2> HIDE DEF n, t
    <2>1. KeepsImmutables(n, m)
        <3> SUFFICES ASSUME NEW p \in Path, Immutable(p), m[p] # NoFile,
                            h[p] # f[p], m[p] = f[p]
                     PROVE  FALSE
            BY <1>1 DEF KeepsImmutables, MergeableFiles
        <3>1. b[p] = f[p]
            BY DEF Descends, KeepsImmutables
        <3>2. t[p] = b[p]
            BY <1>2, <3>1 DEF Descends, KeepsImmutables
        <3>3. QED BY <1>1, <3>1, <3>2
    <2>2. \A p \in Path : Immutable(p) /\ t[p] # NoFile => n[p] = t[p]
        BY <1>1 DEF Descends, KeepsImmutables
    <2>3. \/ LiveRelease(n) = LiveRelease(m)
          \/ LiveRelease(n) = LiveRelease(t) /\ LiveRelease(m) = LiveRelease(b)
             /\ t # b
        BY <1>4, <2>1, <2>2, MergeLive DEF n, t
    <2>4. ReadSourceTree(n)
        <3>1. ReadSourceTree(m) /\ ReadSourceTree(t)
            BY <1>2, SoundRead
        <3>2. \A p \in Path : n[p] = m[p] \/ n[p] = t[p]
            BY <1>1
        <3>3. QED BY <3>1, <3>2, PathFacts DEF ReadSourceTree
    <2>5. /\ Exists(n) /\ ValidateCompleteSourceTree(n)
          /\ VerifyPublishedSource(s, n)
        <3>1. CASE LiveRelease(n) = LiveRelease(m)
            BY <1>4, <2>1, <2>4, <3>1, ClosureMoves
        <3>2. CASE LiveRelease(n) = LiveRelease(t) /\ t # b
            <4>1. VerifyReleaseDiff(b, t) /\ VerifyPublishedSource(s, t)
                BY <3>2 DEF VerifiedStep, t
            <4>2. t[LiveManifest] # NoFile
                BY <4>1, ContentFacts DEF VerifyPublishedSource
            <4>3. Exists(t)
                BY <4>2, PathFacts DEF Exists
            <4>4. KeepsImmutables(n, t)
                BY <2>2 DEF KeepsImmutables
            <4>5. QED BY <1>2, <2>4, <3>2, <4>3, <4>4, ClosureMoves
        <3>3. QED BY <2>3, <3>1, <3>2
    <2>6. VerifyReleaseDiff(m, n)
        BY <2>1, <2>4, <2>5 DEF VerifyReleaseDiff, KeepsImmutables,
                                SourceReadable, Sound
    <2>7. ASSUME LiveRelease(n) # LiveRelease(m)
          PROVE  VerifyForwardOnly(m, n)
        <3>1. /\ LiveRelease(n) = LiveRelease(t)
              /\ LiveRelease(m) = LiveRelease(b)
              /\ t # b
            BY <2>3, <2>7
        <3>2. /\ n[LiveManifest] = t[LiveManifest]
              /\ n[LiveRoot] = t[LiveRoot]
              /\ m[LiveManifest] = b[LiveManifest]
              /\ m[LiveRoot] = b[LiveRoot]
            BY <3>1, LiveEquality
        <3>3. Exists(b)
            BY <1>4, <3>2, SoundLive, PathFacts DEF Exists
        <3>4. VerifyForwardOnly(b, t)
            BY <2>7, <3>1, <3>3 DEF VerifiedStep, t
        <3>5. QED BY <3>2, <3>4 DEF VerifyForwardOnly
    <2>8. QED BY <2>5, <2>6, <2>7
<1>5. QED BY <1>3, <1>4

\* Two successive stretches of history with one live manifest at their ends
\* have one live release throughout: versions only grow.
LEMMA LiveBetween ==
    ASSUME NEW s, NEW f, NEW b, NEW m, Sound(s, f), Sound(s, b), Sound(s, m),
           Exists(f), Descends(b, f), Descends(m, b),
           m[LiveManifest] = f[LiveManifest]
    PROVE  LiveRelease(b) = LiveRelease(f) /\ LiveRelease(m) = LiveRelease(b)
<1>1. LiveForward(b, f)
    BY DEF Descends
<1>2. LiveForward(m, b) /\ Exists(b) /\ Exists(m)
    BY <1>1 DEF Descends, LiveForward
<1>3. /\ f[LiveManifest].version \in Nat
      /\ b[LiveManifest].version \in Nat
      /\ m[LiveManifest].version \in Nat
    BY <1>2, SoundLive
<1>4. ~(b[LiveManifest].version > f[LiveManifest].version)
    BY <1>1, <1>2, <1>3, LiveEquality DEF LiveForward
<1>5. ~(m[LiveManifest].version > b[LiveManifest].version)
    BY <1>1, <1>2, <1>3, LiveEquality DEF LiveForward
<1>6. QED BY <1>1, <1>2, <1>4, <1>5 DEF LiveForward

\* A merge with main that is a verified step from an older base, the base.sha
\* of the event, is a verified step of main.
LEMMA StaleBaseStep ==
    ASSUME NEW s, NEW f \in Tree, NEW b \in Tree, NEW m \in Tree,
           NEW h \in Tree, Sound(s, f), Sound(s, b), Sound(s, m),
           Descends(b, f), Descends(m, b), MergeableFiles(f, m, h),
           VerifiedStep(s, b, MergeFiles(f, m, h))
    PROVE  VerifiedStep(s, m, MergeFiles(f, m, h))
<1> DEFINE n == MergeFiles(f, m, h)
<1>1. /\ n \in Tree
      /\ \A p \in Path : n[p] = IF h[p] = f[p] THEN m[p] ELSE h[p]
      /\ \A p \in Path : h[p] # f[p] => m[p] \in {f[p], h[p]}
    BY MergeType DEF MergeableFiles
<1>2. Sound(s, n) /\ Descends(n, b)
    BY <1>1, VerifiedStepDescends
<1> HIDE DEF n
<1>3. KeepsImmutables(n, m)
    <2> SUFFICES ASSUME NEW p \in Path, Immutable(p), m[p] # NoFile,
                        h[p] # f[p], m[p] = f[p]
                 PROVE  n[p] = m[p]
        BY <1>1 DEF KeepsImmutables
    <2>1. b[p] = f[p]
        BY DEF Descends, KeepsImmutables
    <2>2. QED BY <1>2, <2>1 DEF Descends, KeepsImmutables
<1>4. CASE ~Exists(m)
    <2>1. ~Exists(b)
        BY <1>4 DEF Descends, LiveForward
    <2>2. m = b
        BY <1>4, <2>1, TreeEquality DEF Exists
    <2>3. QED BY <2>2 DEF n
<1>5. CASE Exists(m)
    <2>1. /\ m[LiveManifest] \in SignedManifest
          /\ m[LiveManifest] # NoFile /\ m[LiveRoot] # NoFile
        BY <1>5, SoundLive
    <2>2. Exists(n)
        <3> DEFINE pkg == PackagePath(m[LiveManifest])
        <3>1. pkg \in Path /\ Immutable(pkg) /\ m[pkg] # NoFile
            BY <1>5, <2>1, SoundLive, ContentFacts, PathFacts
        <3>2. QED BY <1>3, <3>1 DEF KeepsImmutables, Exists
    <2>3. VerifyPublishedSource(s, n) /\ SourceReadable(n) /\ SourceReadable(m)
        BY <1>2, <2>2 DEF Sound
    <2>4. VerifyReleaseDiff(m, n)
        BY <1>3, <2>2, <2>3 DEF VerifyReleaseDiff, KeepsImmutables
    <2>5. ASSUME LiveRelease(n) # LiveRelease(m)
          PROVE  VerifyForwardOnly(m, n)
        <3>1. n[LiveManifest] # m[LiveManifest]
            <4> SUFFICES ASSUME n[LiveManifest] = m[LiveManifest] PROVE FALSE
                OBVIOUS
            <4> DEFINE pkg == PackagePath(m[LiveManifest])
            <4>1. pkg \in Path /\ Immutable(pkg) /\ m[pkg] # NoFile
                BY <1>5, <2>1, SoundLive, ContentFacts, PathFacts
            <4>2. n[pkg] = m[pkg]
                BY <1>3, <4>1 DEF KeepsImmutables
            <4>3. n[LiveRoot] = m[LiveRoot]
                BY <1>2, <1>5, <2>2, <4>2, OneRootPerManifest
            <4>4. QED BY <2>5, <4>3, LiveEquality
        <3>2. m[LiveManifest] = f[LiveManifest]
            BY <1>1, <3>1, PathFacts
        <3>3. Exists(f)
            BY <2>1, <3>2, PathFacts DEF Exists
        <3>4. /\ LiveRelease(m) = LiveRelease(b)
              /\ Exists(b)
            BY <3>2, <3>3, LiveBetween DEF Descends, LiveForward
        <3>5. VerifyForwardOnly(b, n)
            BY <2>5, <3>4 DEF VerifiedStep, n
        <3>6. m[LiveManifest] = b[LiveManifest] /\ m[LiveRoot] = b[LiveRoot]
            BY <3>4, LiveEquality
        <3>7. QED BY <3>5, <3>6 DEF VerifyForwardOnly
    <2>6. QED BY <2>3, <2>4, <2>5 DEF VerifiedStep, n
<1>6. QED BY <1>4, <1>5

(***************************************************************************)
(* The verifier and repositories.                                          *)
(***************************************************************************)

\* A list that names no file of a source hides removals only, and hides them
\* behind something new outside the sources.
LEMMA ListedUnlessNew ==
    ASSUME NEW base \in Repository, NEW cand \in Repository,
           NEW list \in ChangedFiles(base, cand), list.released = {}
    PROVE  /\ \A s \in Source, p \in Path :
                 cand.files[s][p] \in {base.files[s][p], NoFile}
           /\ base.files # cand.files => cand.other \ base.other # {}
<1>1. PICK gone \in Unlisted(base, cand, Removed(base, cand)) :
         list.released = Modified(base, cand) \cup Added(base, cand)
                            \cup (Removed(base, cand) \ gone)
    BY DEF ChangedFiles
<1>2. /\ Modified(base, cand) = {} /\ Added(base, cand) = {}
      /\ Removed(base, cand) \subseteq gone
    BY <1>1
<1>3. ASSUME NEW s \in Source, NEW p \in Path,
             cand.files[s][p] # base.files[s][p]
      PROVE  cand.files[s][p] = NoFile /\ <<s, p>> \in Removed(base, cand)
    <2> DEFINE sp == <<s, p>>
    <2>1. sp \in Source \X Path /\ sp[1] = s /\ sp[2] = p
        OBVIOUS
    <2> HIDE DEF sp
    <2>2. base.files[s][p] # NoFile
        BY <1>2, <1>3, <2>1 DEF Added, Removed
    <2>3. cand.files[s][p] = NoFile
        BY <1>2, <1>3, <2>1, <2>2 DEF Modified
    <2>4. sp \in Removed(base, cand)
        BY <2>1, <2>2, <2>3 DEF Removed
    <2>5. QED BY <2>3, <2>4 DEF sp
<1>4. ASSUME cand.other \ base.other = {} PROVE base.files = cand.files
    <2>1. gone = {}
        BY <1>2, <1>4 DEF Unlisted, SomethingNew
    <2>2. \A s \in Source, p \in Path : cand.files[s][p] = base.files[s][p]
        BY <1>2, <1>3, <2>1
    <2>3. base.files \in [Source -> Tree] /\ cand.files \in [Source -> Tree]
        BY DEF Repository
    <2>4. \A s \in Source : base.files[s] = cand.files[s]
        BY <2>2, <2>3, TreeEquality
    <2>5. QED BY <2>3, <2>4
<1>5. QED BY <1>3, <1>4

\* The release check verifies nothing only when the sources have lost files at
\* most, and something has appeared outside them that the files may have moved
\* to (release.yml, git diff --name-only).
THEOREM SkippedOnlyRemoves ==
    ASSUME NEW base \in Repository, NEW cand \in Repository,
           NEW list \in ChangedFiles(base, cand), ~MustVerify(list)
    PROVE  /\ \A s \in Source, p \in Path :
                 cand.files[s][p] \in {base.files[s][p], NoFile}
           /\ base.files # cand.files => cand.other \ base.other # {}
BY ListedUnlessNew DEF MustVerify

\* A green verdict is a verified step in every source, or nothing was verified
\* and files are missing at most.
LEMMA GreenVerdict ==
    ASSUME NEW base \in Repository, NEW cand \in Repository,
           NEW list \in ChangedFiles(base, cand),
           VerifyRelease(base, cand, list), NEW s \in Source
    PROVE  \/ ~MustVerify(list) /\ \A p \in Path :
                 cand.files[s][p] \in {base.files[s][p], NoFile}
           \/ VerifiedStep(s, base.files[s], cand.files[s])
<1> DEFINE t == base.files[s]
           u == cand.files[s]
<1>1. t \in Tree /\ u \in Tree
    BY DEF Repository
<1>2. CASE ~MustVerify(list)
    BY <1>2, SkippedOnlyRemoves
<1>3. CASE MustVerify(list)
    <2>1. /\ VerifyReleaseDiff(t, u)
          /\ Exists(u) => VerifyPublishedSource(s, u)
          /\ Exists(t) => VerifyForwardOnly(t, u)
        BY <1>3 DEF VerifyRelease, VerifyPublishedRepository
    <2>2. ASSUME u # t PROVE Exists(u)
        <3>1. CASE Exists(t)
            BY <2>1, <3>1 DEF VerifyReleaseDiff
        <3>2. CASE ~Exists(t)
            BY <1>1, <2>2, <3>2, TreeEquality DEF Exists
        <3>3. QED BY <3>1, <3>2
    <2>3. QED BY <2>1, <2>2 DEF VerifiedStep
<1>4. QED BY <1>2, <1>3

\* Nothing overlooked, a green verdict is a verified step.
LEMMA VerifyReleaseStep ==
    ASSUME NEW base \in Repository, NEW cand \in Repository,
           NEW list \in ChangedFiles(base, cand),
           VerifyRelease(base, cand, list), ~Overlooks(base, cand, list),
           NEW s \in Source
    PROVE  VerifiedStep(s, base.files[s], cand.files[s])
<1>1. CASE MustVerify(list)
    BY <1>1, GreenVerdict
<1>2. CASE ~MustVerify(list)
    <2>1. base.files = cand.files
        BY <1>2 DEF MustVerify, Overlooks
    <2>2. QED BY <2>1 DEF VerifiedStep
<1>3. QED BY <1>1, <1>2

LEMMA EmptyRepositoryFacts ==
    /\ EmptyRepository \in Repository
    /\ \A s \in Source : EmptyRepository.files[s] = EmptyTree
    /\ EmptyTree \in Tree /\ ~Exists(EmptyTree)
    /\ NoPull \in PullRequest
BY BoundAssumption DEF EmptyRepository, Repository, EmptyTree, Tree, Exists,
                       NoPull, PullRequest, Status

LEMMA MergeRepository ==
    ASSUME NEW f \in Repository, NEW m \in Repository, NEW h \in Repository
    PROVE  /\ ThreeWayMerge(f, m, h) \in Repository
           /\ \A s \in Source :
                 ThreeWayMerge(f, m, h).files[s]
                    = MergeFiles(f.files[s], m.files[s], h.files[s])
<1>1. \A s \in Source :
          /\ f.files[s] \in Tree /\ m.files[s] \in Tree /\ h.files[s] \in Tree
    BY DEF Repository
<1>2. \A s \in Source : MergeFiles(f.files[s], m.files[s], h.files[s]) \in Tree
    BY <1>1, MergeType
<1>3. QED BY <1>2 DEF ThreeWayMerge, Repository

LEMMA EmptyTreeSound ==
    ASSUME NEW s
    PROVE  Sound(s, EmptyTree)
BY EmptyRepositoryFacts DEF Sound, SourceReadable

\* What a tree retains, its descendants retain.
LEMMA RetainedKept ==
    ASSUME NEW release \in Release, NEW t, NEW u,
           Retained(t, release), KeepsImmutables(u, t)
    PROVE  Retained(u, release)
<1> DEFINE m == release.manifest
           r == release.root
<1>1. /\ m \in SignedManifest /\ r \in SignedRoot
      /\ m # NoFile /\ r # NoFile /\ BuildPackage(m, r) # NoFile
    BY ContentFacts DEF Release
<1>2. /\ u[ManifestArchive(m)] = m
      /\ u[RootArchive(r)] = r
      /\ u[PackagePath(m)] = BuildPackage(m, r)
    BY <1>1, PathFacts DEF Retained, KeepsImmutables
<1>3. ASSUME NEW i \in DOMAIN m.artifacts
      PROVE  u[ObjectPath(m.artifacts[i])] = m.artifacts[i]
    <2>1. m.artifacts \in Seq(Object)
        BY <1>1, ManifestAssumption
    <2>2. m.artifacts[i] \in Object
        BY <2>1
    <2>3. QED BY <2>2, PathFacts, ContentFacts DEF Retained, KeepsImmutables
<1>4. QED BY <1>2, <1>3 DEF Retained

(***************************************************************************)
(* The invariant.                                                          *)
(***************************************************************************)
LEMMA InitInv == Init => VerifiedInv
<1> SUFFICES ASSUME Init PROVE VerifiedInv
    OBVIOUS
<1>1. TypeOK
    <2>1. /\ main \in Repository /\ pulls \in [Pull -> PullRequest]
          /\ edits \in 0..MaxEdits
        BY EmptyRepositoryFacts, BoundAssumption DEF Init
    <2>2. /\ published \in [Source -> SUBSET Shown]
          /\ published \in [Source -> SUBSET Release]
          /\ overlooked \in BOOLEAN
        BY DEF Init
    <2>3. QED BY <2>1, <2>2 DEF TypeOK
<1>2. \A s \in Source : Sound(s, main.files[s]) /\ HistoryBehindMain(s)
    BY EmptyRepositoryFacts, EmptyTreeSound DEF Init, HistoryBehindMain
<1>3. \A q \in Pull : ForkBehindMain(q) /\ GreenCheck(q)
    BY DEF Init, NoPull, ForkBehindMain, GreenCheck
<1>4. ~overlooked
    BY DEF Init
<1>5. QED BY <1>1, <1>2, <1>3, <1>4 DEF VerifiedInv

\* main descends from the fork point of an open pull request.
LEMMA ForkDescends ==
    ASSUME VerifiedInv, NEW q \in Pull, pulls[q].status # "none",
           NEW s \in Source
    PROVE  Descends(main.files[s], pulls[q].fork.files[s])
<1>1. /\ Sound(s, pulls[q].fork.files[s]) /\ Sound(s, pulls[q].base.files[s])
      /\ Descends(pulls[q].base.files[s], pulls[q].fork.files[s])
      /\ Descends(main.files[s], pulls[q].base.files[s])
      /\ Sound(s, main.files[s])
    BY DEF VerifiedInv, ForkBehindMain
<1>2. QED BY <1>1, DescendsTransitive

\* A step that leaves main alone and changes one pull request.
LEMMA OnePullChanges ==
    ASSUME VerifiedInv, NEW q \in Pull, NEW pull \in PullRequest,
           pulls' = [pulls EXCEPT ![q] = pull],
           UNCHANGED <<main, published, overlooked>>, edits' \in 0..MaxEdits,
           ForkBehindMain(q)', GreenCheck(q)'
    PROVE  VerifiedInv'
<1>1. TypeOK'
    BY DEF VerifiedInv, TypeOK
<1>2. \A s \in Source : (Sound(s, main.files[s]) /\ HistoryBehindMain(s))'
    BY DEF VerifiedInv, HistoryBehindMain
<1>3. ASSUME NEW x \in Pull PROVE (ForkBehindMain(x) /\ GreenCheck(x))'
    <2>1. CASE x = q
        BY <2>1
    <2>2. CASE x # q
        <3>1. pulls'[x] = pulls[x]
            BY <2>2 DEF VerifiedInv, TypeOK
        <3>2. QED BY <3>1 DEF VerifiedInv, ForkBehindMain, GreenCheck
    <2>3. QED BY <2>1, <2>2
<1>4. QED BY <1>1, <1>2, <1>3 DEF VerifiedInv

\* A pull request whose fork point lies behind main and whose check is not
\* green needs no more.
LEMMA PullNotGreen ==
    ASSUME VerifiedInv, NEW q \in Pull, NEW pull \in PullRequest,
           pulls' = [pulls EXCEPT ![q] = pull],
           UNCHANGED <<main, published, overlooked>>, edits' \in 0..MaxEdits,
           pull.status \in {"open", "failed"},
           \/ pull.fork = main
           \/ pulls[q].status # "none" /\ pull.fork = pulls[q].fork,
           \/ pull.base = main
           \/ /\ pulls[q].status # "none"
              /\ pull.base = pulls[q].base /\ pull.fork = pulls[q].fork
    PROVE  VerifiedInv'
<1>1. pulls'[q] = pull
    BY DEF VerifiedInv, TypeOK
<1>2. ASSUME NEW s \in Source
      PROVE  /\ Sound(s, pull.fork.files[s])
             /\ Sound(s, pull.base.files[s])
             /\ Descends(pull.base.files[s], pull.fork.files[s])
             /\ Descends(main.files[s], pull.base.files[s])
    <2>1. Sound(s, main.files[s]) /\ Descends(main.files[s], main.files[s])
        BY DescendsReflexive DEF VerifiedInv
    <2>2. CASE pull.fork = main /\ pull.base = main
        BY <2>1, <2>2
    <2>3. ASSUME pulls[q].status # "none"
          PROVE  /\ Sound(s, pulls[q].fork.files[s])
                 /\ Sound(s, pulls[q].base.files[s])
                 /\ Descends(pulls[q].base.files[s], pulls[q].fork.files[s])
                 /\ Descends(main.files[s], pulls[q].base.files[s])
                 /\ Descends(main.files[s], pulls[q].fork.files[s])
        BY <2>1, <2>3, ForkDescends DEF VerifiedInv, ForkBehindMain
    <2>4. QED BY <2>1, <2>2, <2>3
<1>3. ForkBehindMain(q)'
    BY <1>1, <1>2 DEF ForkBehindMain
<1>4. GreenCheck(q)'
    BY <1>1 DEF GreenCheck
<1>5. QED BY <1>3, <1>4, OnePullChanges

\* A push changes one pull request, whose check is void then.
LEMMA PushType ==
    ASSUME TypeOK, NEW q \in Pull, NEW head \in Repository,
           CanPush(q), Push(q, head)
    PROVE  \E pull \in PullRequest :
              /\ pulls' = [pulls EXCEPT ![q] = pull]
              /\ pull.status = "open" /\ pull.head = head
              /\ pull.fork = pulls[q].fork /\ pull.base = main
<1> DEFINE pull == [pulls[q] EXCEPT !.head = head, !.commits = @ + 1,
                                    !.status = "open", !.base = main,
                                    !.checked = EmptyRepository]
<1>1. pulls[q] \in PullRequest /\ main \in Repository
    BY DEF TypeOK
<1>2. pull \in PullRequest
    <2>1. /\ pulls[q].commits \in 0..MaxCommits
          /\ pulls[q].commits < MaxCommits
        BY <1>1 DEF PullRequest, CanPush
    <2>2. pulls[q].commits + 1 \in 0..MaxCommits
        BY <2>1, BoundAssumption
    <2>3. QED BY <1>1, <2>2, EmptyRepositoryFacts DEF PullRequest, Status
<1>3. /\ pull.status = "open" /\ pull.head = head
      /\ pull.fork = pulls[q].fork /\ pull.base = main
    BY <1>1 DEF PullRequest
<1>4. pulls' = [pulls EXCEPT ![q] = pull]
    BY DEF Push, TypeOK
<1> HIDE DEF pull
<1>5. QED BY <1>2, <1>3, <1>4

\* Every commit is a push of a repository; one that is not made by hand
\* leaves the files of no source alone.
LEMMA CommitType ==
    ASSUME TypeOK, NEW q \in Pull,
           \/ Materialize(q) \/ EditFile(q) \/ RemoveSource(q) \/ EditOther(q)
           \/ MoveOut(q)
    PROVE  /\ CanPush(q) /\ UNCHANGED <<main, published, overlooked>>
           /\ edits' \in 0..MaxEdits
           /\ edits' = 0 => edits = 0
           /\ \E head \in Repository :
                 /\ Push(q, head)
                 /\ edits' = 0 => head.other = pulls[q].head.other
<1> DEFINE head == pulls[q].head
<1>1. /\ head \in Repository /\ edits \in 0..MaxEdits
      /\ \A s \in Source : head.files[s] \in Tree
    BY DEF TypeOK, PullRequest, Repository
<1>2. CASE Materialize(q)
    <2>1. PICK release \in Materializable(head) :
             Push(q, [head EXCEPT !.files[release.manifest.source] =
                        MergeTrees(@, ReleaseFiles(release))])
        BY <1>2 DEF Materialize
    <2>2. release \in Release /\ LoadRelease(release)
        BY DEF Materializable, CanMaterialize
    <2>3. release.manifest.source \in Source
        BY <2>2, ManifestAssumption DEF Release
    <2>4. \A p \in Path : ReleaseFiles(release)[p] \in Content \cup {NoFile}
        <3> SUFFICES ASSUME NEW p \in Path
                     PROVE  ReleaseFiles(release)[p] \in Content \cup {NoFile}
            OBVIOUS
        <3> DEFINE m == release.manifest
                   r == release.root
        <3>1. m \in Content /\ r \in Content /\ BuildPackage(m, r) \in Content
            BY <2>2 DEF Release, Content, Package, BuildPackage
        <3>2. ASSUME p \in ArtifactPaths(m) PROVE p[2] \in Content
            <4>1. PICK i \in DOMAIN m.artifacts : p = ObjectPath(m.artifacts[i])
                BY <3>2 DEF ArtifactPaths
            <4>2. m.artifacts \in Seq(Object)
                BY <2>2, ManifestAssumption DEF Release
            <4>3. m.artifacts[i] \in Object
                BY <4>2
            <4>4. QED BY <4>1, <4>3 DEF ObjectPath, Content
        <3>3. \/ ReleaseFiles(release)[p] \in {m, r, BuildPackage(m, r), NoFile}
              \/ p \in ArtifactPaths(m) /\ ReleaseFiles(release)[p] = p[2]
            BY DEF ReleaseFiles
        <3>4. QED BY <3>1, <3>2, <3>3
    <2>5. \A t \in Tree : MergeTrees(t, ReleaseFiles(release)) \in Tree
        BY <2>4 DEF MergeTrees, Tree
    <2>6. [head EXCEPT !.files[release.manifest.source] =
              MergeTrees(@, ReleaseFiles(release))] \in Repository
        BY <1>1, <2>3, <2>5 DEF Repository
    <2>7. CanPush(q) /\ UNCHANGED <<main, published, edits, overlooked>>
        BY <1>2 DEF Materialize
    <2>8. [head EXCEPT !.files[release.manifest.source] =
              MergeTrees(@, ReleaseFiles(release))].other = head.other
        BY <1>1 DEF Repository
    <2>9. QED BY <1>1, <2>1, <2>6, <2>7, <2>8
<1>3. ASSUME EditFile(q) \/ RemoveSource(q) \/ EditOther(q) \/ MoveOut(q)
      PROVE  /\ CanPush(q) /\ UNCHANGED <<main, published, overlooked>>
             /\ edits' \in 0..MaxEdits /\ edits' # 0
    <2>1. edits' = edits + 1 /\ edits < MaxEdits
        BY <1>3 DEF EditFile, RemoveSource, EditOther, MoveOut
    <2>2. edits' \in 0..MaxEdits /\ edits' # 0
        BY <1>1, <2>1, BoundAssumption
    <2>3. QED BY <1>3, <2>2 DEF EditFile, RemoveSource, EditOther, MoveOut
<1>4. CASE EditFile(q)
    <2>1. PICK s \in Source, p \in Path, c \in Content \cup {NoFile} :
             Push(q, [head EXCEPT !.files[s][p] = c])
        BY <1>4 DEF EditFile
    <2>2. [head.files[s] EXCEPT ![p] = c] \in Tree
        BY <1>1 DEF Tree
    <2>3. [head EXCEPT !.files[s][p] = c] \in Repository
        BY <1>1, <2>2 DEF Repository
    <2>4. QED BY <1>3, <1>4, <2>1, <2>3
<1>5. CASE RemoveSource(q)
    <2>1. PICK s \in Source : Push(q, [head EXCEPT !.files[s] = EmptyTree])
        BY <1>5 DEF RemoveSource
    <2>2. [head EXCEPT !.files[s] = EmptyTree] \in Repository
        BY <1>1, EmptyRepositoryFacts DEF Repository
    <2>3. QED BY <1>3, <1>5, <2>1, <2>2
<1>6. CASE EditOther(q)
    <2>1. PICK x \in OtherPath :
             Push(q, [head EXCEPT !.other = (@ \ {x}) \cup ({x} \ @)])
        BY <1>6 DEF EditOther
    <2>2. [head EXCEPT !.other = (@ \ {x}) \cup ({x} \ @)] \in Repository
        BY <1>1 DEF Repository
    <2>3. QED BY <1>3, <1>6, <2>1, <2>2
<1>7. CASE MoveOut(q)
    <2> DEFINE Moved(s, x, files) ==
            [head EXCEPT !.files[s] = [p \in Path |-> IF p \in files THEN NoFile
                                                      ELSE head.files[s][p]],
                         !.other = @ \cup {x}]
    <2>1. PICK s \in Source, x \in OtherPath :
             \E files : Push(q, Moved(s, x, files))
        BY <1>7 DEF MoveOut
    <2>2. PICK files : Push(q, Moved(s, x, files))
        BY <2>1
    <2>3. [p \in Path |-> IF p \in files THEN NoFile ELSE head.files[s][p]] \in Tree
        BY <1>1 DEF Tree
    <2>4. Moved(s, x, files) \in Repository
        BY <1>1, <2>3 DEF Repository
    <2>5. QED BY <1>3, <1>7, <2>2, <2>4
<1>8. QED BY <1>2, <1>4, <1>5, <1>6, <1>7

LEMMA PushInv ==
    ASSUME VerifiedInv, NEW q \in Pull, NEW head \in Repository,
           CanPush(q), Push(q, head), UNCHANGED <<main, published, overlooked>>,
           edits' \in 0..MaxEdits
    PROVE  VerifiedInv'
<1>1. PICK pull \in PullRequest :
         /\ pulls' = [pulls EXCEPT ![q] = pull] /\ pull.status = "open"
         /\ pull.fork = pulls[q].fork /\ pull.base = main
    BY PushType DEF VerifiedInv
<1>2. pulls[q].status # "none"
    BY DEF CanPush
<1>3. QED BY <1>1, <1>2, PullNotGreen

LEMMA CommitInv ==
    ASSUME VerifiedInv, NEW q \in Pull,
           \/ Materialize(q) \/ EditFile(q) \/ RemoveSource(q) \/ EditOther(q)
           \/ MoveOut(q)
    PROVE  VerifiedInv'
<1>1. /\ CanPush(q) /\ UNCHANGED <<main, published, overlooked>>
      /\ edits' \in 0..MaxEdits
      /\ \E head \in Repository : Push(q, head)
    BY CommitType DEF VerifiedInv
<1>2. QED BY <1>1, PushInv

LEMMA OpenPullInv ==
    ASSUME VerifiedInv, NEW q \in Pull, OpenPull(q)
    PROVE  VerifiedInv'
<1> DEFINE pull == [NoPull EXCEPT !.status = "open", !.fork = main,
                                  !.head = main, !.base = main]
<1>1. main \in Repository /\ edits' \in 0..MaxEdits
    BY DEF VerifiedInv, TypeOK, OpenPull
<1>2. /\ pull \in PullRequest /\ pull.status = "open"
      /\ pull.fork = main /\ pull.base = main
    BY <1>1, EmptyRepositoryFacts, BoundAssumption DEF PullRequest, Status, NoPull
<1>3. pulls' = [pulls EXCEPT ![q] = pull] /\ UNCHANGED <<main, published, overlooked>>
    BY DEF OpenPull
<1> HIDE DEF pull
<1>4. QED BY <1>1, <1>2, <1>3, PullNotGreen

LEMMA UpdateBranchInv ==
    ASSUME VerifiedInv, NEW q \in Pull, UpdateBranch(q)
    PROVE  VerifiedInv'
<1> DEFINE head == ThreeWayMerge(pulls[q].fork, main, pulls[q].head)
           pull == [pulls[q] EXCEPT !.fork = main, !.head = head,
                                    !.status = "open", !.base = main,
                                    !.checked = EmptyRepository]
<1>1. /\ main \in Repository /\ pulls[q] \in PullRequest
      /\ pulls[q].fork \in Repository /\ pulls[q].head \in Repository
      /\ edits' \in 0..MaxEdits
    BY DEF VerifiedInv, TypeOK, PullRequest, UpdateBranch
<1>2. head \in Repository
    BY <1>1, MergeRepository
<1> HIDE DEF head
<1>3. /\ pull \in PullRequest /\ pull.status = "open"
      /\ pull.fork = main /\ pull.base = main
    BY <1>1, <1>2, EmptyRepositoryFacts DEF PullRequest, Status
<1>4. pulls' = [pulls EXCEPT ![q] = pull] /\ UNCHANGED <<main, published, overlooked>>
    BY DEF UpdateBranch, VerifiedInv, TypeOK, head
<1> HIDE DEF pull
<1>5. QED BY <1>1, <1>3, <1>4, PullNotGreen

LEMMA RunReleaseCheckInv ==
    ASSUME VerifiedInv, NEW q \in Pull, RunReleaseCheck(q), ~overlooked'
    PROVE  VerifiedInv'
<1> DEFINE cand == ThreeWayMerge(pulls[q].fork, main, pulls[q].head)
<1>1. /\ main \in Repository /\ pulls[q] \in PullRequest
      /\ pulls[q].fork \in Repository /\ pulls[q].head \in Repository
      /\ pulls[q].base \in Repository /\ pulls[q].status = "open"
      /\ edits' \in 0..MaxEdits /\ UNCHANGED <<main, published>>
      /\ ~overlooked
    BY DEF VerifiedInv, TypeOK, PullRequest, RunReleaseCheck
<1>2. cand \in Repository
    BY <1>1, MergeRepository
<1>3. PICK list \in ChangedFiles(pulls[q].base, cand) :
         IF VerifyRelease(pulls[q].base, cand, list)
         THEN /\ pulls' = [pulls EXCEPT ![q].status = "passed", ![q].checked = main]
              /\ overlooked' = (overlooked \/ Overlooks(pulls[q].base, cand, list))
         ELSE /\ pulls' = [pulls EXCEPT ![q].status = "failed"]
              /\ UNCHANGED overlooked
    BY DEF RunReleaseCheck
<1>4. CASE VerifyRelease(pulls[q].base, cand, list)
    <2> DEFINE pull == [pulls[q] EXCEPT !.status = "passed", !.checked = main]
    <2>1. /\ pull \in PullRequest
          /\ pull.status = "passed" /\ pull.checked = main
          /\ pull.base = pulls[q].base
          /\ pull.fork = pulls[q].fork /\ pull.head = pulls[q].head
        BY <1>1 DEF PullRequest, Status
    <2>2. pulls' = [pulls EXCEPT ![q] = pull]
        BY <1>3, <1>4 DEF VerifiedInv, TypeOK
    <2>3. pulls'[q] = pull
        BY <2>2 DEF VerifiedInv, TypeOK
    <2>4. ForkBehindMain(q)'
        BY <1>1, <2>1, <2>3 DEF VerifiedInv, ForkBehindMain
    <2>5. \A s \in Source :
             /\ Sound(s, main.files[s])
             /\ Descends(main.files[s], pulls[q].fork.files[s])
             /\ Descends(main.files[s], main.files[s])
             /\ VerifiedStep(s, main.files[s], cand.files[s])
        <3> TAKE s \in Source
        <3>1. Sound(s, main.files[s])
            BY DEF VerifiedInv
        <3>2. Descends(main.files[s], pulls[q].fork.files[s])
            BY <1>1, ForkDescends
        <3>3. VerifiedStep(s, pulls[q].base.files[s], cand.files[s])
            BY <1>1, <1>2, <1>3, <1>4, VerifyReleaseStep
        <3>4. /\ Sound(s, pulls[q].fork.files[s])
              /\ Sound(s, pulls[q].base.files[s])
              /\ Descends(pulls[q].base.files[s], pulls[q].fork.files[s])
              /\ Descends(main.files[s], pulls[q].base.files[s])
              /\ MergeableFiles(pulls[q].fork.files[s], main.files[s],
                                pulls[q].head.files[s])
            BY <1>1 DEF VerifiedInv, ForkBehindMain, RunReleaseCheck, Mergeable
        <3>5. /\ pulls[q].fork.files[s] \in Tree /\ main.files[s] \in Tree
              /\ pulls[q].base.files[s] \in Tree /\ pulls[q].head.files[s] \in Tree
            BY <1>1 DEF Repository
        <3>6. cand.files[s] = MergeFiles(pulls[q].fork.files[s], main.files[s],
                                         pulls[q].head.files[s])
            BY <1>1, MergeRepository
        <3>7. VerifiedStep(s, main.files[s], cand.files[s])
            BY <3>1, <3>3, <3>4, <3>5, <3>6, StaleBaseStep
        <3>8. QED BY <3>1, <3>2, <3>7, DescendsReflexive
    <2>6. Mergeable(pulls[q].fork, main, pulls[q].head)
        BY DEF RunReleaseCheck
    <2>7. GreenCheck(q)'
        BY <1>1, <2>1, <2>3, <2>5, <2>6 DEF GreenCheck
    <2>8. overlooked' = overlooked
        BY <1>1, <1>3, <1>4 DEF VerifiedInv, TypeOK
    <2>9. QED BY <1>1, <2>1, <2>2, <2>4, <2>7, <2>8, OnePullChanges
<1>5. CASE ~VerifyRelease(pulls[q].base, cand, list)
    <2> DEFINE pull == [pulls[q] EXCEPT !.status = "failed"]
    <2>1. /\ pull \in PullRequest
          /\ pull.status = "failed" /\ pull.fork = pulls[q].fork
          /\ pull.base = pulls[q].base
        BY <1>1 DEF PullRequest, Status
    <2>2. pulls' = [pulls EXCEPT ![q] = pull]
        BY <1>3, <1>5 DEF VerifiedInv, TypeOK
    <2>3. overlooked' = overlooked
        BY <1>3, <1>5
    <2>4. QED BY <1>1, <2>1, <2>2, <2>3, PullNotGreen
<1>6. QED BY <1>4, <1>5

LEMMA ClosePullInv ==
    ASSUME VerifiedInv, NEW q \in Pull, ClosePull(q)
    PROVE  VerifiedInv'
<1>1. /\ pulls' = [pulls EXCEPT ![q] = NoPull]
      /\ UNCHANGED <<main, published, overlooked>>
      /\ edits' \in 0..MaxEdits
    BY DEF ClosePull, VerifiedInv, TypeOK
<1>2. pulls'[q].status = "none"
    BY <1>1 DEF VerifiedInv, TypeOK, NoPull
<1>3. ForkBehindMain(q)' /\ GreenCheck(q)'
    BY <1>2 DEF ForkBehindMain, GreenCheck
<1>4. QED BY <1>1, <1>3, EmptyRepositoryFacts, OnePullChanges

\* A checked pull request that git can merge makes a verified step of main,
\* however old its check is.
LEMMA GreenMerge ==
    ASSUME VerifiedInv, NEW q \in Pull, pulls[q].status = "passed",
           Mergeable(pulls[q].fork, main, pulls[q].head), NEW s \in Source
    PROVE  VerifiedStep(s, main.files[s],
               ThreeWayMerge(pulls[q].fork, main, pulls[q].head).files[s])
<1> DEFINE fork == pulls[q].fork
           base == pulls[q].checked
           head == pulls[q].head
<1>1. /\ main \in Repository /\ fork \in Repository
      /\ base \in Repository /\ head \in Repository
    BY DEF VerifiedInv, TypeOK, PullRequest
<1>2. /\ main.files[s] \in Tree /\ fork.files[s] \in Tree
      /\ base.files[s] \in Tree /\ head.files[s] \in Tree
    BY <1>1 DEF Repository
<1>3. /\ Sound(s, base.files[s])
      /\ Descends(base.files[s], fork.files[s])
      /\ Descends(main.files[s], base.files[s])
      /\ VerifiedStep(s, base.files[s], ThreeWayMerge(fork, base, head).files[s])
      /\ MergeableFiles(fork.files[s], base.files[s], head.files[s])
    BY DEF VerifiedInv, GreenCheck, Mergeable
<1>4. Sound(s, main.files[s]) /\ Sound(s, fork.files[s])
    BY DEF VerifiedInv, ForkBehindMain
<1>5. MergeableFiles(fork.files[s], main.files[s], head.files[s])
    BY DEF Mergeable
<1>6. VerifiedStep(s, base.files[s],
          MergeFiles(fork.files[s], base.files[s], head.files[s]))
    BY <1>1, <1>3, MergeRepository
<1>7. VerifiedStep(s, main.files[s],
          MergeFiles(fork.files[s], main.files[s], head.files[s]))
    BY <1>2, <1>3, <1>4, <1>5, <1>6, MergeStep
<1>8. QED BY <1>1, <1>7, MergeRepository

\* Every merge moves main forward.
LEMMA MergePullForward ==
    ASSUME VerifiedInv, NEW q \in Pull, MergePull(q)
    PROVE  /\ main' \in Repository
           /\ \A s \in Source :
                 /\ main.files[s] \in Tree /\ main'.files[s] \in Tree
                 /\ VerifiedStep(s, main.files[s], main'.files[s])
                 /\ Sound(s, main.files[s]) /\ Sound(s, main'.files[s])
                 /\ Descends(main'.files[s], main.files[s])
<1>1. /\ main \in Repository /\ pulls[q].fork \in Repository
      /\ pulls[q].head \in Repository
    BY DEF VerifiedInv, TypeOK, PullRequest
<1>2. main' \in Repository
    BY <1>1, MergeRepository DEF MergePull
<1>3. ASSUME NEW s \in Source
      PROVE  /\ main.files[s] \in Tree /\ main'.files[s] \in Tree
             /\ VerifiedStep(s, main.files[s], main'.files[s])
             /\ Sound(s, main.files[s]) /\ Sound(s, main'.files[s])
             /\ Descends(main'.files[s], main.files[s])
    <2>1. main.files[s] \in Tree /\ main'.files[s] \in Tree
        BY <1>1, <1>2 DEF Repository
    <2>2. VerifiedStep(s, main.files[s], main'.files[s])
        BY GreenMerge DEF MergePull
    <2>3. Sound(s, main.files[s])
        BY DEF VerifiedInv
    <2>4. QED BY <2>1, <2>2, <2>3, VerifiedStepDescends
<1>4. QED BY <1>2, <1>3

LEMMA SoundRelease ==
    ASSUME NEW s, NEW t, Sound(s, t), Exists(t)
    PROVE  LiveRelease(t) \in Release /\ Retained(t, LiveRelease(t))
<1>1. LiveRelease(t) \in Release
    BY SoundLive DEF LiveRelease, Release
<1>2. VerifyPublishedSource(s, t)
    BY DEF Sound
<1>3. Retained(t, LiveRelease(t))
    BY <1>2 DEF Retained, LiveRelease, VerifyPublishedSource
<1>4. QED BY <1>1, <1>3

LEMMA MergePullInv ==
    ASSUME VerifiedInv, NEW q \in Pull, MergePull(q)
    PROVE  VerifiedInv'
<1>1. /\ main' \in Repository
      /\ \A s \in Source :
            /\ Sound(s, main.files[s]) /\ Sound(s, main'.files[s])
            /\ Descends(main'.files[s], main.files[s])
    BY MergePullForward
<1>2. /\ pulls' = [pulls EXCEPT ![q] = NoPull]
      /\ published' = [s \in Source |-> published[s] \cup ShownBy(main'.files[s])]
      /\ edits' = edits /\ overlooked' = overlooked
    BY DEF MergePull
<1>3. ASSUME NEW s \in Source
      PROVE  published'[s] = published[s] \cup ShownBy(main'.files[s])
    BY <1>2
<1>4. TypeOK'
    <2>1. \A s \in Source : published'[s] \in SUBSET Release
        BY <1>1, <1>3, SoundRelease DEF VerifiedInv, TypeOK, ShownBy
    <2>2. published' \in [Source -> SUBSET Release]
        BY <1>2, <2>1
    <2>6. published' \in [Source -> SUBSET Shown]
        BY <2>2 DEF Release, Shown, Content
    <2>3. pulls' \in [Pull -> PullRequest]
        BY <1>2, EmptyRepositoryFacts DEF VerifiedInv, TypeOK
    <2>4. edits' \in 0..MaxEdits
        BY <1>2 DEF VerifiedInv, TypeOK
    <2>5. QED BY <1>1, <1>2, <2>2, <2>3, <2>4, <2>6 DEF TypeOK, VerifiedInv
<1>5. ASSUME NEW s \in Source PROVE HistoryBehindMain(s)'
    <2> SUFFICES ASSUME NEW release \in published'[s]
                 PROVE  /\ Exists(main'.files[s])
                        /\ Retained(main'.files[s], release)
                        /\ RevocationsKept(release.manifest.revocations,
                              main'.files[s][LiveManifest].revocations)
        BY DEF HistoryBehindMain
    <2> DEFINE t == main.files[s]
               u == main'.files[s]
    <2>1. Sound(s, t) /\ Sound(s, u) /\ Descends(u, t)
        BY <1>1
    <2>2. CASE release \in published[s]
        <3>1. /\ release \in Release
              /\ Exists(t) /\ Retained(t, release)
              /\ RevocationsKept(release.manifest.revocations,
                                 t[LiveManifest].revocations)
            BY <2>2 DEF VerifiedInv, TypeOK, HistoryBehindMain
        <3>2. LiveForward(u, t) /\ KeepsImmutables(u, t)
            BY <2>1, <3>1 DEF Descends
        <3>3. Exists(u)
            BY <3>2 DEF LiveForward
        <3>4. Retained(u, release)
            BY <3>1, <3>2, RetainedKept
        <3>5. /\ release.manifest \in SignedManifest
              /\ t[LiveManifest] \in SignedManifest
              /\ u[LiveManifest] \in SignedManifest
            BY <2>1, <3>1, <3>3, SoundLive DEF Release
        <3>6. RevocationsKept(t[LiveManifest].revocations,
                              u[LiveManifest].revocations)
            BY <3>2 DEF LiveForward
        <3>7. RevocationsKept(release.manifest.revocations,
                              u[LiveManifest].revocations)
            BY <3>1, <3>5, <3>6, RevocationsKeptTransitive
        <3>8. QED BY <3>3, <3>4, <3>7
    <2>3. CASE release \in ShownBy(u)
        <3>1. Exists(u) /\ release = LiveRelease(u)
            BY <2>3 DEF ShownBy
        <3>2. Retained(u, release)
            BY <2>1, <3>1, SoundRelease
        <3>3. release.manifest = u[LiveManifest]
            BY <3>1 DEF LiveRelease
        <3>4. QED BY <2>1, <3>1, <3>2, <3>3, SoundLive, RevocationsKeptReflexive
    <2>4. QED BY <1>3, <2>2, <2>3
<1>6. ASSUME NEW x \in Pull PROVE ForkBehindMain(x)' /\ GreenCheck(x)'
    <2>1. CASE x = q
        <3>1. pulls'[x].status = "none"
            BY <1>2, <2>1 DEF VerifiedInv, TypeOK, NoPull
        <3>2. QED BY <3>1 DEF ForkBehindMain, GreenCheck
    <2>2. CASE x # q
        <3>1. pulls'[x] = pulls[x]
            BY <1>2, <2>2 DEF VerifiedInv, TypeOK
        <3>2. ForkBehindMain(x)'
            <4> SUFFICES ASSUME pulls[x].status # "none", NEW s \in Source
                         PROVE  Descends(main'.files[s], pulls[x].base.files[s])
                BY <3>1 DEF VerifiedInv, ForkBehindMain
            <4>1. /\ Sound(s, pulls[x].base.files[s])
                  /\ Descends(main.files[s], pulls[x].base.files[s])
                BY DEF VerifiedInv, ForkBehindMain
            <4>2. QED BY <1>1, <4>1, DescendsTransitive
        <3>3. GreenCheck(x)'
            <4> SUFFICES ASSUME pulls[x].status = "passed", NEW s \in Source
                         PROVE  Descends(main'.files[s], pulls[x].checked.files[s])
                BY <3>1 DEF VerifiedInv, GreenCheck
            <4>1. /\ Sound(s, pulls[x].checked.files[s])
                  /\ Descends(main.files[s], pulls[x].checked.files[s])
                BY DEF VerifiedInv, GreenCheck
            <4>2. QED BY <1>1, <4>1, DescendsTransitive
        <3>4. QED BY <3>2, <3>3
    <2>3. QED BY <2>1, <2>2
<1>7. ~overlooked'
    BY <1>2 DEF VerifiedInv
<1>8. QED BY <1>1, <1>4, <1>5, <1>6, <1>7 DEF VerifiedInv

LEMMA NextInv == VerifiedInv /\ [Next]_vars /\ ~overlooked' => VerifiedInv'
<1> SUFFICES ASSUME VerifiedInv, [Next]_vars, ~overlooked' PROVE VerifiedInv'
    OBVIOUS
<1>1. CASE UNCHANGED vars
    BY <1>1 DEF vars, VerifiedInv, TypeOK, HistoryBehindMain,
                ForkBehindMain, GreenCheck
<1>2. CASE Next
    <2>1. PICK q \in Pull :
             \/ OpenPull(q) \/ UpdateBranch(q) \/ RunReleaseCheck(q)
             \/ MergePull(q) \/ ClosePull(q)
             \/ Materialize(q) \/ EditFile(q) \/ RemoveSource(q) \/ EditOther(q)
             \/ MoveOut(q)
        BY <1>2 DEF Next
    <2>2. QED BY <2>1, OpenPullInv, UpdateBranchInv, RunReleaseCheckInv,
                 MergePullInv, ClosePullInv, CommitInv
<1>3. QED BY <1>1, <1>2

(***************************************************************************)
(* What needs no check to be complete: the types of the variables, and     *)
(* what a green check has let through.                                     *)
(***************************************************************************)

\* Any tree shows something of the type of published.
LEMMA ShownType ==
    ASSUME NEW tree \in Tree
    PROVE  ShownBy(tree) \subseteq Shown
BY PathFacts DEF ShownBy, LiveRelease, Shown, Tree

\* A step changes one pull request or none, and main only with a merge; a
\* check that turns green is a verdict on the merge it saw.
LEMMA StepType ==
    ASSUME TypeOK, NEW q \in Pull,
           \/ OpenPull(q) \/ UpdateBranch(q) \/ RunReleaseCheck(q)
           \/ MergePull(q) \/ ClosePull(q)
           \/ Materialize(q) \/ EditFile(q) \/ RemoveSource(q) \/ EditOther(q)
           \/ MoveOut(q)
    PROVE  /\ main' \in Repository
           /\ published' \in [Source -> SUBSET Shown]
           /\ edits' \in 0..MaxEdits
           /\ overlooked' \in BOOLEAN /\ (overlooked => overlooked')
           /\ \E pull \in PullRequest :
                 /\ pulls' = [pulls EXCEPT ![q] = pull]
                 /\ pull.status = "passed" =>
                       LET base == pulls[q].base
                           cand == ThreeWayMerge(pulls[q].fork, main, pulls[q].head)
                       IN  /\ pull.base = base /\ pull.fork = pulls[q].fork
                           /\ pull.head = pulls[q].head /\ pull.checked = main
                           /\ \E list \in ChangedFiles(base, cand) :
                                 VerifyRelease(base, cand, list)
<1>1. /\ main \in Repository /\ pulls \in [Pull -> PullRequest]
      /\ published \in [Source -> SUBSET Shown]
      /\ edits \in 0..MaxEdits /\ overlooked \in BOOLEAN
      /\ pulls[q] \in PullRequest
      /\ pulls[q].fork \in Repository /\ pulls[q].head \in Repository
    BY DEF TypeOK, PullRequest
<1>2. CASE \/ Materialize(q) \/ EditFile(q) \/ RemoveSource(q) \/ EditOther(q)
           \/ MoveOut(q)
    <2>1. /\ CanPush(q) /\ UNCHANGED <<main, published, overlooked>>
          /\ edits' \in 0..MaxEdits
          /\ \E head \in Repository : Push(q, head)
        BY <1>2, CommitType
    <2>2. \E pull \in PullRequest :
             pulls' = [pulls EXCEPT ![q] = pull] /\ pull.status = "open"
        BY <2>1, PushType
    <2>3. QED BY <1>1, <2>1, <2>2
<1>3. CASE OpenPull(q)
    <2> DEFINE pull == [NoPull EXCEPT !.status = "open", !.fork = main,
                                      !.head = main, !.base = main]
    <2>1. pull \in PullRequest /\ pull.status = "open"
        BY <1>1, EmptyRepositoryFacts, BoundAssumption DEF PullRequest, Status, NoPull
    <2>2. /\ pulls' = [pulls EXCEPT ![q] = pull]
          /\ UNCHANGED <<main, published, edits, overlooked>>
        BY <1>3 DEF OpenPull
    <2> HIDE DEF pull
    <2>3. QED BY <1>1, <2>1, <2>2
<1>4. CASE UpdateBranch(q)
    <2> DEFINE head == ThreeWayMerge(pulls[q].fork, main, pulls[q].head)
               pull == [pulls[q] EXCEPT !.fork = main, !.head = head,
                                        !.status = "open", !.base = main,
                                        !.checked = EmptyRepository]
    <2>1. head \in Repository
        BY <1>1, MergeRepository
    <2>2. /\ pulls' = [pulls EXCEPT ![q] = pull]
          /\ UNCHANGED <<main, published, edits, overlooked>>
        BY <1>1, <1>4 DEF UpdateBranch
    <2> HIDE DEF head
    <2>3. pull \in PullRequest /\ pull.status = "open"
        BY <1>1, <2>1, EmptyRepositoryFacts DEF PullRequest, Status
    <2> HIDE DEF pull
    <2>4. QED BY <1>1, <2>2, <2>3
<1>5. CASE RunReleaseCheck(q)
    <2> DEFINE base == pulls[q].base
               cand == ThreeWayMerge(pulls[q].fork, main, pulls[q].head)
               green == [pulls[q] EXCEPT !.status = "passed", !.checked = main]
               red == [pulls[q] EXCEPT !.status = "failed"]
    <2>1. PICK list \in ChangedFiles(base, cand) :
             IF VerifyRelease(base, cand, list)
             THEN /\ pulls' = [pulls EXCEPT ![q].status = "passed",
                                            ![q].checked = main]
                  /\ overlooked' = (overlooked \/ Overlooks(base, cand, list))
             ELSE /\ pulls' = [pulls EXCEPT ![q].status = "failed"]
                  /\ UNCHANGED overlooked
        BY <1>5 DEF RunReleaseCheck
    <2>2. UNCHANGED <<main, published, edits>>
        BY <1>5 DEF RunReleaseCheck
    <2>3. overlooked' \in BOOLEAN /\ (overlooked => overlooked')
        BY <1>1, <2>1
    <2>4. CASE VerifyRelease(base, cand, list)
        <3>1. /\ green \in PullRequest /\ green.checked = main
              /\ green.base = base /\ green.fork = pulls[q].fork
              /\ green.head = pulls[q].head
            BY <1>1 DEF PullRequest, Status
        <3>2. pulls' = [pulls EXCEPT ![q] = green]
            BY <1>1, <2>1, <2>4
        <3> HIDE DEF green
        <3>3. QED BY <1>1, <2>2, <2>3, <2>4, <3>1, <3>2
    <2>5. CASE ~VerifyRelease(base, cand, list)
        <3>1. red \in PullRequest /\ red.status = "failed"
            BY <1>1 DEF PullRequest, Status
        <3>2. pulls' = [pulls EXCEPT ![q] = red]
            BY <1>1, <2>1, <2>5
        <3> HIDE DEF red
        <3>3. QED BY <1>1, <2>2, <2>3, <3>1, <3>2
    <2>6. QED BY <2>4, <2>5
<1>6. CASE MergePull(q)
    <2>1. main' \in Repository
        BY <1>1, <1>6, MergeRepository DEF MergePull
    <2>2. published' = [s \in Source |-> published[s] \cup ShownBy(main'.files[s])]
        BY <1>6 DEF MergePull
    <2>3. ASSUME NEW s \in Source PROVE ShownBy(main'.files[s]) \subseteq Shown
        BY <2>1, ShownType DEF Repository
    <2>4. published' \in [Source -> SUBSET Shown]
        BY <1>1, <2>2, <2>3
    <2>5. pulls' = [pulls EXCEPT ![q] = NoPull] /\ UNCHANGED <<edits, overlooked>>
        BY <1>6 DEF MergePull
    <2>6. QED BY <1>1, <2>1, <2>4, <2>5, EmptyRepositoryFacts DEF NoPull
<1>7. CASE ClosePull(q)
    <2>1. /\ pulls' = [pulls EXCEPT ![q] = NoPull]
          /\ UNCHANGED <<main, published, edits, overlooked>>
        BY <1>7 DEF ClosePull
    <2>2. QED BY <1>1, <2>1, EmptyRepositoryFacts DEF NoPull
<1>8. QED BY <1>2, <1>3, <1>4, <1>5, <1>6, <1>7

LEMMA NextSteps ==
    ASSUME Next
    PROVE  \E q \in Pull :
              \/ OpenPull(q) \/ UpdateBranch(q) \/ RunReleaseCheck(q)
              \/ MergePull(q) \/ ClosePull(q)
              \/ Materialize(q) \/ EditFile(q) \/ RemoveSource(q) \/ EditOther(q)
              \/ MoveOut(q)
BY Zenon DEF Next

\* The invariant as a whole.  What a check overlooks is overlooked for good.
LEMMA NextPublication == PublicationInv /\ [Next]_vars => PublicationInv'
<1> SUFFICES ASSUME PublicationInv, [Next]_vars PROVE PublicationInv'
    OBVIOUS
<1>1. CASE UNCHANGED vars
    BY <1>1 DEF vars, PublicationInv, VerifiedInv, TypeOK, HistoryBehindMain,
                ForkBehindMain, GreenCheck
<1>2. CASE Next
    <2>1. PICK q \in Pull :
             \/ OpenPull(q) \/ UpdateBranch(q) \/ RunReleaseCheck(q)
             \/ MergePull(q) \/ ClosePull(q)
             \/ Materialize(q) \/ EditFile(q) \/ RemoveSource(q) \/ EditOther(q)
             \/ MoveOut(q)
        BY <1>2, NextSteps
    <2>2. /\ main' \in Repository
          /\ published' \in [Source -> SUBSET Shown]
          /\ edits' \in 0..MaxEdits
          /\ overlooked' \in BOOLEAN /\ (overlooked => overlooked')
          /\ \E pull \in PullRequest : pulls' = [pulls EXCEPT ![q] = pull]
        BY <2>1, StepType DEF PublicationInv
    <2>3. pulls' \in [Pull -> PullRequest]
        BY <2>2 DEF PublicationInv, TypeOK
    <2>4. CASE overlooked'
        BY <2>2, <2>3, <2>4 DEF PublicationInv, TypeOK
    <2>5. CASE ~overlooked'
        <3>1. VerifiedInv
            BY <2>2, <2>5 DEF PublicationInv
        <3>2. VerifiedInv'
            BY <2>5, <3>1, NextInv
        <3>3. QED BY <3>2 DEF PublicationInv, VerifiedInv
    <2>6. QED BY <2>4, <2>5
<1>3. QED BY <1>1, <1>2

(***************************************************************************)
(* The theorems.                                                           *)
(***************************************************************************)

\* The inductive invariant holds in every reachable state.
THEOREM InvariantTheorem == Spec => []PublicationInv
<1>1. Init => PublicationInv
    BY InitInv DEF PublicationInv, VerifiedInv
<1>2. QED BY <1>1, NextPublication, PTL DEF Spec

\* Types: in particular every release main has shown, until a check overlooks
\* a change, decoded as a pair of envelopes (verifyPublishedSource).
THEOREM TypeTheorem == Spec => []TypeOK
<1>1. PublicationInv => TypeOK
    BY DEF PublicationInv
<1>2. QED BY <1>1, InvariantTheorem, PTL

\* Whatever the changed-file list leaves out, a green check lets nothing into
\* a source that it has not verified.
THEOREM UnverifiedTheorem == Spec => []UnverifiedOnlyRemoves
<1>1. Init => UnverifiedOnlyRemoves
    BY DEF Init, NoPull, UnverifiedOnlyRemoves
<1>2. ASSUME TypeOK, UnverifiedOnlyRemoves, [Next]_vars
      PROVE  UnverifiedOnlyRemoves'
    <2>1. CASE UNCHANGED vars
        BY <1>2, <2>1 DEF vars, UnverifiedOnlyRemoves
    <2>2. CASE Next
        <3>1. PICK q \in Pull, pull \in PullRequest :
                 /\ pulls' = [pulls EXCEPT ![q] = pull]
                 /\ pull.status = "passed" =>
                       LET base == pulls[q].base
                           cand == ThreeWayMerge(pulls[q].fork, main, pulls[q].head)
                       IN  /\ pull.base = base /\ pull.fork = pulls[q].fork
                           /\ pull.head = pulls[q].head /\ pull.checked = main
                           /\ \E list \in ChangedFiles(base, cand) :
                                 VerifyRelease(base, cand, list)
            BY <1>2, <2>2, NextSteps, StepType
        <3>2. SUFFICES ASSUME NEW x \in Pull, pulls'[x].status = "passed",
                              NEW s \in Source
                       PROVE  LET merge == ThreeWayMerge(pulls'[x].fork,
                                              pulls'[x].checked, pulls'[x].head)
                              IN  \/ \A p \in Path : merge.files[s][p] \in
                                         {pulls'[x].base.files[s][p], NoFile}
                                  \/ VerifiedStep(s, pulls'[x].base.files[s],
                                                  merge.files[s])
            BY DEF UnverifiedOnlyRemoves
        <3>3. CASE x # q
            <4>1. pulls'[x] = pulls[x]
                BY <1>2, <3>1, <3>3 DEF TypeOK
            <4>2. QED BY <1>2, <3>2, <4>1 DEF UnverifiedOnlyRemoves
        <3>4. CASE x = q
            <4> DEFINE base == pulls[q].base
                       cand == ThreeWayMerge(pulls[q].fork, main, pulls[q].head)
            <4>1. pulls'[x] = pull
                BY <1>2, <3>1, <3>4 DEF TypeOK
            <4>2. /\ main \in Repository /\ pulls[q].fork \in Repository
                  /\ pulls[q].head \in Repository /\ base \in Repository
                BY <1>2 DEF TypeOK, PullRequest
            <4>3. cand \in Repository
                BY <4>2, MergeRepository
            <4>4. /\ pull.base = base
                  /\ ThreeWayMerge(pull.fork, pull.checked, pull.head) = cand
                  /\ \E list \in ChangedFiles(base, cand) :
                        VerifyRelease(base, cand, list)
                BY <3>1, <3>2, <4>1
            <4> HIDE DEF base, cand
            <4>5. \/ \A p \in Path : cand.files[s][p] \in {base.files[s][p], NoFile}
                  \/ VerifiedStep(s, base.files[s], cand.files[s])
                BY <4>2, <4>3, <4>4, GreenVerdict
            <4>6. QED BY <4>1, <4>4, <4>5
        <3>5. QED BY <3>3, <3>4
    <2>3. QED BY <1>2, <2>1, <2>2
<1>3. QED BY <1>1, <1>2, TypeTheorem, PTL DEF Spec

\* A green check of the release workflow is never made wrong by the pull
\* requests that merge after it.
THEOREM StaleCheckTheorem == Spec => []StaleCheckStillHolds
<1>1. PublicationInv => StaleCheckStillHolds
    BY GreenMerge DEF StaleCheckStillHolds, PublicationInv
<1>2. QED BY <1>1, InvariantTheorem, PTL

\* Main always serves a release that verifies and is complete.
THEOREM LiveClosureTheorem == Spec => []LiveClosure
<1>1. ASSUME PublicationInv PROVE LiveClosure
    <2> SUFFICES ASSUME ~overlooked, NEW s \in Source, Exists(main.files[s])
                 PROVE  LET tree == main.files[s]
                            m == tree[LiveManifest]
                            r == tree[LiveRoot]
                        IN  /\ LiveRelease(tree) \in Release
                            /\ m.source = s
                            /\ Cardinality(Signers(r.signatures, r)) >= RootThreshold
                            /\ Cardinality(Signers(m.signatures, r)) >= RootThreshold
                            /\ \A i \in DOMAIN m.artifacts :
                                  tree[ObjectPath(m.artifacts[i])] = m.artifacts[i]
                            /\ tree[PackagePath(m)] = BuildPackage(m, r)
        BY DEF LiveClosure
    <2>1. Sound(s, main.files[s])
        BY <1>1 DEF PublicationInv, VerifiedInv
    <2>2. LiveRelease(main.files[s]) \in Release
        BY <2>1, SoundRelease
    <2>3. VerifyPublishedSource(s, main.files[s])
        BY <2>1 DEF Sound
    <2>4. QED BY <2>2, <2>3 DEF VerifyPublishedSource, VerifySignedBytes,
                                ValidateRoot
<1>2. PublicationInv => LiveClosure
    BY <1>1
<1>3. QED BY <1>2, InvariantTheorem, PTL

\* Nothing that was ever published is lost.
THEOREM RetainedTheorem == Spec => []EverPublishedRetained
<1>1. PublicationInv => EverPublishedRetained
    BY DEF PublicationInv, VerifiedInv, HistoryBehindMain, EverPublishedRetained
<1>2. QED BY <1>1, InvariantTheorem, PTL

\* Revocations are cumulative over the whole history.
THEOREM RevocationsTheorem == Spec => []RevocationsCumulative
<1>1. PublicationInv => RevocationsCumulative
    BY DEF PublicationInv, VerifiedInv, HistoryBehindMain, RevocationsCumulative
<1>2. QED BY <1>1, InvariantTheorem, PTL

\* Only a merge changes what is live and what has been.
LEMMA OnlyMerges ==
    ASSUME [Next]_vars
    PROVE  (main' = main /\ published' = published) \/ \E q \in Pull : MergePull(q)
<1>1. CASE UNCHANGED vars
    BY <1>1 DEF vars
<1>2. CASE Next
    <2>1. PICK q \in Pull :
             \/ OpenPull(q) \/ UpdateBranch(q) \/ RunReleaseCheck(q)
             \/ MergePull(q) \/ ClosePull(q)
             \/ Materialize(q) \/ EditFile(q) \/ RemoveSource(q) \/ EditOther(q)
             \/ MoveOut(q)
        BY <1>2, NextSteps
    <2>2. CASE MergePull(q)
        BY <2>2
    <2>3. CASE ~MergePull(q)
        <3>1. UNCHANGED <<main, published>>
            BY <2>1, <2>3, Zenon DEF OpenPull, Materialize, EditFile,
               RemoveSource, EditOther, MoveOut, UpdateBranch, RunReleaseCheck,
               ClosePull
        <3>2. QED BY <3>1
    <2>4. QED BY <2>2, <2>3
<1>3. QED BY <1>1, <1>2

\* A check that has overlooked something is never undone: while none has, the
\* invariant of the verified history holds before a step and after it.
LEMMA VerifiedSteps ==
    ASSUME PublicationInv, PublicationInv', [Next]_vars, ~overlooked'
    PROVE  ~overlooked /\ VerifiedInv /\ VerifiedInv'
<1>1. CASE UNCHANGED vars
    BY <1>1 DEF vars, PublicationInv
<1>2. CASE Next
    <2>1. PICK q \in Pull :
             \/ OpenPull(q) \/ UpdateBranch(q) \/ RunReleaseCheck(q)
             \/ MergePull(q) \/ ClosePull(q)
             \/ Materialize(q) \/ EditFile(q) \/ RemoveSource(q) \/ EditOther(q)
             \/ MoveOut(q)
        BY <1>2, NextSteps
    <2>2. overlooked => overlooked'
        BY <2>1, StepType DEF PublicationInv
    <2>3. QED BY <2>2 DEF PublicationInv
<1>3. QED BY <1>1, <1>2

\* A merge keeps every chain of archived roots and extends it when it rotates.
LEMMA ChainStep ==
    ASSUME VerifiedInv, VerifiedInv', ChainArchived,
           NEW q \in Pull, MergePull(q)
    PROVE  ChainArchived'
<1>1. ASSUME NEW s \in Source, NEW release \in published'[s]
      PROVE  LeadsTo(main'.files[s], release.root, main'.files[s][LiveRoot])
    <2> DEFINE t == main.files[s]
               u == main'.files[s]
    <2>1. /\ t \in Tree /\ u \in Tree /\ VerifiedStep(s, t, u)
          /\ Sound(s, u) /\ Descends(u, t)
        BY <1>1, MergePullForward
    <2>2. release \in published[s] \cup ShownBy(u)
        BY <1>1 DEF MergePull
    <2>3. CASE release \in published[s]
        <3>1. /\ Exists(t) /\ Retained(t, release)
              /\ LeadsTo(t, release.root, t[LiveRoot])
              /\ release \in Release
            BY <2>3 DEF VerifiedInv, HistoryBehindMain, ChainArchived, TypeOK
        <3>2. Exists(u) /\ LiveForward(u, t) /\ KeepsImmutables(u, t)
            BY <2>1, <3>1 DEF Descends, LiveForward
        <3>3. ArchivedRoots(t) \subseteq ArchivedRoots(u)
            BY <3>2, PathFacts, ContentFacts DEF ArchivedRoots, KeepsImmutables
        <3>4. release.root \in ArchivedRoots(t)
            BY <3>1 DEF Retained, ArchivedRoots, Release
        <3>5. u[LiveRoot] \in ArchivedRoots(u)
            BY <2>1, <3>2 DEF Sound, VerifyPublishedSource, ArchivedRoots
        <3>6. u[LiveRoot] = t[LiveRoot] \/ Bridged(t[LiveRoot], u[LiveRoot])
            <4>1. CASE LiveRelease(u) = LiveRelease(t)
                BY <4>1 DEF LiveRelease
            <4>2. CASE LiveRelease(u) # LiveRelease(t)
                <5>1. VerifyForwardOnly(t, u)
                    BY <2>1, <3>1, <4>2 DEF VerifiedStep
                <5>2. QED BY <5>1, <3>2 DEF VerifyForwardOnly, LiveForward, Bridged
            <4>3. QED BY <4>1, <4>2
        <3>7. ASSUME NEW R \in SUBSET ArchivedRoots(u), release.root \in R,
                     \A x \in R, y \in ArchivedRoots(u) : Bridged(x, y) => y \in R
              PROVE  u[LiveRoot] \in R
            <4> DEFINE Q == R \cap ArchivedRoots(t)
            <4>1. /\ Q \in SUBSET ArchivedRoots(t) /\ release.root \in Q
                  /\ \A x \in Q, y \in ArchivedRoots(t) : Bridged(x, y) => y \in Q
                BY <3>3, <3>4, <3>7
            <4>2. Q \subseteq R
                OBVIOUS
            <4> HIDE DEF Q
            <4>3. \A P \in SUBSET ArchivedRoots(t) :
                     /\ release.root \in P
                     /\ \A x \in P, y \in ArchivedRoots(t) : Bridged(x, y) => y \in P
                     => t[LiveRoot] \in P
                BY <3>1 DEF LeadsTo
            <4>4. t[LiveRoot] \in Q
                BY <4>1, <4>3, Zenon
            <4>5. QED BY <4>2, <4>4, <3>5, <3>6, <3>7
        <3>8. QED BY <3>7 DEF LeadsTo
    <2>4. CASE release \in ShownBy(u)
        <3>1. release.root = u[LiveRoot]
            BY <2>4 DEF ShownBy, LiveRelease
        <3>2. QED BY <3>1 DEF LeadsTo
    <2>5. QED BY <2>2, <2>3, <2>4
<1>2. QED BY <1>1 DEF ChainArchived

\* From every root that was ever live, main keeps an unbroken chain of
\* archived roots to the live one, whatever is merged in whatever order.
THEOREM ChainTheorem == Spec => []ChainArchived
<1>1. Init => ChainArchived
    BY DEF Init, ChainArchived
<1>2. ASSUME PublicationInv, PublicationInv', ChainArchived, [Next]_vars
      PROVE  ChainArchived'
    <2>1. CASE overlooked'
        BY <2>1 DEF ChainArchived
    <2>2. CASE ~overlooked' /\ main' = main /\ published' = published
        BY <1>2, <2>2, VerifiedSteps DEF ChainArchived
    <2>3. CASE ~overlooked' /\ ~(main' = main /\ published' = published)
        <3>1. PICK q \in Pull : MergePull(q)
            BY <1>2, <2>3, OnlyMerges
        <3>2. VerifiedInv /\ VerifiedInv'
            BY <1>2, <2>3, VerifiedSteps
        <3>3. QED BY <1>2, <3>1, <3>2, ChainStep
    <2>4. QED BY <2>1, <2>2, <2>3
<1>3. QED BY <1>1, <1>2, InvariantTheorem, PTL DEF Spec

\* Publication implements the log: whenever the live release of a source
\* changes, the new one supersedes the old one, until a check overlooks a
\* change.
THEOREM LogTheorem == Spec => PublicationLog
<1>1. Init => Log!LogInit
    <2> SUFFICES ASSUME Init
                 PROVE  Live = [s \in Source |-> {}] /\ (~overlooked) = TRUE
        BY DEF Log!LogInit
    <2>1. \A s \in Source : ShownBy(main.files[s]) = {}
        BY EmptyRepositoryFacts DEF Init, ShownBy
    <2>2. QED BY <2>1 DEF Live, Init
<1>2. ASSUME PublicationInv, PublicationInv', [Next]_vars
      PROVE  [Log!Publish \/ Log!Overlook]_<<Live, ~overlooked>>
    <2>1. CASE overlooked'
        BY <2>1 DEF Log!Overlook
    <2>2. CASE ~overlooked' /\ main' = main
        <3>1. Live' = Live
            BY <2>2 DEF Live
        <3>2. (~overlooked)' = (~overlooked)
            BY <1>2, <2>2, VerifiedSteps
        <3>3. QED BY <3>1, <3>2
    <2>3. CASE ~overlooked' /\ main' # main
        <3>1. PICK q \in Pull : MergePull(q)
            BY <1>2, <2>3, OnlyMerges
        <3>0. VerifiedInv /\ ~overlooked
            BY <1>2, <2>3, VerifiedSteps
        <3>2. ASSUME NEW s \in Source
              PROVE  \/ Live'[s] = Live[s]
                     \/ \E release \in Live'[s] :
                           /\ Live'[s] = {release}
                           /\ GenuineRelease(s, release)
                           /\ \A old \in Live[s] : SupersedesRelease(release, old)
            <4> DEFINE t == main.files[s]
                       u == main'.files[s]
                       new == LiveRelease(u)
            <4>1. Live[s] = ShownBy(t) /\ Live'[s] = ShownBy(u)
                BY DEF Live
            <4>2. /\ t \in Tree /\ u \in Tree /\ VerifiedStep(s, t, u)
                  /\ Sound(s, t) /\ Sound(s, u) /\ Descends(u, t)
                BY <3>0, <3>1, MergePullForward
            <4>3. CASE ~Exists(u)
                BY <4>1, <4>2, <4>3 DEF ShownBy, Descends, LiveForward
            <4>4. CASE Exists(u)
                <5>1. Live'[s] = {new}
                    BY <4>1, <4>4 DEF ShownBy
                <5>2. GenuineRelease(s, new)
                    BY <4>2, <4>4, SoundRelease
                       DEF GenuineRelease, Sound, VerifyPublishedSource, LiveRelease
                <5>3. ASSUME Exists(t), LiveRelease(t) # new
                      PROVE  SupersedesRelease(new, LiveRelease(t))
                    <6>1. LiveForward(u, t)
                        BY <4>2, <5>3 DEF Descends
                    <6>2. VerifyForwardOnly(t, u)
                        BY <4>2, <5>3 DEF VerifiedStep
                    <6>3. QED BY <5>3, <6>1, <6>2
                        DEF SupersedesRelease, LiveForward, VerifyForwardOnly,
                            LiveRelease
                <5>4. CASE Exists(t)
                    BY <4>1, <5>1, <5>2, <5>3, <5>4 DEF ShownBy
                <5>5. CASE ~Exists(t)
                    BY <4>1, <5>1, <5>2, <5>5 DEF ShownBy
                <5>6. QED BY <5>4, <5>5
            <4>5. QED BY <4>3, <4>4
        <3>3. DOMAIN Live' = Source
            BY DEF Live
        <3>4. Log!Publish
            BY <3>0, <2>3, <3>2, <3>3 DEF Log!Publish
        <3>5. QED BY <3>4, Zenon
    <2>4. QED BY <2>1, <2>2, <2>3
<1>3. QED BY <1>1, <1>2, InvariantTheorem, PTL DEF Spec, PublicationLog, Log!LogSpec

(***************************************************************************)
(* Releases that are materialized are never overlooked.                    *)
(***************************************************************************)
LEMMA MaterializedStep ==
    ASSUME TypeOK, MaterializedOnlyInv, [Next]_vars
    PROVE  MaterializedOnlyInv'
<1> SUFFICES ASSUME edits' = 0
             PROVE  /\ NoOtherFiles(main')
                    /\ \A x \in Pull : /\ NoOtherFiles(pulls'[x].fork)
                                       /\ NoOtherFiles(pulls'[x].head)
                                       /\ NoOtherFiles(pulls'[x].base)
                    /\ ~overlooked'
    BY DEF MaterializedOnlyInv
<1> DEFINE Clean(pull) == /\ NoOtherFiles(pull.fork) /\ NoOtherFiles(pull.head)
                          /\ NoOtherFiles(pull.base)
<1>1. CASE UNCHANGED vars
    BY <1>1 DEF vars, MaterializedOnlyInv
<1>2. CASE Next
    <2>1. PICK q \in Pull :
             \/ OpenPull(q) \/ UpdateBranch(q) \/ RunReleaseCheck(q)
             \/ MergePull(q) \/ ClosePull(q)
             \/ Materialize(q) \/ EditFile(q) \/ RemoveSource(q) \/ EditOther(q)
             \/ MoveOut(q)
        BY <1>2, NextSteps
    <2>2. edits = 0
        <3>1. CASE \/ Materialize(q) \/ EditFile(q) \/ RemoveSource(q)
                   \/ EditOther(q) \/ MoveOut(q)
            BY <3>1, CommitType
        <3>2. CASE \/ OpenPull(q) \/ UpdateBranch(q) \/ RunReleaseCheck(q)
                   \/ MergePull(q) \/ ClosePull(q)
            BY <3>2 DEF OpenPull, UpdateBranch, RunReleaseCheck, MergePull, ClosePull
        <3>3. QED BY <2>1, <3>1, <3>2
    <2>3. /\ NoOtherFiles(main) /\ \A x \in Pull : Clean(pulls[x])
          /\ ~overlooked
        BY <2>2 DEF MaterializedOnlyInv
    <2>4. /\ main \in Repository /\ pulls \in [Pull -> PullRequest]
          /\ pulls[q] \in PullRequest /\ pulls[q].fork \in Repository
          /\ pulls[q].head \in Repository /\ pulls[q].base \in Repository
        BY DEF TypeOK, PullRequest
    <2>5. NoOtherFiles(ThreeWayMerge(pulls[q].fork, main, pulls[q].head))
        BY <2>3 DEF NoOtherFiles, ThreeWayMerge
    <2>6. NoOtherFiles(EmptyRepository)
        BY DEF NoOtherFiles, EmptyRepository
    <2>7. SUFFICES /\ NoOtherFiles(main') /\ ~overlooked'
                   /\ \E pull : pulls' = [pulls EXCEPT ![q] = pull] /\ Clean(pull)
        <3>1. ASSUME NEW pull, pulls' = [pulls EXCEPT ![q] = pull], Clean(pull),
                     NEW x \in Pull
              PROVE  Clean(pulls'[x])
            <4>1. CASE x = q
                BY <2>4, <3>1, <4>1
            <4>2. CASE x # q
                BY <2>3, <2>4, <3>1, <4>2
            <4>3. QED BY <4>1, <4>2
        <3>2. QED BY <3>1
    <2> HIDE DEF Clean
    <2>8. CASE \/ Materialize(q) \/ EditFile(q) \/ RemoveSource(q)
               \/ EditOther(q) \/ MoveOut(q)
        <3>1. /\ CanPush(q) /\ UNCHANGED <<main, published, overlooked>>
              /\ \E head \in Repository :
                    Push(q, head) /\ head.other = pulls[q].head.other
            BY <2>8, CommitType
        <3>2. PICK head \in Repository :
                 Push(q, head) /\ head.other = pulls[q].head.other
            BY <3>1
        <3>3. PICK pull \in PullRequest :
                 /\ pulls' = [pulls EXCEPT ![q] = pull]
                 /\ pull.head = head /\ pull.fork = pulls[q].fork
                 /\ pull.base = main
            BY <3>1, <3>2, PushType
        <3>4. Clean(pull)
            BY <2>3, <3>2, <3>3 DEF Clean, NoOtherFiles
        <3>5. QED BY <2>3, <3>1, <3>3, <3>4
    <2>9. CASE OpenPull(q)
        <3> DEFINE pull == [NoPull EXCEPT !.status = "open", !.fork = main,
                                          !.head = main, !.base = main]
        <3>1. pulls' = [pulls EXCEPT ![q] = pull]
            BY <2>9 DEF OpenPull
        <3>2. Clean(pull)
            BY <2>3 DEF Clean, NoPull
        <3> HIDE DEF pull
        <3>3. QED BY <2>3, <2>9, <3>1, <3>2 DEF OpenPull
    <2>10. CASE UpdateBranch(q)
        <3> DEFINE head == ThreeWayMerge(pulls[q].fork, main, pulls[q].head)
                   pull == [pulls[q] EXCEPT !.fork = main, !.head = head,
                                            !.status = "open", !.base = main,
                                            !.checked = EmptyRepository]
        <3>1. pulls' = [pulls EXCEPT ![q] = pull]
            BY <2>4, <2>10 DEF UpdateBranch
        <3> HIDE DEF head
        <3>2. pull.fork = main /\ pull.base = main /\ pull.head = head
            BY <2>4 DEF PullRequest
        <3>3. Clean(pull)
            BY <2>3, <2>5, <3>2 DEF Clean, head
        <3> HIDE DEF pull
        <3>4. QED BY <2>3, <2>10, <3>1, <3>3 DEF UpdateBranch
    <2>11. CASE RunReleaseCheck(q)
        <3> DEFINE base == pulls[q].base
                   cand == ThreeWayMerge(pulls[q].fork, main, pulls[q].head)
        <3>1. PICK list \in ChangedFiles(base, cand) :
                 IF VerifyRelease(base, cand, list)
                 THEN /\ pulls' = [pulls EXCEPT ![q].status = "passed",
                                                ![q].checked = main]
                      /\ overlooked' = (overlooked \/ Overlooks(base, cand, list))
                 ELSE /\ pulls' = [pulls EXCEPT ![q].status = "failed"]
                      /\ UNCHANGED overlooked
            BY <2>11 DEF RunReleaseCheck
        <3>2. cand \in Repository
            BY <2>4, MergeRepository
        <3>3. ~Overlooks(base, cand, list)
            <4> SUFFICES ASSUME base.files # cand.files, list.released = {}
                         PROVE  FALSE
                BY DEF Overlooks
            <4>1. cand.other = {}
                BY <2>5 DEF NoOtherFiles
            <4>2. cand.other \ base.other # {}
                BY <2>4, <3>2, ListedUnlessNew
            <4>3. QED BY <4>1, <4>2
        <3>4. ~overlooked'
            BY <2>3, <3>1, <3>3
        <3>5. \E pull : pulls' = [pulls EXCEPT ![q] = pull] /\ Clean(pull)
            <4> DEFINE green == [pulls[q] EXCEPT !.status = "passed", !.checked = main]
                       red == [pulls[q] EXCEPT !.status = "failed"]
            <4>1. \/ pulls' = [pulls EXCEPT ![q] = green]
                  \/ pulls' = [pulls EXCEPT ![q] = red]
                BY <2>4, <3>1
            <4>2. Clean(green) /\ Clean(red)
                BY <2>3, <2>4 DEF Clean, PullRequest
            <4> HIDE DEF green, red
            <4>3. QED BY <4>1, <4>2
        <3>6. QED BY <2>3, <2>11, <3>4, <3>5 DEF RunReleaseCheck
    <2>12. Clean(NoPull)
        BY <2>6 DEF Clean, NoPull
    <2>13. CASE MergePull(q)
        <3>1. /\ main' = ThreeWayMerge(pulls[q].fork, main, pulls[q].head)
              /\ pulls' = [pulls EXCEPT ![q] = NoPull] /\ UNCHANGED overlooked
            BY <2>13 DEF MergePull
        <3>2. NoOtherFiles(main')
            BY <2>5, <3>1
        <3>3. QED BY <2>3, <2>12, <3>1, <3>2
    <2>14. CASE ClosePull(q)
        <3>1. /\ pulls' = [pulls EXCEPT ![q] = NoPull]
              /\ UNCHANGED <<main, overlooked>>
            BY <2>14 DEF ClosePull
        <3>2. QED BY <2>3, <2>12, <3>1
    <2>15. QED BY <2>1, <2>8, <2>9, <2>10, <2>11, <2>13, <2>14
<1>3. QED BY <1>1, <1>2

\* Whoever only materializes releases is always verified: no green check has
\* overlooked a change unless a commit was made by hand.
THEOREM MaterializedTheorem == Spec => []OverlookedByHand
<1>1. Init => MaterializedOnlyInv
    BY DEF Init, MaterializedOnlyInv, NoOtherFiles, EmptyRepository, NoPull
<1>2. TypeOK /\ MaterializedOnlyInv => OverlookedByHand
    BY BoundAssumption DEF TypeOK, MaterializedOnlyInv, OverlookedByHand
<1>3. QED BY <1>1, <1>2, MaterializedStep, TypeTheorem, PTL DEF Spec
=============================================================================
