------------------------------ MODULE ReleaseTree ------------------------------
(***************************************************************************)
(* The release tree of one source, catalog/sources/<id>, and everything    *)
(* the materializer and the release verifier compute about it.             *)
(*                                                                         *)
(* A tree maps every path to the content found there, NoFile when there is *)
(* none.  A content-addressed path names the payload it is the digest of:  *)
(* SHA-256 is modelled as injective, and "archive/<version>/<digest>" as   *)
(* the pair of the word archive and the payload (which holds its version). *)
(* The two live paths are mutable, all others are not.                     *)
(***************************************************************************)
EXTENDS CatalogTrust

CONSTANTS
    Source,          \* source IDs
    Object,          \* artifact contents, each with its own digest
    RevocationId,
    RevocationTarget,
    SignedManifest,  \* the manifest envelopes that exist
    SignedRoot,      \* the root envelopes that exist
    OtherBytes,      \* contents that decode as none of the above
    UnsafeFile,      \* an entry that is not a regular file of mode 0644
    NoFile

Revocation == [id : RevocationId, target : RevocationTarget, version : Nat]

(***************************************************************************)
(* What the envelopes are made of.                                         *)
(***************************************************************************)
ASSUME ManifestAssumption ==
    \A m \in SignedManifest :
        /\ m.source \in Source
        /\ m.version \in Nat
        /\ m.artifacts \in Seq(Object)
        /\ m.revocations \in Seq(Revocation)
        /\ m.signatures \in Seq(Signature)

ASSUME RootAssumption ==
    \A r \in SignedRoot :
        /\ r.version \in Nat
        /\ r.threshold \in Nat
        /\ r.expires \in Nat
        /\ IsKeyMap(r.keys)
        /\ r.signatures \in Seq(Signature)

\* An envelope is its payload and its signatures, a digest covers the payload.
ManifestPayload(m) ==
    [source |-> m.source, version |-> m.version,
     artifacts |-> m.artifacts, revocations |-> m.revocations]

RootPayload(r) ==
    [version |-> r.version, threshold |-> r.threshold,
     expires |-> r.expires, keys |-> r.keys]

\* The deterministic offline package over a manifest, its objects and a root.
Package == [manifest : SignedManifest, root : SignedRoot]
BuildPackage(m, r) == [manifest |-> m, root |-> r]

Release == [manifest : SignedManifest, root : SignedRoot]

(***************************************************************************)
(* Paths below catalog/sources/<id>.                                       *)
(***************************************************************************)
LiveManifest       == <<"manifest.json">>
LiveRoot           == <<"root.json">>
UnknownPath        == <<"unknown">>    \* any path of no release shape
ObjectPath(o)      == <<"objects", o>>
ManifestArchive(m) == <<"archive", ManifestPayload(m)>>
RootArchive(r)     == <<"roots", RootPayload(r)>>
PackagePath(m)     == <<"packages", ManifestPayload(m)>>

Path ==
    {LiveManifest, LiveRoot, UnknownPath}
        \cup {ObjectPath(o) : o \in Object}
        \cup {ManifestArchive(m) : m \in SignedManifest}
        \cup {RootArchive(r) : r \in SignedRoot}
        \cup {PackagePath(m) : m \in SignedManifest}

\* Mutant: packages may be replaced.
MutImmutable(p) == p[1] \in {"objects", "archive", "roots"}

Immutable(p) == p[1] \in {"objects", "archive", "roots", "packages"}

Content ==
    Object \cup SignedManifest \cup SignedRoot \cup Package
        \cup OtherBytes \cup {UnsafeFile}

ASSUME NoFileAssumption == NoFile \notin Content
ASSUME UnsafeAssumption ==
    UnsafeFile \notin Object \cup SignedManifest \cup SignedRoot \cup Package

Tree      == [Path -> Content \cup {NoFile}]
EmptyTree == [p \in Path |-> NoFile]

\* Git keeps no empty directory: a source exists when it has a file.
Exists(tree) == \E p \in Path : tree[p] # NoFile

LiveRelease(tree) == [manifest |-> tree[LiveManifest], root |-> tree[LiveRoot]]

(***************************************************************************)
(* Reading and judging a tree.                                             *)
(***************************************************************************)

\* readSourceTree and classifyReleasePath: known paths only, safe metadata,
\* and an object lies at its own digest.  The digest in an archive, root or
\* package path is not compared with the content.
ReadSourceTree(tree) ==
    /\ tree[UnknownPath] = NoFile
    /\ \A p \in Path : tree[p] # UnsafeFile
    /\ \A o \in Object : tree[ObjectPath(o)] \in {NoFile, o}

\* validateCompleteSourceTree: some archive of the kind holds the live bytes.
ValidateCompleteSourceTree(tree) ==
    /\ tree[LiveManifest] # NoFile
    /\ tree[LiveRoot] # NoFile
    /\ \E o \in Object : tree[ObjectPath(o)] # NoFile
    /\ \E m \in SignedManifest : tree[ManifestArchive(m)] = tree[LiveManifest]
    /\ \E r \in SignedRoot : tree[RootArchive(r)] = tree[LiveRoot]
    /\ \E m \in SignedManifest : tree[PackagePath(m)] # NoFile

\* One source of readRepositorySources.
SourceReadable(tree) ==
    Exists(tree) => ReadSourceTree(tree) /\ ValidateCompleteSourceTree(tree)

\* Mutant: immutable files may be deleted.
MutVerifyReleaseDiff(base, candidate) ==
    /\ SourceReadable(base)
    /\ SourceReadable(candidate)
    /\ Exists(base) => Exists(candidate)
    /\ \A p \in Path :
          Immutable(p) /\ base[p] # NoFile => candidate[p] \in {NoFile, base[p]}

\* VerifyReleaseDiff for one source.
VerifyReleaseDiff(base, candidate) ==
    /\ SourceReadable(base)
    /\ SourceReadable(candidate)
    /\ Exists(base) => Exists(candidate)
    /\ \A p \in Path :
          Immutable(p) /\ base[p] # NoFile => candidate[p] = base[p]

NoRepeat(seq) == \A i, j \in DOMAIN seq : seq[i] = seq[j] => i = j

\* verifyPublishedSource: the live pointers and the closure they name.
VerifyPublishedSource(id, tree) ==
    LET m == tree[LiveManifest]
        r == tree[LiveRoot]
    IN  /\ m \in SignedManifest
        /\ r \in SignedRoot
        /\ m.source = id /\ m.version # 0 /\ r.version # 0
        /\ VerifySignedBytes(r.signatures, r)
        /\ VerifySignedBytes(m.signatures, r)
        /\ tree[ManifestArchive(m)] = m
        /\ tree[RootArchive(r)] = r
        /\ NoRepeat(m.artifacts)
        /\ \A i \in DOMAIN m.artifacts :
              tree[ObjectPath(m.artifacts[i])] = m.artifacts[i]
        /\ tree[PackagePath(m)] = BuildPackage(m, r)

\* verifyForwardOnly for a source present on both sides.
VersionForward(prior, next) ==
    \/ next.version > prior.version
    \/ next.version = prior.version /\ next = prior

\* Mutant: a changed root need not be signed under the root before it.
MutVerifyForwardOnly(prior, next) ==
    /\ VersionForward(prior[LiveManifest], next[LiveManifest])
    /\ VersionForward(prior[LiveRoot], next[LiveRoot])
    /\ VerifyRevocationsForward(prior[LiveManifest].revocations,
                                next[LiveManifest].revocations)

VerifyForwardOnly(prior, next) ==
    /\ VersionForward(prior[LiveManifest], next[LiveManifest])
    /\ VersionForward(prior[LiveRoot], next[LiveRoot])
    /\ next[LiveRoot] # prior[LiveRoot] =>
          /\ VerifySignedBytes(next[LiveRoot].signatures, prior[LiveRoot])
          /\ VerifySignedBytes(next[LiveManifest].signatures, prior[LiveRoot])
    /\ VerifyRevocationsForward(prior[LiveManifest].revocations,
                                next[LiveManifest].revocations)

(***************************************************************************)
(* Materializing an assembled release.                                     *)
(***************************************************************************)

\* Mutant: the manifest is not checked against the root beside it.
MutLoadRelease(release) ==
    LET m == release.manifest
        r == release.root
    IN  /\ m.version # 0 /\ r.version # 0
        /\ VerifySignedBytes(r.signatures, r)
        /\ NoRepeat(m.artifacts)

\* loadRelease on an assembled release directory; Assemble writes the archive
\* copies and the package from the same manifest and root.
LoadRelease(release) ==
    LET m == release.manifest
        r == release.root
    IN  /\ m.version # 0 /\ r.version # 0
        /\ VerifySignedBytes(r.signatures, r)
        /\ VerifySignedBytes(m.signatures, r)
        /\ NoRepeat(m.artifacts)

ArtifactPaths(m) == {ObjectPath(m.artifacts[i]) : i \in DOMAIN m.artifacts}

ReleaseFiles(release) ==
    LET m == release.manifest
        r == release.root
    IN  [p \in Path |->
            CASE p = LiveManifest       -> m
              [] p = LiveRoot           -> r
              [] p = ManifestArchive(m) -> m
              [] p = RootArchive(r)     -> r
              [] p = PackagePath(m)     -> BuildPackage(m, r)
              [] p \in ArtifactPaths(m) -> p[2]
              [] OTHER                  -> NoFile]

\* The merge of MaterializeRelease and its collision rule.
Collides(existing, incoming) ==
    \E p \in Path :
        /\ Immutable(p)
        /\ existing[p] # NoFile /\ incoming[p] # NoFile
        /\ existing[p] # incoming[p]

\* Mutant: the release replaces the tree instead of joining it.
MutMergeTrees(existing, incoming) == incoming

MergeTrees(existing, incoming) ==
    [p \in Path |-> IF incoming[p] # NoFile THEN incoming[p] ELSE existing[p]]

CanMaterialize(existing, release) ==
    /\ LoadRelease(release)
    /\ Exists(existing) => ReadSourceTree(existing)
    /\ ValidateCompleteSourceTree(ReleaseFiles(release))
    /\ ~Collides(existing, ReleaseFiles(release))
    /\ ValidateCompleteSourceTree(MergeTrees(existing, ReleaseFiles(release)))
=============================================================================
