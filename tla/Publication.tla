------------------------------ MODULE Publication ------------------------------
(***************************************************************************)
(* Publication is a protected Git transaction: maintainers open pull       *)
(* requests, put commits on them (materialized releases, or anything       *)
(* else), the release-tree workflow runs "verify-release" with the base of *)
(* the event that started it and the merge of the pull request with main,  *)
(* and a pull request with a green check merges later, into a main that    *)
(* other pull requests may have moved in the meantime.                     *)
(*                                                                         *)
(* The verifier judges one step (base, candidate).  The properties below   *)
(* are about what no single run of it sees: the main branch itself, over   *)
(* any interleaving of checks and merges.                                  *)
(***************************************************************************)
EXTENDS ReleaseTree

CONSTANTS
    OtherPath,    \* paths of no source, files or directories: tooling, policy
    PrefixEntry,  \* those of them that are files directly in catalog/sources
    Pull,         \* slots for pull requests that are open at a time
    MaxCommits,   \* bound: commits on one pull request
    MaxEdits      \* bound: commits made by hand in one behaviour

ASSUME OtherAssumption == PrefixEntry \subseteq OtherPath
ASSUME BoundAssumption == MaxCommits \in Nat /\ MaxEdits \in Nat

(***************************************************************************)
(* A repository tree: the trees of the sources and the other files.        *)
(***************************************************************************)
Repository == [files : [Source -> Tree], other : SUBSET OtherPath]
EmptyRepository ==
    [files |-> [s \in Source |-> EmptyTree], other |-> {}]

VARIABLES
    main,      \* the tree of the protected branch
    pulls,     \* per slot: status, fork point, head, base.sha of the last
               \* event, and (history) the main that a green check merged with
    published, \* history: the releases main has ever shown, per source
    edits,     \* number of commits made by hand so far
    overlooked \* history: some green check was not told of what it let through

vars == <<main, pulls, published, edits, overlooked>>

Status == {"none", "open", "passed", "failed"}
PullRequest ==
    [status : Status, fork : Repository, head : Repository,
     base : Repository, checked : Repository, commits : 0..MaxCommits]
NoPull ==
    [status |-> "none", fork |-> EmptyRepository, head |-> EmptyRepository,
     base |-> EmptyRepository, checked |-> EmptyRepository, commits |-> 0]

(***************************************************************************)
(* Git's three-way merge, file by file.  Two sides that changed one file   *)
(* differently conflict; that git carries a change to where the other side *)
(* has moved the file is left out.                                         *)
(***************************************************************************)
MergeableFiles(fork, ours, theirs) ==
    \A p \in Path : theirs[p] # fork[p] => ours[p] \in {fork[p], theirs[p]}

Mergeable(fork, ours, theirs) ==
    \A s \in Source :
        MergeableFiles(fork.files[s], ours.files[s], theirs.files[s])

MergeFiles(fork, ours, theirs) ==
    [p \in Path |-> IF theirs[p] = fork[p] THEN ours[p] ELSE theirs[p]]

ThreeWayMerge(fork, ours, theirs) ==
    [files |-> [s \in Source |->
                   MergeFiles(fork.files[s], ours.files[s], theirs.files[s])],
     other |-> (ours.other \ (fork.other \ theirs.other))
                   \cup (theirs.other \ fork.other)]

(***************************************************************************)
(* The list of changed files that the workflow hands to verify-release is  *)
(* what "git diff --name-only" prints, base.sha against the merge.  Git    *)
(* takes a removed file and a new one that are alike for one that moved,   *)
(* and prints its new name only.  Which contents are alike is left open:   *)
(* any removed files may be missing from the list when there is a new one. *)
(***************************************************************************)
Removed(base, candidate) ==
    {sp \in Source \X Path : /\ candidate.files[sp[1]][sp[2]] = NoFile
                             /\ base.files[sp[1]][sp[2]] # NoFile}
Modified(base, candidate) ==
    {sp \in Source \X Path :
        /\ candidate.files[sp[1]][sp[2]] # base.files[sp[1]][sp[2]]
        /\ NoFile \notin {candidate.files[sp[1]][sp[2]], base.files[sp[1]][sp[2]]}}

Added(base, candidate) == Removed(candidate, base)

SomethingNew(base, candidate) ==
    Added(base, candidate) # {} \/ candidate.other \ base.other # {}

Unlisted(base, candidate, removed) ==
    IF SomethingNew(base, candidate) THEN SUBSET removed ELSE {{}}

\* Mutant: modified files only ("--diff-filter=M").
MutChangedFiles(base, candidate) ==
    {[released |-> Modified(base, candidate), other |-> {}]}

ChangedFiles(base, candidate) ==
    {[released |-> Modified(base, candidate) \cup Added(base, candidate)
                      \cup (Removed(base, candidate) \ gone),
      other |-> (candidate.other \ base.other)
                      \cup ((base.other \ candidate.other) \ goneOther)] :
        gone \in Unlisted(base, candidate, Removed(base, candidate)),
        goneOther \in Unlisted(base, candidate, base.other \ candidate.other)}

\* A change in the sources of which the list has no trace.
Overlooks(base, candidate, list) ==
    base.files # candidate.files /\ list.released = {}

(***************************************************************************)
(* verify-release.                                                         *)
(***************************************************************************)

\* ValidateReleaseChangePaths over the changed files.
ChangedPathsValid(list) ==
    /\ \A s \in Source : <<s, UnknownPath>> \notin list.released
    /\ list.released = {} \/ list.other = {}

\* Mutant: the sense of the changed-path classification is inverted.
MutMustVerify(list) == list.other # {}

\* With no changed path at all the flag list is empty and everything is
\* verified; with other paths only, nothing is.
MustVerify(list) == list.released # {} \/ list.other = {}

\* readRepositorySources and verifyPublishedRepository: a foreign entry in
\* catalog/sources fails both.
PrefixClean(repo) == repo.other \cap PrefixEntry = {}

VerifyPublishedRepository(repo) ==
    \A s \in Source :
        Exists(repo.files[s]) => VerifyPublishedSource(s, repo.files[s])

\* Mutant: the forward-only loop ends at the first source it accepts.
MutVerifyRelease(base, candidate, list) ==
    /\ ChangedPathsValid(list)
    /\ MustVerify(list) =>
          /\ PrefixClean(base) /\ PrefixClean(candidate)
          /\ \A s \in Source :
                VerifyReleaseDiff(base.files[s], candidate.files[s])
          /\ VerifyPublishedRepository(base)
          /\ VerifyPublishedRepository(candidate)
          /\ \E s \in Source :
                Exists(base.files[s]) =>
                    VerifyForwardOnly(base.files[s], candidate.files[s])

VerifyRelease(base, candidate, list) ==
    /\ ChangedPathsValid(list)
    /\ MustVerify(list) =>
          /\ PrefixClean(base) /\ PrefixClean(candidate)
          /\ \A s \in Source :
                VerifyReleaseDiff(base.files[s], candidate.files[s])
          /\ VerifyPublishedRepository(base)
          /\ VerifyPublishedRepository(candidate)
          /\ \A s \in Source :
                Exists(base.files[s]) =>
                    VerifyForwardOnly(base.files[s], candidate.files[s])

\* What a tree shows as live, if it exists; without one of the live paths, or
\* with other bytes there, that is no release.
Shown == [manifest : Content \cup {NoFile}, root : Content \cup {NoFile}]
ShownBy(tree) == IF Exists(tree) THEN {LiveRelease(tree)} ELSE {}

(***************************************************************************)
(* The steps.                                                              *)
(***************************************************************************)
Init ==
    /\ main = EmptyRepository
    /\ pulls = [q \in Pull |-> NoPull]
    /\ published = [s \in Source |-> {}]
    /\ edits = 0
    /\ overlooked = FALSE

\* deploy/policy.md, step 1: start from the latest main.
OpenPull(q) ==
    /\ pulls[q].status = "none"
    /\ pulls' = [pulls EXCEPT ![q] = [NoPull EXCEPT
                     !.status = "open", !.fork = main, !.head = main,
                     !.base = main]]
    /\ UNCHANGED <<main, published, edits, overlooked>>

CanPush(q) ==
    /\ pulls[q].status # "none"
    /\ pulls[q].commits < MaxCommits

\* A push (event "synchronize") voids the earlier check and fixes base.sha.
Push(q, head) ==
    pulls' = [pulls EXCEPT ![q].head = head,
                           ![q].commits = @ + 1,
                           ![q].status = "open",
                           ![q].base = main,
                           ![q].checked = EmptyRepository]

Materializable(repo) ==
    {release \in Release :
        CanMaterialize(repo.files[release.manifest.source], release)}

\* catalog-publisher materialize, committed and pushed.
Materialize(q) ==
    /\ CanPush(q)
    /\ \E release \in Materializable(pulls[q].head) :
          Push(q, [pulls[q].head EXCEPT
                     !.files[release.manifest.source] =
                         MergeTrees(@, ReleaseFiles(release))])
    /\ UNCHANGED <<main, published, edits, overlooked>>

\* A hand-made commit: any content, or none, at any path of a source.
EditFile(q) ==
    /\ CanPush(q)
    /\ edits < MaxEdits
    /\ \E s \in Source, p \in Path, c \in Content \cup {NoFile} :
          /\ c # pulls[q].head.files[s][p]
          /\ Push(q, [pulls[q].head EXCEPT !.files[s][p] = c])
    /\ edits' = edits + 1
    /\ UNCHANGED <<main, published, overlooked>>

\* A hand-made commit that removes a source directory.
RemoveSource(q) ==
    /\ CanPush(q)
    /\ edits < MaxEdits
    /\ \E s \in {x \in Source : Exists(pulls[q].head.files[x])} :
          Push(q, [pulls[q].head EXCEPT !.files[s] = EmptyTree])
    /\ edits' = edits + 1
    /\ UNCHANGED <<main, published, overlooked>>

\* A hand-made commit that adds or removes another file.
EditOther(q) ==
    /\ CanPush(q)
    /\ edits < MaxEdits
    /\ \E x \in OtherPath :
          Push(q, [pulls[q].head EXCEPT !.other = (@ \ {x}) \cup ({x} \ @)])
    /\ edits' = edits + 1
    /\ UNCHANGED <<main, published, overlooked>>

\* A hand-made commit that moves a file of a source, or all of them, to a path
\* of no source.
MoveOut(q) ==
    /\ CanPush(q)
    /\ edits < MaxEdits
    /\ \E s \in Source, x \in OtherPath \ pulls[q].head.other :
          LET tree  == pulls[q].head.files[s]
              files == {p \in Path : tree[p] # NoFile}
          IN  \E moved \in {{p} : p \in files}
                              \cup (IF x \in PrefixEntry THEN {} ELSE {files}) :
                 /\ moved # {}
                 /\ Push(q, [pulls[q].head EXCEPT
                       !.files[s] = [p \in Path |->
                                        IF p \in moved THEN NoFile ELSE tree[p]],
                       !.other = @ \cup {x}])
    /\ edits' = edits + 1
    /\ UNCHANGED <<main, published, overlooked>>

\* Bring the branch up to date: main becomes its new fork point.
UpdateBranch(q) ==
    /\ pulls[q].status # "none"
    /\ pulls[q].fork # main
    /\ Mergeable(pulls[q].fork, main, pulls[q].head)
    /\ pulls' = [pulls EXCEPT
                    ![q].fork = main,
                    ![q].head = ThreeWayMerge(pulls[q].fork, main, pulls[q].head),
                    ![q].status = "open",
                    ![q].base = main,
                    ![q].checked = EmptyRepository]
    /\ UNCHANGED <<main, published, edits, overlooked>>

\* The workflow release-tree: the base.sha of the event that started it, and
\* the merge of the head with what main is by now.
RunReleaseCheck(q) ==
    /\ pulls[q].status = "open"
    /\ Mergeable(pulls[q].fork, main, pulls[q].head)
    /\ LET base      == pulls[q].base
           candidate == ThreeWayMerge(pulls[q].fork, main, pulls[q].head)
       IN  \E list \in ChangedFiles(base, candidate) :
              IF VerifyRelease(base, candidate, list)
              THEN /\ pulls' = [pulls EXCEPT ![q].status = "passed",
                                             ![q].checked = main]
                   /\ overlooked' =
                         (overlooked \/ Overlooks(base, candidate, list))
              ELSE /\ pulls' = [pulls EXCEPT ![q].status = "failed"]
                   /\ UNCHANGED overlooked
    /\ UNCHANGED <<main, published, edits>>

\* Merging needs a green check and no conflict, not an up-to-date branch.
MergePull(q) ==
    /\ pulls[q].status = "passed"
    /\ Mergeable(pulls[q].fork, main, pulls[q].head)
    /\ main' = ThreeWayMerge(pulls[q].fork, main, pulls[q].head)
    /\ published' = [s \in Source |->
                        published[s] \cup ShownBy(main'.files[s])]
    /\ pulls' = [pulls EXCEPT ![q] = NoPull]
    /\ UNCHANGED <<edits, overlooked>>

\* Before the merge the branch may always be abandoned.
ClosePull(q) ==
    /\ pulls[q].status # "none"
    /\ pulls' = [pulls EXCEPT ![q] = NoPull]
    /\ UNCHANGED <<main, published, edits, overlooked>>

Next ==
    \E q \in Pull :
        \/ OpenPull(q)
        \/ Materialize(q)
        \/ EditFile(q)
        \/ RemoveSource(q)
        \/ EditOther(q)
        \/ MoveOut(q)
        \/ UpdateBranch(q)
        \/ RunReleaseCheck(q)
        \/ MergePull(q)
        \/ ClosePull(q)

Spec == Init /\ [][Next]_vars

-----------------------------------------------------------------------------
(***************************************************************************)
(* Properties.                                                             *)
(***************************************************************************)

\* What the verifier asks of a source that a pull request changes.
VerifiedStep(s, old, new) ==
    new # old =>
        /\ VerifyReleaseDiff(old, new)
        /\ VerifyPublishedSource(s, new)
        /\ Exists(old) /\ LiveRelease(new) # LiveRelease(old) =>
              VerifyForwardOnly(old, new)

\* Every variable has its type; in particular whatever main has shown as live
\* was a pair of decodable envelopes (verifyPublishedSource decodes both).
\* Here and below "~overlooked" is: no green check had a changed-file list
\* without a trace of a change in the sources, see OverlookedByHand.
TypeOK ==
    /\ main \in Repository
    /\ pulls \in [Pull -> PullRequest]
    /\ published \in [Source -> SUBSET Shown]
    /\ edits \in 0..MaxEdits
    /\ overlooked \in BOOLEAN
    /\ ~overlooked => published \in [Source -> SUBSET Release]

\* A check that is not told of a change (the old name of a moved file) can be
\* green only when somebody has made a commit by hand: releases that are
\* materialized, checked, merged and brought up to date in any order are
\* always in the list.
OverlookedByHand == overlooked => edits > 0

\* Whatever its list leaves out, a green check lets into a source nothing that
\* was not verified: the tree that it saw is a verified step of its base, or
\* only lacks files of it.
UnverifiedOnlyRemoves ==
    \A q \in Pull : pulls[q].status = "passed" =>
        LET merge == ThreeWayMerge(pulls[q].fork, pulls[q].checked, pulls[q].head)
        IN  \A s \in Source :
                \/ \A p \in Path :
                      merge.files[s][p] \in {pulls[q].base.files[s][p], NoFile}
                \/ VerifiedStep(s, pulls[q].base.files[s], merge.files[s])

\* The live pointers of main always name a release a subscriber can verify
\* and fetch completely: signed by two holders of the live root, with every
\* object and the offline package over exactly these two envelopes.  The
\* verifier saw the merge with an older main.
LiveClosure ==
    ~overlooked => \A s \in Source : Exists(main.files[s]) =>
        LET tree == main.files[s]
            m == tree[LiveManifest]
            r == tree[LiveRoot]
        IN  /\ LiveRelease(tree) \in Release
            /\ m.source = s
            /\ Cardinality(Signers(r.signatures, r)) >= RootThreshold
            /\ Cardinality(Signers(m.signatures, r)) >= RootThreshold
            /\ \A i \in DOMAIN m.artifacts :
                  tree[ObjectPath(m.artifacts[i])] = m.artifacts[i]
            /\ tree[PackagePath(m)] = BuildPackage(m, r)

\* The immutable files of a release are in a tree.
Retained(tree, release) ==
    LET m == release.manifest
        r == release.root
    IN  /\ tree[ManifestArchive(m)] = m
        /\ tree[RootArchive(r)] = r
        /\ tree[PackagePath(m)] = BuildPackage(m, r)
        /\ \A i \in DOMAIN m.artifacts :
              tree[ObjectPath(m.artifacts[i])] = m.artifacts[i]

\* Whatever main has ever shown stays available: the archives, the objects
\* and the package of every published release are still in main, unchanged.
EverPublishedRetained ==
    ~overlooked => \A s \in Source : \A release \in published[s] :
        Retained(main.files[s], release)

\* Revocations are cumulative over the whole history of a source, not only
\* from one release to the next: the live manifest keeps each revocation any
\* published manifest had, never retargeted and never at a lower version.
RevocationsCumulative ==
    ~overlooked => \A s \in Source : \A release \in published[s] :
        RevocationsKept(release.manifest.revocations,
                        main.files[s][LiveManifest].revocations)

\* The roots in the archive of a tree, and the step from one to the next: a
\* later root that a threshold of the earlier one has signed.
ArchivedRoots(tree) == {r \in SignedRoot : tree[RootArchive(r)] = r}
Bridged(old, new) ==
    /\ new.version > old.version
    /\ VerifySignedBytes(new.signatures, old)

\* One root leads to another: the other is in every set of archived roots that
\* contains the one and, with a root, all archived roots bridged from it.
LeadsTo(tree, old, new) ==
    \A R \in SUBSET ArchivedRoots(tree) :
        /\ old \in R
        /\ \A x \in R, y \in ArchivedRoots(tree) : Bridged(x, y) => y \in R
        => new \in R

\* Whoever trusts a root that was live at any time, however many rotations
\* ago, finds in main an unbroken chain of archived roots up to the live one.
\* The verifier compares neighbours only, and archives by payload digest.
ChainArchived ==
    ~overlooked => \A s \in Source : \A release \in published[s] :
        LeadsTo(main.files[s], release.root, main.files[s][LiveRoot])

\* A green check is never made wrong by what merges after it: as long as git
\* can merge a checked pull request, the tree the merge makes would satisfy
\* the verifier against the main of the merge, in every source it changes.
StaleCheckStillHolds ==
    ~overlooked => \A q \in Pull :
        /\ pulls[q].status = "passed"
        /\ Mergeable(pulls[q].fork, main, pulls[q].head)
        => \A s \in Source :
              VerifiedStep(s, main.files[s],
                  ThreeWayMerge(pulls[q].fork, main, pulls[q].head).files[s])

(***************************************************************************)
(* The inductive invariant.  A source tree is sound when it passes the     *)
(* verifier on its own; it descends from another when it keeps the other's *)
(* immutable files and its live release is the other's or a later one,     *)
(* where a later root implies a later manifest: the package path of a      *)
(* manifest is immutable and its content includes the root.                *)
(***************************************************************************)
Sound(s, tree) ==
    /\ SourceReadable(tree)
    /\ Exists(tree) => VerifyPublishedSource(s, tree)

KeepsImmutables(new, old) ==
    \A p \in Path : Immutable(p) /\ old[p] # NoFile => new[p] = old[p]

LiveForward(new, old) ==
    /\ Exists(new)
    /\ \/ LiveRelease(new) = LiveRelease(old)
       \/ new[LiveManifest].version > old[LiveManifest].version
    /\ \/ new[LiveRoot] = old[LiveRoot]
       \/ new[LiveRoot].version > old[LiveRoot].version
    /\ RevocationsKept(old[LiveManifest].revocations,
                       new[LiveManifest].revocations)

Descends(new, old) ==
    /\ KeepsImmutables(new, old)
    /\ Exists(old) => LiveForward(new, old)

\* main has only moved forward from the fork point of an open pull request to
\* the base of its last event, and from there to now.
ForkBehindMain(q) ==
    pulls[q].status # "none" =>
        \A s \in Source :
            /\ Sound(s, pulls[q].fork.files[s])
            /\ Sound(s, pulls[q].base.files[s])
            /\ Descends(pulls[q].base.files[s], pulls[q].fork.files[s])
            /\ Descends(main.files[s], pulls[q].base.files[s])

\* A green check is as good as one that took the main it merged with for its
\* base; that main lies between the fork point and main.
GreenCheck(q) ==
    LET fork    == pulls[q].fork
        checked == pulls[q].checked
        head    == pulls[q].head
    IN  pulls[q].status = "passed" =>
            /\ Mergeable(fork, checked, head)
            /\ \A s \in Source :
                  /\ Sound(s, checked.files[s])
                  /\ Descends(checked.files[s], fork.files[s])
                  /\ Descends(main.files[s], checked.files[s])
                  /\ VerifiedStep(s, checked.files[s],
                         ThreeWayMerge(fork, checked, head).files[s])

\* Every release main has shown is retained and behind the live one.
HistoryBehindMain(s) ==
    \A release \in published[s] :
        /\ Exists(main.files[s])
        /\ Retained(main.files[s], release)
        /\ RevocationsKept(release.manifest.revocations,
                           main.files[s][LiveManifest].revocations)

VerifiedInv ==
    /\ TypeOK
    /\ ~overlooked
    /\ \A s \in Source : Sound(s, main.files[s]) /\ HistoryBehindMain(s)
    /\ \A q \in Pull : ForkBehindMain(q) /\ GreenCheck(q)

PublicationInv == TypeOK /\ (overlooked \/ VerifiedInv)

\* Without commits by hand there are no files but those of releases, so that
\* nothing a list could leave out is new anywhere else.
NoOtherFiles(repo) == repo.other = {}

MaterializedOnlyInv ==
    edits = 0 =>
        /\ NoOtherFiles(main)
        /\ \A q \in Pull : /\ NoOtherFiles(pulls[q].fork)
                           /\ NoOtherFiles(pulls[q].head)
                           /\ NoOtherFiles(pulls[q].base)
        /\ ~overlooked

(***************************************************************************)
(* Two statements of the documents, which the code does not keep.          *)
(***************************************************************************)

\* "verify-release ... rejects mixed changes and any immutable deletion or
\* mutation" (cmd/catalog-publisher/README.md): what a green check saw keeps
\* the immutable files of its base.  The workflow's list names a moved file by
\* its new name, and with names outside the sources only nothing is verified.
ImmutableDeletionRejected ==
    \A q \in Pull : pulls[q].status = "passed" =>
        LET merge == ThreeWayMerge(pulls[q].fork, pulls[q].checked, pulls[q].head)
        IN  \A s \in Source :
                KeepsImmutables(merge.files[s], pulls[q].base.files[s])

\* "It rejects ... unknown release paths" (docs/ARCHITECTURE.md): main never
\* holds an entry of catalog/sources that is neither a source nor the README.
\* ValidateReleaseChangePaths takes a file directly there for a non-release
\* path, and then nothing is verified.
NoUnknownReleasePath == PrefixClean(main)

(***************************************************************************)
(* Publication implements the log of CatalogLog.                           *)
(***************************************************************************)
Live == [s \in Source |-> ShownBy(main.files[s])]

GenuineRelease(source, release) ==
    /\ release \in Release
    /\ release.manifest.source = source
    /\ VerifySignedBytes(release.root.signatures, release.root)
    /\ VerifySignedBytes(release.manifest.signatures, release.root)

\* The order between two successive live releases: a strictly higher manifest
\* version, a root that is the same or a higher version and then bridged from
\* the old one, and every revocation kept.
SupersedesRelease(new, old) ==
    /\ new.manifest.version > old.manifest.version
    /\ \/ new.root = old.root
       \/ /\ new.root.version > old.root.version
          /\ VerifySignedBytes(new.root.signatures, old.root)
          /\ VerifySignedBytes(new.manifest.signatures, old.root)
    /\ RevocationsKept(old.manifest.revocations, new.manifest.revocations)

Log == INSTANCE CatalogLog WITH live <- Live,
                                sound <- ~overlooked,
                                Genuine <- GenuineRelease,
                                Supersedes <- SupersedesRelease

\* The live releases of main, whatever pull requests are checked and merged
\* in whatever order, form a log in which each release supersedes the one
\* before: a root rotation too comes with a higher manifest version.  The log
\* ends when a green check overlooks a change.
PublicationLog == Log!LogSpec
=============================================================================
