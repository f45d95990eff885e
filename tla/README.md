# Verification of unlock-catalog-publisher

TLA+ models of the catalog publisher, TLC runs that check them on small
instances, and TLAPS proofs for every instance. The reference is the code
under `src/`; every definition that models code is listed with its lines in
`PROJECT.json` ("map").

## The system

A catalog source is a versioned set of artifacts under a signed manifest. It is
published as a directory of a Git repository, `catalog/sources/<id>`, that
holds two mutable files (`manifest.json`, `root.json`) and immutable ones: the
objects by digest, an archive of every manifest and root, and one offline
package per manifest. Trust comes from a root: three Ed25519 keys of which two
must sign. A root is replaced by a bridge: a next root that a threshold of both
roots has signed.

    source.yaml --build--> candidate --inspect/sign--> fragments
                               |                           |
                               +-------- assemble ---------+
                                            |
                                     release directory
                                            | materialize
                                      worktree / branch
                                            | pull request, release-tree check
                                           main  --origin--> CDN --> subscribers
                                            | replicate
                                          mirror

### Inventory

| Component | State | Operations | Interacts by | Hard behaviour | What makes it correct |
|---|---|---|---|---|---|
| Catalog trust (`assemble/root.go`, `materialize.go`) | none | judge a root, a threshold, a bridge, a revocation list | called by assembler, materializer, verifier | two implementations of the threshold (fragments, envelopes) | two distinct keys, one bridge between any two roots, revocations only strengthened |
| Candidate builder (`cohort/builder.go`, `catalog-publisher/main.go`) | output directory | build one candidate per source | reads the definition tree file by file, writes the directory the signers read | definitions change between reads, two builders of one output, all sources or none | both candidates are whole, the exit status is true |
| Admission policy (`policy/validate.go`) | none | validate one document | builder and signer | many cross references | every slot has one probe, executables are reached through bound detections only |
| Offline signer (`catalog-signer`, `signing/`) | fragment file | inspect, sign | reads the candidate directory at two times; custodians compare digests outside the programs | directory changes between reads; two signers on one output name | nobody signs what he did not confirm |
| Assembler (`catalog-assembler`, `assemble/`) | release directory | root, release | candidate directory, fragments, roots, prior manifest | files read twice, objects read long after the check | two custodians behind every release; complete; acceptable to the next program |
| Release tree, materializer (`repository/tree.go`, `materialize.go`) | source directory of a worktree | materialize | release directory, worktree | two renames, rollback, death between them, no lock | never a partial tree, no history lost |
| Release verifier, protected publication (`materialize.go`, `release.yml`, `deploy/policy.md`) | main, pull requests | open, push, update, check, merge, close | Git and the workflow | checks are older than the main they merge into; a list of changed files decides what is verified | main is a log of superseding releases |
| Offline package (`package/package.go`) | none | build, verify | assembler, materializer, verifier | size limits | determined by manifest and root |
| Manifest types (`catalogv1/types.go`) | none | decode, canonicalize, digest | everybody | YAML aliases, normalization | one payload has one digest |
| Public mirror (`repository/mirror.go`) | mirror tree | replicate, verify | a checkout that moves, the file system | three reads of the source, two renames, rollback | outcome is truthful, nothing immutable is withdrawn |
| Origin verifier (`repository/origin.go`, `raw-origin.yml`) | the run in progress | compare a CDN with the tree, retry | HTTP, caches | old and new files together, retries, timeouts, cancellation | green is one whole commit, red needs faults, the last push is judged |
| Git host, subscribers | main, branches | merge, run checks | outside the repository | merge of a stale check | (environment) |

## Modules

| Module | Models | Proofs |
|---|---|---|
| `CatalogTrust` | roots, thresholds over fragments and over envelopes, forward rule of revocations | |
| `ReleaseTree` | paths, content rules, `VerifyReleaseDiff`, `verifyPublishedSource`, `verifyForwardOnly`, `loadRelease`, the merge of the materializer | |
| `Publication` | pull requests, three-way merge, the `release-tree` check, `main` | `Publication_proofs` |
| `CatalogLog` | abstract: per source a log of superseding releases | refined by `Publication` |
| `Materialize` | `MaterializeRelease` rename by rename, failing calls, deaths, several runs | `Materialize_proofs` |
| `SourceStore` | abstract: a source whose tree changes by whole installations | refined by `Materialize` |
| `Assembly` | candidate directory, custodians, fragments, assembler, read by read | `Assembly_proofs` |
| `Ceremony` | abstract: custodians who sign only what they confirmed | refined by `Assembly` |
| `Provenance` | the ceremony and `Publication` together, with envelopes that cannot be forged | `Provenance_proofs` |
| `Mirror` | `ReplicatePublicMirror` call by call over a moving checkout | `Mirror_proofs` |
| `AdmissionPolicy` | `policy.Validate` as operators, and what a subscriber needs of a document | with `Candidates` |
| `Candidates` | `buildAll` and `BuildCandidate` read by read, several builders, changing definitions | `Candidates_proofs` |
| `Origin` | the workflow `raw-origin` with `verify-origin`, in front of a cache that mixes commits | `Origin_proofs` |
| `MCEnvelopes`, `MC…` | instances for TLC: envelopes signed by thresholds of root 1, root 2 or both | |

`ReleaseTree` extends `CatalogTrust`; `Publication`, `Materialize`, `Assembly`
and `Mirror` extend `ReleaseTree`, `Candidates` extends `AdmissionPolicy`, and
`Origin` stands alone. `Candidates` ends with the directory that `Assembly`
begins with, and says of it what `BuildCandidate` of `Assembly` assumes.
`Publication` uses the materializer's merge as one step of a
commit; `Materialize` takes the same merge apart into calls, and implements that
one step (`SourceStore`) until two runs overlap, one dies or a second call fails. `Provenance`
extends `Publication` and puts beside it what `Assembly` promises, the abstract
`Ceremony`, not `Assembly` itself. `CatalogLog` has, besides the live releases, a
flag `sound`: while it is up every step is a publication, and it goes down for
ever with the first check that overlooks a change.

Operators named `Mut…` are not part of the model: each is a plausible bug in
the operator whose name follows, and `PROJECT.json` pairs it with a property
that the bug breaks.

### How state and actions correspond to the code

* **Trees.** `Tree` is a function from paths to contents; `NoFile` is "nothing
  there". A digest path holds the payload it is the digest of (SHA-256 is
  injective). A manifest digest covers the payload only, as in
  `ManifestDigest`, so two envelopes may share an archive path; this is
  what makes `verifyPublishedSource` compare bytes. A link, a directory or a
  wrong mode is `UnsafeFile`; a path of no release shape is `UnknownPath`.
  `catalog/sources/README.md` and everything outside the prefix are `OtherPath`.
* **Signatures.** A signature is a key ID and the material that made it, over
  the payload it stands beside; it verifies when the root lists that material
  under that ID. Sequences keep duplicates, because the code rejects them.
* **Publication.** `OpenPull`, `Materialize`, `EditFile`, `RemoveSource`,
  `EditOther`, `MoveOut` (commits), `UpdateBranch`, `RunReleaseCheck`, `MergePull`,
  `ClosePull`. `base.sha` is main at the event (push or open); the tree the
  workflow checks out is the merge with main at the time of the check. A push
  voids the check; a merge of another pull request does not: the repository
  asks for no up-to-date branch. The bootstrap exit of the workflow (no
  publisher at the base) is left out. The check itself runs on a snapshot and
  is one step. The workflow starts for pull requests with a changed path below
  `catalog/sources` only (`release.yml:5`); here it starts for all, which adds
  the pull requests with nothing to verify. In the merge, a file that one side moved and the other
  changed conflicts; git would carry the change to the new name. What other
  files contain is left out.
* **The list of changed files** (`ChangedFiles`). `verify-release` does not
  compare the trees to find out whether there is anything to verify: it is told,
  by `git diff --name-only` (`release.yml:42`), which takes a removed file and a
  new one that are alike for one file that moved, and prints the new name only.
  Which contents are alike is not modelled: when anything is new, inside the
  sources or outside, the list leaves out any set of removed files. That admits
  every list git may print and more (git pairs each new file with one removed
  file). With a list that names other paths only, nothing is verified and the
  check is green. The history variable `overlooked` says that a green check had a
  list without a trace of a change in the sources. `UnverifiedOnlyRemoves` (such
  a check lets nothing in, it can only lose files), `OverlookedByHand` (no
  sequence of materialized releases gets there, only a commit made by hand) and
  `TypeOK` hold whatever the list leaves out; the other properties of
  `Publication` and `Provenance` are about main until a check has overlooked a
  change, after which the code guarantees nothing: the run `moved` is a pull
  request that takes an immutable file out of main.
* **Materialize.** One action per effect on disk: `Read` (with all checks; the
  tree walk is one step), `InstallNew`, `MoveAside`, `Swap`, `Undo`,
  `RemoveBackup`, each with the action of its failure, and `Die`. Writing
  staging touches nothing anybody reads and is part of the step before it; its
  failure is `GiveUp`. A partly removed backup is either kept or gone. Runs of
  several processes overlap freely. The history variable `alone` says that none
  has begun during another one yet: overlapping runs may lose history, which no
  lock prevents and no document excludes, but no partial tree.
* **Assembly.** Each program reads payload, request and objects in this order
  (`ReadPayload`, `ReadRequest`, `CheckObjects`); the assembler reads payload
  and request again (`RereadPayload`, `Stage`) and then every object
  (`CopyObject`). `Rebuild` and `ReplaceFile` change the directory between any
  two. A request stands for its own digest; its parts that no property tells
  apart are the constant `Cohort`. `Inspect` is a custodian who confirms what
  the program printed; `Sign` passes the confirmed digest. `Abort` is every
  error and every death: these programs leave nothing behind before their last
  call, the link of the fragment or the rename of the release, both of which
  need a free name. The existence checks made earlier are subsumed by it. The
  operator's inputs (fragment files, roots, prior manifest, time) are picked
  where the checks first use them. The order of signatures in an envelope is
  not modelled, the code sorts them. In `verifyBridgeFragments` the threshold
  of either root is counted over the fragments that root lists, which is what
  `VerifySignedBytes` does.
* **Ceremony, Provenance.** A custodian confirms payloads and signs confirmed
  ones. `Assembly` is mapped to it by `Confirmed`, the payloads of the requests
  a holder has inspected, and `SignedPayloads`, what the fragments of his key
  are over. In `Provenance` a step is one of the ceremony or one of
  `Publication`, in which anybody may commit any envelope that is not forged: a
  signature that verifies under a custodian's key is over a payload he has
  signed (`Unforged`; what Ed25519 is for). `UnforgedTheorem` shows that this
  admits every assembled release. Keys of a root that no custodian holds are
  foreign, and their signatures are over anything. `RootCeremonyAssumption`
  stands for what custodians do when they sign a root, which no program checks
  for them: they know its keys, all but one at most.
* **Mirror.** `Read`, `Stage`, `MoveAside`, `Swap`, `Readback`, `RemoveNew`,
  `Restore`, `RemoveBackup`, their failures, `Die`, and `Update`, the checkout
  that moves. `Stage` and `Readback` read the checkout of their time again. A
  removal that fails may leave any part of a tree. `kept` are the prior trees
  that a failed rollback or a death leaves beside the mirror, whole; parts of
  trees that a removal leaves there are not kept, nothing reads them.
* **Policy.** A document is the lists that `Validate` relates to each other.
  A document that fails a rule on one of its values alone is the one document
  `Malformed`; `Text` gives what all others say. A component is known by its
  place, an entry with a kind and a position, because the code keeps one map of
  component IDs for the whole document. `ProbesResolve` and `ExecutablesBound`
  do not use the rules: they say what the rules are for.
* **Candidates.** `Start` (discovery), then for the executable source and after it
  for the data source, the order of their paths (`main.go:82`), `ReadDocument`
  (with the policy), `WalkTree`, one `ReadObject` per artifact, `WriteCandidate`, `PublishSet`,
  each for one of several builders; `Refuse` for every check that does not
  hold, `Fail` for every call, `Die`. `Change` puts another document or other
  objects in a directory between any two reads. An object is intact, damaged or
  absent: damaged is another length or digest, a link, or a wrong mode. Names
  made by `MkdirTemp` are unique, so staging belongs to one run; what a dead
  run leaves is read by nobody. Two objects of one document may have the same
  content and then share a path, as in the code.
* **Origin.** A comparison is the sequence of its requests: the files of the
  sources in path order, or the README when there are none (`Targets`), then
  the README of main and of the commit, in full and by its first byte. A
  request below main is answered with the file of the current commit or of one
  that caches still serve (`left`); one below the commit, with its own.
  `RequestFails` is every other answer: status, encoding, redirect, broken
  connection. `RequestExpires` is the client's 15 seconds; `curl` has none.
  Time is counted in ticks. A new run of the concurrency group cancels the one
  that waits or runs (`Trigger`); a push moves main, raises the event and cancels
  the older run in one step, so that nothing is said of a run that ends between
  the push and its cancellation. Checkout and the Go toolchain take any time
  and do not fail.

## Runs

| Run | Question | Instance |
|---|---|---|
| `race` | Do releases, rotations and revocations of two sources that race each other leave main a log? | 2 pull requests of one release each; 2 sources; 6 manifests, 3 roots, among them a root that is not bridged, another envelope of one payload, a weakened revocation |
| `edits` | And if a commit is made by hand? | 2 manifests, 2 roots; one edit: any content at any path, a removed source, a file or a source moved out, a tool, a stray file; every list of changed files |
| `replace` | Can a failing call, a death or a second materializer expose a partial tree, can the first two lose history, and may a commit take the materializer for one step? | 2 processes, 3 runs, 2 failing calls, 1 death |
| `assembly` | Is what is assembled what two custodians saw, and do the programs carry out the ceremony? | 2 custodians, 1 operator, 2 cohorts, 1 change of the directory: a rebuild or any file |
| `bridge` | Do the verifier and the materializer accept what the assembler accepts? | 4 custodians, two of them of one root only, 3 roots, a time inside and one outside the window, a manifest with two artifacts of one content |
| `provenance` | Did custodians confirm what subscribers get, whoever opens the pull requests? | 2 pull requests; 3 custodians; a first root with one foreign key, a second with none, a third that lists two foreign keys, one of them under a key ID of the roots before, and that only they have signed, and a manifest signed by them |
| `mirror` | Is the outcome of a replication truthful, is anything withdrawn or lost? | 5 revisions, 2 moves of the checkout, 3 replications, 2 failing calls, 1 death |
| `origin` | What do a green and a red run mean, and does every last push get one? | 3 commits (empty, one object, two objects), caches of 2 ticks, retries for 4, the job 6, requests 1, 1 dispatch |
| `candidates` | Are both sources published or none, whole, by one winner? | 2 builders, 265 documents per source of which 13 are admitted, 530 definition trees, 1 change, 1 failing call or death |
| `moved`, `stray`, `atomic` | three statements of the documents that the code does not keep | smallest instance that shows it |

Bounds: two pull requests are enough for a check to become stale between two
merges, because a slot is free again after its merge: behaviours have any number
of pull requests. Two manifests after the first let a version, a root and a
revocation go back. Two failing calls are the least for a failed rollback; three
runs let one run meet the leftovers of another and a third its result. One
change of the candidate is the least that two reads can disagree about; a
second one can only undo it, and the proof covers any number. Two moves of
the checkout bring it forward and back. In `origin` the times keep their
order, request <= pause < cache < retries < job, and are scaled down to it; three
commits let a cache serve two old ones at once. In `candidates` the documents
are one admitted document and everything one or two edits make of it (an ID, a
slot, a binding, a reference, a permission, a revocation repeated, dropped or
replaced); a tree that cannot be built at the start can be after its one change.
The instances use `SYMMETRY` only over
pull requests and processes, which are never compared or ordered.
Deadlock checks are off where the bounds let the system come to rest (all pull
requests closed, all runs used); `Assembly` always has a step and is checked.

### What the runs show

All properties hold but the three that quote documents:

* `moved`: the publisher's README says that `verify-release` rejects any
  immutable deletion. A pull request that moves an immutable file from its source
  to a path that is no release path gives it a list of that path only; nothing is
  verified, the check is green, and the file is gone from main.
* `stray`: `docs/ARCHITECTURE.md` says that unknown release paths are rejected;
  a file directly in `catalog/sources` counts as a change of another path, the
  verification is skipped, and main keeps it.
* `atomic`: the replacement of a source directory is called atomic; a death
  between the two renames leaves no directory, and the next run takes the
  missing directory for an empty one. The mirror has the same two renames and
  the same gap; there `ServedOnDisk` shows that what is no longer in place is at
  least still beside it, in one piece.

One exception is written into a property that holds: `AssembledLoads` is about
manifests whose artifacts have distinct contents. Two artifacts with one
content share an object path; policy, signers and assembler compare artifact
IDs and let them through, and `loadRelease` refuses the path
(`materialize.go:118`), so that a signed and assembled release is stuck there.

## Proofs

All theorems hold for every value of the constants that the named assumptions
admit. The assumptions say what the constants are (types of envelopes, absent
values differ from present ones), for `Assembly` and `Provenance` that a material
belongs to one holder, and for `Provenance` `RootCeremonyAssumption`.

* **Publication** (`Publication_proofs`). `PublicationInv`: types, and unless a
  check has overlooked a change, `VerifiedInv`: main and the fork
  and base of every open pull request are sound trees, main *descends* from
  the base, the base from the fork; a green check is as good as one that had
  the main it merged with for its base. `Descends` (immutable files kept, live
  release equal or later, revocations kept) is a preorder. The step that makes
  stale checks safe is in `OneRootPerManifest`: the package path of a manifest
  is immutable and its content includes the root, so a manifest is only ever
  live with one root. Hence every change of the live release changes
  `manifest.json`, two pull requests that both change it conflict in Git, and a
  merge takes the live pair from one side (`MergeLive`, `MergeStep`). A check
  with a base older than the main it merged with is handled by
  `StaleBaseStep`. From the invariant follow `TypeOK`, `LiveClosure`,
  `EverPublishedRetained`, `RevocationsCumulative`, `StaleCheckStillHolds`, and
  that `Publication` implements `CatalogLog` (`LogTheorem`); all but `TypeOK` say
  what they say until a check overlooks a change, and the steps that keep
  `VerifiedInv` are those after which none has (`VerifiedSteps`).
* **Publication, the list of changed files.** `ListedUnlessNew`: a modified or a new
  file is always in the list, and a removed one unless something else is new.
  `SkippedOnlyRemoves` and `GreenVerdict` follow for one check, and
  `UnverifiedTheorem` for all that are green at any time, without the invariant
  above: it needs no sound main. `MaterializedTheorem` rests on
  `MaterializedOnlyInv`: without a commit by hand no tree has a file outside the
  sources, so that nothing can be new there.
* **Materialize** (`Materialize_proofs`). `WholeInv`: every tree a run holds,
  merged or backup, is a whole verified release, and so is whatever is put in
  place; this gives `SourceNeverPartial` for any number of processes.
  `HistoryInv`: as long as no runs overlapped one run at most is in progress, and
  its merged tree contains what it will replace, so that a prior tree is removed
  only when what is in place contains it; this gives `HistoryOnDisk`.
* **Assembly** (`Assembly_proofs`). `AssemblyInv`: a fragment is what its holder
  confirmed, over the payload its request names; every release in staging or
  published is backed by two holders, was accepted by the root it succeeds and
  by its own, and holds only verified objects. Two valid signatures of one root have different
  materials (`TwoMaterials`), hence different holders; what a holder has
  confirmed only grows. From it follow `ThresholdReviewed`,
  `AssembledComplete`, `AssembledForward` and `AssembledLoads`.
  `CeremonyTheorem`: an inspection is a step `Confirm`, a fragment linked is a
  step `Sign`, and everything else stutters; it needs that a material belongs to
  one holder and that the request confirmed names the payload signed.
  `UnforgedInv` adds that the signatures in staging are of fragments still on
  disk (`UnforgedTheorem`).
* **Provenance** (`Provenance_proofs`). Every behaviour of the composition is one
  of `Publication` (lemma `PublicationRuns`) and one of `Ceremony` (lemma
  `CeremonyRuns`), by the way it is composed, so
  that the theorems of both hold in it. `ProvenanceInv`: signatures follow
  confirmations, and no tree that can reach main holds a forged envelope; a
  merge takes each file from one of three such trees. `ReviewTheorem` follows
  the archived chain of `ChainTheorem` from the first root to the live one: two
  keys sign every bridge, of which one at most is foreign to the root before
  (`TwoSigners`), so a custodian has signed the next root, which by
  `RootCeremonyAssumption` has at most one foreign key again (`BridgeStays`). The
  live manifest is signed by two keys of the live root, hence by a custodian,
  who confirmed it before. With at most one foreign key per root one reviewer is
  all that can be said; with none there are two.

* **Publication, chains.** `ChainArchived` follows from the archive being
  immutable and from the forward rule that only a bridge replaces a root:
  every live root is reached from the first by bridges that main still holds
  (`ChainTheorem`).
* **Materialize, one failure.** `HomeInv`, on top of `HistoryInv`: until a second
  call fails or a run dies, the history is in the source directory, or in the
  backup of the one run that moved it aside, and then nothing is in the way of
  its return, so that the failed rename was the one failure allowed
  (`OneFailureTheorem`).
* **Materialize as one step.** `InstallTheorem`: with the tree of the source mapped
  to the backup while it is moved aside (`Home`), a rename that puts a release in
  place is `Install`, and every other step stutters. `InstallInv` adds to the two
  invariants above that what a run has merged is still what its release makes of
  the tree that is there (`MergeIsCurrent`). The abstract variable `sound` is what
  the theorem is conditional on: once it is false, `SourceStore` promises nothing.
* **Mirror** (`Mirror_proofs`). `MirrorInv`: where the prior tree and the new one
  are at each step (`Placed`); that the settled one of the two keeps everything
  that was served, when nothing went wrong (`SettledKeepsAll`), and that
  otherwise one piece of it is settled or kept (`SettledOrKept`). The step that
  carries both is that `EnsureImmutablesUnchanged` is transitive along what is
  settled.
* **Candidates** (`Candidates_proofs`). `AdmittedProbes` and
  `AdmittedExecutables` say of every document that `Validate` admits that its
  probes resolve and its executables are bound; they use uniqueness of
  components, the equality of binding and detection IDs, and the one-writer
  rule. `BuildersInv`: what is staged is whole, what has been read so far is
  intact, the output is what one run staged. `RaceInv`: without a change, a
  fault or an output nobody has failed.
* **Origin** (`Origin_proofs`). `OriginInv`: the files seen follow from the number
  of the next request; the time of a job is at most what stale files can cause,
  which ends with `CacheAge`, and one pause for each fault. `GreenTheorem` and
  `RedTheorem` hold for all time limits with `RetryLimit + Pause <= JobTimeout`,
  which the workflow keeps (6 minutes and 15 seconds of 8 minutes).

Each proof has one step per action of `Next`. The inductive invariants were
model-checked before they were proved.

**Model-checked only**: `LastPushJudged`, which is liveness. All invariants that
the passing runs check are proved as well. **Out of the prover's reach**: liveness,
and induction over data; the modules therefore use functions and quantifiers and
declare no `RECURSIVE` operator.

**Fairness**: `Origin` assumes weak fairness of `Tick` and of `Due`: time passes,
and what is due at a time happens (the host starts a queued run and ends one that
is over its limit, the HTTP client gives up, `sleep` returns). No answer of the
origin, no setup and no push is assumed: the run that never gets an answer is
ended by the client or by the job limit, and only then is `LastPushJudged` true.
The other modules assume none: every step of theirs is taken by a person or by a
program a person starts, and nothing in the code forces one.

## Not modelled

* Policy rules on one value (formats, ranges, media types, platforms, the pin
  policy); YAML and JSON decoding; encodings of keys and signatures.
* Sizes: limits of the package format and of files. They are constants that the
  programs compare with what they are about to use; a package that is too
  large is refused only when it is assembled, after it was signed.
* The encrypted key file, passphrases and the closing of a key provider, which
  one process uses in sequence; `ValidateFragmentSet`, which no program calls.
* The output file of `catalog-assembler root`, written once by one process.
* That a fragment is never overwritten: the link refuses a name that is taken,
  `Sign` has that guard, and no property restates it.
* Which files git takes for moved (see above), and the recovery of
  `deploy/policy.md:35`, whose "live bytes from an archive" the version rule
  (`materialize.go:368`) admits only under a higher manifest version.
* The rules of `verify-origin` for base URLs and headers; a failing setup of the
  workflow.
* Two replications of one mirror at a time. Like two materializers they are not
  excluded by a lock, and the one that renames last wins: an update may be
  lost.
* An output directory of the builder that another program creates.

## Plan

1. `Mirror`: a second replicator, and what is left of `ServedOnDisk` with it.
2. `PackageLimits` as operators: what policy admits, the package format can hold.
3. The key provider and the output file of the root command.
