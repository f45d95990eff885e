------------------------------ MODULE Materialize ------------------------------
(***************************************************************************)
(* MaterializeRelease on a file system, rename by rename: read the source  *)
(* directory, merge the release into the tree read, write the result to a  *)
(* staging directory, and put it in place.  Nothing locks the worktree;    *)
(* every step may fail, and the program may die between any two.           *)
(*                                                                         *)
(* A directory that does not exist is the empty tree (no directory of a    *)
(* release is ever empty).  Staging leftovers of dead runs are not kept:   *)
(* nothing reads them.  Backups ".previous-<id>-*" are.                    *)
(***************************************************************************)
EXTENDS ReleaseTree

CONSTANTS
    Id,         \* the source
    Process,    \* runs of the materializer in one worktree at a time
    MaxRuns,    \* bound: runs started
    MaxErrors,  \* bound: file-system calls that fail
    MaxCrashes  \* bound: runs that die

ASSUME IdAssumption == Id \in Source
ASSUME RunAssumption ==
    MaxRuns \in Nat /\ MaxErrors \in Nat /\ MaxCrashes \in Nat

VARIABLES
    sourceRoot,  \* the tree in catalog/sources/<id>
    leftovers,   \* trees in ".previous-<id>-*" directories no run will use
    run,         \* per process: step, release, merged tree, its backup
    counts,      \* runs started, calls failed, runs died
    installed,   \* history: the releases put in place so far
    alone        \* history: no run has begun while another was in progress

vars == <<sourceRoot, leftovers, run, counts, installed, alone>>

Steps == {"idle", "install", "aside", "swap", "undo", "clean",
          "done", "error", "dead"}
AtRest == {"idle", "done", "error", "dead"}

IdRelease == {release \in Release : release.manifest.source = Id}
RunState ==
    [step : Steps, release : IdRelease \cup {NoFile}, merged : Tree, backup : Tree]
Idle == [step |-> "idle", release |-> NoFile,
         merged |-> EmptyTree, backup |-> EmptyTree]

\* The processes with a run in progress.
InProgress == {p \in Process : run[p].step \notin AtRest}

Kept(tree) == IF Exists(tree) THEN {tree} ELSE {}

Init ==
    /\ sourceRoot = EmptyTree
    /\ leftovers = {}
    /\ run = [p \in Process |-> Idle]
    /\ counts = [runs |-> 0, errors |-> 0, crashes |-> 0]
    /\ installed = {}
    /\ alone = TRUE

Goto(p, step) == run' = [run EXCEPT ![p].step = step]

\* The end of a run: it has no staging directory and no backup any more.
Stop(p, step) ==
    run' = [run EXCEPT ![p] = [@ EXCEPT !.step = step, !.merged = EmptyTree,
                                        !.backup = EmptyTree]]

\* A file-system call returns an error although nothing is in its way.
CallFails ==
    /\ counts.errors < MaxErrors
    /\ counts' = [counts EXCEPT !.errors = @ + 1]

\* A call fails because of what lies at its paths, or for its own reasons.
FailsIf(condition) ==
    \/ condition /\ UNCHANGED counts
    \/ CallFails

(***************************************************************************)
(* The steps.                                                              *)
(***************************************************************************)

\* Read the directory, merge and validate.  Whether the directory existed
\* and the merged tree are fixed from here on.
Read(p) ==
    /\ run[p].step \in AtRest
    /\ counts.runs < MaxRuns
    /\ \E release \in {x \in IdRelease : CanMaterialize(sourceRoot, x)} :
          run' = [run EXCEPT ![p] =
                    [step    |-> IF Exists(sourceRoot) THEN "aside" ELSE "install",
                     release |-> release,
                     merged  |-> MergeTrees(sourceRoot, ReleaseFiles(release)),
                     backup  |-> EmptyTree]]
    /\ counts' = [counts EXCEPT !.runs = @ + 1]
    /\ alone' = (alone /\ InProgress = {})
    /\ UNCHANGED <<sourceRoot, leftovers, installed>>

\* Mutant: the staging directory is merged into what is there.
MutPutInPlace(p) ==
    /\ sourceRoot' = [q \in Path |->
                         IF Immutable(q) /\ sourceRoot[q] # NoFile
                         THEN sourceRoot[q] ELSE run[p].merged[q]]
    /\ installed' = installed \cup {run[p].release}

\* Put the staging directory in place, which nothing may occupy.
PutInPlace(p) ==
    /\ ~Exists(sourceRoot)
    /\ sourceRoot' = run[p].merged
    /\ installed' = installed \cup {run[p].release}

InstallNew(p) ==
    /\ run[p].step = "install"
    /\ PutInPlace(p)
    /\ Stop(p, "done")
    /\ UNCHANGED <<leftovers, counts, alone>>

\* Staging, the backup name or the first rename fails: nothing has changed.
GiveUp(p) ==
    /\ \/ run[p].step = "install" /\ FailsIf(Exists(sourceRoot))
       \/ run[p].step = "aside" /\ FailsIf(~Exists(sourceRoot))
    /\ Stop(p, "error")
    /\ UNCHANGED <<sourceRoot, leftovers, installed, alone>>

\* replaceSourceTree, first rename: the source directory becomes the backup.
MoveAside(p) ==
    /\ run[p].step = "aside"
    /\ Exists(sourceRoot)
    /\ run' = [run EXCEPT ![p].step = "swap", ![p].backup = sourceRoot]
    /\ sourceRoot' = EmptyTree
    /\ UNCHANGED <<leftovers, counts, installed, alone>>

\* Second rename: staging becomes the source directory.
Swap(p) ==
    /\ run[p].step = "swap"
    /\ PutInPlace(p)
    /\ Goto(p, "clean")
    /\ UNCHANGED <<leftovers, counts, alone>>

SwapFails(p) ==
    /\ run[p].step = "swap"
    /\ FailsIf(Exists(sourceRoot))
    /\ Goto(p, "undo")
    /\ UNCHANGED <<sourceRoot, leftovers, installed, alone>>

\* Mutant: the prior tree is not put back.
MutUndo(p) ==
    /\ run[p].step = "undo"
    /\ Stop(p, "error")
    /\ leftovers' = leftovers \cup {run[p].backup}
    /\ UNCHANGED <<sourceRoot, counts, installed, alone>>

\* Its rollback; the error of the rollback is ignored, the backup stays.
Undo(p) ==
    /\ run[p].step = "undo"
    /\ ~Exists(sourceRoot)
    /\ sourceRoot' = run[p].backup
    /\ Stop(p, "error")
    /\ UNCHANGED <<leftovers, counts, installed, alone>>

UndoFails(p) ==
    /\ run[p].step = "undo"
    /\ FailsIf(Exists(sourceRoot))
    /\ Stop(p, "error")
    /\ leftovers' = leftovers \cup {run[p].backup}
    /\ UNCHANGED <<sourceRoot, installed, alone>>

\* Mutant: the backup of a successful run is forgotten.
MutRemoveBackup(p) ==
    /\ run[p].step = "clean"
    /\ Goto(p, "done")
    /\ UNCHANGED <<sourceRoot, leftovers, counts, installed, alone>>

RemoveBackup(p) ==
    /\ run[p].step = "clean"
    /\ Stop(p, "done")
    /\ UNCHANGED <<sourceRoot, leftovers, counts, installed, alone>>

\* A removal that fails has removed a part of the backup, or nothing.
RemoveBackupFails(p) ==
    /\ run[p].step = "clean"
    /\ CallFails
    /\ Stop(p, "error")
    /\ leftovers' \in {leftovers, leftovers \cup {run[p].backup}}
    /\ UNCHANGED <<sourceRoot, installed, alone>>

\* The program dies; a backup it had made stays, unless it was being removed.
Die(p) ==
    /\ run[p].step \notin AtRest
    /\ counts.crashes < MaxCrashes
    /\ counts' = [counts EXCEPT !.crashes = @ + 1]
    /\ Stop(p, "dead")
    /\ \/ leftovers' = leftovers \cup Kept(run[p].backup)
       \/ run[p].step = "clean" /\ UNCHANGED leftovers
    /\ UNCHANGED <<sourceRoot, installed, alone>>

Next ==
    \E p \in Process :
        \/ Read(p)
        \/ InstallNew(p)
        \/ GiveUp(p)
        \/ MoveAside(p)
        \/ Swap(p)
        \/ SwapFails(p)
        \/ Undo(p)
        \/ UndoFails(p)
        \/ RemoveBackup(p)
        \/ RemoveBackupFails(p)
        \/ Die(p)

Spec == Init /\ [][Next]_vars

-----------------------------------------------------------------------------
(***************************************************************************)
(* Properties.                                                             *)
(***************************************************************************)
\* Every variable has its type, and a run owns a backup exactly between the
\* first rename and the removal or the return of the prior tree.
TypeOK ==
    /\ sourceRoot \in Tree
    /\ leftovers \subseteq Tree
    /\ run \in [Process -> RunState]
    /\ counts \in [runs : 0..MaxRuns, errors : 0..MaxErrors,
                   crashes : 0..MaxCrashes]
    /\ installed \subseteq IdRelease
    /\ alone \in BOOLEAN
    /\ \A p \in Process :
          Exists(run[p].backup) <=> run[p].step \in {"swap", "undo", "clean"}

\* A tree is absent, or a whole release that the verifier accepts.
Whole(tree) ==
    Exists(tree) => ReadSourceTree(tree) /\ VerifyPublishedSource(Id, tree)

\* Whoever looks at the source directory, at any instant, after any error or
\* death and with other materializers at work, finds no directory or a whole
\* release that verifyPublishedSource accepts: no mixture of two releases
\* and no tree in the middle of being written.
SourceNeverPartial == Whole(sourceRoot)

RetainedIn(tree, release) ==
    \A p \in Path :
        /\ Immutable(p)
        /\ ReleaseFiles(release)[p] # NoFile
        => tree[p] = ReleaseFiles(release)[p]

\* The trees on disk: the source directory, the backups, and the leftovers.
OnDisk == {sourceRoot} \cup leftovers \cup {run[p].backup : p \in Process}

KeepsAll(tree) == \A release \in installed : RetainedIn(tree, release)

\* As long as no two materializers have overlapped, the immutable files of
\* every release that was ever in place are still somewhere on disk, whatever
\* call failed and wherever the program died: a prior tree is only removed
\* after a tree that contains it is in place.
AllOnDisk ==
    \A release \in installed : \E tree \in OnDisk : RetainedIn(tree, release)
HistoryOnDisk == alone => AllOnDisk

\* A failed call never costs the source its history: unless a run died, a
\* rollback failed too or two runs overlapped, a source that was ever installed
\* is in place whenever no run is in progress, and keeps all that was ever in
\* place.
AtMostOneFailure == counts.errors <= 1 /\ counts.crashes = 0
SurvivesOneFailure ==
    alone /\ InProgress = {} /\ AtMostOneFailure => KeepsAll(sourceRoot)

(***************************************************************************)
(* The inductive invariants.  Every tree a run holds is whole; and unless  *)
(* runs overlap the merged tree contains the tree it will replace, so that *)
(* whatever the next step destroys is contained in what is left.           *)
(***************************************************************************)
HoldsWholeTrees(p) ==
    /\ Whole(run[p].merged)
    /\ Whole(run[p].backup)
    /\ run[p].step \in {"install", "aside", "swap"} =>
          Exists(run[p].merged) /\ run[p].release \in IdRelease

WholeInv ==
    /\ TypeOK
    /\ Whole(sourceRoot)
    /\ \A p \in Process : HoldsWholeTrees(p)

Contains(new, old) ==
    \A p \in Path : Immutable(p) /\ old[p] # NoFile => new[p] = old[p]

ReplacesNothing(p) ==
    /\ run[p].step \in {"install", "aside"} => Contains(run[p].merged, sourceRoot)
    /\ run[p].step = "swap" => Contains(run[p].merged, run[p].backup)
    /\ run[p].step = "clean" => Contains(sourceRoot, run[p].backup)
    /\ run[p].step \in {"install", "aside", "swap"} =>
          RetainedIn(run[p].merged, run[p].release)

OneInProgress == \A p, q \in InProgress : p = q

HistoryInv ==
    /\ WholeInv
    /\ alone => /\ OneInProgress
                /\ \A p \in Process : ReplacesNothing(p)
                /\ AllOnDisk

\* For SurvivesOneFailure: until a second call fails or a run dies, the source
\* directory has the history, or the backup of the one run that moved it aside
\* does, and then nothing is in the way of its return.
MovedAside(p) == run[p].step \in {"swap", "undo"}

HomeKeepsAll ==
    /\ (\A p \in Process : ~MovedAside(p)) => KeepsAll(sourceRoot)
    /\ \A p \in Process :
          /\ MovedAside(p) => KeepsAll(run[p].backup) /\ ~Exists(sourceRoot)
          /\ run[p].step = "undo" => counts.errors = 1

HomeInv == alone /\ AtMostOneFailure => HomeKeepsAll

\* "Atomically replacing one source directory while retaining immutable
\* history" (cmd/catalog-publisher/README.md): when no run is in progress, the
\* source directory keeps everything that was ever in place.  A run that dies
\* between the two renames of replaceSourceTree leaves no source directory,
\* and the next run installs its release without the history.
ReplacedAtomically == alone /\ InProgress = {} => KeepsAll(sourceRoot)

-----------------------------------------------------------------------------
(***************************************************************************)
(* The materializer as one step.                                           *)
(***************************************************************************)

\* The tree of the source: while it is moved aside, the backup.
Aside == {p \in Process : MovedAside(p)}
Home  == IF Aside = {} THEN sourceRoot ELSE run[CHOOSE p \in Aside : TRUE].backup

Sound == alone /\ AtMostOneFailure

Joined(tree, release) == MergeTrees(tree, ReleaseFiles(release))

Store == INSTANCE SourceStore WITH
            Release <- IdRelease, NoTree <- EmptyTree,
            Installable <- CanMaterialize, Installed <- Joined,
            tree <- Home, sound <- Sound

\* A commit may take the materializer for one step: until two runs overlap, a
\* run dies or a second call fails, all its calls together are one installation,
\* of a release that can be materialized on the tree that is there at that
\* moment, although it was checked and merged with the tree read long before.
InstallsInOneStep == Store!Spec

\* What a run is about to put in place is still what its release makes of the
\* tree that is there.
MergeIsCurrent(p) ==
    /\ run[p].step \in {"install", "aside"} =>
          /\ CanMaterialize(sourceRoot, run[p].release)
          /\ run[p].merged = Joined(sourceRoot, run[p].release)
    /\ run[p].step = "swap" =>
          /\ CanMaterialize(run[p].backup, run[p].release)
          /\ run[p].merged = Joined(run[p].backup, run[p].release)

InstallInv ==
    /\ HistoryInv
    /\ HomeInv
    /\ alone => \A p \in Process : MergeIsCurrent(p)
=============================================================================
