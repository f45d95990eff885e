--------------------------- MODULE Materialize_proofs ---------------------------
(***************************************************************************)
(* Proofs about Materialize for every set of envelopes and objects, every  *)
(* number of materializers in one worktree, and every number of failing    *)
(* calls and deaths.                                                       *)
(***************************************************************************)
EXTENDS Materialize, TLAPS

\* No two kinds of path are equal.
LEMMA PathKinds ==
    /\ LiveManifest # LiveRoot
    /\ LiveManifest # UnknownPath /\ LiveRoot # UnknownPath
    /\ \A o \in Object :
          ObjectPath(o) \notin {LiveManifest, LiveRoot, UnknownPath}
    /\ \A m \in SignedManifest :
          /\ ManifestArchive(m) \notin {LiveManifest, LiveRoot, UnknownPath}
          /\ PackagePath(m) \notin {LiveManifest, LiveRoot, UnknownPath}
          /\ PackagePath(m) # ManifestArchive(m)
          /\ \A o \in Object : ObjectPath(o) \notin {ManifestArchive(m), PackagePath(m)}
    /\ \A r \in SignedRoot :
          /\ RootArchive(r) \notin {LiveManifest, LiveRoot, UnknownPath}
          /\ \A o \in Object : ObjectPath(o) # RootArchive(r)
          /\ \A m \in SignedManifest :
                RootArchive(r) \notin {ManifestArchive(m), PackagePath(m)}
BY DEF LiveManifest, LiveRoot, UnknownPath, ObjectPath, ManifestArchive,
       RootArchive, PackagePath

LEMMA PathTypes ==
    /\ LiveManifest \in Path /\ LiveRoot \in Path /\ UnknownPath \in Path
    /\ \A o \in Object : ObjectPath(o) \in Path
    /\ \A m \in SignedManifest : ManifestArchive(m) \in Path /\ PackagePath(m) \in Path
    /\ \A r \in SignedRoot : RootArchive(r) \in Path
BY DEF Path

LEMMA ArtifactFacts ==
    ASSUME NEW m \in SignedManifest
    PROVE  /\ \A i \in DOMAIN m.artifacts : m.artifacts[i] \in Object
           /\ \A p \in ArtifactPaths(m) :
                 \E o \in Object : p = ObjectPath(o) /\ p[2] = o
<1>1. m.artifacts \in Seq(Object)
    BY ManifestAssumption
<1>2. \A i \in DOMAIN m.artifacts : m.artifacts[i] \in Object
    BY <1>1
<1>3. QED BY <1>2 DEF ArtifactPaths, ObjectPath

\* What a release puts where.
LEMMA ReleaseFilesFacts ==
    ASSUME NEW release \in Release
    PROVE  LET f == ReleaseFiles(release)
               m == release.manifest
               r == release.root
           IN  /\ f[LiveManifest] = m /\ f[LiveRoot] = r
               /\ f[ManifestArchive(m)] = m /\ f[RootArchive(r)] = r
               /\ f[PackagePath(m)] = BuildPackage(m, r)
               /\ \A i \in DOMAIN m.artifacts :
                     f[ObjectPath(m.artifacts[i])] = m.artifacts[i]
               /\ f[UnknownPath] = NoFile
               /\ \A o \in Object : f[ObjectPath(o)] \in {NoFile, o}
               /\ \A p \in Path : f[p] \in
                     Object \cup SignedManifest \cup SignedRoot \cup Package
                        \cup {NoFile}
<1> DEFINE m == release.manifest
           r == release.root
           f == ReleaseFiles(release)
<1>1. m \in SignedManifest /\ r \in SignedRoot
    BY DEF Release
<1>2. \A p \in Path :
         f[p] = CASE p = LiveManifest       -> m
                  [] p = LiveRoot           -> r
                  [] p = ManifestArchive(m) -> m
                  [] p = RootArchive(r)     -> r
                  [] p = PackagePath(m)     -> BuildPackage(m, r)
                  [] p \in ArtifactPaths(m) -> p[2]
                  [] OTHER                  -> NoFile
    BY DEF ReleaseFiles
<1> HIDE DEF m, r, f
<1>3. \A p \in ArtifactPaths(m) :
          p \notin {LiveManifest, LiveRoot, UnknownPath, ManifestArchive(m),
                    RootArchive(r), PackagePath(m)}
    BY <1>1, ArtifactFacts, PathKinds
<1>4. f[LiveManifest] = m /\ f[LiveRoot] = r
    BY <1>1, <1>2, <1>3, PathKinds, PathTypes
<1>5. f[ManifestArchive(m)] = m
    BY <1>1, <1>2, <1>3, PathKinds, PathTypes
<1>6. f[RootArchive(r)] = r
    BY <1>1, <1>2, <1>3, PathKinds, PathTypes
<1>7. f[PackagePath(m)] = BuildPackage(m, r)
    BY <1>1, <1>2, <1>3, PathKinds, PathTypes
<1>8. f[UnknownPath] = NoFile
    BY <1>1, <1>2, <1>3, PathKinds, PathTypes
<1>9. \A o \in Object : ObjectPath(o)[2] = o
    BY DEF ObjectPath
<1>10. ASSUME NEW o \in Object
       PROVE  f[ObjectPath(o)] =
                 IF ObjectPath(o) \in ArtifactPaths(m) THEN o ELSE NoFile
    BY <1>1, <1>2, <1>9, PathKinds, PathTypes
<1>11. \A i \in DOMAIN m.artifacts :
          f[ObjectPath(m.artifacts[i])] = m.artifacts[i]
    BY <1>1, <1>10, ArtifactFacts DEF ArtifactPaths
<1>12. ASSUME NEW p \in Path
       PROVE  f[p] \in Object \cup SignedManifest \cup SignedRoot \cup Package
                          \cup {NoFile}
    <2>1. BuildPackage(m, r) \in Package
        BY <1>1 DEF BuildPackage, Package
    <2>2. \A q \in ArtifactPaths(m) : q[2] \in Object
        BY <1>1, ArtifactFacts
    <2>3. QED BY <1>1, <1>2, <2>1, <2>2
<1>13. QED BY <1>4, <1>5, <1>6, <1>7, <1>8, <1>10, <1>11, <1>12 DEF m, r, f

\* No content of a release stands for a missing or an unsafe file.
LEMMA ReleaseContents ==
    ASSUME NEW c \in Object \cup SignedManifest \cup SignedRoot \cup Package
    PROVE  c # NoFile /\ c # UnsafeFile
BY NoFileAssumption, UnsafeAssumption DEF Content

(***************************************************************************)
(* Whole trees.                                                            *)
(***************************************************************************)
\* The tree read, merged with a release that passed every check.
LEMMA MergedWhole ==
    ASSUME NEW tree \in Tree, NEW release \in IdRelease,
           CanMaterialize(tree, release)
    PROVE  LET merged == MergeTrees(tree, ReleaseFiles(release))
           IN  merged \in Tree /\ Whole(merged) /\ Exists(merged)
<1> DEFINE m == release.manifest
           r == release.root
           f == ReleaseFiles(release)
           merged == MergeTrees(tree, f)
<1>1. release \in Release /\ m \in SignedManifest /\ r \in SignedRoot /\ m.source = Id
    BY DEF Release, IdRelease
<1>2. /\ f[LiveManifest] = m /\ f[LiveRoot] = r
      /\ f[ManifestArchive(m)] = m /\ f[RootArchive(r)] = r
      /\ f[PackagePath(m)] = BuildPackage(m, r)
      /\ \A i \in DOMAIN m.artifacts :
            f[ObjectPath(m.artifacts[i])] = m.artifacts[i]
      /\ f[UnknownPath] = NoFile
      /\ \A o \in Object : f[ObjectPath(o)] \in {NoFile, o}
      /\ \A p \in Path : f[p] \in
            Object \cup SignedManifest \cup SignedRoot \cup Package \cup {NoFile}
    BY <1>1, ReleaseFilesFacts
<1>3. \A p \in Path : merged[p] = IF f[p] # NoFile THEN f[p] ELSE tree[p]
    BY DEF MergeTrees
<1>4. ReadSourceTree(tree)
    <2>1. CASE Exists(tree)
        BY <2>1 DEF CanMaterialize
    <2>2. CASE ~Exists(tree)
        <3>1. \A p \in Path : tree[p] = NoFile
            BY <2>2 DEF Exists
        <3>2. NoFile # UnsafeFile
            BY NoFileAssumption DEF Content
        <3>3. QED BY <3>1, <3>2, PathTypes DEF ReadSourceTree
    <2>3. QED BY <2>1, <2>2
<1>5. merged \in Tree
    BY <1>2 DEF MergeTrees, Tree, Content
<1>6. LoadRelease(release)
    BY DEF CanMaterialize
<1> HIDE DEF m, r, f, merged
<1>7. m # NoFile /\ r # NoFile /\ BuildPackage(m, r) # NoFile
    <2>1. BuildPackage(m, r) \in Package
        BY <1>1 DEF BuildPackage, Package
    <2>2. QED BY <1>1, <2>1, ReleaseContents
<1>8. /\ merged[LiveManifest] = m /\ merged[LiveRoot] = r
      /\ merged[ManifestArchive(m)] = m /\ merged[RootArchive(r)] = r
      /\ merged[PackagePath(m)] = BuildPackage(m, r)
    BY <1>1, <1>2, <1>3, <1>7, PathTypes
<1>9. \A i \in DOMAIN m.artifacts :
          merged[ObjectPath(m.artifacts[i])] = m.artifacts[i]
    BY <1>1, <1>2, <1>3, ArtifactFacts, ReleaseContents, PathTypes
<1>10. ReadSourceTree(merged)
    <2>1. merged[UnknownPath] = NoFile
        BY <1>2, <1>3, <1>4, PathTypes DEF ReadSourceTree
    <2>2. \A p \in Path : merged[p] # UnsafeFile
        BY <1>2, <1>3, <1>4, ReleaseContents DEF ReadSourceTree
    <2>3. \A o \in Object : merged[ObjectPath(o)] \in {NoFile, o}
        BY <1>2, <1>3, <1>4, PathTypes DEF ReadSourceTree
    <2>4. QED BY <2>1, <2>2, <2>3 DEF ReadSourceTree
<1>11. VerifyPublishedSource(Id, merged)
    BY <1>1, <1>6, <1>8, <1>9 DEF LoadRelease, VerifyPublishedSource, m, r
<1>12. Exists(merged)
    BY <1>7, <1>8, PathTypes DEF Exists
<1>13. QED BY <1>5, <1>10, <1>11, <1>12 DEF Whole, merged, f

LEMMA EmptyTreeFacts ==
    EmptyTree \in Tree /\ ~Exists(EmptyTree) /\ Whole(EmptyTree)
BY DEF EmptyTree, Tree, Exists, Whole

(***************************************************************************)
(* The invariant of the trees, for any number of materializers.            *)
(***************************************************************************)
LEMMA InitWhole == Init => WholeInv
<1> SUFFICES ASSUME Init PROVE WholeInv
    OBVIOUS
<1>1. TypeOK
    BY EmptyTreeFacts, RunAssumption
       DEF Init, Idle, TypeOK, RunState, Steps
<1>2. QED BY <1>1, EmptyTreeFacts DEF Init, Idle, WholeInv, HoldsWholeTrees

\* The run of one process changes, to a state that is well formed.
LEMMA RunChanges ==
    ASSUME WholeInv, NEW p \in Process, NEW new \in RunState,
           run' = [run EXCEPT ![p] = new],
           Exists(new.backup) <=> new.step \in {"swap", "undo", "clean"},
           Whole(new.merged), Whole(new.backup),
           new.step \in {"install", "aside", "swap"} =>
               Exists(new.merged) /\ new.release \in IdRelease
    PROVE  /\ run' \in [Process -> RunState]
           /\ \A q \in Process : HoldsWholeTrees(q)'
           /\ \A q \in Process :
                 Exists(run'[q].backup) <=>
                    run'[q].step \in {"swap", "undo", "clean"}
BY DEF WholeInv, TypeOK, HoldsWholeTrees

\* What is known of a run in progress.
LEMMA RunFacts ==
    ASSUME WholeInv, NEW p \in Process
    PROVE  /\ run[p] \in RunState
           /\ run[p].step \in Steps
           /\ run[p].release \in IdRelease \cup {NoFile}
           /\ run[p].merged \in Tree /\ run[p].backup \in Tree
           /\ Whole(run[p].merged) /\ Whole(run[p].backup)
           /\ Exists(run[p].backup) <=> run[p].step \in {"swap", "undo", "clean"}
           /\ run[p].step \in {"install", "aside", "swap"} =>
                 Exists(run[p].merged) /\ run[p].release \in IdRelease
BY DEF WholeInv, TypeOK, RunState, HoldsWholeTrees

LEMMA GotoRun ==
    ASSUME WholeInv, NEW p \in Process, NEW step, Goto(p, step),
           \/ run[p].step = "swap" /\ step \in {"undo", "clean"}
    PROVE  /\ run' \in [Process -> RunState]
           /\ \A q \in Process : HoldsWholeTrees(q)'
           /\ \A q \in Process :
                 Exists(run'[q].backup) <=>
                    run'[q].step \in {"swap", "undo", "clean"}
<1> DEFINE new == [run[p] EXCEPT !.step = step]
<1>1. /\ new \in RunState /\ new.step = step
      /\ new.merged = run[p].merged /\ new.backup = run[p].backup
      /\ new.release = run[p].release
    BY RunFacts DEF RunState, Steps
<1>2. run' = [run EXCEPT ![p] = new]
    BY DEF Goto
<1> HIDE DEF new
<1>3. QED BY <1>1, <1>2, RunFacts, RunChanges

LEMMA StopRun ==
    ASSUME WholeInv, NEW p \in Process, NEW step \in {"done", "error", "dead"},
           Stop(p, step)
    PROVE  /\ run' \in [Process -> RunState]
           /\ \A q \in Process : HoldsWholeTrees(q)'
           /\ \A q \in Process :
                 Exists(run'[q].backup) <=>
                    run'[q].step \in {"swap", "undo", "clean"}
<1> DEFINE new == [run[p] EXCEPT !.step = step, !.merged = EmptyTree,
                                 !.backup = EmptyTree]
<1>1. /\ new \in RunState /\ new.step = step
      /\ new.merged = EmptyTree /\ new.backup = EmptyTree
    BY RunFacts, EmptyTreeFacts DEF RunState, Steps
<1>2. run' = [run EXCEPT ![p] = new]
    BY DEF Stop
<1> HIDE DEF new
<1>3. QED BY <1>1, <1>2, EmptyTreeFacts, RunChanges

\* A step keeps the invariant when the run keeps it and the rest is as typed.
LEMMA WholeStep ==
    ASSUME WholeInv,
           run' \in [Process -> RunState],
           \A q \in Process : HoldsWholeTrees(q)',
           \A q \in Process :
              Exists(run'[q].backup) <=> run'[q].step \in {"swap", "undo", "clean"},
           sourceRoot' \in Tree, Whole(sourceRoot'),
           leftovers' \subseteq Tree,
           counts' \in [runs : 0..MaxRuns, errors : 0..MaxErrors,
                        crashes : 0..MaxCrashes],
           installed' \subseteq IdRelease,
           alone' \in BOOLEAN
    PROVE  WholeInv'
BY DEF WholeInv, TypeOK, Whole

LEMMA CountsType ==
    ASSUME WholeInv, NEW condition, FailsIf(condition) \/ CallFails
    PROVE  counts' \in [runs : 0..MaxRuns, errors : 0..MaxErrors,
                        crashes : 0..MaxCrashes]
<1>1. counts \in [runs : 0..MaxRuns, errors : 0..MaxErrors, crashes : 0..MaxCrashes]
    BY DEF WholeInv, TypeOK
<1>2. CASE CallFails
    BY <1>1, <1>2, RunAssumption DEF CallFails
<1>3. CASE condition /\ UNCHANGED counts
    BY <1>1, <1>3
<1>4. QED BY <1>2, <1>3 DEF FailsIf

LEMMA NextWhole == WholeInv /\ [Next]_vars => WholeInv'
<1> SUFFICES ASSUME WholeInv, [Next]_vars PROVE WholeInv'
    OBVIOUS
<1>0. /\ sourceRoot \in Tree /\ Whole(sourceRoot) /\ leftovers \subseteq Tree
      /\ counts \in [runs : 0..MaxRuns, errors : 0..MaxErrors,
                     crashes : 0..MaxCrashes]
      /\ installed \subseteq IdRelease /\ alone \in BOOLEAN
      /\ MaxRuns \in Nat /\ MaxErrors \in Nat /\ MaxCrashes \in Nat
    BY RunAssumption DEF WholeInv, TypeOK
<1>1. ASSUME NEW p \in Process, Read(p)
      PROVE  WholeInv'
    <2>1. PICK release \in IdRelease :
             /\ CanMaterialize(sourceRoot, release)
             /\ run' = [run EXCEPT ![p] =
                   [step    |-> IF Exists(sourceRoot) THEN "aside" ELSE "install",
                    release |-> release,
                    merged  |-> MergeTrees(sourceRoot, ReleaseFiles(release)),
                    backup  |-> EmptyTree]]
        BY <1>1 DEF Read
    <2> DEFINE merged == MergeTrees(sourceRoot, ReleaseFiles(release))
               new == [step    |-> IF Exists(sourceRoot) THEN "aside" ELSE "install",
                       release |-> release, merged |-> merged,
                       backup  |-> EmptyTree]
    <2>2. merged \in Tree /\ Whole(merged) /\ Exists(merged)
        BY <1>0, <2>1, MergedWhole
    <2> HIDE DEF merged
    <2>3. new \in RunState /\ new.step \notin {"swap", "undo", "clean"}
        BY <2>2, EmptyTreeFacts DEF RunState, Steps
    <2>4. run' = [run EXCEPT ![p] = new]
        BY <2>1 DEF merged
    <2>5. /\ run' \in [Process -> RunState]
          /\ \A q \in Process : HoldsWholeTrees(q)'
          /\ \A q \in Process :
                Exists(run'[q].backup) <=>
                   run'[q].step \in {"swap", "undo", "clean"}
        <3>1. /\ new.merged = merged /\ new.backup = EmptyTree
              /\ new.release = release
            OBVIOUS
        <3> HIDE DEF new
        <3>2. QED BY <2>2, <2>3, <2>4, <3>1, EmptyTreeFacts, RunChanges
    <2>6. counts' \in [runs : 0..MaxRuns, errors : 0..MaxErrors,
                       crashes : 0..MaxCrashes]
        BY <1>0, <1>1 DEF Read
    <2>7. UNCHANGED <<sourceRoot, leftovers, installed>> /\ alone' \in BOOLEAN
        BY <1>1 DEF Read
    <2>8. QED BY <1>0, <2>5, <2>6, <2>7, WholeStep
<1>2. ASSUME NEW p \in Process, InstallNew(p)
      PROVE  WholeInv'
    BY <1>0, <1>2, RunFacts, StopRun, WholeStep DEF InstallNew, PutInPlace
<1>3. ASSUME NEW p \in Process, GiveUp(p)
      PROVE  WholeInv'
    <2>1. counts' \in [runs : 0..MaxRuns, errors : 0..MaxErrors,
                       crashes : 0..MaxCrashes]
        BY <1>3, CountsType DEF GiveUp
    <2>2. QED BY <1>0, <1>3, <2>1, StopRun, WholeStep DEF GiveUp
<1>4. ASSUME NEW p \in Process, MoveAside(p)
      PROVE  WholeInv'
    <2> DEFINE new == [run[p] EXCEPT !.step = "swap", !.backup = sourceRoot]
    <2>1. /\ new \in RunState /\ new.step = "swap" /\ new.backup = sourceRoot
          /\ new.merged = run[p].merged /\ new.release = run[p].release
        BY <1>0, RunFacts DEF RunState, Steps
    <2>2. run' = [run EXCEPT ![p] = new]
        BY <1>4 DEF MoveAside
    <2> HIDE DEF new
    <2>3. Exists(sourceRoot) /\ run[p].step = "aside"
        BY <1>4 DEF MoveAside
    <2>4. /\ run' \in [Process -> RunState]
          /\ \A q \in Process : HoldsWholeTrees(q)'
          /\ \A q \in Process :
                Exists(run'[q].backup) <=>
                   run'[q].step \in {"swap", "undo", "clean"}
        BY <1>0, <2>1, <2>2, <2>3, RunFacts, RunChanges
    <2>5. sourceRoot' = EmptyTree
          /\ UNCHANGED <<leftovers, counts, installed, alone>>
        BY <1>4 DEF MoveAside
    <2>6. QED BY <1>0, <2>4, <2>5, EmptyTreeFacts, WholeStep
<1>5. ASSUME NEW p \in Process, Swap(p)
      PROVE  WholeInv'
    BY <1>0, <1>5, RunFacts, GotoRun, WholeStep DEF Swap, PutInPlace
<1>6. ASSUME NEW p \in Process, SwapFails(p)
      PROVE  WholeInv'
    <2>1. counts' \in [runs : 0..MaxRuns, errors : 0..MaxErrors,
                       crashes : 0..MaxCrashes]
        BY <1>6, CountsType DEF SwapFails
    <2>2. QED BY <1>0, <1>6, <2>1, GotoRun, WholeStep DEF SwapFails
<1>7. ASSUME NEW p \in Process, Undo(p)
      PROVE  WholeInv'
    BY <1>0, <1>7, RunFacts, StopRun, WholeStep DEF Undo
<1>8. ASSUME NEW p \in Process, UndoFails(p)
      PROVE  WholeInv'
    <2>1. counts' \in [runs : 0..MaxRuns, errors : 0..MaxErrors,
                       crashes : 0..MaxCrashes]
        BY <1>8, CountsType DEF UndoFails
    <2>2. QED BY <1>0, <1>8, <2>1, RunFacts, StopRun, WholeStep DEF UndoFails
<1>9. ASSUME NEW p \in Process, RemoveBackup(p)
      PROVE  WholeInv'
    BY <1>0, <1>9, StopRun, WholeStep DEF RemoveBackup
<1>10. ASSUME NEW p \in Process, RemoveBackupFails(p)
       PROVE  WholeInv'
    <2>1. counts' \in [runs : 0..MaxRuns, errors : 0..MaxErrors,
                       crashes : 0..MaxCrashes]
        BY <1>10, CountsType DEF RemoveBackupFails
    <2>2. QED BY <1>0, <1>10, <2>1, RunFacts, StopRun, WholeStep
              DEF RemoveBackupFails
<1>11. ASSUME NEW p \in Process, Die(p)
       PROVE  WholeInv'
    <2>1. counts' \in [runs : 0..MaxRuns, errors : 0..MaxErrors,
                       crashes : 0..MaxCrashes]
        BY <1>0, <1>11 DEF Die
    <2>2. leftovers' \subseteq Tree
        BY <1>0, <1>11, RunFacts DEF Die, Kept
    <2>3. QED BY <1>0, <1>11, <2>1, <2>2, StopRun, WholeStep DEF Die
<1>12. CASE UNCHANGED vars
    BY <1>12 DEF vars, WholeInv, TypeOK, Whole, HoldsWholeTrees
<1>13. QED
    BY <1>1, <1>2, <1>3, <1>4, <1>5, <1>6, <1>7, <1>8, <1>9, <1>10, <1>11,
       <1>12 DEF Next

\* Types, and the ownership of backups, for any number of materializers.
THEOREM MaterializeTypeTheorem == Spec => []TypeOK
<1>1. WholeInv => TypeOK
    BY DEF WholeInv
<1>2. QED BY <1>1, InitWhole, NextWhole, PTL DEF Spec

\* At every instant the source directory is absent or holds a whole, verified
\* release, whatever fails, dies or runs at the same time.
THEOREM NeverPartialTheorem == Spec => []SourceNeverPartial
<1>1. WholeInv => SourceNeverPartial
    BY DEF WholeInv, SourceNeverPartial
<1>2. QED BY <1>1, InitWhole, NextWhole, PTL DEF Spec

(***************************************************************************)
(* The history, as long as no two runs overlap.                            *)
(***************************************************************************)
LEMMA ContainsRetained ==
    ASSUME NEW old, NEW new, NEW release,
           Contains(new, old), RetainedIn(old, release)
    PROVE  RetainedIn(new, release)
BY DEF Contains, RetainedIn

LEMMA RetainedExists ==
    ASSUME NEW tree, NEW release \in IdRelease, RetainedIn(tree, release)
    PROVE  Exists(tree)
<1> DEFINE q == ManifestArchive(release.manifest)
<1>1. release \in Release /\ release.manifest \in SignedManifest
    BY DEF IdRelease, Release
<1>2. ReleaseFiles(release)[q] = release.manifest
    BY <1>1, ReleaseFilesFacts
<1>3. q \in Path /\ Immutable(q) /\ release.manifest # NoFile
    BY <1>1, PathTypes, ReleaseContents DEF Immutable, ManifestArchive
<1>4. tree[q] = release.manifest
    BY <1>2, <1>3 DEF RetainedIn
<1>5. QED BY <1>3, <1>4 DEF Exists

LEMMA MergeContains ==
    ASSUME NEW tree, NEW release, CanMaterialize(tree, release)
    PROVE  LET merged == MergeTrees(tree, ReleaseFiles(release))
           IN  Contains(merged, tree) /\ RetainedIn(merged, release)
<1> DEFINE f == ReleaseFiles(release)
           merged == MergeTrees(tree, f)
<1>1. \A q \in Path : merged[q] = IF f[q] # NoFile THEN f[q] ELSE tree[q]
    BY DEF MergeTrees
<1>2. ~Collides(tree, f)
    BY DEF CanMaterialize
<1> HIDE DEF f, merged
<1>3. Contains(merged, tree)
    BY <1>1, <1>2 DEF Collides, Contains
<1>4. RetainedIn(merged, release)
    BY <1>1 DEF RetainedIn, f
<1>5. QED BY <1>3, <1>4 DEF merged, f

LEMMA ContainsItself == \A tree : Contains(tree, tree)
BY DEF Contains

\* A step keeps the history when every tree it finds on disk is contained in
\* one it leaves there, and what it installs is on disk.
LEMMA HistoryMoves ==
    ASSUME AllOnDisk, installed \subseteq IdRelease,
           \A old \in OnDisk : Exists(old) =>
              \E new \in OnDisk' : Contains(new, old),
           \A release \in installed' : release \in installed
              \/ \E new \in OnDisk' : RetainedIn(new, release)
    PROVE  AllOnDisk'
<1> SUFFICES ASSUME NEW release \in installed'
             PROVE  \E tree \in OnDisk' : RetainedIn(tree, release)
    BY DEF AllOnDisk, RetainedIn
<1>1. CASE release \in installed
    <2>1. PICK old \in OnDisk : RetainedIn(old, release)
        BY <1>1 DEF AllOnDisk
    <2>2. PICK new \in OnDisk' : Contains(new, old)
        BY <1>1, <2>1, RetainedExists
    <2>3. QED BY <2>1, <2>2, ContainsRetained
<1>2. CASE \E new \in OnDisk' : RetainedIn(new, release)
    BY <1>2
<1>3. QED BY <1>1, <1>2

LEMMA InitHistory == Init => HistoryInv
BY InitWhole DEF Init, Idle, HistoryInv, AllOnDisk, ReplacesNothing,
                 OneInProgress, InProgress, AtRest

\* A step of the run of one process.
Step(p) ==
    \/ Read(p) \/ InstallNew(p) \/ GiveUp(p) \/ MoveAside(p)
    \/ Swap(p) \/ SwapFails(p) \/ Undo(p) \/ UndoFails(p)
    \/ RemoveBackup(p) \/ RemoveBackupFails(p) \/ Die(p)

\* Only the run of p moves, and the history before the step was alone too.
LEMMA StepsAlone ==
    ASSUME HistoryInv, alone', NEW p \in Process, Step(p)
    PROVE  /\ alone
           /\ \A q \in Process \ {p} : run[q].step \in AtRest /\ run'[q] = run[q]
<1>0. run \in [Process -> RunState]
    BY DEF HistoryInv, WholeInv, TypeOK
<1>1. CASE Read(p)
    <2>1. alone /\ InProgress = {}
        BY <1>1 DEF Read
    <2>2. \A q \in Process \ {p} : run'[q] = run[q]
        BY <1>0, <1>1 DEF Read
    <2>3. QED BY <2>1, <2>2 DEF InProgress
<1>2. CASE ~Read(p)
    <2>1. alone' = alone /\ run[p].step \notin AtRest
        BY <1>2 DEF Step, InstallNew, GiveUp, MoveAside, Swap, SwapFails, Undo,
            UndoFails, RemoveBackup, RemoveBackupFails, Die, AtRest
    <2>2. \A q \in Process \ {p} : run'[q] = run[q]
        BY <1>0, <1>2 DEF Step, InstallNew, GiveUp, MoveAside, Swap, SwapFails, Undo,
            UndoFails, RemoveBackup, RemoveBackupFails, Die, Goto, Stop
    <2>3. QED BY <2>1, <2>2 DEF HistoryInv, OneInProgress, InProgress
<1>3. QED BY <1>1, <1>2

LEMMA NextHistory == HistoryInv /\ [Next]_vars => HistoryInv'
<1> SUFFICES ASSUME HistoryInv, [Next]_vars, alone'
             PROVE  /\ OneInProgress' /\ AllOnDisk'
                    /\ \A p \in Process : ReplacesNothing(p)'
    BY NextWhole DEF HistoryInv
<1>0. /\ WholeInv /\ WholeInv'
      /\ installed \subseteq IdRelease
      /\ run \in [Process -> RunState]
      /\ run' \in [Process -> RunState]
    BY NextWhole DEF HistoryInv, WholeInv, TypeOK
<1> DEFINE Keeps == /\ OneInProgress' /\ AllOnDisk'
                    /\ \A p \in Process : ReplacesNothing(p)'
<1>1. ASSUME NEW p \in Process, Step(p)
      PROVE  /\ AllOnDisk /\ ReplacesNothing(p)
             /\ \A q \in Process \ {p} :
                   run[q].step \in AtRest /\ run'[q] = run[q]
             /\ \A old \in OnDisk : Exists(old) =>
                   old \in {sourceRoot, run[p].backup} \cup leftovers
             /\ {sourceRoot', run'[p].backup} \cup leftovers' \subseteq OnDisk'
    <2>1. alone /\ \A q \in Process \ {p} :
                      run[q].step \in AtRest /\ run'[q] = run[q]
        BY <1>1, StepsAlone
    <2>2. \A q \in Process \ {p} : ~Exists(run[q].backup)
        BY <1>0, <2>1, RunFacts DEF AtRest
    <2>3. \A old \in OnDisk : Exists(old) =>
             old \in {sourceRoot, run[p].backup} \cup leftovers
        BY <2>2 DEF OnDisk
    <2>4. {sourceRoot', run'[p].backup} \cup leftovers' \subseteq OnDisk'
        BY DEF OnDisk
    <2>5. QED BY <2>1, <2>3, <2>4 DEF HistoryInv
\* It is enough to look at the one run.
<1>2. ASSUME NEW p \in Process, Step(p), ReplacesNothing(p)',
             \A old \in OnDisk : Exists(old) =>
                \E new \in OnDisk' : Contains(new, old),
             \A release \in installed' : release \in installed
                \/ \E new \in OnDisk' : RetainedIn(new, release)
      PROVE  Keeps
    <2>1. AllOnDisk'
        BY <1>0, <1>1, <1>2, HistoryMoves
    <2>2. \A q \in Process \ {p} : run'[q].step \in AtRest
        BY <1>1, <1>2
    <2>3. \A q \in Process : ReplacesNothing(q)'
        BY <1>2, <2>2 DEF ReplacesNothing, AtRest
    <2>4. OneInProgress'
        BY <2>2 DEF OneInProgress, InProgress
    <2>5. QED BY <2>1, <2>3, <2>4
<1>3. ASSUME NEW p \in Process, Read(p)
      PROVE  Keeps
    <2>0. Step(p)
        BY <1>3 DEF Step
    <2>1. PICK release \in IdRelease :
             /\ CanMaterialize(sourceRoot, release)
             /\ run' = [run EXCEPT ![p] =
                   [step    |-> IF Exists(sourceRoot) THEN "aside" ELSE "install",
                    release |-> release,
                    merged  |-> MergeTrees(sourceRoot, ReleaseFiles(release)),
                    backup  |-> EmptyTree]]
        BY <1>3 DEF Read
    <2>2. run[p].step \in AtRest /\ UNCHANGED <<sourceRoot, leftovers, installed>>
        BY <1>3 DEF Read
    <2>3. /\ run'[p].step \in {"aside", "install"}
          /\ run'[p].release = release
          /\ run'[p].merged = MergeTrees(sourceRoot, ReleaseFiles(release))
        BY <1>0, <2>1
    <2>4. ReplacesNothing(p)'
        BY <2>1, <2>2, <2>3, MergeContains DEF ReplacesNothing, Contains, RetainedIn
    <2>5. ~Exists(run[p].backup)
        BY <1>0, <2>2, RunFacts DEF AtRest
    <2>6. QED BY <1>1, <1>2, <2>0, <2>2, <2>4, <2>5, ContainsItself
<1>4. ASSUME NEW p \in Process, InstallNew(p)
      PROVE  Keeps
    <2>0. Step(p)
        BY <1>4 DEF Step
    <2>1. /\ run[p].step = "install" /\ ~Exists(sourceRoot)
          /\ sourceRoot' = run[p].merged /\ leftovers' = leftovers
          /\ installed' = installed \cup {run[p].release}
          /\ run'[p].step = "done"
        BY <1>0, <1>4 DEF InstallNew, PutInPlace, Stop, RunState
    <2>2. ReplacesNothing(p)'
        BY <2>1 DEF ReplacesNothing
    <2>3. ~Exists(run[p].backup)
        BY <1>0, <2>1, RunFacts
    <2>4. RetainedIn(sourceRoot', run[p].release)
        BY <1>1, <2>0, <2>1 DEF ReplacesNothing
    <2>5. QED BY <1>1, <1>2, <2>0, <2>1, <2>2, <2>3, <2>4, ContainsItself
<1>5. ASSUME NEW p \in Process, GiveUp(p)
      PROVE  Keeps
    <2>0. Step(p)
        BY <1>5 DEF Step
    <2>1. /\ run[p].step \in {"install", "aside"} /\ run'[p].step = "error"
          /\ UNCHANGED <<sourceRoot, leftovers, installed>>
        BY <1>0, <1>5 DEF GiveUp, Stop, RunState
    <2>2. ReplacesNothing(p)'
        BY <2>1 DEF ReplacesNothing
    <2>3. ~Exists(run[p].backup)
        BY <1>0, <2>1, RunFacts
    <2>4. QED BY <1>1, <1>2, <2>0, <2>1, <2>2, <2>3, ContainsItself
<1>6. ASSUME NEW p \in Process, MoveAside(p)
      PROVE  Keeps
    <2>0. Step(p)
        BY <1>6 DEF Step
    <2>1. /\ run[p].step = "aside" /\ run'[p].step = "swap"
          /\ run'[p].backup = sourceRoot /\ run'[p].merged = run[p].merged
          /\ run'[p].release = run[p].release
          /\ UNCHANGED <<leftovers, installed>>
        BY <1>0, <1>6 DEF MoveAside, RunState
    <2>2. ReplacesNothing(p)'
        BY <1>1, <2>0, <2>1 DEF ReplacesNothing, Contains, RetainedIn
    <2>3. ~Exists(run[p].backup)
        BY <1>0, <2>1, RunFacts
    <2>4. QED BY <1>1, <1>2, <2>0, <2>1, <2>2, <2>3, ContainsItself
<1>7. ASSUME NEW p \in Process, Swap(p)
      PROVE  Keeps
    <2>0. Step(p)
        BY <1>7 DEF Step
    <2>1. /\ run[p].step = "swap" /\ ~Exists(sourceRoot)
          /\ sourceRoot' = run[p].merged /\ leftovers' = leftovers
          /\ installed' = installed \cup {run[p].release}
          /\ run'[p].step = "clean" /\ run'[p].backup = run[p].backup
        BY <1>0, <1>7 DEF Swap, PutInPlace, Goto, RunState
    <2>2. /\ Contains(sourceRoot', run[p].backup)
          /\ RetainedIn(sourceRoot', run[p].release)
        BY <1>1, <2>0, <2>1 DEF ReplacesNothing
    <2>3. ReplacesNothing(p)'
        BY <2>1, <2>2 DEF ReplacesNothing, Contains
    <2>4. QED BY <1>1, <1>2, <2>0, <2>1, <2>2, <2>3, ContainsItself
<1>8. ASSUME NEW p \in Process, SwapFails(p)
      PROVE  Keeps
    <2>0. Step(p)
        BY <1>8 DEF Step
    <2>1. /\ run'[p].step = "undo" /\ run'[p].backup = run[p].backup
          /\ UNCHANGED <<sourceRoot, leftovers, installed>>
        BY <1>0, <1>8 DEF SwapFails, Goto, RunState
    <2>2. ReplacesNothing(p)'
        BY <2>1 DEF ReplacesNothing
    <2>3. QED BY <1>1, <1>2, <2>0, <2>1, <2>2, ContainsItself
<1>9. ASSUME NEW p \in Process, Undo(p)
      PROVE  Keeps
    <2>0. Step(p)
        BY <1>9 DEF Step
    <2>1. /\ ~Exists(sourceRoot) /\ sourceRoot' = run[p].backup
          /\ run'[p].step = "error" /\ UNCHANGED <<leftovers, installed>>
        BY <1>0, <1>9 DEF Undo, Stop, RunState
    <2>2. ReplacesNothing(p)'
        BY <2>1 DEF ReplacesNothing
    <2>3. QED BY <1>1, <1>2, <2>0, <2>1, <2>2, ContainsItself
<1>10. ASSUME NEW p \in Process, UndoFails(p)
       PROVE  Keeps
    <2>0. Step(p)
        BY <1>10 DEF Step
    <2>1. /\ leftovers' = leftovers \cup {run[p].backup}
          /\ run'[p].step = "error" /\ UNCHANGED <<sourceRoot, installed>>
        BY <1>0, <1>10 DEF UndoFails, Stop, RunState
    <2>2. ReplacesNothing(p)'
        BY <2>1 DEF ReplacesNothing
    <2>3. QED BY <1>1, <1>2, <2>0, <2>1, <2>2, ContainsItself
<1>11. ASSUME NEW p \in Process, RemoveBackup(p) \/ RemoveBackupFails(p)
       PROVE  Keeps
    <2>0. Step(p)
        BY <1>11 DEF Step
    <2>1. /\ run[p].step = "clean" /\ run'[p].step \in {"done", "error"}
          /\ leftovers \subseteq leftovers' /\ UNCHANGED <<sourceRoot, installed>>
        BY <1>0, <1>11 DEF RemoveBackup, RemoveBackupFails, Stop, RunState
    <2>2. Contains(sourceRoot', run[p].backup)
        BY <1>1, <2>0, <2>1 DEF ReplacesNothing
    <2>3. ReplacesNothing(p)'
        BY <2>1 DEF ReplacesNothing
    <2>4. QED BY <1>1, <1>2, <2>0, <2>1, <2>2, <2>3, ContainsItself
<1>12. ASSUME NEW p \in Process, Die(p)
       PROVE  Keeps
    <2>0. Step(p)
        BY <1>12 DEF Step
    <2>1. /\ run'[p].step = "dead" /\ UNCHANGED <<sourceRoot, installed>>
          /\ leftovers \subseteq leftovers'
          /\ \/ Kept(run[p].backup) \subseteq leftovers'
             \/ run[p].step = "clean"
        BY <1>0, <1>12 DEF Die, Stop, RunState
    <2>2. ReplacesNothing(p)'
        BY <2>1 DEF ReplacesNothing
    <2>3. Exists(run[p].backup) =>
             \/ run[p].backup \in leftovers'
             \/ Contains(sourceRoot', run[p].backup)
        BY <1>1, <2>0, <2>1 DEF ReplacesNothing, Kept
    <2>4. QED BY <1>1, <1>2, <2>0, <2>1, <2>2, <2>3, ContainsItself
<1>13. CASE UNCHANGED vars
    BY <1>13 DEF vars, HistoryInv, AllOnDisk, OnDisk, ReplacesNothing, Contains,
                 RetainedIn, OneInProgress, InProgress
<1>14. QED
    BY <1>3, <1>4, <1>5, <1>6, <1>7, <1>8, <1>9, <1>10, <1>11, <1>12, <1>13
       DEF Next

\* As long as no two runs overlap no history is ever lost from disk, however
\* many runs there are, calls fail or runs die.
THEOREM HistoryTheorem == Spec => []HistoryOnDisk
<1>1. HistoryInv => HistoryOnDisk
    BY DEF HistoryInv, HistoryOnDisk
<1>2. QED BY <1>1, InitHistory, NextHistory, PTL DEF Spec

-----------------------------------------------------------------------------
(***************************************************************************)
(* A single failed call leaves the source directory as it should be.       *)
(***************************************************************************)

LEMMA InitHome == Init => HomeInv
BY DEF Init, HomeInv, HomeKeepsAll, KeepsAll, MovedAside, Idle

\* Failures are never taken back.
LEMMA FailuresGrow ==
    ASSUME TypeOK, NEW p \in Process, Step(p), AtMostOneFailure'
    PROVE  AtMostOneFailure
<1>1. /\ counts \in [runs : 0..MaxRuns, errors : 0..MaxErrors,
                     crashes : 0..MaxCrashes]
      /\ MaxErrors \in Nat /\ MaxCrashes \in Nat
    BY RunAssumption DEF TypeOK
<1>2. counts.errors <= counts'.errors /\ counts.crashes <= counts'.crashes
    BY <1>1 DEF Step, Read, InstallNew, GiveUp, MoveAside, Swap, SwapFails, Undo,
        UndoFails, RemoveBackup, RemoveBackupFails, Die, CallFails, FailsIf
<1>3. counts.crashes \in Nat /\ counts.errors \in Nat
      /\ counts'.errors <= 1 /\ counts'.crashes = 0
      /\ counts'.errors \in Int
    BY <1>1 DEF AtMostOneFailure, Step, Read, InstallNew, GiveUp, MoveAside,
        Swap, SwapFails, Undo, UndoFails, RemoveBackup, RemoveBackupFails, Die,
        CallFails, FailsIf
<1>4. QED BY <1>2, <1>3 DEF AtMostOneFailure

LEMMA NextHome == HistoryInv /\ HomeInv /\ [Next]_vars => HomeInv'
<1> SUFFICES ASSUME HistoryInv, HomeInv, [Next]_vars, alone', AtMostOneFailure'
             PROVE  HomeKeepsAll'
    BY DEF HomeInv
<1>0. /\ WholeInv /\ TypeOK
      /\ run \in [Process -> RunState]
      /\ counts \in [runs : 0..MaxRuns, errors : 0..MaxErrors,
                     crashes : 0..MaxCrashes]
      /\ MaxErrors \in Nat /\ MaxCrashes \in Nat
    BY RunAssumption DEF HistoryInv, WholeInv, TypeOK
\* Before the step nothing more had gone wrong, and no other run is under way.
<1>1. ASSUME NEW p \in Process, Step(p)
      PROVE  /\ HomeKeepsAll /\ AtMostOneFailure /\ ReplacesNothing(p)
             /\ \A q \in Process \ {p} :
                   run[q].step \in AtRest /\ run'[q] = run[q]
    <2>1. alone /\ \A q \in Process \ {p} :
                      run[q].step \in AtRest /\ run'[q] = run[q]
        BY <1>1, StepsAlone
    <2>2. AtMostOneFailure
        BY <1>0, <1>1, FailuresGrow
    <2>3. QED BY <2>1, <2>2 DEF HomeInv, HistoryInv
<1>2. ASSUME NEW p \in Process, Step(p)
      PROVE  /\ ~MovedAside(p) => KeepsAll(sourceRoot)
             /\ \A q \in Process \ {p} : ~MovedAside(q)'
             /\ \A q \in Process \ {p} : run'[q].step # "undo"
    BY <1>1, <1>2 DEF HomeKeepsAll, MovedAside, AtRest
\* A step after which the source directory has the history.
<1>3. ASSUME NEW p \in Process, Step(p), KeepsAll(sourceRoot)',
             run'[p].step \notin {"swap", "undo"}
      PROVE  HomeKeepsAll'
    <2>1. \A q \in Process : ~MovedAside(q)' /\ run'[q].step # "undo"
        BY <1>2, <1>3 DEF MovedAside
    <2>2. QED BY <1>3, <2>1 DEF HomeKeepsAll
\* A step that leaves the source directory and the history alone.
<1>4. ASSUME NEW p \in Process, Step(p), UNCHANGED <<sourceRoot, installed>>,
             ~MovedAside(p), run'[p].step \notin {"swap", "undo"}
      PROVE  HomeKeepsAll'
    <2>1. KeepsAll(sourceRoot)
        BY <1>2, <1>4
    <2>2. KeepsAll(sourceRoot)'
        BY <1>4, <2>1 DEF KeepsAll, RetainedIn
    <2>3. QED BY <1>3, <1>4, <2>2
\* The merged tree is put in place, and contains what has the history.
<1>5. ASSUME NEW p \in Process, Step(p), PutInPlace(p), NEW home,
             KeepsAll(home), Contains(run[p].merged, home),
             RetainedIn(run[p].merged, run[p].release),
             run'[p].step \notin {"swap", "undo"}
      PROVE  HomeKeepsAll'
    <2>1. \A release \in installed : RetainedIn(run[p].merged, release)
        BY <1>5, ContainsRetained DEF KeepsAll
    <2>2. KeepsAll(sourceRoot)'
        BY <1>5, <2>1 DEF PutInPlace, KeepsAll, RetainedIn
    <2>3. QED BY <1>3, <1>5, <2>2
\* The prior tree is, or stays, in the backup.
<1>6. ASSUME NEW p \in Process, Step(p), run'[p].step \in {"swap", "undo"},
             KeepsAll(run'[p].backup), installed' = installed,
             ~Exists(sourceRoot'),
             run'[p].step = "undo" => counts'.errors = 1
      PROVE  HomeKeepsAll'
    <2>1. KeepsAll(run[p].backup)'
        BY <1>6 DEF KeepsAll, RetainedIn
    <2>2. MovedAside(p)' /\ Exists(sourceRoot)' = Exists(sourceRoot')
        BY <1>6 DEF MovedAside, Exists
    <2>3. QED BY <1>2, <1>6, <2>1, <2>2 DEF HomeKeepsAll
<1>7. ASSUME NEW p \in Process, Read(p) PROVE HomeKeepsAll'
    <2>1. run[p].step \in AtRest /\ run'[p].step \in {"aside", "install"}
          /\ UNCHANGED <<sourceRoot, installed>>
        BY <1>0, <1>7 DEF Read
    <2>2. QED BY <1>4, <1>7, <2>1 DEF AtRest, Step, MovedAside
<1>8. ASSUME NEW p \in Process, InstallNew(p) PROVE HomeKeepsAll'
    <2>1. run[p].step = "install" /\ PutInPlace(p) /\ run'[p].step = "done"
        BY <1>0, <1>8 DEF InstallNew, Stop, RunState
    <2>2. Step(p)
        BY <1>8 DEF Step
    <2>3. /\ Contains(run[p].merged, sourceRoot) /\ KeepsAll(sourceRoot)
          /\ RetainedIn(run[p].merged, run[p].release)
        BY <1>1, <1>2, <2>1, <2>2 DEF ReplacesNothing, MovedAside
    <2>4. QED BY <1>5, <2>1, <2>2, <2>3
<1>9. ASSUME NEW p \in Process, GiveUp(p) PROVE HomeKeepsAll'
    <2>1. run[p].step \in {"install", "aside"} /\ run'[p].step = "error"
          /\ UNCHANGED <<sourceRoot, installed>>
        BY <1>0, <1>9 DEF GiveUp, Stop, RunState
    <2>2. QED BY <1>4, <1>9, <2>1 DEF Step, MovedAside
<1>10. ASSUME NEW p \in Process, MoveAside(p) PROVE HomeKeepsAll'
    <2>1. run[p].step = "aside" /\ run'[p].step = "swap"
          /\ run'[p].backup = sourceRoot /\ sourceRoot' = EmptyTree
          /\ installed' = installed
        BY <1>0, <1>10 DEF MoveAside, RunState
    <2>2. Step(p)
        BY <1>10 DEF Step
    <2>3. KeepsAll(run'[p].backup)
        BY <1>2, <2>1, <2>2 DEF MovedAside
    <2>4. QED BY <1>6, <2>1, <2>2, <2>3, EmptyTreeFacts
<1>11. ASSUME NEW p \in Process, Swap(p) PROVE HomeKeepsAll'
    <2>1. run[p].step = "swap" /\ PutInPlace(p) /\ run'[p].step = "clean"
        BY <1>0, <1>11 DEF Swap, Goto, RunState
    <2>2. Step(p)
        BY <1>11 DEF Step
    <2>3. /\ Contains(run[p].merged, run[p].backup) /\ KeepsAll(run[p].backup)
          /\ RetainedIn(run[p].merged, run[p].release)
        BY <1>1, <2>1, <2>2 DEF ReplacesNothing, HomeKeepsAll, MovedAside
    <2>4. QED BY <1>5, <2>1, <2>2, <2>3
\* Nothing is in the way of the second rename: its failure is the one allowed.
<1>12. ASSUME NEW p \in Process, SwapFails(p) PROVE HomeKeepsAll'
    <2>1. /\ run[p].step = "swap" /\ run'[p].step = "undo"
          /\ run'[p].backup = run[p].backup
          /\ UNCHANGED <<sourceRoot, installed>>
        BY <1>0, <1>12 DEF SwapFails, Goto, RunState
    <2>2. Step(p)
        BY <1>12 DEF Step
    <2>3. KeepsAll(run[p].backup) /\ ~Exists(sourceRoot) /\ AtMostOneFailure
        BY <1>1, <2>1, <2>2 DEF HomeKeepsAll, MovedAside
    <2>4. counts'.errors = counts.errors + 1
        BY <1>0, <1>12, <2>3 DEF SwapFails, FailsIf, CallFails
    <2>5. counts'.errors = 1
        BY <1>0, <2>3, <2>4 DEF AtMostOneFailure
    <2>6. QED BY <1>6, <2>1, <2>2, <2>3, <2>5
<1>13. ASSUME NEW p \in Process, Undo(p) PROVE HomeKeepsAll'
    <2>1. /\ run[p].step = "undo" /\ run'[p].step = "error"
          /\ sourceRoot' = run[p].backup /\ installed' = installed
        BY <1>0, <1>13 DEF Undo, Stop, RunState
    <2>2. Step(p)
        BY <1>13 DEF Step
    <2>3. KeepsAll(run[p].backup)
        BY <1>1, <2>1, <2>2 DEF HomeKeepsAll, MovedAside
    <2>4. KeepsAll(sourceRoot)'
        BY <2>1, <2>3 DEF KeepsAll, RetainedIn
    <2>5. QED BY <1>3, <2>1, <2>2, <2>4
\* Its rollback would be the second failure.
<1>14. ASSUME NEW p \in Process, UndoFails(p) PROVE FALSE
    <2>1. run[p].step = "undo" /\ Step(p)
        BY <1>14 DEF UndoFails, Step
    <2>2. ~Exists(sourceRoot) /\ counts.errors = 1
        BY <1>1, <2>1 DEF HomeKeepsAll, MovedAside
    <2>3. counts'.errors = 2
        BY <1>0, <1>14, <2>2 DEF UndoFails, FailsIf, CallFails
    <2>4. QED BY <2>3 DEF AtMostOneFailure
<1>15. ASSUME NEW p \in Process, RemoveBackup(p) \/ RemoveBackupFails(p)
       PROVE  HomeKeepsAll'
    <2>1. run[p].step = "clean" /\ UNCHANGED <<sourceRoot, installed>>
        BY <1>15 DEF RemoveBackup, RemoveBackupFails
    <2>2. PICK step \in {"done", "error"} : Stop(p, step)
        BY <1>15 DEF RemoveBackup, RemoveBackupFails
    <2>3. run'[p].step = step
        BY <1>0, <2>2 DEF Stop, RunState
    <2>4. QED BY <1>4, <1>15, <2>1, <2>2, <2>3 DEF Step, MovedAside
<1>16. ASSUME NEW p \in Process, Die(p) PROVE FALSE
    <2>1. counts'.crashes = counts.crashes + 1 /\ counts.crashes \in Nat
        BY <1>0, <1>16 DEF Die
    <2>2. QED BY <2>1 DEF AtMostOneFailure
<1>17. CASE UNCHANGED vars
    BY <1>17 DEF vars, HomeInv, HomeKeepsAll, KeepsAll, MovedAside, RetainedIn,
                 AtMostOneFailure
<1>18. QED
    BY <1>7, <1>8, <1>9, <1>10, <1>11, <1>12, <1>13, <1>14, <1>15, <1>16, <1>17
       DEF Next

\* Unless runs overlap, one failed call and no death leave the source directory
\* in place with its whole history whenever no run is in progress.
THEOREM OneFailureTheorem == Spec => []SurvivesOneFailure
<1>1. HistoryInv /\ HomeInv /\ [Next]_vars => HistoryInv' /\ HomeInv'
    BY NextHistory, NextHome
<1>2. HomeInv => SurvivesOneFailure
    BY DEF HomeInv, HomeKeepsAll, MovedAside, SurvivesOneFailure, InProgress, AtRest
<1>3. QED BY <1>1, <1>2, InitHistory, InitHome, PTL DEF Spec

-----------------------------------------------------------------------------
(***************************************************************************)
(* The materializer as one step.                                           *)
(***************************************************************************)

\* Where the tree of the source is when no run but that of p moved it.
LEMMA TheOnlyOne == \A p : (CHOOSE q \in {p} : TRUE) = p
OBVIOUS

LEMMA HomeNow ==
    ASSUME NEW p \in Process, \A q \in Process \ {p} : ~MovedAside(q)
    PROVE  Home = IF MovedAside(p) THEN run[p].backup ELSE sourceRoot
<1>1. Aside = IF MovedAside(p) THEN {p} ELSE {}
    BY DEF Aside
<1>2. QED BY <1>1, TheOnlyOne DEF Home

LEMMA HomeNext ==
    ASSUME NEW p \in Process, \A q \in Process \ {p} : ~MovedAside(q)'
    PROVE  Home' = IF MovedAside(p)' THEN run'[p].backup ELSE sourceRoot'
<1>1. Aside' = IF MovedAside(p)' THEN {p} ELSE {}
    BY DEF Aside
<1>2. QED BY <1>1, TheOnlyOne DEF Home

\* What is known when the run of p moves and nothing has gone wrong.
LEMMA SoundStep ==
    ASSUME InstallInv, Sound', NEW p \in Process, Step(p)
    PROVE  /\ Sound /\ MergeIsCurrent(p) /\ HomeKeepsAll
           /\ \A q \in Process \ {p} :
                 run'[q] = run[q] /\ ~MovedAside(q) /\ ~MovedAside(q)'
<1>1. /\ HistoryInv /\ HomeInv /\ TypeOK
      /\ alone => \A q \in Process : MergeIsCurrent(q)
    BY DEF InstallInv, HistoryInv, WholeInv
<1>2. /\ alone
      /\ \A q \in Process \ {p} : run[q].step \in AtRest /\ run'[q] = run[q]
    BY <1>1, StepsAlone DEF Sound
<1>3. AtMostOneFailure
    BY <1>1, FailuresGrow DEF Sound
<1>4. \A q \in Process \ {p} : ~MovedAside(q) /\ ~MovedAside(q)'
    BY <1>2 DEF MovedAside, AtRest
<1>5. QED BY <1>1, <1>2, <1>3, <1>4 DEF Sound, HomeInv

LEMMA InstallStep ==
    ASSUME InstallInv, [Next]_vars
    PROVE  [Store!Next]_<<Home, Sound>>
<1>1. CASE UNCHANGED vars
    BY <1>1 DEF vars, Home, Aside, MovedAside, Sound, AtMostOneFailure
<1>2. CASE ~Sound'
    BY <1>2 DEF Store!Next, Store!GoWrong
<1>3. ASSUME NEW p \in Process, Step(p), Sound'
      PROVE  [Store!Next]_<<Home, Sound>>
    <2>0. /\ run \in [Process -> RunState]
          /\ counts \in [runs : 0..MaxRuns, errors : 0..MaxErrors,
                         crashes : 0..MaxCrashes]
          /\ \A q \in Process : HoldsWholeTrees(q)
        BY DEF InstallInv, HistoryInv, WholeInv, TypeOK
    <2>1. /\ Sound /\ MergeIsCurrent(p) /\ HomeKeepsAll
          /\ Home = IF MovedAside(p) THEN run[p].backup ELSE sourceRoot
          /\ Home' = IF MovedAside(p)' THEN run'[p].backup ELSE sourceRoot'
        BY <1>3, SoundStep, HomeNow, HomeNext
    <2>2. CASE Home' = Home
        BY <1>3, <2>1, <2>2 DEF Sound
    <2>3. CASE Read(p)
        <3>1. run[p].step \in AtRest /\ sourceRoot' = sourceRoot
              /\ run'[p].step \in {"install", "aside"}
            BY <2>0, <2>3 DEF Read
        <3>2. QED BY <2>1, <2>2, <3>1 DEF MovedAside, AtRest
    <2>4. CASE InstallNew(p) \/ Swap(p)
        <3>1. /\ run[p].step \in {"install", "swap"}
              /\ run'[p].step \in {"done", "clean"}
              /\ sourceRoot' = run[p].merged
            BY <2>0, <2>4 DEF InstallNew, Swap, PutInPlace, Stop, Goto, RunState
        <3>2. /\ run[p].release \in IdRelease
              /\ CanMaterialize(Home, run[p].release)
              /\ run[p].merged = Joined(Home, run[p].release)
            BY <2>0, <2>1, <3>1 DEF MergeIsCurrent, HoldsWholeTrees, MovedAside
        <3>3. Home' = run[p].merged
            BY <2>1, <3>1 DEF MovedAside
        <3>4. QED BY <1>3, <2>1, <3>2, <3>3 DEF Store!Next, Store!Install
    <2>5. CASE GiveUp(p)
        <3>1. run[p].step \in {"install", "aside"} /\ run'[p].step = "error"
              /\ sourceRoot' = sourceRoot
            BY <2>0, <2>5 DEF GiveUp, Stop, RunState
        <3>2. QED BY <2>1, <2>2, <3>1 DEF MovedAside
    <2>6. CASE MoveAside(p)
        <3>1. run[p].step = "aside" /\ run'[p].step = "swap"
              /\ run'[p].backup = sourceRoot
            BY <2>0, <2>6 DEF MoveAside, RunState
        <3>2. QED BY <2>1, <2>2, <3>1 DEF MovedAside
    <2>7. CASE SwapFails(p)
        <3>1. run[p].step = "swap" /\ run'[p].step = "undo"
              /\ run'[p].backup = run[p].backup
            BY <2>0, <2>7 DEF SwapFails, Goto, RunState
        <3>2. QED BY <2>1, <2>2, <3>1 DEF MovedAside
    <2>8. CASE Undo(p)
        <3>1. run[p].step = "undo" /\ run'[p].step = "error"
              /\ sourceRoot' = run[p].backup
            BY <2>0, <2>8 DEF Undo, Stop, RunState
        <3>2. QED BY <2>1, <2>2, <3>1 DEF MovedAside
    \* The failure of the rollback would be the second one.
    <2>9. ASSUME UndoFails(p) PROVE FALSE
        <3>1. counts.errors = 1 /\ ~Exists(sourceRoot)
            BY <2>1, <2>9 DEF UndoFails, HomeKeepsAll, MovedAside
        <3>2. counts'.errors = 2
            BY <2>0, <2>9, <3>1 DEF UndoFails, FailsIf, CallFails
        <3>3. QED BY <1>3, <3>2 DEF Sound, AtMostOneFailure
    <2>10. CASE RemoveBackup(p) \/ RemoveBackupFails(p)
        <3>1. run[p].step = "clean" /\ sourceRoot' = sourceRoot
            BY <2>10 DEF RemoveBackup, RemoveBackupFails
        <3>2. PICK step \in {"done", "error"} : Stop(p, step)
            BY <2>10 DEF RemoveBackup, RemoveBackupFails
        <3>3. run'[p].step = step
            BY <2>0, <3>2 DEF Stop, RunState
        <3>4. QED BY <2>1, <2>2, <3>1, <3>2, <3>3 DEF MovedAside
    <2>11. ASSUME Die(p) PROVE FALSE
        <3>1. counts'.crashes = counts.crashes + 1 /\ counts.crashes \in Nat
            BY <2>0, <2>11, RunAssumption DEF Die
        <3>2. QED BY <1>3, <3>1 DEF Sound, AtMostOneFailure
    <2>12. QED
        BY <1>3, <2>3, <2>4, <2>5, <2>6, <2>7, <2>8, <2>9, <2>10, <2>11 DEF Step
<1>4. QED BY <1>1, <1>2, <1>3 DEF Next, Step

LEMMA CurrentStep ==
    ASSUME InstallInv, [Next]_vars, alone'
    PROVE  \A p \in Process : MergeIsCurrent(p)'
<1>0. HistoryInv /\ run \in [Process -> RunState]
    BY DEF InstallInv, HistoryInv, WholeInv, TypeOK
<1>1. CASE UNCHANGED vars
    BY <1>0, <1>1 DEF vars, InstallInv, MergeIsCurrent
\* The other runs are at rest, so that nothing is asked of them.
<1>2. ASSUME NEW p \in Process, Step(p), MergeIsCurrent(p)'
      PROVE  \A q \in Process : MergeIsCurrent(q)'
    <2>1. \A q \in Process \ {p} : run'[q].step \in AtRest
        BY <1>0, <1>2, StepsAlone
    <2>2. QED BY <1>2, <2>1 DEF MergeIsCurrent, AtRest
<1>3. ASSUME NEW p \in Process, Step(p)
      PROVE  MergeIsCurrent(p)'
    <2>1. MergeIsCurrent(p)
        BY <1>0, <1>3, StepsAlone DEF InstallInv
    <2>2. CASE Read(p)
        <3>1. PICK release \in IdRelease :
                 /\ CanMaterialize(sourceRoot, release)
                 /\ run'[p].release = release
                 /\ run'[p].merged = Joined(sourceRoot, release)
                 /\ run'[p].step \in {"install", "aside"}
            BY <1>0, <2>2 DEF Read, Joined
        <3>2. sourceRoot' = sourceRoot
            BY <2>2 DEF Read
        <3>3. QED BY <3>1, <3>2 DEF MergeIsCurrent
    <2>3. CASE MoveAside(p)
        <3>1. /\ run[p].step = "aside" /\ run'[p].step = "swap"
              /\ run'[p].backup = sourceRoot
              /\ run'[p].release = run[p].release /\ run'[p].merged = run[p].merged
            BY <1>0, <2>3 DEF MoveAside, RunState
        <3>2. QED BY <2>1, <3>1 DEF MergeIsCurrent
    <2>4. CASE ~Read(p) /\ ~MoveAside(p)
        <3>1. \/ \E step \in {"done", "error", "dead"} : Stop(p, step)
              \/ \E step \in {"clean", "undo"} : Goto(p, step)
            BY <1>3, <2>4 DEF Step, InstallNew, GiveUp, Swap, SwapFails,
                Undo, UndoFails, RemoveBackup, RemoveBackupFails, Die
        <3>2. run'[p].step \in {"done", "error", "dead", "clean", "undo"}
            BY <1>0, <3>1 DEF Stop, Goto, RunState
        <3>3. QED BY <3>2 DEF MergeIsCurrent
    <2>5. QED BY <2>2, <2>3, <2>4
<1>4. QED BY <1>1, <1>2, <1>3 DEF Next, Step

LEMMA NextInstall == InstallInv /\ [Next]_vars => InstallInv'
BY NextHistory, NextHome, CurrentStep DEF InstallInv

LEMMA InitInstall == Init => InstallInv /\ Store!Init
<1>1. ASSUME Init
      PROVE  /\ \A p \in Process : MergeIsCurrent(p)
             /\ Home = EmptyTree /\ Sound = TRUE
    BY <1>1 DEF Init, Idle, MergeIsCurrent, Home, Aside, MovedAside, Sound,
        AtMostOneFailure
<1>2. QED BY <1>1, InitHistory, InitHome DEF InstallInv, Store!Init

\* The materializer, call by call and with any number of processes, is one step
\* for whoever looks at the tree of the source, until two runs overlap, one dies
\* or a second call fails.
THEOREM InstallTheorem == Spec => InstallsInOneStep
<1>1. InstallInv /\ [Next]_vars => [Store!Next]_<<Home, Sound>>
    BY InstallStep
<1>2. Spec => []InstallInv
    BY InitInstall, NextInstall, PTL DEF Spec
<1>3. QED
    BY <1>1, <1>2, InitInstall, PTL DEF Spec, InstallsInOneStep, Store!Spec
=============================================================================
