--------------------------------- MODULE Mirror ---------------------------------
(***************************************************************************)
(* ReplicatePublicMirror: copy the sources of the protected repository to  *)
(* a second repository root and put them in place of what is there, call   *)
(* by call.  The protected tree is a checkout that may move to another     *)
(* revision at any time, to an earlier one too; every call may fail and    *)
(* the program may die.  One replication is at work at a time.             *)
(*                                                                         *)
(* A prefix directory "catalog/sources" is the trees of its sources, or    *)
(* NoFile when the directory does not exist.                               *)
(***************************************************************************)
EXTENDS ReleaseTree

CONSTANTS
    Revision,    \* what the protected checkout may hold
    MaxUpdates,  \* bound: changes of the checkout
    MaxRuns,     \* bound: replications started
    MaxErrors,   \* bound: calls that fail
    MaxCrashes   \* bound: replications that die

Files == [Source -> Tree]
EmptyFiles == [s \in Source |-> EmptyTree]

ASSUME RevisionAssumption == Revision \subseteq Files
ASSUME FilesAssumption == NoFile \notin Files
ASSUME BoundAssumption ==
    {MaxUpdates, MaxRuns, MaxErrors, MaxCrashes} \subseteq Nat

VARIABLES
    protected,  \* the sources of the protected checkout
    mirror,     \* the sources of the mirror
    run,        \* step, the sources read, the mirror before, the backup
    counts,     \* updates, runs, failed calls, deaths, failed rollbacks
    kept,       \* prior mirrors that an earlier replication left behind, whole
    served      \* history: the trees that a finished replication installed

vars == <<protected, mirror, run, counts, kept, served>>

AtRest == {"idle", "done", "uncleaned", "error", "unrestored", "dead"}
Steps  == AtRest \cup {"stage", "aside", "swap", "undo", "readback", "remove",
                       "restore", "clean"}

Prefix   == Files \cup {NoFile}
RunState == [step : Steps, sources : Prefix, before : Prefix, backup : Prefix]
Idle == [step |-> "idle", sources |-> NoFile, before |-> NoFile, backup |-> NoFile]

Counts == [updates : 0..MaxUpdates, runs : 0..MaxRuns, errors : 0..MaxErrors,
           crashes : 0..MaxCrashes, lost : 0..MaxErrors]

FilesIn(prefix) == IF prefix = NoFile THEN EmptyFiles ELSE prefix

\* readRepositorySources.
Readable(prefix) == \A s \in Source : SourceReadable(FilesIn(prefix)[s])

\* VerifyPublicMirror: both trees are readable and equal, byte for byte.
VerifyPublicMirror(source, copy) ==
    Readable(source) /\ Readable(copy) /\ FilesIn(source) = FilesIn(copy)

\* One source of it: a source that exists stays, with its immutable files.
KeepsSource(new, old) ==
    /\ Exists(old) => Exists(new)
    /\ \A p \in Path : Immutable(p) /\ old[p] # NoFile => new[p] = old[p]

\* Mutant: only the sources are compared, not their immutable files.
MutEnsureImmutablesUnchanged(sources, existing) ==
    \A s \in Source : Exists(FilesIn(existing)[s]) => Exists(sources[s])

\* ensureMirrorImmutablesUnchanged: nothing immutable is withdrawn.
EnsureImmutablesUnchanged(sources, existing) ==
    \A s \in Source : KeepsSource(sources[s], FilesIn(existing)[s])

Init ==
    /\ protected \in Revision
    /\ mirror = NoFile
    /\ run = Idle
    /\ counts = [updates |-> 0, runs |-> 0, errors |-> 0, crashes |-> 0, lost |-> 0]
    /\ kept = {}
    /\ served = {}

Goto(step) == run' = [run EXCEPT !.step = step]
\* The end of a replication.  A backup that it still has stays beside the
\* mirror, and nobody looks at it again.
End(step)   == run' = [run EXCEPT !.step = step, !.backup = NoFile]
Stop(step)  == End(step) /\ UNCHANGED kept
Leave(step) == End(step) /\ kept' = kept \cup ({run.backup} \ {NoFile})

CallFails == /\ counts.errors < MaxErrors
             /\ counts' = [counts EXCEPT !.errors = @ + 1]
RollbackFails ==
    /\ counts.errors < MaxErrors
    /\ counts' = [counts EXCEPT !.errors = @ + 1, !.lost = @ + 1]

\* What a removal that does not come to its end may leave.
PartsOf(files) ==
    {[s \in Source |-> [p \in Path |->
        IF <<s, p>> \in left THEN files[s][p] ELSE NoFile]] :
     left \in SUBSET {sp \in Source \X Path : files[sp[1]][sp[2]] # NoFile}}

(***************************************************************************)
(* The steps.                                                              *)
(***************************************************************************)

\* The checkout moves.
Update ==
    /\ counts.updates < MaxUpdates
    /\ protected' \in Revision \ {protected}
    /\ counts' = [counts EXCEPT !.updates = @ + 1]
    /\ UNCHANGED <<mirror, run, kept, served>>

\* Read both trees and compare their immutable files.
Read ==
    /\ run.step \in AtRest
    /\ counts.runs < MaxRuns
    /\ Readable(protected)
    /\ Readable(mirror)
    /\ EnsureImmutablesUnchanged(protected, mirror)
    /\ run' = [step |-> "stage", sources |-> protected, before |-> mirror,
               backup |-> NoFile]
    /\ counts' = [counts EXCEPT !.runs = @ + 1]
    /\ UNCHANGED <<protected, mirror, kept, served>>

\* Write the staging tree and compare it with the checkout of now.
Stage ==
    /\ run.step = "stage"
    /\ VerifyPublicMirror(protected, run.sources)
    /\ Goto(IF mirror = NoFile THEN "swap" ELSE "aside")
    /\ UNCHANGED <<protected, mirror, counts, kept, served>>

\* Nothing has been touched yet: the checkout has moved, or a call fails.
GiveUp ==
    /\ \/ /\ run.step = "stage"
          /\ ~VerifyPublicMirror(protected, run.sources)
          /\ UNCHANGED counts
       \/ run.step \in {"stage", "aside"} /\ CallFails
    /\ Stop("error")
    /\ UNCHANGED <<protected, mirror, served>>

\* Mutant: what is in the way is removed.
MutMoveAside ==
    /\ run.step = "aside"
    /\ Goto("swap")
    /\ mirror' = NoFile
    /\ UNCHANGED <<protected, counts, kept, served>>

MoveAside ==
    /\ run.step = "aside"
    /\ run' = [run EXCEPT !.step = "swap", !.backup = mirror]
    /\ mirror' = NoFile
    /\ UNCHANGED <<protected, counts, kept, served>>

Swap ==
    /\ run.step = "swap"
    /\ mirror' = run.sources
    /\ Goto("readback")
    /\ UNCHANGED <<protected, counts, kept, served>>

SwapFails ==
    /\ run.step = "swap"
    /\ CallFails
    /\ IF run.backup = NoFile THEN Stop("error")
       ELSE Goto("undo") /\ UNCHANGED kept
    /\ UNCHANGED <<protected, mirror, served>>

\* The rollback of the second rename; its error is ignored.
Undo ==
    /\ run.step = "undo"
    /\ mirror' = run.backup
    /\ Stop("error")
    /\ UNCHANGED <<protected, counts, served>>

UndoFails ==
    /\ run.step = "undo"
    /\ RollbackFails
    /\ Leave("error")
    /\ UNCHANGED <<protected, mirror, served>>

\* Compare what is in place with the checkout of now.
Readback ==
    /\ run.step = "readback"
    /\ VerifyPublicMirror(protected, mirror)
    /\ IF run.backup = NoFile THEN Stop("done")
       ELSE Goto("clean") /\ UNCHANGED kept
    /\ served' = served \cup {mirror}
    /\ UNCHANGED <<protected, mirror, counts>>

ReadbackFails ==
    /\ run.step = "readback"
    /\ \/ ~VerifyPublicMirror(protected, mirror) /\ UNCHANGED counts
       \/ CallFails
    /\ Goto("remove")
    /\ UNCHANGED <<protected, mirror, kept, served>>

\* The rollback after a failed readback: remove what was put in place ...
RemoveNew ==
    /\ run.step = "remove"
    /\ mirror' = NoFile
    /\ IF run.backup = NoFile THEN Stop("error")
       ELSE Goto("restore") /\ UNCHANGED kept
    /\ UNCHANGED <<protected, counts, served>>

RemoveNewFails ==
    /\ run.step = "remove"
    /\ RollbackFails
    /\ mirror' \in PartsOf(mirror)
    /\ Leave("unrestored")
    /\ UNCHANGED <<protected, served>>

\* Mutant: the prior mirror is not put back.
MutRestore ==
    /\ run.step = "restore"
    /\ Stop("error")
    /\ UNCHANGED <<protected, mirror, counts, served>>

\* ... and put the prior mirror back.
Restore ==
    /\ run.step = "restore"
    /\ mirror' = run.backup
    /\ Stop("error")
    /\ UNCHANGED <<protected, counts, served>>

RestoreFails ==
    /\ run.step = "restore"
    /\ RollbackFails
    /\ Leave("unrestored")
    /\ UNCHANGED <<protected, mirror, served>>

\* Mutant: the backup stays.
MutRemoveBackup ==
    /\ run.step = "clean"
    /\ Goto("done")
    /\ UNCHANGED <<protected, mirror, counts, kept, served>>

RemoveBackup ==
    /\ run.step = "clean"
    /\ Stop("done")
    /\ UNCHANGED <<protected, mirror, counts, served>>

RemoveBackupFails ==
    /\ run.step = "clean"
    /\ CallFails
    /\ \/ Leave("uncleaned")
       \/ Stop("uncleaned")
    /\ UNCHANGED <<protected, mirror, served>>

\* The program dies, perhaps in the middle of a removal.
Die ==
    /\ run.step \notin AtRest
    /\ counts.crashes < MaxCrashes
    /\ counts' = [counts EXCEPT !.crashes = @ + 1]
    /\ \/ UNCHANGED mirror
       \/ run.step = "remove" /\ mirror' \in PartsOf(mirror)
    /\ \/ Leave("dead")
       \/ run.step = "clean" /\ Stop("dead")
    /\ UNCHANGED <<protected, served>>

Next ==
    \/ Update
    \/ Read
    \/ Stage
    \/ GiveUp
    \/ MoveAside
    \/ Swap
    \/ SwapFails
    \/ Undo
    \/ UndoFails
    \/ Readback
    \/ ReadbackFails
    \/ RemoveNew
    \/ RemoveNewFails
    \/ Restore
    \/ RestoreFails
    \/ RemoveBackup
    \/ RemoveBackupFails
    \/ Die

Spec == Init /\ [][Next]_vars

-----------------------------------------------------------------------------
(***************************************************************************)
(* Properties.                                                             *)
(***************************************************************************)

\* Every variable has its type, and a replication owns a backup only between
\* the first rename and the removal or the return of the prior mirror.
TypeOK ==
    /\ protected \in Revision
    /\ mirror \in Prefix
    /\ run \in RunState
    /\ counts \in Counts /\ counts.lost <= counts.errors
    /\ kept \cup served \subseteq Files
    /\ run.step \in {"undo", "restore", "clean"} => run.backup # NoFile
    /\ run.backup # NoFile =>
          run.step \in {"swap", "undo", "readback", "remove", "restore", "clean"}

\* installMirrorPrefix tells the truth: a replication that ends without an
\* error, or only could not remove the backup, has put the tree it read in
\* place; one that ends with an error has left the mirror exactly as it found
\* it, wherever the call failed and however the checkout moved meanwhile,
\* unless a rollback failed.
OutcomeIsTrue ==
    /\ run.step \in {"done", "uncleaned"} => mirror = run.sources
    /\ run.step = "error" /\ counts.lost = 0 => mirror = run.before

\* Nothing immutable that the mirror has ever served is withdrawn, whatever
\* revisions the checkout goes through: without a death or a failed rollback,
\* whenever no replication is at work the mirror has the immutable files of
\* every tree a replication installed.
NeverWithdrawn ==
    /\ run.step \in AtRest
    /\ counts.crashes = 0
    /\ counts.lost = 0
    => \A files \in served, s \in Source :
          KeepsSource(FilesIn(mirror)[s], files[s])

\* And with any death and any failed rollback, when later replications take a
\* missing mirror for an empty one: every tree ever served is still on disk in
\* one piece, with its immutable files, in place or in some backup.
InOnePiece(prefixes, files) ==
    \E prefix \in prefixes \ {NoFile} :
        \A s \in Source : KeepsSource(prefix[s], files[s])

ServedOnDisk ==
    \A files \in served : InOnePiece(kept \cup {mirror, run.backup}, files)

(***************************************************************************)
(* The inductive invariant: where the prior mirror and the new one are at  *)
(* each step, and that the one that is settled has what was served.        *)
(***************************************************************************)
Placed ==
    /\ run.step \in {"stage", "aside"} =>
          mirror = run.before /\ run.backup = NoFile
    /\ run.step \in {"swap", "undo", "restore"} =>
          mirror = NoFile /\ run.backup = run.before
    /\ run.step \in {"readback", "remove"} =>
          mirror = run.sources /\ run.backup = run.before
    /\ run.step = "clean" => mirror = run.sources
    /\ run.step \notin AtRest =>
          /\ run.sources \in Files
          /\ EnsureImmutablesUnchanged(run.sources, run.before)

Settled == IF run.step \in AtRest \cup {"clean"} THEN mirror ELSE run.before

SettledKeepsAll ==
    counts.crashes = 0 /\ counts.lost = 0 =>
        \A files \in served, s \in Source :
            KeepsSource(FilesIn(Settled)[s], files[s])

SettledOrKept == \A files \in served : InOnePiece(kept \cup {Settled}, files)

MirrorInv ==
    /\ TypeOK
    /\ Placed
    /\ OutcomeIsTrue
    /\ SettledKeepsAll
    /\ SettledOrKept
=============================================================================
