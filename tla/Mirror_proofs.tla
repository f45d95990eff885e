------------------------------ MODULE Mirror_proofs ------------------------------
(***************************************************************************)
(* Proofs about Mirror, for any revisions of the checkout, any number of   *)
(* replications, failing calls and deaths: the outcome that a replication  *)
(* reports is true, and what a mirror has served is not withdrawn, and     *)
(* never lost.                                                             *)
(***************************************************************************)
EXTENDS Mirror, TLAPS

-----------------------------------------------------------------------------
(***************************************************************************)
(* Trees.                                                                  *)
(***************************************************************************)

\* A tree keeps itself, and what is kept by a tree that is kept.
LEMMA KeepsReflexive ==
    ASSUME NEW tree
    PROVE  KeepsSource(tree, tree)
BY DEF KeepsSource

LEMMA KeepsTransitive ==
    ASSUME NEW x, NEW y, NEW z, KeepsSource(x, y), KeepsSource(y, z)
    PROVE  KeepsSource(x, z)
BY DEF KeepsSource

\* A removal that stops half-way leaves trees.
LEMMA PartsTyped ==
    ASSUME NEW files \in Files, NEW parts \in PartsOf(files)
    PROVE  parts \in Files
<1>1. PICK left \in SUBSET {sp \in Source \X Path : files[sp[1]][sp[2]] # NoFile} :
          parts = [s \in Source |-> [p \in Path |->
                      IF <<s, p>> \in left THEN files[s][p] ELSE NoFile]]
      BY DEF PartsOf
<1>2. ASSUME NEW s \in Source
      PROVE  parts[s] \in Tree
      <2>1. files[s] \in [Path -> Content \cup {NoFile}]
            BY DEF Files, Tree
      <2>2. parts[s] = [p \in Path |->
                           IF <<s, p>> \in left THEN files[s][p] ELSE NoFile]
            BY <1>1
      <2>3. parts[s] \in [Path -> Content \cup {NoFile}]
            BY <2>1, <2>2
      <2> QED BY <2>3 DEF Tree
<1> QED BY <1>1, <1>2 DEF Files

\* No tree of files is the missing prefix.
LEMMA FilesThere ==
    ASSUME NEW files \in Files
    PROVE  files # NoFile /\ FilesIn(files) = files
BY FilesAssumption DEF FilesIn

-----------------------------------------------------------------------------
(***************************************************************************)
(* What was served, when the settled prefix stays the same, or changes but *)
(* is left behind.                                                         *)
(***************************************************************************)
LEMMA SettledSame ==
    ASSUME SettledKeepsAll, SettledOrKept, served' = served,
           Settled' = Settled, kept \subseteq kept',
           counts'.crashes = 0 /\ counts'.lost = 0 =>
               counts.crashes = 0 /\ counts.lost = 0
    PROVE  SettledKeepsAll' /\ SettledOrKept'
<1>1. SettledKeepsAll'
      BY DEF SettledKeepsAll
<1>2. SettledOrKept'
      BY DEF SettledOrKept, InOnePiece
<1> QED BY <1>1, <1>2

LEMMA SettledLeft ==
    ASSUME SettledOrKept, served' = served, kept \subseteq kept',
           Settled \in kept' \cup {NoFile, Settled'},
           ~(counts'.crashes = 0 /\ counts'.lost = 0)
    PROVE  SettledKeepsAll' /\ SettledOrKept'
<1>1. SettledKeepsAll'
      BY DEF SettledKeepsAll
<1>2. SettledOrKept'
      BY DEF SettledOrKept, InOnePiece
<1> QED BY <1>1, <1>2

-----------------------------------------------------------------------------
(***************************************************************************)
(* The inductive invariant.                                                *)
(***************************************************************************)
LEMMA MirrorInit == Init => MirrorInv
<1> SUFFICES ASSUME Init PROVE MirrorInv
    OBVIOUS
<1>1. TypeOK
      BY RevisionAssumption, BoundAssumption
      DEF Init, TypeOK, Counts, Idle, RunState, Prefix, Steps, AtRest
<1>2. Placed /\ OutcomeIsTrue
      BY DEF Init, Idle, Placed, OutcomeIsTrue, AtRest
<1>3. SettledKeepsAll /\ SettledOrKept
      BY DEF Init, SettledKeepsAll, SettledOrKept
<1> QED BY <1>1, <1>2, <1>3 DEF MirrorInv

\* What a failing call, a failing rollback and a death count.
LEMMA CallCounted ==
    ASSUME TypeOK, CallFails
    PROVE  /\ counts' \in Counts /\ counts'.lost <= counts'.errors
           /\ counts'.lost = counts.lost /\ counts'.crashes = counts.crashes
BY BoundAssumption DEF TypeOK, CallFails, Counts

LEMMA RollbackCounted ==
    ASSUME TypeOK, RollbackFails
    PROVE  /\ counts' \in Counts /\ counts'.lost <= counts'.errors
           /\ counts'.lost # 0
<1>1. /\ counts \in Counts /\ counts.lost <= counts.errors
      /\ counts.errors < MaxErrors /\ MaxErrors \in Nat
      /\ counts' = [counts EXCEPT !.errors = @ + 1, !.lost = @ + 1]
      BY BoundAssumption DEF TypeOK, RollbackFails
<1>2. /\ counts.errors \in 0..MaxErrors /\ counts.lost \in 0..MaxErrors
      /\ counts'.errors = counts.errors + 1 /\ counts'.lost = counts.lost + 1
      BY <1>1 DEF Counts
<1>3. counts'.errors \in 0..MaxErrors /\ counts'.lost \in 0..MaxErrors
      BY <1>1, <1>2
<1>4. counts' \in Counts
      BY <1>1, <1>2, <1>3 DEF Counts
<1> QED BY <1>1, <1>2, <1>4

LEMMA DeathCounted ==
    ASSUME TypeOK, Die
    PROVE  /\ counts' \in Counts /\ counts'.lost <= counts'.errors
           /\ counts'.lost = counts.lost /\ counts'.crashes # 0
BY BoundAssumption DEF TypeOK, Die, Counts

\* Types and places, action by action.
LEMMA PlacesStep ==
    ASSUME MirrorInv, Next
    PROVE  TypeOK' /\ Placed' /\ OutcomeIsTrue'
<1> USE RevisionAssumption, FilesAssumption, BoundAssumption
<1> USE DEF MirrorInv, TypeOK, Placed, OutcomeIsTrue, RunState, Prefix, Steps,
        AtRest, Goto, End, Stop, Leave
<1>1. CASE Update
      BY <1>1 DEF Update, Counts
<1>2. CASE Read
      <2>1. protected \in Files
            OBVIOUS
      <2> QED BY <1>2, <2>1 DEF Read, Counts
<1>3. CASE Stage
      BY <1>3 DEF Stage
<1>4. CASE GiveUp
      BY <1>4, CallCounted DEF GiveUp
<1>5. CASE MoveAside
      BY <1>5 DEF MoveAside
<1>6. CASE Swap
      BY <1>6 DEF Swap
<1>7. CASE SwapFails
      BY <1>7, CallCounted DEF SwapFails
<1>8. CASE Undo
      BY <1>8 DEF Undo
<1>9. CASE UndoFails
      BY <1>9, RollbackCounted DEF UndoFails
<1>10. CASE Readback
      BY <1>10 DEF Readback
<1>11. CASE ReadbackFails
      BY <1>11, CallCounted DEF ReadbackFails
<1>12. CASE RemoveNew
      BY <1>12 DEF RemoveNew
<1>13. CASE RemoveNewFails
      BY <1>13, RollbackCounted, PartsTyped DEF RemoveNewFails
<1>14. CASE Restore
      BY <1>14 DEF Restore
<1>15. CASE RestoreFails
      BY <1>15, RollbackCounted DEF RestoreFails
<1>16. CASE RemoveBackup
      BY <1>16 DEF RemoveBackup
<1>17. CASE RemoveBackupFails
      BY <1>17, CallCounted DEF RemoveBackupFails
<1>18. CASE Die
      BY <1>18, DeathCounted, PartsTyped DEF Die
<1> QED BY <1>1, <1>2, <1>3, <1>4, <1>5, <1>6, <1>7, <1>8, <1>9, <1>10, <1>11,
           <1>12, <1>13, <1>14, <1>15, <1>16, <1>17, <1>18 DEF Next

\* A replication that succeeds serves a tree that keeps the one before it.
LEMMA ReadbackServes ==
    ASSUME MirrorInv, Readback
    PROVE  SettledKeepsAll' /\ SettledOrKept'
<1>1. /\ run.step = "readback" /\ mirror = run.sources /\ mirror \in Files
      /\ EnsureImmutablesUnchanged(mirror, run.before)
      /\ mirror' = mirror /\ counts' = counts /\ kept' = kept
      /\ served' = served \cup {mirror}
      /\ run'.step \in {"done", "clean"}
      BY DEF MirrorInv, TypeOK, RunState, Placed, Readback, End, Stop, Goto, AtRest
<1>2. Settled = run.before /\ Settled' = mirror
      BY <1>1 DEF Settled, AtRest
<1>3. mirror # NoFile /\ FilesIn(mirror) = mirror
      BY <1>1, FilesThere
<1>4. ASSUME NEW files, NEW s \in Source, KeepsSource(FilesIn(run.before)[s], files[s])
      PROVE  KeepsSource(mirror[s], files[s])
      BY <1>1, <1>4, KeepsTransitive DEF EnsureImmutablesUnchanged
<1>5. SettledKeepsAll'
      <2> SUFFICES ASSUME counts.crashes = 0, counts.lost = 0,
                          NEW files \in served \cup {mirror}, NEW s \in Source
                   PROVE  KeepsSource(mirror[s], files[s])
          BY <1>1, <1>2, <1>3 DEF SettledKeepsAll
      <2>1. CASE files = mirror
            BY <2>1, KeepsReflexive
      <2>2. CASE files \in served
            BY <1>2, <1>4, <2>2 DEF MirrorInv, SettledKeepsAll
      <2> QED BY <2>1, <2>2
<1>6. SettledOrKept'
      <2> SUFFICES ASSUME NEW files \in served \cup {mirror}
                   PROVE  InOnePiece(kept \cup {mirror}, files)
          BY <1>1, <1>2 DEF SettledOrKept, InOnePiece
      <2>1. CASE files = mirror
            BY <1>3, <2>1, KeepsReflexive DEF InOnePiece
      <2>2. CASE files \in served
            <3>1. PICK prefix \in (kept \cup {run.before}) \ {NoFile} :
                      \A s \in Source : KeepsSource(prefix[s], files[s])
                  BY <1>2, <2>2 DEF MirrorInv, SettledOrKept, InOnePiece
            <3>2. CASE prefix \in kept
                  BY <3>1, <3>2 DEF InOnePiece
            <3>3. CASE prefix = run.before
                  <4>1. FilesIn(run.before) = prefix
                        BY <3>1, <3>3 DEF FilesIn
                  <4>2. \A s \in Source : KeepsSource(mirror[s], files[s])
                        BY <1>4, <3>1, <4>1
                  <4> QED BY <1>3, <4>2 DEF InOnePiece
            <3> QED BY <3>1, <3>2, <3>3
      <2> QED BY <2>1, <2>2
<1> QED BY <1>5, <1>6

\* The settled prefix at every step: it stays what it was, or a replication
\* that cannot put it back leaves it beside the mirror.
LEMMA SettledStep ==
    ASSUME MirrorInv, Next
    PROVE  SettledKeepsAll' /\ SettledOrKept'
<1> USE DEF Placed, Settled, AtRest, Goto, End, Stop, Leave
<1>0. TypeOK /\ Placed /\ SettledKeepsAll /\ SettledOrKept
      BY DEF MirrorInv
<1>1. CASE Update
      BY <1>0, <1>1, SettledSame DEF Update
<1>2. CASE Read
      BY <1>0, <1>2, SettledSame DEF Read
<1>3. CASE Stage
      BY <1>0, <1>3, SettledSame DEF Stage
<1>4. CASE GiveUp
      BY <1>0, <1>4, CallCounted, SettledSame DEF GiveUp
<1>5. CASE MoveAside
      BY <1>0, <1>5, SettledSame DEF MoveAside
<1>6. CASE Swap
      BY <1>0, <1>6, SettledSame DEF Swap
<1>7. CASE SwapFails
      BY <1>0, <1>7, CallCounted, SettledSame DEF SwapFails, TypeOK, RunState
<1>8. CASE Undo
      BY <1>0, <1>8, SettledSame DEF Undo
<1>9. CASE UndoFails
      BY <1>0, <1>9, RollbackCounted, SettledLeft DEF UndoFails
<1>10. CASE Readback
      BY <1>10, ReadbackServes
<1>11. CASE ReadbackFails
      BY <1>0, <1>11, CallCounted, SettledSame DEF ReadbackFails
<1>12. CASE RemoveNew
      BY <1>0, <1>12, SettledSame DEF RemoveNew, TypeOK, RunState
<1>13. CASE RemoveNewFails
      BY <1>0, <1>13, RollbackCounted, SettledLeft DEF RemoveNewFails
<1>14. CASE Restore
      BY <1>0, <1>14, SettledSame DEF Restore
<1>15. CASE RestoreFails
      BY <1>0, <1>15, RollbackCounted, SettledLeft DEF RestoreFails
<1>16. CASE RemoveBackup
      BY <1>0, <1>16, SettledSame DEF RemoveBackup
<1>17. CASE RemoveBackupFails
      <2>1. run.step = "clean" /\ run'.step = "uncleaned" /\ mirror' = mirror
            BY <1>0, <1>17 DEF RemoveBackupFails, TypeOK, RunState
      <2>2. served' = served /\ kept \subseteq kept' /\ Settled' = Settled
            BY <1>17, <2>1 DEF RemoveBackupFails
      <2> QED BY <1>0, <1>17, <2>2, CallCounted, SettledSame DEF RemoveBackupFails
<1>18. CASE Die
      <2>1. /\ run'.step = "dead" /\ run.step \notin AtRest /\ served' = served
            /\ kept \subseteq kept' /\ Settled' = mirror'
            BY <1>0, <1>18 DEF Die, TypeOK, RunState
      <2>2. run.step \in {"stage", "aside", "clean"} => mirror' = Settled
            BY <1>0, <1>18 DEF Die
      <2>3. run.step \in {"swap", "undo", "readback", "remove", "restore"} =>
                Settled \in kept' \cup {NoFile}
            BY <1>0, <1>18 DEF Die
      <2>4. Settled \in kept' \cup {NoFile, Settled'}
            BY <1>0, <2>1, <2>2, <2>3 DEF TypeOK, RunState, Steps
      <2> HIDE DEF Settled
      <2> QED BY <1>0, <1>18, <2>1, <2>4, DeathCounted, SettledLeft
<1> QED BY <1>1, <1>2, <1>3, <1>4, <1>5, <1>6, <1>7, <1>8, <1>9, <1>10, <1>11,
           <1>12, <1>13, <1>14, <1>15, <1>16, <1>17, <1>18 DEF Next

LEMMA MirrorStep == MirrorInv /\ [Next]_vars => MirrorInv'
<1> SUFFICES ASSUME MirrorInv, [Next]_vars PROVE MirrorInv'
    OBVIOUS
<1>1. CASE Next
      BY <1>1, PlacesStep, SettledStep DEF MirrorInv
<1>2. CASE UNCHANGED vars
      BY <1>2 DEF vars, MirrorInv, TypeOK, Placed, OutcomeIsTrue, SettledKeepsAll,
          SettledOrKept, Settled, InOnePiece
<1> QED BY <1>1, <1>2

\* MirrorInv is an invariant: where the prior and the new tree are at every
\* step of installMirrorPrefix, and that the settled one has what was served.
THEOREM MirrorInvTheorem == Spec => []MirrorInv
BY MirrorInit, MirrorStep, PTL DEF Spec

-----------------------------------------------------------------------------
(***************************************************************************)
(* The properties.                                                         *)
(***************************************************************************)

\* Types, and who owns a backup.
THEOREM MirrorTypeTheorem == Spec => []TypeOK
<1>1. MirrorInv => TypeOK
      BY DEF MirrorInv
<1> QED BY <1>1, MirrorInvTheorem, PTL

\* A replication that reports success has put its tree in place, and one that
\* reports an error has restored the prior mirror unless a rollback failed.
THEOREM OutcomeTheorem == Spec => []OutcomeIsTrue
<1>1. MirrorInv => OutcomeIsTrue
      BY DEF MirrorInv
<1> QED BY <1>1, MirrorInvTheorem, PTL

\* Without a death or a failed rollback no immutable file is withdrawn over
\* any number of replications of a checkout that moves anywhere.
THEOREM WithdrawnTheorem == Spec => []NeverWithdrawn
<1>1. MirrorInv => NeverWithdrawn
      BY DEF MirrorInv, SettledKeepsAll, Settled, NeverWithdrawn
<1> QED BY <1>1, MirrorInvTheorem, PTL

\* With any of them, everything ever served is still on disk in one piece.
THEOREM ServedTheorem == Spec => []ServedOnDisk
<1>1. ASSUME MirrorInv PROVE ServedOnDisk
      <2>1. Settled \in {mirror, run.backup}
            BY <1>1 DEF MirrorInv, TypeOK, RunState, Steps, Placed, Settled, AtRest
      <2> QED BY <1>1, <2>1 DEF MirrorInv, SettledOrKept, ServedOnDisk, InOnePiece
<1> QED BY <1>1, MirrorInvTheorem, PTL
=============================================================================
