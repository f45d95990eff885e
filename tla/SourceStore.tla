------------------------------ MODULE SourceStore ------------------------------
(***************************************************************************)
(* What the materializer promises to those who take it for one step, as    *)
(* Publication does: while nothing has gone wrong, the tree of a source    *)
(* changes only from what it is to what one release makes of it.  Nothing  *)
(* is said of staging, renames, backups or failures, nor of the tree after *)
(* something has gone wrong.                                               *)
(***************************************************************************)
CONSTANTS
    Release,
    NoTree,             \* the source before its first release
    Installable(_, _),  \* Installable(tree, release)
    Installed(_, _)     \* Installed(tree, release)

VARIABLES
    tree,   \* the tree of the source
    sound   \* nothing has gone wrong

Init == tree = NoTree /\ sound = TRUE

Install ==
    /\ sound /\ sound'
    /\ \E release \in Release :
          /\ Installable(tree, release)
          /\ tree' = Installed(tree, release)

GoWrong == ~sound'

Next == Install \/ GoWrong

Spec == Init /\ [][Next]_<<tree, sound>>
=============================================================================
