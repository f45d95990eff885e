-------------------------------- MODULE MCMirror --------------------------------
(***************************************************************************)
(* Instances of Mirror for TLC.                                            *)
(***************************************************************************)
EXTENDS Mirror, MCEnvelopes

Shows(m)   == ReleaseFiles([manifest |-> m, root |-> R1])
Only(tree) == [s \in Source |-> IF s = s1 THEN tree ELSE EmptyTree]

\* Two successive releases, the second without the history of the first, no
\* source at all, and a checkout in the middle of its way to the second.
First      == Shows(M1)
Second     == MergeTrees(First, Shows(PlainSecond))
Unfinished == [First EXCEPT ![LiveManifest] = PlainSecond]
MCRevision ==
    {Only(First), Only(Second), Only(Shows(PlainSecond)), Only(EmptyTree),
     Only(Unfinished)}
=============================================================================
