------------------------------- MODULE CatalogLog -------------------------------
(***************************************************************************)
(* What publication promises a subscriber: per source, one release is live *)
(* at a time, it is one the subscriber can verify by itself, and whenever  *)
(* the live release changes the new one supersedes the old one.  Nothing   *)
(* is said of pull requests, checks, merges or files.  The promise is as   *)
(* good as the checks: it ends when one of them overlooks what it judges.  *)
(***************************************************************************)
CONSTANTS
    Source,
    Genuine(_, _),    \* Genuine(source, release)
    Supersedes(_, _)  \* Supersedes(new, old)

VARIABLES
    live,  \* per source, the set of its live releases: none or one
    sound  \* whether the promise still holds

LogInit ==
    /\ live = [s \in Source |-> {}]
    /\ sound = TRUE

\* One transaction may publish in several sources.
Publish ==
    /\ sound /\ sound'
    /\ DOMAIN live' = Source
    /\ \A s \in Source :
          \/ live'[s] = live[s]
          \/ \E release \in live'[s] :
                /\ live'[s] = {release}
                /\ Genuine(s, release)
                /\ \A old \in live[s] : Supersedes(release, old)

\* From here on anything may be live.
Overlook == ~sound'

LogSpec == LogInit /\ [][Publish \/ Overlook]_<<live, sound>>
=============================================================================
