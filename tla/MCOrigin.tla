-------------------------------- MODULE MCOrigin --------------------------------
(***************************************************************************)
(* An instance of Origin for TLC: an empty catalog, a first release, and a *)
(* second one that keeps the object of the first.                          *)
(***************************************************************************)
EXTENDS Origin, TLC

CONSTANTS readme, manifest, object1, object2, b0, b1, b2

Tree(m, o1, o2) ==
    (readme :> b0) @@ (manifest :> m) @@ (object1 :> o1) @@ (object2 :> o2)
MCPublished ==
    <<Tree(NoFile, NoFile, NoFile), Tree(b1, b1, NoFile), Tree(b2, b1, b2)>>
MCSourceFiles ==
    <<<<>>, <<manifest, object1>>, <<manifest, object1, object2>>>>
=============================================================================
