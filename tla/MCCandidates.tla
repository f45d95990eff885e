------------------------------ MODULE MCCandidates ------------------------------
(***************************************************************************)
(* Instances of Candidates for TLC.  A document is a choice for each of    *)
(* its parts; those that are tried differ from the first choice in at most *)
(* two parts at a time.                                                    *)
(***************************************************************************)
EXTENDS Candidates, TLC

CONSTANTS data, exec, other, o1, o2, none, b1, b2

MCEpoch == (b1 :> 1) @@ (b2 :> 2)

Binding(id, slots) == [id |-> id, slots |-> slots]
Variant(required, bindings) == [required |-> required, bindings |-> bindings]
Detection(id, artifacts) == [id |-> id, artifacts |-> artifacts]
Uses(id, artifact) == [id |-> id, artifact |-> artifact]
Artifact(id, entry, permission, object) ==
    [id |-> id, entry |-> entry, permission |-> permission, object |-> object]

\* One variant with one probe, or one for two slots; two probes for two
\* slots; two for one slot; none for one of them.
Available == Binding("probe", <<"availability">>)
Plain     == Variant(<<"availability">>, <<Available>>)
Shared    == Variant(<<"availability", "region">>,
                     <<Binding("probe", <<"region", "availability">>)>>)
Regional  == Variant(<<"availability", "region">>,
                     <<Available, Binding("where", <<"region">>)>>)
Doubled   == Variant(<<"availability">>,
                     <<Available, Binding("where", <<"availability">>)>>)
Partial   == Variant(<<"availability", "region">>, <<Available>>)

Families   == <<[v |-> Plain], [v |-> Plain, w |-> Shared], [v |-> Plain, w |-> Regional],
                [v |-> Doubled], [v |-> Partial]>>
Displays   == <<"label", "probe", "caption">>
Metadatas  == <<<<>>, <<Uses("about", "x")>>, <<Uses("label", "y")>>>>
Routings   == <<<<Uses("route", NoArtifact)>>, <<Uses("route", "y")>>,
                <<Uses("route", "x")>>>>
Detections == <<<<Detection("probe", <<"x">>)>>,
                <<Detection("probe", <<"x">>), Detection("where", <<>>)>>,
                <<Detection("probe", <<>>), Detection("where", <<"x", "x">>)>>,
                <<Detection("probe", <<"x", "y">>)>>>>

\* A second entry whose probe has the name of the first one's, or its own.
Entry(id, default, variants, display, metadata, routing, detection) ==
    [id |-> id, default |-> default, variants |-> variants, display |-> display,
     metadata |-> metadata, routing |-> routing, detection |-> detection]
Extra(probe, artifacts) ==
    <<Entry("more", "v",
            [v |-> Variant(<<"availability">>, <<Binding(probe, <<"availability">>)>>)],
            "caption", <<>>, <<>>, <<Detection(probe, artifacts)>>)>>
Extras == <<<<>>, Extra("probe", <<>>), Extra("other", <<>>), Extra("other", <<"x">>)>>

\* Artifact x, with the permission that suits the source or another one, of
\* the entry or of the second one; and artifact y, of the same content or not.
Artifacts(id) ==
    LET main == IF id = exec THEN "executable" ELSE "detection-data" IN
    <<<<Artifact("x", "main", main, o1)>>,
      <<Artifact("x", "more", main, o1)>>,
      <<Artifact("x", "main", "executable", o1)>>,
      <<Artifact("x", "main", "detection-data", o1)>>,
      <<Artifact("x", "main", "metadata", o1)>>,
      <<Artifact("x", "main", main, o1), Artifact("y", "main", "detection-data", o2)>>,
      <<Artifact("x", "main", main, o1), Artifact("y", "main", "routing-data", o1)>>,
      <<Artifact("x", "main", main, o1), Artifact("x", "main", main, o2)>>>>

Revocations == <<<<>>, <<[id |-> "rv", version |-> 2]>>>>

Sizes == <<5, 3, 3, 3, 4, 4, 8, 2>>
Radix == <<1, 5, 15, 45, 135, 540, 2160, 17280>>

\* A number stands for a choice of each of the eight parts: its digits, in a
\* mixed radix.
Digit(n, part) == 1 + ((n \div Radix[part]) % Sizes[part])
Choices ==
    UNION {{i * Radix[pq[1]] + j * Radix[pq[2]] :
                i \in 0..Sizes[pq[1]] - 1, j \in 0..Sizes[pq[2]] - 1} :
           pq \in {r \in (1..8) \X (1..8) : r[1] < r[2]}}

Says(id, version, n) ==
    [id |-> id, version |-> version, permissions |-> PermissionsOf(id),
     entries |->
         <<Entry("main", "v", Families[Digit(n, 1)], Displays[Digit(n, 2)],
                 Metadatas[Digit(n, 3)], Routings[Digit(n, 4)],
                 Detections[Digit(n, 5)])>> \o Extras[Digit(n, 6)],
     artifacts |-> Artifacts(id)[Digit(n, 7)],
     revocations |-> Revocations[Digit(n, 8)]]

Name(id, version, n) == <<id, version, n>>
Data1 == Name(data, 1, 0)
Data2 == Name(data, 2, 3 * 135 + 5 * 2160 + 17280)
Exec1 == Name(exec, 1, 0)

MCNames == ({data, exec} \X {1} \X Choices) \cup {Data2}
MCText  == [name \in MCNames |-> Says(name[1], name[2], name[3])]
MCDocument == MCNames \cup {Malformed}

Place(doc, objects, state) ==
    [document |-> doc,
     objects |-> [o \in {o1, o2} |-> IF o \in objects THEN state ELSE "absent"]]
Empty      == Place(NoDocument, {}, "absent")
Objects(name) ==
    LET artifacts == Artifacts(name[1])[Digit(name[3], 7)]
    IN  {artifacts[i].object : i \in DOMAIN artifacts}
Whole(name) == Place(name, Objects(name), "intact")

Layout(d, e) == (data :> d) @@ (exec :> e) @@ (other :> Empty)
MCDefinitions ==
    {Layout(Whole(Name(data, 1, c)), Whole(Exec1)) : c \in Choices}
    \cup {Layout(Whole(Data1), Whole(Name(exec, 1, c))) : c \in Choices}
    \cup {Layout(Whole(Data1), Empty)}

\* What one directory of the tree may become: another revision, a damaged
\* object, the document of the other source and an object too many, nonsense.
MCContents ==
    {Whole(Data2), Place(Data1, {o1}, "damaged"),
     Place(Exec1, {o1, o2}, "intact"), Place(Malformed, {}, "absent")}
=============================================================================
