---------------------------- MODULE AdmissionPolicy ----------------------------
(***************************************************************************)
(* policy.Validate: which source documents may become a candidate.  A      *)
(* document lists entries, each a family of variants with bindings, the    *)
(* components that implement them, and the artifacts they need; the rules  *)
(* tie these lists together.                                               *)
(*                                                                         *)
(* Only documents are considered whose values each are valid by themselves *)
(* (formats, ranges, media types, platforms, YAML that decodes).           *)
(***************************************************************************)
EXTENDS Integers, Sequences, FiniteSets

CONSTANTS
    DataSourceID, ExecSourceID,  \* the two sources of the publisher
    NoArtifact                   \* of a routing rule that is written inline

Wanted == {DataSourceID, ExecSourceID}

DataPermissions == {"metadata", "detection-data", "routing-data"}
PermissionsOf(id) ==
    IF id = ExecSourceID THEN DataPermissions \cup {"executable"}
    ELSE DataPermissions

\* No two places of a sequence, or of a function, hold one value.
Distinct(f) == \A i, j \in DOMAIN f : f[i] = f[j] => i = j
Ids(records) == [i \in DOMAIN records |-> records[i].id]
Values(f)   == {f[i] : i \in DOMAIN f}

-----------------------------------------------------------------------------
(***************************************************************************)
(* Entries.                                                                *)
(***************************************************************************)

\* The places at which a variant has a slot written, and the slot.
Writes(variant) ==
    UNION {{<<i, j>> : j \in DOMAIN variant.bindings[i].slots} :
               i \in DOMAIN variant.bindings}
SlotAt(variant, w) == variant.bindings[w[1]].slots[w[2]]

\* Every required slot has one writer, and nothing else is written.
ValidateVariant(variant) ==
    /\ variant.required # <<>> /\ variant.bindings # <<>>
    /\ \A i \in DOMAIN variant.bindings : variant.bindings[i].slots # <<>>
    /\ Distinct(variant.required)
    /\ Distinct(Ids(variant.bindings))
    /\ {SlotAt(variant, w) : w \in Writes(variant)} = Values(variant.required)
    /\ Distinct([w \in Writes(variant) |-> SlotAt(variant, w)])

BindingIds(entry) ==
    UNION {Values(Ids(entry.variants[v].bindings)) : v \in DOMAIN entry.variants}
DetectionIds(entry) == Values(Ids(entry.detection))

\* The places at which an entry names a component: its display, and its
\* metadata, routing and detection.
Places(entry) ==
    {<<"display", 1>>}
    \cup {<<"metadata", i>> : i \in DOMAIN entry.metadata}
    \cup {<<"routing", i>> : i \in DOMAIN entry.routing}
    \cup {<<"detection", i>> : i \in DOMAIN entry.detection}
ComponentAt(entry, place) ==
    IF place[1] = "display" THEN entry.display ELSE entry[place[1]][place[2]].id

\* Mutant: components are kept apart within an entry only.
MutUniqueComponents(entries) ==
    \A e \in DOMAIN entries :
        Distinct([p \in Places(entries[e]) |-> ComponentAt(entries[e], p)])

\* addComponent: one map of component IDs for the whole document.
UniqueComponents(entries) ==
    \A e, f \in DOMAIN entries :
        \A p \in Places(entries[e]), q \in Places(entries[f]) :
            ComponentAt(entries[e], p) = ComponentAt(entries[f], q)
                => e = f /\ p = q

ValidateEntry(entry) ==
    /\ entry.default \in DOMAIN entry.variants
    /\ \A v \in DOMAIN entry.variants : ValidateVariant(entry.variants[v])
    /\ DetectionIds(entry) = BindingIds(entry)

-----------------------------------------------------------------------------
(***************************************************************************)
(* Artifacts, references and revocations.                                  *)
(***************************************************************************)

\* The owner of an artifact exists and the source may carry it.
ValidateArtifact(artifact, doc) ==
    /\ artifact.entry \in Values(Ids(doc.entries))
    /\ artifact.permission \in doc.permissions

\* The component at a place of an entry may use an artifact of this ID.
MayUse(doc, entry, id, permissions) ==
    \E i \in DOMAIN doc.artifacts :
        /\ doc.artifacts[i].id = id
        /\ doc.artifacts[i].entry = entry.id
        /\ doc.artifacts[i].permission \in permissions

Used(entry) ==
    {entry.metadata[i].artifact : i \in DOMAIN entry.metadata}
    \cup ({entry.routing[i].artifact : i \in DOMAIN entry.routing} \ {NoArtifact})
    \cup UNION {Values(entry.detection[i].artifacts) : i \in DOMAIN entry.detection}

EntryReferences(doc, entry) ==
    /\ \A i \in DOMAIN entry.metadata :
          MayUse(doc, entry, entry.metadata[i].artifact, {"metadata"})
    /\ \A i \in DOMAIN entry.routing :
          entry.routing[i].artifact # NoArtifact =>
              MayUse(doc, entry, entry.routing[i].artifact, {"routing-data"})
    /\ \A i \in DOMAIN entry.detection :
          /\ Distinct(entry.detection[i].artifacts)
          /\ \A j \in DOMAIN entry.detection[i].artifacts :
                MayUse(doc, entry, entry.detection[i].artifacts[j],
                       {"detection-data", "executable"})

ValidateReferences(doc) ==
    /\ \A e \in DOMAIN doc.entries : EntryReferences(doc, doc.entries[e])
    /\ Values(Ids(doc.artifacts))
          \subseteq UNION {Used(doc.entries[e]) : e \in DOMAIN doc.entries}

ValidateRevocations(doc) ==
    /\ Distinct(Ids(doc.revocations))
    /\ \A i \in DOMAIN doc.revocations :
          doc.revocations[i].version \in 1..doc.version

\* Validate(doc, directory): the document of a directory is of that source.
Validate(doc, directory) ==
    /\ doc.id = directory
    /\ doc.version # 0
    /\ doc.id \in Wanted
    /\ doc.permissions = PermissionsOf(doc.id)
    /\ doc.entries # <<>> /\ doc.artifacts # <<>>
    /\ Distinct(Ids(doc.entries))
    /\ \A e \in DOMAIN doc.entries : ValidateEntry(doc.entries[e])
    /\ UniqueComponents(doc.entries)
    /\ Distinct(Ids(doc.artifacts))
    /\ \A i \in DOMAIN doc.artifacts : ValidateArtifact(doc.artifacts[i], doc)
    /\ (doc.id = ExecSourceID) <=>
          \E i \in DOMAIN doc.artifacts :
              doc.artifacts[i].permission = "executable"
    /\ ValidateReferences(doc)
    /\ ValidateRevocations(doc)

-----------------------------------------------------------------------------
(***************************************************************************)
(* What a subscriber needs of a document, in its own terms.                *)
(***************************************************************************)

\* The components of a document that have an ID: entry, kind, position.
ComponentsNamed(doc, id) ==
    UNION {{<<e, p>> : p \in {q \in Places(doc.entries[e]) :
                                 ComponentAt(doc.entries[e], q) = id}} :
               e \in DOMAIN doc.entries}

\* The artifacts that the component at a place refers to.
ArtifactsAt(entry, place) ==
    IF place[1] = "display" THEN {}
    ELSE IF place[1] = "detection" THEN Values(entry.detection[place[2]].artifacts)
    ELSE IF place[1] = "routing" THEN {entry.routing[place[2]].artifact} \ {NoArtifact}
    ELSE {entry.metadata[place[2]].artifact}

\* Of the bindings of a variant the i-th writes the slot, and no other does.
WritesAlone(variant, i, slot) ==
    \A k \in DOMAIN variant.bindings :
        slot \in Values(variant.bindings[k].slots) <=> k = i

\* For every slot that a variant requires there is one probe: the binding
\* that writes it names one component of the whole document, which is a
\* detection of this entry, and its artifacts are there and are this entry's.
ProbesResolve(doc) ==
    \A e \in DOMAIN doc.entries : \A v \in DOMAIN doc.entries[e].variants :
        LET entry == doc.entries[e]
            variant == entry.variants[v]
        IN  \A slot \in Values(variant.required) :
                \E i \in DOMAIN variant.bindings, place \in Places(entry) :
                    /\ WritesAlone(variant, i, slot)
                    /\ place[1] = "detection"
                    /\ ComponentsNamed(doc, variant.bindings[i].id) = {<<e, place>>}
                    /\ \A id \in ArtifactsAt(entry, place) :
                          \E n \in DOMAIN doc.artifacts :
                              /\ doc.artifacts[n].id = id
                              /\ doc.artifacts[n].entry = entry.id

\* Whatever component reaches executable content is a detection that some
\* variant of the owner binds, some does, and the source is the one that
\* users opt in to.
ExecutablesBound(doc) ==
    \A n \in DOMAIN doc.artifacts :
        doc.artifacts[n].permission = "executable" =>
            LET users ==
                    UNION {{<<e, p>> : p \in {q \in Places(doc.entries[e]) :
                        doc.artifacts[n].id \in ArtifactsAt(doc.entries[e], q)}} :
                            e \in DOMAIN doc.entries}
            IN  /\ doc.id = ExecSourceID
                /\ users # {}
                /\ \A u \in users :
                      /\ doc.entries[u[1]].id = doc.artifacts[n].entry
                      /\ u[2][1] = "detection"
                      /\ ComponentAt(doc.entries[u[1]], u[2])
                            \in BindingIds(doc.entries[u[1]])
=============================================================================
