---------------------------- MODULE Candidates_proofs ----------------------------
(***************************************************************************)
(* Proofs about AdmissionPolicy and Candidates: the rules of the policy    *)
(* mean what they are for, for every document, and what a builder          *)
(* publishes is whole and is what it reports, for any number of builders,  *)
(* changes of the definitions, failing calls and deaths.                   *)
(***************************************************************************)
EXTENDS Candidates, TLAPS

-----------------------------------------------------------------------------
(***************************************************************************)
(* The policy.                                                             *)
(***************************************************************************)

\* An artifact ID stands for one artifact, so that who may use it by its ID
\* may use that artifact.
LEMMA UseOfArtifact ==
    ASSUME NEW doc, NEW entry, NEW permissions, NEW n \in DOMAIN doc.artifacts,
           Distinct(Ids(doc.artifacts)),
           MayUse(doc, entry, doc.artifacts[n].id, permissions)
    PROVE  /\ doc.artifacts[n].entry = entry.id
           /\ doc.artifacts[n].permission \in permissions
BY DEF MayUse, Distinct, Ids

\* What a component refers to is an artifact of its entry, with a permission
\* of its kind.
LEMMA ReferencesHold ==
    ASSUME NEW doc, NEW entry, EntryReferences(doc, entry),
           NEW place \in Places(entry), NEW id \in ArtifactsAt(entry, place)
    PROVE  /\ place[1] # "display"
           /\ place[1] = "detection" =>
                 MayUse(doc, entry, id, {"detection-data", "executable"})
           /\ place[1] # "detection" =>
                 MayUse(doc, entry, id, {"metadata", "routing-data"})
<1>1. CASE \E i \in DOMAIN entry.metadata : place = <<"metadata", i>>
      <2>1. PICK i \in DOMAIN entry.metadata : place = <<"metadata", i>>
            BY <1>1
      <2>2. place[1] = "metadata" /\ place[2] = i
            BY <2>1
      <2>3. id = entry.metadata[i].artifact
            BY <2>2 DEF ArtifactsAt
      <2>4. MayUse(doc, entry, id, {"metadata"})
            BY <2>3 DEF EntryReferences
      <2> QED BY <2>2, <2>4 DEF MayUse
<1>2. CASE \E i \in DOMAIN entry.routing : place = <<"routing", i>>
      <2>1. PICK i \in DOMAIN entry.routing : place = <<"routing", i>>
            BY <1>2
      <2>2. place[1] = "routing" /\ place[2] = i
            BY <2>1
      <2>3. id = entry.routing[i].artifact /\ id # NoArtifact
            BY <2>2 DEF ArtifactsAt
      <2>4. MayUse(doc, entry, id, {"routing-data"})
            BY <2>3 DEF EntryReferences
      <2> QED BY <2>2, <2>4 DEF MayUse
<1>3. CASE \E i \in DOMAIN entry.detection : place = <<"detection", i>>
      <2>1. PICK i \in DOMAIN entry.detection : place = <<"detection", i>>
            BY <1>3
      <2>2. place[1] = "detection" /\ place[2] = i
            BY <2>1
      <2>3. PICK j \in DOMAIN entry.detection[i].artifacts :
                id = entry.detection[i].artifacts[j]
            BY <2>2 DEF ArtifactsAt, Values
      <2> QED BY <2>2, <2>3 DEF EntryReferences
<1>4. CASE place = <<"display", 1>>
      BY <1>4 DEF ArtifactsAt
<1> QED BY <1>1, <1>2, <1>3, <1>4 DEF Places

\* Whatever an entry uses is referred to at one of its places.
LEMMA UsedAtPlace ==
    ASSUME NEW entry, NEW id \in Used(entry)
    PROVE  \E place \in Places(entry) : id \in ArtifactsAt(entry, place)
<1>1. CASE \E i \in DOMAIN entry.metadata :
              id = entry.metadata[i].artifact
      <2>1. PICK i \in DOMAIN entry.metadata :
                id = entry.metadata[i].artifact
            BY <1>1
      <2>2. <<"metadata", i>> \in Places(entry)
            BY DEF Places
      <2>3. id \in ArtifactsAt(entry, <<"metadata", i>>)
            BY <2>1 DEF ArtifactsAt
      <2> QED BY <2>2, <2>3
<1>2. CASE \E i \in DOMAIN entry.routing :
              id = entry.routing[i].artifact /\ id # NoArtifact
      <2>1. PICK i \in DOMAIN entry.routing :
                id = entry.routing[i].artifact /\ id # NoArtifact
            BY <1>2
      <2>2. <<"routing", i>> \in Places(entry)
            BY DEF Places
      <2>3. id \in ArtifactsAt(entry, <<"routing", i>>)
            BY <2>1 DEF ArtifactsAt
      <2> QED BY <2>2, <2>3
<1>3. CASE \E i \in DOMAIN entry.detection :
              id \in Values(entry.detection[i].artifacts)
      <2>1. PICK i \in DOMAIN entry.detection :
                id \in Values(entry.detection[i].artifacts)
            BY <1>3
      <2>2. <<"detection", i>> \in Places(entry)
            BY DEF Places
      <2>3. id \in ArtifactsAt(entry, <<"detection", i>>)
            BY <2>1 DEF ArtifactsAt
      <2> QED BY <2>2, <2>3
<1> QED BY <1>1, <1>2, <1>3 DEF Used
-----------------------------------------------------------------------------
\* Every slot that an admitted variant requires has one writer.
LEMMA OneWriter ==
    ASSUME NEW variant, ValidateVariant(variant), NEW slot \in Values(variant.required)
    PROVE  \E i \in DOMAIN variant.bindings : WritesAlone(variant, i, slot)
<1>1. PICK w \in Writes(variant) : SlotAt(variant, w) = slot
      BY DEF ValidateVariant
<1>2. PICK i \in DOMAIN variant.bindings :
          \E j \in DOMAIN variant.bindings[i].slots : w = <<i, j>>
      BY DEF Writes
<1>3. slot \in Values(variant.bindings[i].slots)
      BY <1>1, <1>2 DEF SlotAt, Values
<1>4. ASSUME NEW k \in DOMAIN variant.bindings,
             slot \in Values(variant.bindings[k].slots)
      PROVE  k = i
      <2>1. PICK l \in DOMAIN variant.bindings[k].slots :
                slot = variant.bindings[k].slots[l]
            BY <1>4 DEF Values
      <2>2. <<k, l>> \in Writes(variant) /\ SlotAt(variant, <<k, l>>) = slot
            BY <2>1 DEF Writes, SlotAt
      <2> DEFINE slots == [x \in Writes(variant) |-> SlotAt(variant, x)]
      <2>3. Distinct(slots) /\ slots[w] = slots[<<k, l>>]
            BY <1>1, <2>2 DEF ValidateVariant
      <2>4. w = <<k, l>>
            BY <2>2, <2>3 DEF Distinct
      <2> QED BY <1>2, <2>4
<1>5. WritesAlone(variant, i, slot)
      BY <1>3, <1>4 DEF WritesAlone
<1> QED BY <1>5

\* A binding of an admitted entry names one detection, and nothing else in
\* the document has that name.
LEMMA OneDetection ==
    ASSUME NEW doc, NEW e \in DOMAIN doc.entries,
           UniqueComponents(doc.entries), ValidateEntry(doc.entries[e]),
           NEW id \in BindingIds(doc.entries[e])
    PROVE  \E place \in Places(doc.entries[e]) :
               place[1] = "detection" /\ ComponentsNamed(doc, id) = {<<e, place>>}
<1>1. PICK m \in DOMAIN doc.entries[e].detection :
          doc.entries[e].detection[m].id = id
      BY DEF ValidateEntry, DetectionIds, Values, Ids
<1> DEFINE place == <<"detection", m>>
<1>2. place \in Places(doc.entries[e]) /\ place[1] = "detection"
      BY DEF Places
<1>3. ComponentAt(doc.entries[e], place) = id
      BY <1>1 DEF ComponentAt
<1>4. <<e, place>> \in ComponentsNamed(doc, id)
      BY <1>2, <1>3 DEF ComponentsNamed
<1>5. ASSUME NEW c \in ComponentsNamed(doc, id)
      PROVE  c = <<e, place>>
      <2>1. PICK f \in DOMAIN doc.entries : \E q \in Places(doc.entries[f]) :
                c = <<f, q>> /\ ComponentAt(doc.entries[f], q) = id
            BY <1>5 DEF ComponentsNamed
      <2> QED BY <1>2, <1>3, <2>1 DEF UniqueComponents
<1> QED BY <1>2, <1>4, <1>5

\* Every document that policy.Validate admits gives each required slot of each
\* variant one probe, whose component and artifacts are there and are its own.
THEOREM AdmittedProbes ==
    ASSUME NEW doc, NEW directory, Validate(doc, directory)
    PROVE  ProbesResolve(doc)
<1> SUFFICES ASSUME NEW e \in DOMAIN doc.entries,
                    NEW v \in DOMAIN doc.entries[e].variants,
                    NEW slot \in Values(doc.entries[e].variants[v].required)
             PROVE  \E i \in DOMAIN doc.entries[e].variants[v].bindings,
                       place \in Places(doc.entries[e]) :
                    /\ WritesAlone(doc.entries[e].variants[v], i, slot)
                    /\ place[1] = "detection"
                    /\ ComponentsNamed(doc, doc.entries[e].variants[v].bindings[i].id)
                          = {<<e, place>>}
                    /\ \A id \in ArtifactsAt(doc.entries[e], place) :
                          \E n \in DOMAIN doc.artifacts :
                              /\ doc.artifacts[n].id = id
                              /\ doc.artifacts[n].entry = doc.entries[e].id
    BY DEF ProbesResolve
<1> DEFINE entry == doc.entries[e]
           variant == entry.variants[v]
<1>1. /\ ValidateEntry(entry) /\ UniqueComponents(doc.entries)
      /\ EntryReferences(doc, entry)
      BY DEF Validate, ValidateReferences
<1>2. ValidateVariant(variant)
      BY <1>1 DEF ValidateEntry
<1>3. PICK i \in DOMAIN variant.bindings : WritesAlone(variant, i, slot)
      BY <1>2, OneWriter
<1>4. variant.bindings[i].id \in BindingIds(entry)
      <2>1. variant.bindings[i].id \in Values(Ids(variant.bindings))
            BY DEF Values, Ids
      <2> QED BY <2>1 DEF BindingIds
<1>5. PICK place \in Places(entry) :
          /\ place[1] = "detection"
          /\ ComponentsNamed(doc, variant.bindings[i].id) = {<<e, place>>}
      BY <1>1, <1>4, OneDetection
<1>6. ASSUME NEW id \in ArtifactsAt(entry, place)
      PROVE  \E n \in DOMAIN doc.artifacts :
                 doc.artifacts[n].id = id /\ doc.artifacts[n].entry = entry.id
      BY <1>1, <1>5, <1>6, ReferencesHold DEF MayUse
<1> QED BY <1>3, <1>5, <1>6

\* And it lets executable content be reached through bound detections of the
\* executable source only.
THEOREM AdmittedExecutables ==
    ASSUME NEW doc, NEW directory, Validate(doc, directory)
    PROVE  ExecutablesBound(doc)
<1> DEFINE Users(n) ==
        UNION {{<<e, p>> : p \in {q \in Places(doc.entries[e]) :
                    doc.artifacts[n].id \in ArtifactsAt(doc.entries[e], q)}} :
                        e \in DOMAIN doc.entries}
<1> SUFFICES ASSUME NEW n \in DOMAIN doc.artifacts,
                    doc.artifacts[n].permission = "executable"
             PROVE  /\ doc.id = ExecSourceID
                    /\ Users(n) # {}
                    /\ \A u \in Users(n) :
                          /\ doc.entries[u[1]].id = doc.artifacts[n].entry
                          /\ u[2][1] = "detection"
                          /\ ComponentAt(doc.entries[u[1]], u[2])
                                \in BindingIds(doc.entries[u[1]])
    BY DEF ExecutablesBound
<1>1. doc.id = ExecSourceID
      BY DEF Validate
<1>2. Users(n) # {}
      <2>1. doc.artifacts[n].id \in Values(Ids(doc.artifacts))
            BY DEF Values, Ids
      <2>2. PICK e \in DOMAIN doc.entries : doc.artifacts[n].id \in Used(doc.entries[e])
            BY <2>1 DEF Validate, ValidateReferences
      <2>3. PICK p \in Places(doc.entries[e]) :
                doc.artifacts[n].id \in ArtifactsAt(doc.entries[e], p)
            BY <2>2, UsedAtPlace
      <2>4. <<e, p>> \in Users(n)
            BY <2>3
      <2> QED BY <2>4
<1>3. ASSUME NEW u \in Users(n)
      PROVE  /\ doc.entries[u[1]].id = doc.artifacts[n].entry
             /\ u[2][1] = "detection"
             /\ ComponentAt(doc.entries[u[1]], u[2]) \in BindingIds(doc.entries[u[1]])
      <2>0. PICK e \in DOMAIN doc.entries : \E p \in Places(doc.entries[e]) :
                u = <<e, p>> /\ doc.artifacts[n].id \in ArtifactsAt(doc.entries[e], p)
            BY <1>3
      <2>1. PICK p \in Places(doc.entries[e]) :
                u = <<e, p>> /\ doc.artifacts[n].id \in ArtifactsAt(doc.entries[e], p)
            BY <2>0
      <2>2. /\ EntryReferences(doc, doc.entries[e]) /\ ValidateEntry(doc.entries[e])
            /\ Distinct(Ids(doc.artifacts))
            BY DEF Validate, ValidateReferences
      <2>3. p[1] = "detection"
            <3>1. ~MayUse(doc, doc.entries[e], doc.artifacts[n].id,
                          {"metadata", "routing-data"})
                  <4>1. doc.artifacts[n].permission \notin {"metadata", "routing-data"}
                        OBVIOUS
                  <4> QED BY <2>2, <4>1, UseOfArtifact
            <3> QED BY <2>1, <2>2, <3>1, ReferencesHold
      <2>4. doc.entries[e].id = doc.artifacts[n].entry
            <3>1. MayUse(doc, doc.entries[e], doc.artifacts[n].id,
                         {"detection-data", "executable"})
                  BY <2>1, <2>2, <2>3, ReferencesHold
            <3> QED BY <2>2, <3>1, UseOfArtifact
      <2>5. ComponentAt(doc.entries[e], p) \in BindingIds(doc.entries[e])
            <3>1. PICK m \in DOMAIN doc.entries[e].detection : p = <<"detection", m>>
                  BY <2>1, <2>3 DEF Places
            <3>2. ComponentAt(doc.entries[e], p) = doc.entries[e].detection[m].id
                  BY <3>1 DEF ComponentAt
            <3>3. ComponentAt(doc.entries[e], p) \in DetectionIds(doc.entries[e])
                  BY <3>2 DEF DetectionIds, Values, Ids
            <3> QED BY <2>2, <3>3 DEF ValidateEntry
      <2> QED BY <2>1, <2>3, <2>4, <2>5
<1> QED BY <1>1, <1>2, <1>3

-----------------------------------------------------------------------------
(***************************************************************************)
(* The builders.                                                           *)
(***************************************************************************)

\* An admitted document has its directory for its source, and the objects of
\* its artifacts are objects.
LEMMA AdmittedFacts ==
    ASSUME NEW doc, NEW id, Admitted(doc, id)
    PROVE  /\ doc \in Document /\ doc \in DOMAIN Text
           /\ Text[doc].id = id /\ id \in Wanted
           /\ Declared(doc) \subseteq Object
           /\ Len(Text[doc].artifacts) \in Nat
           /\ DOMAIN Text[doc].artifacts = 1..Len(Text[doc].artifacts)
           /\ \A i \in 1..Len(Text[doc].artifacts) :
                 Text[doc].artifacts[i].object \in Declared(doc)
<1>1. doc \in DOMAIN Text /\ Validate(Text[doc], id)
      BY DEF Admitted
<1>2. /\ doc \in Document /\ Declared(doc) \subseteq Object
      /\ Text[doc].artifacts \in Seq(Values(Text[doc].artifacts))
      BY <1>1, DocumentAssumption
<1>3. Text[doc].id = id /\ id \in Wanted
      BY <1>1 DEF Validate
<1>4. /\ Len(Text[doc].artifacts) \in Nat
      /\ DOMAIN Text[doc].artifacts = 1..Len(Text[doc].artifacts)
      BY <1>2
<1>5. \A i \in 1..Len(Text[doc].artifacts) :
          Text[doc].artifacts[i].object \in Declared(doc)
      BY <1>4 DEF Declared
<1> QED BY <1>1, <1>2, <1>3, <1>4, <1>5

\* All of a document's objects have been read when the last one has.
LEMMA AllRead ==
    ASSUME NEW doc, NEW id, Admitted(doc, id)
    PROVE  ReadBefore(doc, Len(Text[doc].artifacts) + 1) = Declared(doc)
<1>1. /\ Len(Text[doc].artifacts) \in Nat
      /\ DOMAIN Text[doc].artifacts = 1..Len(Text[doc].artifacts)
      BY AdmittedFacts
<1>2. Len(Text[doc].artifacts) + 1 - 1 = Len(Text[doc].artifacts)
      BY <1>1
<1> QED BY <1>1, <1>2 DEF ReadBefore, Declared

\* A step of one builder that does what RunInv asks of it.
LEMMA OneRun ==
    ASSUME BuildersInv, NEW b \in Builder, NEW r \in RunState, RunInv(r),
           run' = [run EXCEPT ![b] = r]
    PROVE  /\ run' \in [Builder -> RunState]
           /\ \A c \in Builder : RunInv(run'[c])
BY DEF BuildersInv

\* A step that leaves the output alone, and no run ends with success in it or
\* is forgotten.
LEMMA OutputStays ==
    ASSUME OutputInv, output' = output,
           \A c \in Builder :
               /\ run[c].step \in {"exit", "done", "dead"} =>
                     /\ run'[c].step \in {"exit", "done", "dead"}
                     /\ run'[c].staged = run[c].staged
               /\ run'[c].step \in {"exit", "done"} =>
                     /\ run[c].step \in {"exit", "done"}
                     /\ run'[c].staged = run[c].staged
    PROVE  OutputInv'
BY DEF OutputInv

\* The two together: a run that is not at its end and does not reach it.
LEMMA RunsOn ==
    ASSUME BuildersInv, NEW b \in Builder, NEW r \in RunState, RunInv(r),
           run' = [run EXCEPT ![b] = r], output' = output,
           run[b].step \notin {"exit", "done", "dead"},
           r.step \notin {"exit", "done"}
    PROVE  /\ run' \in [Builder -> RunState]
           /\ \A c \in Builder : RunInv(run'[c])
           /\ OutputInv'
<1>1. /\ run' \in [Builder -> RunState]
      /\ \A c \in Builder : RunInv(run'[c])
      BY OneRun
<1>2. run'[b] = r /\ \A c \in Builder \ {b} : run'[c] = run[c]
      BY DEF BuildersInv
<1>3. OutputInv'
      BY <1>2, OutputStays DEF BuildersInv
<1> QED BY <1>1, <1>3

LEMMA BuildersInit == Init => BuildersInv
<1> SUFFICES ASSUME Init PROVE BuildersInv
    OBVIOUS
<1>1. Nothing \in CandidateSet /\ Names(Nothing) = {}
      BY DEF Nothing, CandidateSet, Names
<1>2. NoObjects \in [Object -> ObjectState]
      BY DEF NoObjects, ObjectState
<1>3. Idle \in RunState
      BY <1>1, <1>2 DEF Idle, RunState, Steps, AtRest, Wanted
<1>4. RunInv(Idle)
      BY <1>1 DEF RunInv, Idle
<1>5. \A b \in Builder : run[b] = Idle
      BY DEF Init
<1>6. OutputInv
      BY <1>5 DEF Init, OutputInv, Idle
<1>7. counts \in [changes : 0..MaxChanges, faults : 0..MaxFaults]
      BY BuilderAssumption DEF Init
<1> QED BY <1>3, <1>4, <1>5, <1>6, <1>7, TreeAssumption DEF Init, BuildersInv

-----------------------------------------------------------------------------
(***************************************************************************)
(* The steps of a builder.                                                 *)
(***************************************************************************)

\* What a step leaves of the invariant when it changes one run only.
RunPart == /\ run \in [Builder -> RunState]
           /\ \A c \in Builder : RunInv(run[c])
           /\ OutputInv

LEMMA StartStep ==
    ASSUME BuildersInv, NEW b \in Builder, Start(b)
    PROVE  RunPart'
<1> DEFINE r == [run[b] EXCEPT !.step = "document"]
<1>1. run[b] = Idle /\ run[b] \in RunState
      BY DEF BuildersInv, RunInv, Start
<1>2. r \in RunState
      BY <1>1 DEF RunState, Steps
<1>3. RunInv(r)
      <2>1. Names(Nothing) = {}
            BY DEF Names, Nothing
      <2> QED BY <1>1, <2>1, WantedAssumption DEF RunInv, Idle, Wanted
<1>4. run' = [run EXCEPT ![b] = r]
      BY DEF Start, Goto
<1> QED BY <1>1, <1>2, <1>3, <1>4, RunsOn DEF RunPart, Start, RunState

LEMMA ReadDocumentStep ==
    ASSUME BuildersInv, NEW b \in Builder, ReadDocument(b)
    PROVE  RunPart'
<1> DEFINE doc == definitions[run[b].source].document
           r == [run[b] EXCEPT !.step = "walk", !.document = doc]
<1>1. run[b] \in RunState /\ RunInv(run[b])
      BY DEF BuildersInv
<1>2. run[b].step = "document" /\ Admitted(doc, run[b].source)
      BY DEF ReadDocument
<1>3. r \in RunState
      BY <1>1, <1>2, AdmittedFacts DEF RunState, Steps
<1>4. RunInv(r)
      BY <1>1, <1>2 DEF RunInv, RunState
<1>5. run' = [run EXCEPT ![b] = r]
      BY <1>1 DEF ReadDocument, BuildersInv, RunState
<1> QED BY <1>1, <1>2, <1>3, <1>4, <1>5, RunsOn DEF RunPart, ReadDocument, RunState

LEMMA WalkTreeStep ==
    ASSUME BuildersInv, NEW b \in Builder, WalkTree(b)
    PROVE  RunPart'
<1> DEFINE r == [run[b] EXCEPT !.step = "objects", !.next = 1, !.objects = NoObjects]
<1>1. run[b] \in RunState /\ RunInv(run[b]) /\ run[b].step = "walk"
      BY DEF BuildersInv, WalkTree
<1>2. NoObjects \in [Object -> ObjectState]
      BY DEF NoObjects, ObjectState
<1>3. r \in RunState
      BY <1>1, <1>2 DEF RunState, Steps
<1>4. RunInv(r)
      <2>1. Admitted(run[b].document, run[b].source)
            BY <1>1 DEF RunInv
      <2>2. 1 \in 1..(Len(Text[run[b].document].artifacts) + 1)
            BY <2>1, AdmittedFacts
      <2>3. ReadBefore(run[b].document, 1) = {}
            BY DEF ReadBefore
      <2> QED BY <1>1, <2>1, <2>2, <2>3 DEF RunInv, RunState, NoObjects
<1>5. run' = [run EXCEPT ![b] = r]
      BY <1>1 DEF WalkTree, BuildersInv, RunState
<1> QED BY <1>1, <1>3, <1>4, <1>5, RunsOn DEF RunPart, WalkTree, RunState

LEMMA ReadObjectStep ==
    ASSUME BuildersInv, NEW b \in Builder, ReadObject(b)
    PROVE  RunPart'
<1> DEFINE doc == run[b].document
           n == run[b].next
           o == NextObject(b)
           r == [run[b] EXCEPT !.objects = [run[b].objects EXCEPT ![o] = "intact"],
                               !.next = n + 1]
<1>1. run[b] \in RunState /\ RunInv(run[b]) /\ run[b].step = "objects"
      BY DEF BuildersInv, ReadObject
<1>2. Admitted(doc, run[b].source) /\ n \in 1..Len(Text[doc].artifacts)
      <2>1. Admitted(doc, run[b].source) /\ n \in 1..(Len(Text[doc].artifacts) + 1)
            BY <1>1 DEF RunInv
      <2>2. Len(Text[doc].artifacts) \in Nat
            BY <2>1, AdmittedFacts
      <2>3. n <= Len(Text[doc].artifacts)
            BY DEF ReadObject, MoreObjects
      <2> QED BY <2>1, <2>2, <2>3
<1>3. o \in Object /\ o = Text[doc].artifacts[n].object
      BY <1>2, AdmittedFacts DEF NextObject
<1>4. r \in RunState
      <2>1. run[b].objects \in [Object -> ObjectState] /\ n + 1 \in Nat
            BY <1>1, <1>2 DEF RunState
      <2>2. [run[b].objects EXCEPT ![o] = "intact"] \in [Object -> ObjectState]
            BY <1>3, <2>1 DEF ObjectState
      <2> QED BY <1>1, <2>1, <2>2 DEF RunState
<1>5. ReadBefore(doc, n + 1) = ReadBefore(doc, n) \cup {o}
      <2>1. n \in Nat \ {0} /\ 1..(n + 1 - 1) = 1..(n - 1) \cup {n}
            BY <1>2
      <2> QED BY <1>3, <2>1 DEF ReadBefore
<1>6. RunInv(r)
      <2>1. n + 1 \in 1..(Len(Text[doc].artifacts) + 1)
            BY <1>2, AdmittedFacts
      <2>2. \A x \in Object :
                r.objects[x] = IF x \in ReadBefore(doc, n + 1)
                               THEN "intact" ELSE "absent"
            BY <1>1, <1>3, <1>5 DEF RunInv, RunState
      <2>3. /\ r.step = "objects" /\ r.staged = run[b].staged
            /\ r.document = doc /\ r.source = run[b].source /\ r.next = n + 1
            BY <1>1 DEF RunState
      <2> HIDE DEF r
      <2> QED BY <1>1, <1>2, <2>1, <2>2, <2>3 DEF RunInv
<1>7. run' = [run EXCEPT ![b] = r]
      BY <1>1 DEF ReadObject, BuildersInv, RunState
<1>8. r.step = "objects"
      BY <1>1 DEF RunState
<1> QED BY <1>1, <1>4, <1>6, <1>7, <1>8, RunsOn DEF RunPart, ReadObject

LEMMA ObjectsReadStep ==
    ASSUME BuildersInv, NEW b \in Builder, ObjectsRead(b)
    PROVE  RunPart'
<1> DEFINE r == [run[b] EXCEPT !.step = "write"]
<1>1. run[b] \in RunState /\ RunInv(run[b]) /\ run[b].step = "objects"
      BY DEF BuildersInv, ObjectsRead
<1>2. r \in RunState
      BY <1>1 DEF RunState, Steps
<1>3. RunInv(r)
      <2>1. /\ Admitted(run[b].document, run[b].source)
            /\ run[b].next \in 1..(Len(Text[run[b].document].artifacts) + 1)
            BY <1>1 DEF RunInv
      <2>2. run[b].next = Len(Text[run[b].document].artifacts) + 1
            BY <2>1, AdmittedFacts DEF ObjectsRead, MoreObjects
      <2> QED BY <1>1, <2>2 DEF RunInv, RunState
<1>4. run' = [run EXCEPT ![b] = r]
      BY DEF ObjectsRead, Goto
<1> QED BY <1>1, <1>2, <1>3, <1>4, RunsOn DEF RunPart, ObjectsRead, RunState

LEMMA WriteCandidateStep ==
    ASSUME BuildersInv, NEW b \in Builder, WriteCandidate(b)
    PROVE  RunPart'
<1> DEFINE id == run[b].source
           next == IF id = DataSourceID THEN "publish" ELSE "document"
           r == [run[b] EXCEPT !.staged = [run[b].staged EXCEPT ![id] = Built(b)],
                               !.source = DataSourceID, !.step = next]
<1>1. run[b] \in RunState /\ RunInv(run[b]) /\ run[b].step = "write"
      BY DEF BuildersInv, WriteCandidate
<1>2. /\ Admitted(run[b].document, id)
      /\ Text[run[b].document].id = id /\ id \in Wanted
      BY <1>1, AdmittedFacts DEF RunInv
<1>3. Built(b) \in Candidate
      BY <1>1, <1>2, AdmittedFacts, BuilderAssumption
      DEF Built, Candidate, Values, RunState
<1>4. WholeCandidate(Built(b), id)
      <2>1. ReadBefore(run[b].document, run[b].next) = Declared(run[b].document)
            BY <1>1, <1>2, AllRead DEF RunInv
      <2> QED BY <1>1, <1>2, <2>1 DEF RunInv, WholeCandidate, Built
<1>5. run[b].staged \in CandidateSet
      BY <1>1 DEF RunState
<1>6. r.staged \in CandidateSet
      BY <1>1, <1>2, <1>3, <1>5 DEF CandidateSet, RunState
<1>7. r \in RunState
      BY <1>1, <1>6 DEF RunState, Steps, Wanted
<1>8. /\ r.step = next /\ r.source = DataSourceID
      /\ r.staged = [run[b].staged EXCEPT ![id] = Built(b)]
      BY <1>1 DEF RunState
<1>9. Names(r.staged) = Names(run[b].staged) \cup {id}
      BY <1>2, <1>3, <1>5, <1>8, BuilderAssumption DEF Names, CandidateSet
<1>10. RunInv(r)
      <2>1. Names(run[b].staged) = Wanted \ {id, DataSourceID}
            BY <1>1 DEF RunInv
      <2>2. next = "publish" => Names(r.staged) = Wanted
            BY <1>2, <1>9, <2>1 DEF Wanted
      <2>3. next = "document" => Names(r.staged) = Wanted \ {DataSourceID}
            BY <1>2, <1>9, <2>1 DEF Wanted
      <2>4. \A x \in Names(r.staged) : WholeCandidate(r.staged[x], x)
            BY <1>1, <1>2, <1>4, <1>5, <1>8, <1>9 DEF RunInv, Names, CandidateSet
      <2> HIDE DEF r
      <2> QED BY <1>8, <2>2, <2>3, <2>4 DEF RunInv
<1>11. run' = [run EXCEPT ![b] = r]
      BY <1>1, <1>2 DEF WriteCandidate, BuildersInv, RunState
<1> HIDE DEF r
<1> QED BY <1>1, <1>7, <1>8, <1>10, <1>11, RunsOn DEF RunPart, WriteCandidate

\* The rename: no other run has succeeded, since there was no output.
LEMMA PublishSetStep ==
    ASSUME BuildersInv, NEW b \in Builder, PublishSet(b)
    PROVE  RunPart'
<1> DEFINE r == [run[b] EXCEPT !.step = "exit"]
<1>1. run[b] \in RunState /\ RunInv(run[b]) /\ run[b].step = "publish"
      BY DEF BuildersInv, PublishSet
<1>2. r \in RunState
      BY <1>1 DEF RunState, Steps
<1>3. RunInv(r)
      BY <1>1 DEF RunInv, RunState
<1>4. run' = [run EXCEPT ![b] = r] /\ output' = run[b].staged
      BY DEF PublishSet, Goto
<1>5. run'[b] = r /\ \A c \in Builder \ {b} : run'[c] = run[c]
      BY <1>4 DEF BuildersInv
<1>6. r.staged = run[b].staged /\ r.step = "exit"
      BY <1>1 DEF RunState
<1>7. run[b].staged \in CandidateSet /\ Names(run[b].staged) = Wanted
      BY <1>1 DEF RunState, RunInv
<1>8. \A c \in Builder \ {b} : run[c].step \notin {"exit", "done"}
      <2> SUFFICES ASSUME NEW c \in Builder \ {b}, run[c].step \in {"exit", "done"}
                   PROVE  FALSE
          OBVIOUS
      <2>1. output = run[c].staged /\ output = NoOutput
            BY DEF BuildersInv, OutputInv, PublishSet
      <2>2. run[c].staged \in CandidateSet
            BY DEF BuildersInv, RunState
      <2> QED BY <2>1, <2>2, BuilderAssumption
<1> HIDE DEF r
<1>9. OutputInv'
      BY <1>4, <1>5, <1>6, <1>7, <1>8 DEF OutputInv
<1> QED BY <1>2, <1>3, <1>4, <1>9, OneRun DEF RunPart

LEMMA FinishStep ==
    ASSUME BuildersInv, NEW b \in Builder, Finish(b)
    PROVE  RunPart'
<1> DEFINE r == [run[b] EXCEPT !.step = "done"]
<1>1. run[b] \in RunState /\ RunInv(run[b]) /\ run[b].step = "exit"
      BY DEF BuildersInv, Finish
<1>2. r \in RunState
      BY <1>1 DEF RunState, Steps, AtRest
<1>3. RunInv(r)
      BY <1>1 DEF RunInv, RunState
<1>4. run' = [run EXCEPT ![b] = r] /\ output' = output
      BY DEF Finish, Goto
<1>5. run'[b] = r /\ \A c \in Builder \ {b} : run'[c] = run[c]
      BY <1>4 DEF BuildersInv
<1>6. r.staged = run[b].staged /\ r.step = "done"
      BY <1>1 DEF RunState
<1> HIDE DEF r
<1>7. OutputInv'
      BY <1>1, <1>4, <1>5, <1>6, OutputStays DEF BuildersInv
<1> QED BY <1>2, <1>3, <1>4, <1>7, OneRun DEF RunPart

LEMMA StopStep ==
    ASSUME BuildersInv, NEW b \in Builder, Stop(b), output' = output,
           run[b].step \notin {"exit", "done", "dead"}
    PROVE  RunPart'
<1> DEFINE r == [run[b] EXCEPT !.step = "failed", !.staged = Nothing]
<1>1. run[b] \in RunState
      BY DEF BuildersInv
<1>2. Nothing \in CandidateSet /\ Names(Nothing) = {}
      BY DEF Nothing, CandidateSet, Names
<1>3. r \in RunState
      BY <1>1, <1>2 DEF RunState, Steps, AtRest
<1>4. RunInv(r)
      BY <1>1, <1>2 DEF RunInv, RunState
<1>5. run' = [run EXCEPT ![b] = r]
      BY <1>1 DEF Stop, BuildersInv, RunState
<1> QED BY <1>1, <1>3, <1>4, <1>5, RunsOn DEF RunPart, RunState

LEMMA DieStep ==
    ASSUME BuildersInv, NEW b \in Builder, Die(b)
    PROVE  RunPart'
<1> DEFINE r == [run[b] EXCEPT !.step = "dead"]
<1>1. run[b] \in RunState /\ RunInv(run[b]) /\ run[b].step \notin AtRest
      BY DEF BuildersInv, Die
<1>2. r \in RunState
      BY <1>1 DEF RunState, Steps, AtRest
<1>3. RunInv(r)
      BY <1>1 DEF RunInv, RunState
<1>4. run' = [run EXCEPT ![b] = r] /\ output' = output
      BY DEF Die, Goto
<1>5. run'[b] = r /\ \A c \in Builder \ {b} : run'[c] = run[c]
      BY <1>4 DEF BuildersInv
<1>6. r.staged = run[b].staged /\ r.step = "dead"
      BY <1>1 DEF RunState
<1> HIDE DEF r
<1>7. OutputInv'
      BY <1>4, <1>5, <1>6, OutputStays DEF BuildersInv
<1> QED BY <1>2, <1>3, <1>4, <1>7, OneRun DEF RunPart

\* A fault is counted up to its bound, and nothing else is.
LEMMA CountsStep ==
    ASSUME BuildersInv, Next
    PROVE  counts' \in [changes : 0..MaxChanges, faults : 0..MaxFaults]
<1>1. counts \in [changes : 0..MaxChanges, faults : 0..MaxFaults]
      BY DEF BuildersInv
<1>2. CASE Change
      BY <1>1, <1>2, BuilderAssumption DEF Change
<1>3. ASSUME NEW b \in Builder, Fail(b) \/ Die(b)
      PROVE  counts' \in [changes : 0..MaxChanges, faults : 0..MaxFaults]
      BY <1>1, <1>3, BuilderAssumption DEF Fail, Die, Fault
<1>4. ASSUME NEW b \in Builder,
             \/ Start(b) \/ ReadDocument(b) \/ WalkTree(b) \/ ReadObject(b)
             \/ ObjectsRead(b) \/ WriteCandidate(b) \/ PublishSet(b)
             \/ Finish(b) \/ Refuse(b)
      PROVE  counts' = counts
      BY <1>4 DEF Start, ReadDocument, WalkTree, ReadObject, ObjectsRead,
                  WriteCandidate, PublishSet, Finish, Refuse
<1> QED BY <1>1, <1>2, <1>3, <1>4 DEF Next

\* The definitions are trees, before and after a change.
LEMMA TreesStep ==
    ASSUME BuildersInv, Next
    PROVE  {definitions, first}' \subseteq Tree
<1>1. CASE Change
      BY <1>1, TreeAssumption DEF Change, Tree, BuildersInv
<1>2. ASSUME NEW b \in Builder,
             \/ Start(b) \/ ReadDocument(b) \/ WalkTree(b) \/ ReadObject(b)
             \/ ObjectsRead(b) \/ WriteCandidate(b) \/ PublishSet(b)
             \/ Finish(b) \/ Refuse(b) \/ Fail(b) \/ Die(b)
      PROVE  definitions' = definitions /\ first' = first
      BY <1>2 DEF Start, ReadDocument, WalkTree, ReadObject, ObjectsRead,
                  WriteCandidate, PublishSet, Finish, Refuse, Fail, Die
<1> QED BY <1>1, <1>2 DEF Next, BuildersInv

LEMMA BuildersStep == BuildersInv /\ [Next]_vars => BuildersInv'
<1> SUFFICES ASSUME BuildersInv, [Next]_vars PROVE BuildersInv'
    OBVIOUS
<1>1. CASE Next
      <2>1. RunPart'
            <3>1. CASE Change
                  BY <3>1, OutputStays DEF Change, BuildersInv, RunPart
            <3>2. ASSUME NEW b \in Builder, Refuse(b)
                  PROVE  RunPart'
                  BY <3>2, StopStep DEF Refuse, Refused
            <3>3. ASSUME NEW b \in Builder, Fail(b)
                  PROVE  RunPart'
                  BY <3>3, StopStep DEF Fail
            <3> QED BY <1>1, <3>1, <3>2, <3>3, StartStep, ReadDocumentStep,
                       WalkTreeStep, ReadObjectStep, ObjectsReadStep,
                       WriteCandidateStep, PublishSetStep, FinishStep, DieStep
                    DEF Next
      <2> QED BY <1>1, <2>1, CountsStep, TreesStep DEF BuildersInv, RunPart
<1>2. CASE UNCHANGED vars
      BY <1>2 DEF vars, BuildersInv, OutputInv
<1> QED BY <1>1, <1>2

\* BuildersInv is an invariant: what every run has staged is whole, and the
\* output is what one run has staged.
THEOREM BuildersInvTheorem == Spec => []BuildersInv
BY BuildersInit, BuildersStep, PTL DEF Spec

-----------------------------------------------------------------------------
(***************************************************************************)
(* The properties.                                                         *)
(***************************************************************************)

\* What is in the output is the whole candidate of its source.
LEMMA OutputStaged ==
    ASSUME BuildersInv, output # NoOutput
    PROVE  /\ Names(output) = Wanted
           /\ \A id \in Wanted : WholeCandidate(output[id], id)
<1>1. PICK b \in Builder : output = run[b].staged
      BY DEF BuildersInv, OutputInv
<1>2. Names(output) = Wanted
      BY DEF BuildersInv, OutputInv
<1>3. RunInv(run[b])
      BY DEF BuildersInv
<1> QED BY <1>1, <1>2, <1>3 DEF RunInv

\* Types, and what a run has staged at each of its steps.
THEOREM CandidatesTypeTheorem == Spec => []TypeOK
<1>1. ASSUME BuildersInv PROVE TypeOK
      <2>1. ASSUME NEW b \in Builder, run[b].step \in {"walk", "objects", "write"}
            PROVE  run[b].document \in DOMAIN Text
            BY <1>1, <2>1, AdmittedFacts DEF BuildersInv, RunInv
      <2> QED BY <1>1, <2>1 DEF TypeOK, BuildersInv, RunInv, OutputInv
<1> QED BY <1>1, BuildersInvTheorem, PTL

\* Both sources are published or none, each whole, whatever changed in between.
THEOREM WholeTheorem == Spec => []OutputWhole
<1>1. ASSUME BuildersInv PROVE OutputWhole
      BY <1>1, OutputStaged, AdmittedFacts DEF OutputWhole, WholeCandidate
<1> QED BY <1>1, BuildersInvTheorem, PTL

\* What is published resolves: the policy's rules reach every candidate.
THEOREM ResolvesTheorem == Spec => []OutputResolves
<1>1. ASSUME BuildersInv PROVE OutputResolves
      <2> SUFFICES ASSUME output # NoOutput, NEW id \in Names(output)
                   PROVE  /\ ProbesResolve(Text[output[id].document])
                          /\ ExecutablesBound(Text[output[id].document])
          BY DEF OutputResolves
      <2>1. Validate(Text[output[id].document], id)
            BY <1>1, OutputStaged DEF WholeCandidate, Admitted
      <2> QED BY <2>1, AdmittedProbes, AdmittedExecutables
<1> QED BY <1>1, BuildersInvTheorem, PTL

\* The exit status of every run is true, with any number of them for one output.
THEOREM BuilderOutcomeTheorem == Spec => []OutcomeIsTrue
<1>1. BuildersInv => OutcomeIsTrue
      BY DEF BuildersInv, OutputInv, OutcomeIsTrue
<1> QED BY <1>1, BuildersInvTheorem, PTL

-----------------------------------------------------------------------------
(***************************************************************************)
(* Several builders do not stop each other.                                *)
(***************************************************************************)

\* No check fails on definitions that can be built, while there is no output.
LEMMA NothingRefused ==
    ASSUME BuildersInv, RaceInv, counts.changes = 0, Buildable(first),
           output = NoOutput, NEW b \in Builder
    PROVE  ~Refused(b)
<1> DEFINE doc == first[run[b].source].document
<1>1. definitions = first /\ RunInv(run[b]) /\ run[b] \in RunState
      BY DEF RaceInv, BuildersInv
<1>2. run[b].source \in Wanted /\ Admitted(doc, run[b].source)
      BY <1>1 DEF RunState, Buildable
<1>3. Discovered = Wanted
      BY <1>1 DEF Discovered, Buildable
<1>4. \A o \in Object :
          first[run[b].source].objects[o] =
              IF o \in Declared(doc) THEN "intact" ELSE "absent"
      BY <1>2 DEF Buildable
<1>5. run[b].step = "walk" => OnlyDeclared(b)
      BY <1>1, <1>4 DEF RaceInv, OnlyDeclared
<1>6. run[b].step = "objects" /\ MoreObjects(b) => OnDisk(b) = "intact"
      <2> SUFFICES ASSUME run[b].step = "objects", MoreObjects(b)
                   PROVE  OnDisk(b) = "intact"
          OBVIOUS
      <2>1. run[b].document = doc
            BY DEF RaceInv
      <2>2. run[b].next \in 1..(Len(Text[doc].artifacts) + 1)
            BY <1>1, <2>1 DEF RunInv
      <2>3. run[b].next \in 1..Len(Text[doc].artifacts)
            BY <1>2, <2>1, <2>2, AdmittedFacts DEF MoreObjects
      <2>4. NextObject(b) \in Declared(doc) /\ NextObject(b) \in Object
            BY <1>2, <2>1, <2>3, AdmittedFacts DEF NextObject
      <2> QED BY <1>1, <1>4, <2>4 DEF OnDisk
<1>7. run[b].step = "write" => Text[run[b].document].id \notin Names(run[b].staged)
      BY <1>1, AdmittedFacts DEF RunInv
<1> QED BY <1>1, <1>2, <1>3, <1>5, <1>6, <1>7 DEF Refused

\* No run begins to read from the tree, and one that does keeps its document.
ReadsOn ==
    \A c \in Builder :
        run'[c].step \in {"walk", "objects"} =>
            /\ run[c].step \in {"walk", "objects"}
            /\ run'[c].document = run[c].document
            /\ run'[c].source = run[c].source

LEMMA RaceStep ==
    ASSUME BuildersInv, BuildersInv', RaceInv, [Next]_vars
    PROVE  RaceInv'
<1>1. CASE UNCHANGED vars
      BY <1>1 DEF vars, RaceInv
<1>2. CASE Change
      <2>1. counts'.changes # 0
            BY <1>2 DEF Change, BuildersInv
      <2> QED BY <2>1 DEF RaceInv
<1>3. ASSUME NEW b \in Builder, ReadDocument(b)
      PROVE  RaceInv'
      BY <1>3 DEF ReadDocument, RaceInv, BuildersInv, RunState
<1>4. ASSUME NEW b \in Builder, PublishSet(b)
      PROVE  RaceInv'
      <2>1. output' # NoOutput
            BY <1>4, BuilderAssumption DEF PublishSet, BuildersInv, RunState
      <2> QED BY <1>4, <2>1 DEF PublishSet, Goto, RaceInv, BuildersInv, RunState
<1>5. ASSUME NEW b \in Builder, Refuse(b)
      PROVE  RaceInv'
      <2>1. ~(counts.changes = 0 /\ Buildable(first) /\ output = NoOutput)
            BY <1>5, NothingRefused DEF Refuse
      <2> QED BY <1>5, <2>1 DEF Refuse, Stop, RaceInv, BuildersInv, RunState
<1>6. ASSUME NEW b \in Builder, Fail(b) \/ Die(b)
      PROVE  RaceInv'
      <2>1. counts'.faults # 0 /\ counts'.changes = counts.changes
            BY <1>6 DEF Fail, Die, Fault, BuildersInv
      <2>2. ReadsOn
            <3>1. CASE Fail(b)
                  BY <3>1 DEF ReadsOn, Fail, Stop, BuildersInv, RunState
            <3>2. CASE Die(b)
                  BY <3>2 DEF ReadsOn, Die, Goto, BuildersInv, RunState
            <3> QED BY <1>6, <3>1, <3>2
      <2>3. definitions' = definitions /\ first' = first
            BY <1>6 DEF Fail, Die
      <2> QED BY <2>1, <2>2, <2>3 DEF RaceInv, ReadsOn
<1>7. ASSUME NEW b \in Builder,
             \/ Start(b) \/ WalkTree(b) \/ ReadObject(b) \/ ObjectsRead(b)
             \/ WriteCandidate(b) \/ Finish(b)
      PROVE  RaceInv'
      <2>1. ReadsOn /\ \A c \in Builder :
                             run'[c].step = "failed" => run[c].step = "failed"
            <3>0. run \in [Builder -> RunState]
                  BY DEF BuildersInv
            <3>1. CASE Start(b)
                  BY <3>0, <3>1 DEF ReadsOn, Goto, RunState, Start
            <3>2. CASE WalkTree(b)
                  BY <3>0, <3>2 DEF ReadsOn, RunState, WalkTree
            <3>3. CASE ReadObject(b)
              <4>1. /\ \A c \in Builder \ {b} : run'[c] = run[c]
                    /\ run'[b].step = run[b].step /\ run[b].step = "objects"
                    /\ run'[b].document = run[b].document
                    /\ run'[b].source = run[b].source
                    BY <3>0, <3>3 DEF RunState, ReadObject
              <4> QED BY <4>1 DEF ReadsOn
            <3>4. CASE ObjectsRead(b)
                  BY <3>0, <3>4 DEF ReadsOn, Goto, RunState, ObjectsRead
            <3>5. CASE WriteCandidate(b)
              <4>1. /\ \A c \in Builder \ {b} : run'[c] = run[c]
                    /\ run'[b].step \in {"publish", "document"}
                    BY <3>0, <3>5 DEF RunState, WriteCandidate
              <4> QED BY <4>1 DEF ReadsOn
            <3>6. CASE Finish(b)
                  BY <3>0, <3>6 DEF ReadsOn, Goto, RunState, Finish
            <3> QED BY <1>7, <3>1, <3>2, <3>3, <3>4, <3>5, <3>6
      <2>2. /\ definitions' = definitions /\ first' = first
            /\ output' = output /\ counts' = counts
            BY <1>7 DEF Start, WalkTree, ReadObject, ObjectsRead, WriteCandidate,
                Finish
      <2> QED BY <2>1, <2>2 DEF RaceInv, ReadsOn
<1> QED BY <1>1, <1>2, <1>3, <1>4, <1>5, <1>6, <1>7 DEF Next

\* Of any number of builders that race for one output, one has published when
\* all have ended, unless the definitions, a call or a run was at fault.
THEOREM RaceTheorem == Spec => []RaceHasWinner
<1>1. Init => RaceInv
      BY DEF Init, RaceInv, Idle
<1>2. BuildersInv /\ BuildersInv' /\ RaceInv /\ [Next]_vars => RaceInv'
      BY RaceStep
<1>3. ASSUME BuildersInv, RaceInv PROVE RaceHasWinner
      <2> SUFFICES ASSUME \A b \in Builder : run[b].step \in {"done", "failed"},
                          counts = [changes |-> 0, faults |-> 0],
                          Buildable(first), output = NoOutput
                   PROVE  FALSE
          BY DEF RaceHasWinner
      <2>1. PICK b \in Builder : TRUE
            BY BuilderAssumption
      <2>2. run[b].step = "done"
            BY <1>3, <2>1 DEF RaceInv
      <2>3. output = run[b].staged /\ run[b].staged \in CandidateSet
            BY <1>3, <2>2 DEF BuildersInv, OutputInv, RunState
      <2> QED BY <2>3, BuilderAssumption
<1> QED BY <1>1, <1>2, <1>3, BuildersInvTheorem, PTL DEF Spec
=============================================================================
