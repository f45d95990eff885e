------------------------------- MODULE Candidates -------------------------------
(***************************************************************************)
(* catalog-publisher candidate: build one unsigned candidate for each of   *)
(* the two sources and publish them together.  Several builders may be at  *)
(* work for one output directory, on a definition tree that changes while  *)
(* they read it file by file; every call may fail and a builder may die.   *)
(***************************************************************************)
EXTENDS AdmissionPolicy

CONSTANTS
    Directory,    \* names of directories below the definition root
    Object,       \* contents that artifacts declare, by digest
    Document,     \* source documents
    Malformed,    \* a document refused for one of its values alone
    Text,         \* what every other one says, as AdmissionPolicy reads it
    NoDocument,   \* a directory without source.yaml
    Definitions,  \* definition trees that work may begin with
    Contents,     \* what a directory of the tree may be changed to
    Builder,      \* runs of the program
    Epoch,        \* per run its SOURCE_DATE_EPOCH
    NoCandidate,  \* a set has no candidate of a source
    NoOutput,     \* the output directory does not exist
    MaxChanges,   \* bound: changes of the definition tree
    MaxFaults     \* bound: calls that fail and runs that die

ObjectState == {"absent", "intact", "damaged"}
Root == [document : Document \cup {NoDocument}, objects : [Object -> ObjectState]]
Tree == [Directory -> Root]

\* The candidate of a source: its manifest, the objects that the request
\* lists, and the object files.  Everything else in them is from the document.
Candidate == [document : Document, publishedAt : Values(Epoch), listed : SUBSET Object,
              objects : [Object -> ObjectState]]
CandidateSet == [Wanted -> Candidate \cup {NoCandidate}]
Nothing == [id \in Wanted |-> NoCandidate]
Names(set) == {id \in Wanted : set[id] # NoCandidate}

\* The objects a document declares.
Declared(doc) ==
    {Text[doc].artifacts[i].object : i \in DOMAIN Text[doc].artifacts}

Admitted(doc, directory) ==
    doc \in DOMAIN Text /\ Validate(Text[doc], directory)

ASSUME WantedAssumption ==
    Wanted \subseteq Directory /\ DataSourceID # ExecSourceID
ASSUME DocumentAssumption ==
    /\ Malformed \in Document /\ NoDocument \notin Document
    /\ DOMAIN Text = Document \ {Malformed}
    /\ \A doc \in DOMAIN Text :
          /\ Declared(doc) \subseteq Object
          /\ Text[doc].artifacts \in Seq(Values(Text[doc].artifacts))
ASSUME TreeAssumption == Definitions \subseteq Tree /\ Contents \subseteq Root
ASSUME BuilderAssumption ==
    /\ Builder # {}
    /\ Epoch \in [Builder -> Nat]
    /\ NoCandidate \notin Candidate
    /\ NoOutput \notin CandidateSet
    /\ {MaxChanges, MaxFaults} \subseteq Nat

VARIABLES
    definitions,  \* the definition tree
    first,        \* history: the tree that work began with
    output,       \* the output directory: a set of candidates, by name
    run,          \* per builder: step, source, what it has read and staged
    counts        \* changes, and failed calls and deaths

vars == <<definitions, first, output, run, counts>>

AtRest   == {"idle", "done", "failed", "dead"}
Steps    == AtRest \cup {"document", "walk", "objects", "write", "publish", "exit"}
NoObjects == [o \in Object |-> "absent"]
RunState == [step : Steps, source : Wanted, document : Document \cup {NoDocument},
             next : Nat, objects : [Object -> ObjectState], staged : CandidateSet]
\* The executable source is built first: buildAll sorts the paths, and its ID is
\* the other one with a suffix that begins with "-", which sorts before "/".
Idle == [step |-> "idle", source |-> ExecSourceID, document |-> NoDocument,
         next |-> 1, objects |-> NoObjects, staged |-> Nothing]

Init ==
    /\ definitions \in Definitions
    /\ first = definitions
    /\ output = NoOutput
    /\ run = [b \in Builder |-> Idle]
    /\ counts = [changes |-> 0, faults |-> 0]

Goto(b, step) == run' = [run EXCEPT ![b].step = step]

\* The end of a run with an error: the deferred calls remove its staging.
Stop(b) == run' = [run EXCEPT ![b].step = "failed", ![b].staged = Nothing]

Fault == /\ counts.faults < MaxFaults
         /\ counts' = [counts EXCEPT !.faults = @ + 1]

(***************************************************************************)
(* The steps.                                                              *)
(***************************************************************************)

\* An editor or a checkout changes a directory of the definition tree.
Change ==
    /\ counts.changes < MaxChanges
    /\ counts' = [counts EXCEPT !.changes = @ + 1]
    /\ \E d \in Directory, root \in Contents :
          definitions' = [definitions EXCEPT ![d] = root]
    /\ UNCHANGED <<first, output, run>>

\* buildAll begins: no output yet, and source.yaml in the directories of the
\* wanted sources and no other.
Discovered == {d \in Directory : definitions[d].document # NoDocument}

Start(b) ==
    /\ run[b].step = "idle"
    /\ output = NoOutput
    /\ Discovered = Wanted
    /\ Goto(b, "document")
    /\ UNCHANGED <<definitions, first, output, counts>>

\* BuildCandidate reads the document, once, and judges it.
ReadDocument(b) ==
    LET doc == definitions[run[b].source].document
    IN  /\ run[b].step = "document"
        /\ Admitted(doc, run[b].source)
        /\ run' = [run EXCEPT ![b].step = "walk", ![b].document = doc]
        /\ UNCHANGED <<definitions, first, output, counts>>

\* validateSourceTree: no file but the declared ones.
OnlyDeclared(b) ==
    {o \in Object : definitions[run[b].source].objects[o] # "absent"}
        \subseteq Declared(run[b].document)

WalkTree(b) ==
    /\ run[b].step = "walk"
    /\ OnlyDeclared(b)
    /\ run' = [run EXCEPT ![b].step = "objects", ![b].next = 1,
                          ![b].objects = NoObjects]
    /\ UNCHANGED <<definitions, first, output, counts>>

\* Each object is read once, judged by its length and digest, and kept.
NextObject(b) == Text[run[b].document].artifacts[run[b].next].object
OnDisk(b) == definitions[run[b].source].objects[NextObject(b)]
MoreObjects(b) == run[b].next <= Len(Text[run[b].document].artifacts)

\* Mutant: the digest of an object is not compared.
MutReadObject(b) ==
    /\ run[b].step = "objects" /\ MoreObjects(b)
    /\ OnDisk(b) # "absent"
    /\ run' = [run EXCEPT ![b].objects[NextObject(b)] = OnDisk(b),
                          ![b].next = @ + 1]
    /\ UNCHANGED <<definitions, first, output, counts>>

ReadObject(b) ==
    /\ run[b].step = "objects" /\ MoreObjects(b)
    /\ OnDisk(b) = "intact"
    /\ run' = [run EXCEPT ![b].objects[NextObject(b)] = OnDisk(b),
                          ![b].next = @ + 1]
    /\ UNCHANGED <<definitions, first, output, counts>>

ObjectsRead(b) ==
    /\ run[b].step = "objects" /\ ~MoreObjects(b)
    /\ Goto(b, "write")
    /\ UNCHANGED <<definitions, first, output, counts>>

\* The candidate, from what is in memory, renamed into the staging directory
\* under the name that the document gives.
Built(b) ==
    [document |-> run[b].document, publishedAt |-> Epoch[b],
     listed |-> Declared(run[b].document), objects |-> run[b].objects]

\* Mutant: the loop over the sources ends after the first.
MutWriteCandidate(b) ==
    /\ run[b].step = "write"
    /\ Text[run[b].document].id \notin Names(run[b].staged)
    /\ run' = [run EXCEPT
                  ![b].staged[Text[run[b].document].id] = Built(b),
                  ![b].step = "publish"]
    /\ UNCHANGED <<definitions, first, output, counts>>

WriteCandidate(b) ==
    /\ run[b].step = "write"
    /\ Text[run[b].document].id \notin Names(run[b].staged)
    /\ run' = [run EXCEPT
                  ![b].staged[Text[run[b].document].id] = Built(b),
                  ![b].source = DataSourceID,
                  ![b].step = IF run[b].source = DataSourceID THEN "publish"
                              ELSE "document"]
    /\ UNCHANGED <<definitions, first, output, counts>>

\* Mutant: what is in the way is removed first.
MutPublishSet(b) ==
    /\ run[b].step = "publish"
    /\ output' = run[b].staged
    /\ Goto(b, "exit")
    /\ UNCHANGED <<definitions, first, counts>>

\* The rename of the staging directory, over nothing.
PublishSet(b) ==
    /\ run[b].step = "publish"
    /\ output = NoOutput
    /\ output' = run[b].staged
    /\ Goto(b, "exit")
    /\ UNCHANGED <<definitions, first, counts>>

Finish(b) ==
    /\ run[b].step = "exit"
    /\ Goto(b, "done")
    /\ UNCHANGED <<definitions, first, output, counts>>

\* A check that does not hold.
Refused(b) ==
    \/ run[b].step = "idle" /\ (output # NoOutput \/ Discovered # Wanted)
    \/ /\ run[b].step = "document"
       /\ LET doc == definitions[run[b].source].document
          IN  ~Admitted(doc, run[b].source)
    \/ run[b].step = "walk" /\ ~OnlyDeclared(b)
    \/ run[b].step = "objects" /\ MoreObjects(b) /\ OnDisk(b) # "intact"
    \/ run[b].step = "write" /\ Text[run[b].document].id \in Names(run[b].staged)
    \/ run[b].step = "publish" /\ output # NoOutput

\* Mutant: a run that fails removes the output as well.
MutRefuse(b) ==
    /\ Refused(b)
    /\ Stop(b)
    /\ output' = NoOutput
    /\ UNCHANGED <<definitions, first, counts>>

Refuse(b) ==
    /\ Refused(b)
    /\ Stop(b)
    /\ UNCHANGED <<definitions, first, output, counts>>

\* A call fails, at any step before the rename has happened.
Fail(b) ==
    /\ run[b].step \notin {"done", "failed", "dead", "exit"}
    /\ Fault
    /\ Stop(b)
    /\ UNCHANGED <<definitions, first, output>>

Die(b) ==
    /\ run[b].step \notin AtRest
    /\ Fault
    /\ Goto(b, "dead")
    /\ UNCHANGED <<definitions, first, output>>

Next ==
    \/ Change
    \/ \E b \in Builder :
          \/ Start(b)
          \/ ReadDocument(b)
          \/ WalkTree(b)
          \/ ReadObject(b)
          \/ ObjectsRead(b)
          \/ WriteCandidate(b)
          \/ PublishSet(b)
          \/ Finish(b)
          \/ Refuse(b)
          \/ Fail(b)
          \/ Die(b)

Spec == Init /\ [][Next]_vars

-----------------------------------------------------------------------------
(***************************************************************************)
(* Properties.                                                             *)
(***************************************************************************)

\* Every variable has its type, and a run has staged nothing, the first
\* source or both, as its step says.
TypeOK ==
    /\ {definitions, first} \subseteq Tree
    /\ output \in CandidateSet \cup {NoOutput}
    /\ run \in [Builder -> RunState]
    /\ counts \in [changes : 0..MaxChanges, faults : 0..MaxFaults]
    /\ \A b \in Builder :
          /\ run[b].step \in {"publish", "exit", "done"} =>
                Names(run[b].staged) = Wanted
          /\ run[b].step \in {"document", "walk", "objects", "write"} =>
                Names(run[b].staged) = Wanted \ {run[b].source, DataSourceID}
          /\ run[b].step \in {"walk", "objects", "write"} =>
                run[b].document \in DOMAIN Text

\* buildAll publishes both sources or none, and each candidate is of one
\* document of its source, with the objects it declares, each of the right
\* bytes, and no others, however the definitions changed between the reads.
OutputWhole ==
    output # NoOutput =>
        /\ Names(output) = Wanted
        /\ \A id \in Wanted :
              /\ output[id].document \in DOMAIN Text
              /\ Text[output[id].document].id = id
              /\ output[id].listed = Declared(output[id].document)
              /\ \A o \in Object :
                    output[id].objects[o] =
                        IF o \in output[id].listed THEN "intact" ELSE "absent"

\* The rules of policy.Validate together mean what they are for: in every
\* candidate that is published each slot of each variant has one probe, that
\* finds what it needs in its own entry, and executable content is reached
\* through bound detections of the executable source only.
OutputResolves ==
    output # NoOutput =>
        \A id \in Names(output) :
            /\ ProbesResolve(Text[output[id].document])
            /\ ExecutablesBound(Text[output[id].document])

\* The exit status of a run is true, with several of them for one output: a
\* run that succeeds has its own candidates there, and what is there is of a
\* run that succeeded, or was killed before it could say so.
OutcomeIsTrue ==
    /\ \A b \in Builder : run[b].step = "done" => output = run[b].staged
    /\ output # NoOutput =>
          \E b \in Builder :
              /\ run[b].step \in {"exit", "done", "dead"}
              /\ output = run[b].staged

\* A tree that can be built: both documents are admitted, and beside each
\* there are the objects it declares and nothing else.
Buildable(tree) ==
    /\ {d \in Directory : tree[d].document # NoDocument} = Wanted
    /\ \A id \in Wanted :
          /\ Admitted(tree[id].document, id)
          /\ \A o \in Object :
                tree[id].objects[o] =
                    IF o \in Declared(tree[id].document) THEN "intact" ELSE "absent"

\* Runs that race for one output do not stop each other: when the definitions
\* can be built and did not change, no call failed and no run died, then one
\* of them has published when all have ended.
RaceHasWinner ==
    /\ \A b \in Builder : run[b].step \in {"done", "failed"}
    /\ counts = [changes |-> 0, faults |-> 0]
    /\ Buildable(first)
    => output # NoOutput

(***************************************************************************)
(* The inductive invariant: what a run has staged is whole, what it has    *)
(* read so far is intact, and the output is what one run has staged.       *)
(***************************************************************************)
WholeCandidate(candidate, id) ==
    /\ Admitted(candidate.document, id)
    /\ candidate.listed = Declared(candidate.document)
    /\ \A o \in Object :
          candidate.objects[o] =
              IF o \in candidate.listed THEN "intact" ELSE "absent"

ReadBefore(doc, n) == {Text[doc].artifacts[i].object : i \in 1..(n - 1)}

RunInv(r) ==
    /\ r.step = "idle" => r = Idle
    /\ r.step \in {"publish", "exit", "done"} => Names(r.staged) = Wanted
    /\ r.step \in {"document", "walk", "objects", "write"} =>
          Names(r.staged) = Wanted \ {r.source, DataSourceID}
    /\ \A id \in Names(r.staged) : WholeCandidate(r.staged[id], id)
    /\ r.step \in {"walk", "objects", "write"} => Admitted(r.document, r.source)
    /\ r.step \in {"objects", "write"} =>
          /\ r.next \in 1..(Len(Text[r.document].artifacts) + 1)
          /\ \A o \in Object :
                r.objects[o] = IF o \in ReadBefore(r.document, r.next)
                               THEN "intact" ELSE "absent"
    /\ r.step = "write" => r.next = Len(Text[r.document].artifacts) + 1

OutputInv ==
    /\ output \in CandidateSet \cup {NoOutput}
    /\ output # NoOutput =>
          /\ Names(output) = Wanted
          /\ \E b \in Builder :
                /\ run[b].step \in {"exit", "done", "dead"}
                /\ output = run[b].staged
    /\ \A b \in Builder :
          run[b].step \in {"exit", "done"} =>
              output = run[b].staged

BuildersInv ==
    /\ {definitions, first} \subseteq Tree
    /\ counts \in [changes : 0..MaxChanges, faults : 0..MaxFaults]
    /\ run \in [Builder -> RunState]
    /\ \A b \in Builder : RunInv(run[b])
    /\ OutputInv

\* For RaceHasWinner: without a change a run holds the document that is there,
\* and nothing is refused as long as nobody has published.
RaceInv ==
    counts.changes = 0 =>
        /\ definitions = first
        /\ \A b \in Builder : run[b].step \in {"walk", "objects"} =>
               run[b].document = first[run[b].source].document
        /\ counts.faults = 0 /\ Buildable(first) /\ output = NoOutput =>
               \A b \in Builder : run[b].step # "failed"
=============================================================================
