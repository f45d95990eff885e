--------------------------------- MODULE Origin ---------------------------------
(***************************************************************************)
(* The workflow raw-origin compares the public origin of the catalog with  *)
(* the tree of the commit it was started for.  The origin is a cache: each *)
(* file is served on its own, as it is or as it was up to CacheAge before, *)
(* so one comparison may see files of several commits.  It is repeated as  *)
(* a whole, with a pause, until it succeeds or its time is over.  The next *)
(* push to main cancels the run.                                           *)
(*                                                                         *)
(* Time is counted in ticks of one pause (15 seconds).                     *)
(***************************************************************************)
EXTENDS Integers, Sequences, FiniteSets

CONSTANTS
    File, Readme,   \* files below catalog/sources, and the README among them
    Bytes, NoFile,  \* contents of a file, and its absence
    Published,      \* the trees of main, commit by commit
    SourceFiles,    \* the files of the sources of each, in path order
    CacheAge,       \* how long a cache may serve what main no longer holds
    RetryLimit,     \* "deadline": 6 minutes
    Pause,          \* "sleep 15"
    RequestTimeout, \* originRequestTimeout: 15 seconds
    JobTimeout,     \* "timeout-minutes: 8"
    MaxDispatches   \* bound: runs started by hand

Commit == DOMAIN Published

ASSUME TreeAssumption ==
    /\ NoFile \notin Bytes
    /\ Published \in Seq([File -> Bytes \cup {NoFile}]) \ {<<>>}
    /\ SourceFiles \in [Commit -> Seq(File)]
    /\ Readme \in File
    /\ \A c \in Commit :
          /\ Published[c][Readme] # NoFile
          /\ {SourceFiles[c][i] : i \in DOMAIN SourceFiles[c]}
                = {p \in File \ {Readme} : Published[c][p] # NoFile}
ASSUME TimeAssumption ==
    /\ {CacheAge, RetryLimit, JobTimeout, MaxDispatches} \subseteq Nat
    /\ {Pause, RequestTimeout} \subseteq Nat \ {0}
    /\ RetryLimit + Pause <= JobTimeout

VARIABLES
    main,        \* the commit main is at
    left,        \* per commit: for how long caches may still serve its files
    job,         \* the latest run of the workflow
    outcome,     \* per commit: how the latest run for it ended
    matched,     \* history: the files seen as expected in this comparison
    dispatches   \* number of runs started by hand

vars == <<main, left, job, outcome, matched, dispatches>>

Outcome == {"none", "success", "failure", "timeout", "cancelled"}
Job == [commit : Commit,
        pc : {"idle", "queued", "setup", "asking", "sleeping"},
        next : Nat,     \* number of the request that is under way
        waited : Nat,   \* ticks spent on it, or asleep
        seconds : Nat,  \* ticks since the step began
        elapsed : Nat,  \* ticks since the job began
        faults : Nat]   \* history: failed requests and ticks of waiting

(***************************************************************************)
(* One comparison: verify-origin asks for every file of the sources, or    *)
(* for the README when there are none; the workflow then asks for the      *)
(* README of main and of the commit, each in full and by its first byte.   *)
(***************************************************************************)
Request == [ref : {"main", "commit"}, file : File, range : BOOLEAN,
            limit : BOOLEAN]  \* whether the client limits its time

Targets(c) == IF SourceFiles[c] = <<>> THEN <<Readme>> ELSE SourceFiles[c]

Ask(ref, file, range, limit) ==
    [ref |-> ref, file |-> file, range |-> range, limit |-> limit]

Requests(c) ==
    [i \in DOMAIN Targets(c) |-> Ask("main", Targets(c)[i], FALSE, TRUE)]
    \o <<Ask("main", Readme, FALSE, FALSE), Ask("main", Readme, TRUE, FALSE),
         Ask("commit", Readme, FALSE, FALSE), Ask("commit", Readme, TRUE, FALSE)>>

\* What the origin may answer: below a commit its own file; below main the
\* file of main or of a commit that caches still know.
Shown == {main} \cup {c \in Commit : left[c] > 0}
Answers(request) ==
    IF request.ref = "commit" THEN {Published[job.commit][request.file]}
    ELSE {Published[c][request.file] : c \in Shown}

\* compareOriginFile, and curl with cmp.  The README always begins with the
\* same byte, so that its range is right whatever version is served.
AsExpected(request, bytes) ==
    IF request.range THEN bytes # NoFile
    ELSE bytes = Published[job.commit][request.file]

(***************************************************************************)
(* The steps.                                                              *)
(***************************************************************************)
NewJob(c, pc) ==
    [commit |-> c, pc |-> pc, next |-> 1, waited |-> 0, seconds |-> 0,
     elapsed |-> 0, faults |-> 0]

Init ==
    /\ main = 1
    /\ left = [c \in Commit |-> 0]
    /\ job = NewJob(1, "queued")
    /\ outcome = [c \in Commit |-> "none"]
    /\ matched = {}
    /\ dispatches = 0

Running == job.pc \in {"setup", "asking", "sleeping"}

\* A new run of the group cancels the one that is waiting or running.
\* Mutant: the new run is dropped when another one is in progress.
MutTrigger(c) ==
    IF Running
    THEN /\ outcome' = [outcome EXCEPT ![job.commit] = "cancelled"]
         /\ job' = [job EXCEPT !.pc = "idle"]
         /\ matched' = {}
    ELSE /\ outcome' = [outcome EXCEPT ![c] = "none"]
         /\ job' = NewJob(c, "queued")
         /\ matched' = {}

Trigger(c) ==
    /\ outcome' = [d \in Commit |->
                      IF d = c THEN "none"
                      ELSE IF d = job.commit /\ job.pc # "idle" THEN "cancelled"
                      ELSE outcome[d]]
    /\ job' = NewJob(c, "queued")
    /\ matched' = {}

\* The push, its event and the cancellation of an older run are one step.
Push ==
    /\ main < Len(Published)
    /\ main' = main + 1
    /\ left' = [left EXCEPT ![main] = CacheAge]
    /\ Trigger(main + 1)
    /\ UNCHANGED dispatches

Dispatch ==
    /\ dispatches < MaxDispatches
    /\ dispatches' = dispatches + 1
    /\ Trigger(main)
    /\ UNCHANGED <<main, left>>

StartJob ==
    /\ job.pc = "queued"
    /\ job' = [job EXCEPT !.pc = "setup"]
    /\ UNCHANGED <<main, left, outcome, matched, dispatches>>

\* verify_raw begins, for the first time or again, with its first request.
\* Mutant: a repeated comparison goes on where the last one failed.
MutBeginComparison ==
    /\ job' = [job EXCEPT !.pc = "asking", !.waited = 0]
    /\ matched' = {}

BeginComparison ==
    /\ job' = [job EXCEPT !.pc = "asking", !.next = 1, !.waited = 0]
    /\ matched' = {}

\* Checkout and toolchain are ready; the step starts.
SetUp ==
    /\ job.pc = "setup"
    /\ BeginComparison
    /\ UNCHANGED <<main, left, outcome, dispatches>>

EndJob(result, faults) ==
    /\ job' = [job EXCEPT !.pc = "idle", !.faults = faults]
    /\ outcome' = [outcome EXCEPT ![job.commit] = result]

\* "until verify_raw": the deadline is looked at after a failure only.
\* Mutant: the first failed comparison ends the step.
MutComparisonFails(faults) ==
    /\ EndJob("failure", faults)
    /\ UNCHANGED <<main, left, matched, dispatches>>

ComparisonFails(faults) ==
    /\ \/ /\ job.seconds >= RetryLimit
          /\ EndJob("failure", faults)
       \/ /\ job.seconds < RetryLimit
          /\ job' = [job EXCEPT !.pc = "sleeping", !.waited = 0,
                                !.faults = faults]
          /\ UNCHANGED outcome
    /\ UNCHANGED <<main, left, matched, dispatches>>

Current == Requests(job.commit)[job.next]

\* Mutant: the test for the last request is off by one.
MutAgree ==
    /\ job.pc = "asking"
    /\ \E bytes \in Answers(Current) : AsExpected(Current, bytes)
    /\ matched' = IF Current.range THEN matched ELSE matched \cup {Current.file}
    /\ \/ /\ job.next <= Len(Requests(job.commit))
          /\ job' = [job EXCEPT !.next = @ + 1, !.waited = 0]
          /\ UNCHANGED outcome
       \/ /\ job.next > Len(Requests(job.commit))
          /\ EndJob("success", job.faults)
    /\ UNCHANGED <<main, left, dispatches>>

\* An answer as expected: the next request, or the end of the comparison.
Agree ==
    /\ job.pc = "asking"
    /\ \E bytes \in Answers(Current) : AsExpected(Current, bytes)
    /\ matched' = IF Current.range THEN matched ELSE matched \cup {Current.file}
    /\ \/ /\ job.next < Len(Requests(job.commit))
          /\ job' = [job EXCEPT !.next = @ + 1, !.waited = 0]
          /\ UNCHANGED outcome
       \/ /\ job.next = Len(Requests(job.commit))
          /\ EndJob("success", job.faults)
    /\ UNCHANGED <<main, left, dispatches>>

\* The file of another commit, or none: the comparison fails at once.
Differ ==
    /\ job.pc = "asking"
    /\ \E bytes \in Answers(Current) : ~AsExpected(Current, bytes)
    /\ ComparisonFails(job.faults)

\* The connection breaks, the status is another one, or the like.
RequestFails ==
    /\ job.pc = "asking"
    /\ ComparisonFails(job.faults + 1)

\* The HTTP client of verify-origin gives up; curl has no such limit.
OutOfTime == job.pc = "asking" /\ Current.limit /\ job.waited >= RequestTimeout
RequestExpires == OutOfTime /\ ComparisonFails(job.faults + 1)

Awake == job.pc = "sleeping" /\ job.waited >= Pause
WakeUp ==
    /\ Awake
    /\ BeginComparison
    /\ UNCHANGED <<main, left, outcome, dispatches>>

JobExpires ==
    /\ Running
    /\ job.elapsed >= JobTimeout
    /\ EndJob("timeout", job.faults)
    /\ UNCHANGED <<main, left, matched, dispatches>>

\* A tick, unless something is due before it.  Time that passes in a pause is
\* meant to; a tick during the setup or a request is a fault.
Tick ==
    /\ Running \/ \E c \in Commit : left[c] > 0
    /\ ~OutOfTime /\ ~Awake
    /\ Running => job.elapsed < JobTimeout
    /\ left' = [c \in Commit |-> IF left[c] > 0 THEN left[c] - 1 ELSE 0]
    /\ job' = IF Running
              THEN [job EXCEPT
                       !.elapsed = @ + 1,
                       !.waited  = @ + 1,
                       !.seconds = IF job.pc = "setup" THEN 0 ELSE @ + 1,
                       !.faults  = IF job.pc = "sleeping" THEN @ ELSE @ + 1]
              ELSE job
    /\ UNCHANGED <<main, outcome, matched, dispatches>>

Due == StartJob \/ RequestExpires \/ WakeUp \/ JobExpires

Next ==
    \/ Push \/ Dispatch
    \/ SetUp \/ Agree \/ Differ \/ RequestFails
    \/ Due
    \/ Tick

\* Time passes, and what is due at a time happens.  No answer of the origin
\* is promised: a request may be pending until the client or the job gives up.
Spec == Init /\ [][Next]_vars /\ WF_vars(Due) /\ WF_vars(Tick)

-----------------------------------------------------------------------------
(***************************************************************************)
(* Properties.                                                             *)
(***************************************************************************)

\* Every variable has its type, a request is always one of the comparison,
\* and no job is older than its limit.
TypeOK ==
    /\ main \in Commit
    /\ left \in [Commit -> 0..CacheAge]
    /\ job \in Job
    /\ job.next \in 1..Len(Requests(job.commit))
    /\ job.seconds <= job.elapsed /\ job.elapsed <= JobTimeout
    /\ outcome \in [Commit -> Outcome]
    /\ matched \subseteq File
    /\ dispatches \in 0..MaxDispatches

\* docs/ORIGINS.md, "retries the complete comparison": a run is green only if
\* within one comparison it saw every file of its commit, although caches serve
\* the files one by one and from different commits.
GreenIsComplete ==
    /\ job.pc = "idle" /\ outcome[job.commit] = "success"
    => {p \in File : Published[job.commit][p] # NoFile} \subseteq matched

\* The time that faults account for: one pause each.
Excused(faults) == faults * Pause

\* ORIGINS.md, "to allow bounded CDN convergence": when caches forget within
\* CacheAge, a run that is red met faults of its own, failed requests or lost
\* ticks, for all the time between then and the deadline; stale files alone
\* never make one red.
RedNeedsFaults ==
    /\ job.pc = "idle" /\ outcome[job.commit] \in {"failure", "timeout"}
    => Excused(job.faults) > RetryLimit - CacheAge

(***************************************************************************)
(* The inductive invariant of the two.  What a comparison has seen follows *)
(* from the number of its next request; its time, from the pauses that     *)
(* stale files caused, which end with CacheAge, and from the faults.       *)
(***************************************************************************)
SeenUpTo(n) ==
    \A i \in 1..n : ~Requests(main)[i].range => Requests(main)[i].file \in matched

SeenSoFar ==
    /\ job.pc = "asking" => SeenUpTo(job.next - 1)
    /\ job.pc = "idle" /\ outcome[main] = "success" =>
          SeenUpTo(Len(Requests(main)))

StaleSinceStart ==
    job.pc # "idle" =>
        \A c \in Commit : left[c] > 0 => left[c] + job.elapsed <= CacheAge

TimeAccounted ==
    /\ job.pc = "queued" => job.elapsed = 0
    /\ job.pc = "setup" => job.elapsed <= Excused(job.faults)
    /\ job.pc = "asking" =>
          job.elapsed < CacheAge + Pause + Excused(job.faults)
    /\ job.pc = "sleeping" =>
          /\ job.waited <= Pause
          /\ job.elapsed - job.waited < CacheAge + Excused(job.faults)

OriginInv ==
    /\ TypeOK
    /\ job.commit = main
    /\ SeenSoFar
    /\ StaleSinceStart
    /\ TimeAccounted
    /\ RedNeedsFaults

\* Whatever is pushed, and whatever the origin answers or leaves unanswered,
\* the last push is judged in the end, and its judgement stays.
LastPushJudged == <>[](outcome[main] \in {"success", "failure", "timeout"})

=============================================================================
