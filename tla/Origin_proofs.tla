------------------------------ MODULE Origin_proofs ------------------------------
(***************************************************************************)
(* Proofs about Origin, for every sequence of commits and every setting of *)
(* its times: a green run saw the whole tree of main, and a red one had    *)
(* faults enough to account for its time.                                  *)
(***************************************************************************)
EXTENDS Origin, SequenceTheorems, TLAPS

-----------------------------------------------------------------------------
(***************************************************************************)
(* The requests of a comparison.                                           *)
(***************************************************************************)

LEMMA TreeFacts ==
    /\ Commit = 1..Len(Published)
    /\ Len(Published) \in Nat /\ 1 \in Commit
    /\ \A c \in Commit : /\ SourceFiles[c] \in Seq(File)
                         /\ Published[c] \in [File -> Bytes \cup {NoFile}]
<1>1. Published \in Seq([File -> Bytes \cup {NoFile}]) /\ Published # <<>>
      BY TreeAssumption
<1>2. Len(Published) \in Nat /\ DOMAIN Published = 1..Len(Published)
      BY <1>1
<1>3. Len(Published) # 0
      BY <1>1
<1> QED BY <1>1, <1>2, <1>3, TreeAssumption DEF Commit

LEMMA RequestFacts ==
    ASSUME NEW c \in Commit
    PROVE  /\ Targets(c) \in Seq(File)
           /\ Requests(c) \in Seq(Request)
           /\ Len(Requests(c)) = Len(Targets(c)) + 4
           /\ Len(Targets(c)) \in Nat
           /\ \A i \in 1..Len(Targets(c)) :
                 Requests(c)[i] = Ask("main", Targets(c)[i], FALSE, TRUE)
           /\ Requests(c)[Len(Targets(c)) + 1]
                 = Ask("main", Readme, FALSE, FALSE)
           /\ \A i \in 1..Len(Requests(c)) :
                 Requests(c)[i].range => Requests(c)[i].file = Readme
<1>1. Targets(c) \in Seq(File)
      BY TreeFacts, TreeAssumption DEF Targets
<1> DEFINE First == [i \in DOMAIN Targets(c) |->
                        Ask("main", Targets(c)[i], FALSE, TRUE)]
           Rest == <<Ask("main", Readme, FALSE, FALSE),
                     Ask("main", Readme, TRUE, FALSE),
                     Ask("commit", Readme, FALSE, FALSE),
                     Ask("commit", Readme, TRUE, FALSE)>>
<1>2. /\ Len(Targets(c)) \in Nat
      /\ DOMAIN Targets(c) = 1..Len(Targets(c))
      BY <1>1
<1>3. First \in Seq(Request) /\ Len(First) = Len(Targets(c))
      BY <1>1, <1>2 DEF Ask, Request
<1>4. Rest \in Seq(Request) /\ Len(Rest) = 4
      /\ Rest[1] = Ask("main", Readme, FALSE, FALSE)
      BY TreeAssumption DEF Ask, Request
<1>5. Requests(c) = First \o Rest
      BY DEF Requests
<1> HIDE DEF First, Rest
<1>6. /\ First \o Rest \in Seq(Request)
      /\ Len(First \o Rest) = Len(First) + Len(Rest)
      /\ \A i \in 1..Len(First) + Len(Rest) :
            (First \o Rest)[i] = IF i <= Len(First) THEN First[i]
                                 ELSE Rest[i - Len(First)]
      BY <1>3, <1>4, ConcatProperties, Zenon
<1>7. \A i \in 1..Len(Targets(c)) : Requests(c)[i] = First[i]
      BY <1>2, <1>3, <1>4, <1>5, <1>6
<1>8. Requests(c)[Len(Targets(c)) + 1] = Rest[1]
  <2> DEFINE n == Len(Targets(c))
  <2>1. /\ n + 1 \in 1..n + 4 /\ ~(n + 1 <= n) /\ (n + 1) - n = 1
        BY <1>2
  <2>2. (First \o Rest)[n + 1] = Rest[(n + 1) - n]
        BY <2>1, <1>3, <1>4, <1>6
  <2> QED BY <2>1, <2>2, <1>5
<1>9. \A i \in 1..Len(Targets(c)) :
         First[i] = Ask("main", Targets(c)[i], FALSE, TRUE)
      BY <1>2 DEF First
<1>10. \A i \in 1..4 : Rest[i].range => Rest[i].file = Readme
      BY DEF Rest, Ask
<1>11. ASSUME NEW i \in 1..Len(Requests(c)), Requests(c)[i].range
       PROVE  Requests(c)[i].file = Readme
  <2>1. CASE i \in 1..Len(Targets(c))
    <3>1. Requests(c)[i] = Ask("main", Targets(c)[i], FALSE, TRUE)
          BY <1>7, <1>9, <2>1
    <3> QED BY <3>1, <1>11 DEF Ask
  <2>2. CASE i \notin 1..Len(Targets(c))
    <3>1. i \in 1..Len(First) + Len(Rest) /\ ~(i <= Len(First))
          /\ i - Len(First) \in 1..4
          BY <1>2, <1>3, <1>4, <1>5, <1>6, <2>2
    <3>2. Requests(c)[i] = Rest[i - Len(First)]
          BY <3>1, <1>5, <1>6
    <3> QED BY <3>1, <3>2, <1>10, <1>11
  <2> QED BY <2>1, <2>2
<1> QED BY <1>1, <1>2, <1>3, <1>4, <1>5, <1>6, <1>7, <1>8, <1>9, <1>11

LEMMA RequestCount ==
    \A c \in Commit : Len(Requests(c)) \in Nat /\ 1 \in 1..Len(Requests(c))
<1>1. ASSUME NEW c \in Commit
      PROVE  Len(Requests(c)) \in Nat /\ 1 \in 1..Len(Requests(c))
  <2>1. Len(Requests(c)) = Len(Targets(c)) + 4 /\ Len(Targets(c)) \in Nat
        BY RequestFacts
  <2> QED BY <2>1
<1> QED BY <1>1

LEMMA TimeFacts ==
    /\ CacheAge \in Nat /\ RetryLimit \in Nat /\ JobTimeout \in Nat
    /\ MaxDispatches \in Nat /\ Pause \in Nat /\ Pause > 0
    /\ RequestTimeout \in Nat /\ RetryLimit + Pause <= JobTimeout
BY TimeAssumption

\* A fault accounts for one pause.
LEMMA OneFault ==
    ASSUME NEW f \in Nat
    PROVE  /\ Excused(f) \in Nat
           /\ Excused(f + 1) = Excused(f) + Pause
BY TimeFacts DEF Excused

\* A current request is one of the comparison.
LEMMA CurrentFacts ==
    ASSUME TypeOK
    PROVE  /\ Current \in Request /\ Current.file \in File
           /\ Current.range => Current.file = Readme
<1>1. job.commit \in Commit /\ job.next \in 1..Len(Requests(job.commit))
      BY DEF TypeOK, Job
<1>2. Requests(job.commit) \in Seq(Request)
      BY <1>1, RequestFacts
<1>3. Current \in Request
      BY <1>1, <1>2 DEF Current
<1>4. Current.range => Current.file = Readme
      BY <1>1, RequestFacts DEF Current
<1> QED BY <1>3, <1>4 DEF Request

\* Stale files are served only while caches know another commit.
LEMMA DifferFacts ==
    ASSUME OriginInv, job.pc = "asking",
           NEW bytes \in Answers(Current), ~AsExpected(Current, bytes)
    PROVE  job.elapsed < CacheAge
<1>1. /\ Current \in Request /\ Current.file \in File
      /\ Current.range => Current.file = Readme
      BY CurrentFacts DEF OriginInv
<1>2. PICK c \in Commit : bytes = Published[c][Current.file] /\
                          (c = main \/ left[c] > 0)
      BY TreeFacts DEF Answers, Shown, OriginInv, TypeOK
<1>3. CASE left[c] > 0
      <2>1. left[c] + job.elapsed <= CacheAge
            BY <1>3, <1>2 DEF OriginInv, StaleSinceStart
      <2> QED BY <2>1, <1>3, <1>2, TimeFacts DEF OriginInv, TypeOK, Job
<1>4. CASE c = main
  <2>1. bytes = Published[job.commit][Current.file] /\ job.commit \in Commit
        BY <1>2, <1>4 DEF OriginInv, TypeOK
  <2>2. Current.range => bytes # NoFile
        BY <1>1, <2>1, TreeAssumption
  <2> QED BY <2>1, <2>2 DEF AsExpected
<1> QED BY <1>2, <1>3, <1>4

-----------------------------------------------------------------------------
(***************************************************************************)
(* The invariant holds at first and is kept by every step.                 *)
(***************************************************************************)

LEMMA OriginInit == Init => OriginInv
<1> SUFFICES ASSUME Init PROVE OriginInv
    OBVIOUS
<1>1. /\ 1 \in Commit /\ 1 \in 1..Len(Requests(1))
      BY TreeFacts, RequestCount
<1>2. job \in Job /\ job.next = 1 /\ job.seconds = 0 /\ job.elapsed = 0
      /\ job.commit = 1
      BY <1>1 DEF Init, NewJob, Job
<1>3. TypeOK
      BY <1>1, <1>2, TimeFacts DEF Init, TypeOK, Outcome
<1> QED BY <1>3, TimeFacts
        DEF Init, OriginInv, NewJob, SeenSoFar, StaleSinceStart, TimeAccounted,
            RedNeedsFaults

LEMMA TriggerStep ==
    ASSUME OriginInv, Push \/ Dispatch
    PROVE  OriginInv'
<1>1. /\ main' \in Commit /\ job' = NewJob(main', "queued") /\ matched' = {}
      /\ outcome' \in [Commit -> Outcome]
      /\ dispatches' \in 0..MaxDispatches
  <2>1. CASE Push
        BY <2>1, TreeFacts DEF Push, Trigger, OriginInv, TypeOK, Outcome
  <2>2. CASE Dispatch
        BY <2>2, TimeFacts DEF Dispatch, Trigger, OriginInv, TypeOK, Outcome
  <2> QED BY <2>1, <2>2
<1>2. left' \in [Commit -> 0..CacheAge]
      BY TimeFacts DEF Push, Dispatch, OriginInv, TypeOK
<1>3. 1 \in 1..Len(Requests(main'))
      BY <1>1, RequestCount
<1>4. TypeOK'
      BY <1>1, <1>2, <1>3, TimeFacts DEF TypeOK, NewJob, Job
<1> QED BY <1>1, <1>2, <1>4, TimeFacts
        DEF OriginInv, NewJob, SeenSoFar, StaleSinceStart, TimeAccounted,
            RedNeedsFaults

LEMMA Facts ==
    ASSUME OriginInv
    PROVE  /\ main \in Commit /\ job.commit = main /\ job \in Job
           /\ job.next \in Nat /\ job.waited \in Nat /\ job.seconds \in Nat
           /\ job.elapsed \in Nat /\ job.faults \in Nat
           /\ Excused(job.faults) \in Nat
           /\ Len(Requests(main)) \in Nat
BY OneFault, RequestCount DEF OriginInv, TypeOK, Job

LEMMA StartJobStep ==
    ASSUME OriginInv, StartJob
    PROVE  OriginInv'
<1>1. TypeOK'
      BY DEF StartJob, OriginInv, TypeOK, Job
<1>2. TimeAccounted'
      BY Facts DEF StartJob, OriginInv, TimeAccounted, Job
<1> QED BY <1>1, <1>2, Facts
        DEF StartJob, OriginInv, SeenSoFar, StaleSinceStart, RedNeedsFaults, Job

\* A comparison begins: nothing is seen yet, and no time has passed.
LEMMA BeginStep ==
    ASSUME OriginInv, SetUp \/ WakeUp
    PROVE  OriginInv'
<1>1. /\ BeginComparison /\ job.pc \in {"setup", "sleeping"}
      /\ UNCHANGED <<main, left, outcome, dispatches>>
      BY DEF SetUp, WakeUp, Awake
<1>2. /\ job'.pc = "asking" /\ job'.next = 1 /\ job'.commit = job.commit
      /\ job'.elapsed = job.elapsed /\ job'.faults = job.faults
      /\ job'.seconds = job.seconds /\ job' \in Job
      BY <1>1, Facts DEF BeginComparison, Job
<1>3. TypeOK'
      BY <1>1, <1>2, RequestCount, Facts DEF BeginComparison, OriginInv, TypeOK
<1>4. SeenSoFar'
      BY <1>1, <1>2 DEF SeenSoFar, SeenUpTo
<1>5. TimeAccounted'
  <2>1. CASE SetUp
        BY <1>2, <2>1, Facts, TimeFacts DEF SetUp, OriginInv, TimeAccounted
  <2>2. CASE WakeUp
        BY <1>2, <2>2, Facts, TimeFacts DEF WakeUp, Awake, OriginInv, TimeAccounted
  <2> QED BY <2>1, <2>2
<1> QED BY <1>1, <1>2, <1>3, <1>4, <1>5
        DEF OriginInv, StaleSinceStart, RedNeedsFaults

\* The current request was answered as expected.
LEMMA AgreeStep ==
    ASSUME OriginInv, Agree
    PROVE  OriginInv'
<1> DEFINE n == Len(Requests(main))
<1>1. /\ job.pc = "asking" /\ SeenUpTo(job.next - 1)
      /\ UNCHANGED <<main, left, dispatches>> /\ job.next \in 1..n
      BY DEF Agree, OriginInv, SeenSoFar, TypeOK
<1>2. /\ Current = Requests(main)[job.next]
      /\ Current.file \in File /\ Current.range \in BOOLEAN
      BY CurrentFacts DEF OriginInv, Current, Request
<1>3. /\ matched \subseteq matched' /\ matched' \subseteq File
      /\ ~Current.range => Current.file \in matched'
      BY <1>2 DEF Agree, OriginInv, TypeOK
<1>4. ASSUME NEW i \in 1..job.next, ~Requests(main)[i].range
      PROVE  Requests(main)[i].file \in matched'
  <2>1. CASE i = job.next
        BY <2>1, <1>2, <1>3, <1>4
  <2>2. CASE i # job.next
    <3>1. i \in 1..(job.next - 1)
          BY <2>2, Facts
    <3> QED BY <3>1, <1>1, <1>3, <1>4 DEF SeenUpTo
  <2> QED BY <2>1, <2>2
<1>5. CASE job.next < n
  <2>1. /\ job' = [job EXCEPT !.next = @ + 1, !.waited = 0]
        /\ UNCHANGED outcome
        BY <1>5, Facts DEF Agree
  <2>2. /\ job' \in Job /\ job'.next = job.next + 1 /\ job'.pc = "asking"
        /\ job'.commit = main /\ job'.elapsed = job.elapsed
        /\ job'.seconds = job.seconds /\ job'.faults = job.faults
    <3>1. job \in Job /\ job.next + 1 \in Nat /\ job.commit = main
          BY Facts
    <3> QED BY <2>1, <3>1, <1>1 DEF Job
  <2>3. TypeOK'
    <3>1. job'.next \in 1..n
          BY <2>2, <1>1, <1>5, Facts
    <3> QED BY <3>1, <1>1, <1>3, <2>1, <2>2 DEF OriginInv, TypeOK
  <2>4. SeenSoFar'
    <3>1. job'.next - 1 = job.next
          BY <2>2, Facts
    <3> QED BY <3>1, <1>1, <1>4, <2>2 DEF SeenSoFar, SeenUpTo
  <2> QED BY <2>2, <2>3, <2>4, <1>1
          DEF OriginInv, StaleSinceStart, TimeAccounted, RedNeedsFaults
<1>6. CASE job.next = n
  <2>1. EndJob("success", job.faults)
        BY <1>6, Facts DEF Agree
  <2>2. /\ job' \in Job /\ job'.pc = "idle" /\ job'.next = job.next
        /\ job'.commit = main /\ job'.elapsed = job.elapsed
        /\ job'.seconds = job.seconds /\ job'.faults = job.faults
        /\ outcome' \in [Commit -> Outcome] /\ outcome'[main] = "success"
        BY <2>1, Facts DEF EndJob, Job, OriginInv, TypeOK, Outcome
  <2>3. TypeOK'
        BY <1>1, <1>3, <2>2 DEF OriginInv, TypeOK
  <2>4. SeenSoFar'
        BY <1>1, <1>4, <1>6, <2>2 DEF SeenSoFar, SeenUpTo
  <2> QED BY <2>2, <2>3, <2>4, <1>1
          DEF OriginInv, StaleSinceStart, TimeAccounted, RedNeedsFaults
<1> QED BY <1>1, <1>5, <1>6, Facts

\* A comparison fails: the step ends, or there is a pause.
LEMMA FailureStep ==
    ASSUME OriginInv, job.pc = "asking", NEW faults \in Nat,
           ComparisonFails(faults),
           \/ faults = job.faults /\ job.elapsed < CacheAge
           \/ faults = job.faults + 1
    PROVE  OriginInv'
<1>1. /\ job.seconds <= job.elapsed
      /\ UNCHANGED <<main, left, matched, dispatches>>
      BY DEF ComparisonFails, OriginInv, TypeOK
<1>2. Excused(faults) \in Nat
      BY OneFault
<1>3. job.elapsed < CacheAge + Excused(faults)
  <2>1. CASE faults = job.faults /\ job.elapsed < CacheAge
        BY <2>1, <1>2, Facts, TimeFacts
  <2>2. CASE faults = job.faults + 1
    <3>1. Excused(faults) = Excused(job.faults) + Pause
          BY <2>2, OneFault, Facts
    <3>2. job.elapsed < CacheAge + Pause + Excused(job.faults)
          BY DEF OriginInv, TimeAccounted
    <3> QED BY <3>1, <3>2, Facts, TimeFacts
  <2> QED BY <2>1, <2>2
<1>4. CASE /\ job.seconds >= RetryLimit
           /\ EndJob("failure", faults)
  <2>1. /\ job' \in Job /\ job'.pc = "idle" /\ job'.next = job.next
        /\ job'.commit = main /\ job'.elapsed = job.elapsed
        /\ job'.seconds = job.seconds /\ job'.faults = faults
        /\ outcome' \in [Commit -> Outcome] /\ outcome'[main] = "failure"
        BY <1>4, Facts DEF EndJob, Job, OriginInv, TypeOK, Outcome
  <2>2. Excused(faults) > RetryLimit - CacheAge
        BY <1>1, <1>2, <1>3, <1>4, Facts, TimeFacts
  <2>3. TypeOK'
        BY <1>1, <2>1 DEF OriginInv, TypeOK
  <2> QED BY <1>1, <2>1, <2>2, <2>3
          DEF OriginInv, SeenSoFar, StaleSinceStart, TimeAccounted, RedNeedsFaults
<1>5. CASE /\ job' = [job EXCEPT !.pc = "sleeping", !.waited = 0,
                                 !.faults = faults]
           /\ UNCHANGED outcome
  <2>1. /\ job' \in Job /\ job'.pc = "sleeping" /\ job'.next = job.next
        /\ job'.commit = main /\ job'.elapsed = job.elapsed
        /\ job'.seconds = job.seconds /\ job'.faults = faults /\ job'.waited = 0
        BY <1>5, Facts DEF Job
  <2>2. TypeOK'
        BY <1>1, <1>5, <2>1 DEF OriginInv, TypeOK
  <2>3. TimeAccounted'
        BY <1>3, <2>1, Facts, TimeFacts DEF TimeAccounted
  <2> QED BY <1>1, <2>1, <2>2, <2>3
          DEF OriginInv, SeenSoFar, StaleSinceStart, RedNeedsFaults
<1> QED BY <1>4, <1>5 DEF ComparisonFails

LEMMA DifferStep ==
    ASSUME OriginInv, Differ
    PROVE  OriginInv'
BY FailureStep, DifferFacts, Facts DEF Differ

LEMMA RequestFailsStep ==
    ASSUME OriginInv, RequestFails \/ RequestExpires
    PROVE  OriginInv'
<1>1. job.pc = "asking" /\ ComparisonFails(job.faults + 1)
      /\ job.faults + 1 \in Nat
      BY Facts DEF RequestFails, RequestExpires, OutOfTime
<1> QED BY <1>1, FailureStep

LEMMA JobExpiresStep ==
    ASSUME OriginInv, JobExpires
    PROVE  OriginInv'
<1>1. /\ job.pc \in {"setup", "asking", "sleeping"} /\ job.elapsed >= JobTimeout
      /\ EndJob("timeout", job.faults)
      /\ UNCHANGED <<main, left, matched, dispatches>>
      BY DEF JobExpires, Running
<1>2. /\ job' \in Job /\ job'.pc = "idle" /\ job'.next = job.next
      /\ job'.commit = main /\ job'.elapsed = job.elapsed
      /\ job'.seconds = job.seconds /\ job'.faults = job.faults
      /\ outcome' \in [Commit -> Outcome] /\ outcome'[main] = "timeout"
      BY <1>1, Facts DEF EndJob, Job, OriginInv, TypeOK, Outcome
<1>3. job.elapsed < CacheAge + Pause + Excused(job.faults)
      BY <1>1, Facts, TimeFacts DEF OriginInv, TimeAccounted
<1>4. Excused(job.faults) > RetryLimit - CacheAge
      BY <1>1, <1>3, Facts, TimeFacts
<1>5. TypeOK'
      BY <1>1, <1>2 DEF OriginInv, TypeOK
<1> QED BY <1>1, <1>2, <1>4, <1>5
        DEF OriginInv, SeenSoFar, StaleSinceStart, TimeAccounted, RedNeedsFaults

LEMMA TickStep ==
    ASSUME OriginInv, Tick
    PROVE  OriginInv'
<1>1. /\ left' = [c \in Commit |-> IF left[c] > 0 THEN left[c] - 1 ELSE 0]
      /\ UNCHANGED <<main, outcome, matched, dispatches>>
      BY DEF Tick
<1>2. /\ left' \in [Commit -> 0..CacheAge]
      /\ \A c \in Commit : left'[c] > 0 => left'[c] = left[c] - 1 /\ left[c] > 0
      BY <1>1, TimeFacts DEF OriginInv, TypeOK
<1>3. CASE ~Running
  <2>1. UNCHANGED job
        BY <1>3 DEF Tick
  <2>2. TypeOK'
        BY <1>1, <1>2, <2>1 DEF OriginInv, TypeOK
  <2>3. StaleSinceStart'
        BY <1>2, <2>1, Facts, TimeFacts DEF OriginInv, StaleSinceStart, TypeOK
  <2> QED BY <1>1, <2>1, <2>2, <2>3
          DEF OriginInv, SeenSoFar, SeenUpTo, TimeAccounted, RedNeedsFaults
<1>4. CASE Running
  <2>1. /\ job' \in Job /\ job'.pc = job.pc /\ job'.next = job.next
        /\ job'.commit = main /\ job'.elapsed = job.elapsed + 1
        /\ job'.seconds \in {0, job.seconds + 1}
        /\ job'.waited = job.waited + 1
        /\ job'.faults = IF job.pc = "sleeping" THEN job.faults ELSE job.faults + 1
        /\ job.elapsed < JobTimeout
    <3> DEFINE seconds == IF job.pc = "setup" THEN 0 ELSE job.seconds + 1
               faults  == IF job.pc = "sleeping" THEN job.faults ELSE job.faults + 1
    <3>1. /\ job' = [job EXCEPT !.elapsed = job.elapsed + 1,
                                !.waited  = job.waited + 1,
                                !.seconds = seconds, !.faults = faults]
          /\ job.elapsed < JobTimeout
          BY <1>4 DEF Tick
    <3>2. /\ job \in Job /\ job.elapsed + 1 \in Nat /\ job.waited + 1 \in Nat
          /\ seconds \in Nat /\ faults \in Nat /\ job.commit = main
          /\ seconds \in {0, job.seconds + 1}
          BY Facts
    <3> HIDE DEF seconds, faults
    <3>3. /\ job' \in Job /\ job'.pc = job.pc /\ job'.next = job.next
          /\ job'.commit = main /\ job'.elapsed = job.elapsed + 1
          /\ job'.seconds = seconds
          /\ job'.waited = job.waited + 1 /\ job'.faults = faults
          BY <3>1, <3>2 DEF Job
    <3> QED BY <3>1, <3>2, <3>3 DEF faults
  <2>2. TypeOK'
    <3>1. TypeOK /\ job.commit = main
          BY DEF OriginInv
    <3>2. job.seconds <= job.elapsed
          BY <3>1 DEF TypeOK
    <3>3. job'.seconds <= job'.elapsed /\ job'.elapsed <= JobTimeout
          BY <2>1, <3>2, Facts, TimeFacts
    <3> QED BY <1>1, <1>2, <2>1, <3>1, <3>3 DEF TypeOK
  <2>3. StaleSinceStart'
    <3>1. job.pc # "idle" /\ StaleSinceStart
          BY <1>4 DEF Running, OriginInv
    <3>2. \A c \in Commit : left[c] \in Nat
          BY TimeFacts DEF OriginInv, TypeOK
    <3>3. ASSUME NEW c \in Commit, left'[c] > 0
          PROVE  left'[c] + job'.elapsed <= CacheAge
      <4>1. left[c] > 0 /\ left'[c] = left[c] - 1
            BY <1>2, <3>3
      <4>2. left[c] + job.elapsed <= CacheAge
            BY <3>1, <4>1 DEF StaleSinceStart
      <4>3. /\ left[c] \in Nat /\ job.elapsed \in Nat /\ CacheAge \in Nat
            /\ job'.elapsed = job.elapsed + 1
            BY <2>1, <3>2, Facts, TimeFacts
      <4> QED BY <4>1, <4>2, <4>3
    <3> QED BY <3>3 DEF StaleSinceStart
  <2>4. Excused(job.faults + 1) = Excused(job.faults) + Pause
        BY Facts, OneFault
  <2>5. TimeAccounted'
    <3>0. TimeAccounted
          BY DEF OriginInv
    <3>1. CASE job.pc = "setup"
      <4>1. job.elapsed <= Excused(job.faults)
            BY <3>0, <3>1 DEF TimeAccounted
      <4>2. job'.elapsed <= Excused(job'.faults)
            BY <2>1, <2>4, <3>1, <4>1, Facts, TimeFacts
      <4> QED BY <2>1, <3>1, <4>2 DEF TimeAccounted
    <3>2. CASE job.pc = "asking"
      <4>1. job.elapsed < CacheAge + Pause + Excused(job.faults)
            BY <3>0, <3>2 DEF TimeAccounted
      <4>2. job'.elapsed < CacheAge + Pause + Excused(job'.faults)
            BY <2>1, <2>4, <3>2, <4>1, Facts, TimeFacts
      <4> QED BY <2>1, <3>2, <4>2 DEF TimeAccounted
    <3>3. CASE job.pc = "sleeping"
      <4>1. job.waited < Pause
            BY <3>3, Facts, TimeFacts DEF Tick, Awake
      <4>2. job.elapsed - job.waited < CacheAge + Excused(job.faults)
            BY <3>0, <3>3 DEF TimeAccounted
      <4>3. job'.elapsed - job'.waited = job.elapsed - job.waited
            /\ job'.faults = job.faults
            BY <2>1, <3>3, Facts
      <4>4. job'.waited <= Pause
            BY <2>1, <4>1, Facts, TimeFacts
      <4> QED BY <2>1, <3>3, <4>2, <4>3, <4>4 DEF TimeAccounted
    <3> QED BY <1>4, <3>1, <3>2, <3>3 DEF Running
  <2> QED BY <1>1, <1>4, <2>1, <2>2, <2>3, <2>5
          DEF OriginInv, SeenSoFar, SeenUpTo, RedNeedsFaults, Running
<1> QED BY <1>3, <1>4

LEMMA OriginNext ==
    ASSUME OriginInv, [Next]_vars
    PROVE  OriginInv'
<1>1. CASE Push \/ Dispatch
      BY <1>1, TriggerStep
<1>2. CASE StartJob
      BY <1>2, StartJobStep
<1>3. CASE SetUp \/ WakeUp
      BY <1>3, BeginStep
<1>4. CASE Agree
      BY <1>4, AgreeStep
<1>5. CASE Differ
      BY <1>5, DifferStep
<1>6. CASE RequestFails \/ RequestExpires
      BY <1>6, RequestFailsStep
<1>7. CASE JobExpires
      BY <1>7, JobExpiresStep
<1>8. CASE Tick
      BY <1>8, TickStep
<1>9. CASE UNCHANGED vars
      BY <1>9 DEF vars, OriginInv, TypeOK, SeenSoFar, SeenUpTo, StaleSinceStart,
                  TimeAccounted, RedNeedsFaults
<1> QED BY <1>1, <1>2, <1>3, <1>4, <1>5, <1>6, <1>7, <1>8, <1>9 DEF Next, Due

-----------------------------------------------------------------------------
(***************************************************************************)
(* The theorems.                                                           *)
(***************************************************************************)

\* The inductive invariant holds for every sequence of commits and any times.
THEOREM OriginInvTheorem == Spec => []OriginInv
<1>1. Init => OriginInv
      BY OriginInit
<1>2. OriginInv /\ [Next]_vars => OriginInv'
      BY OriginNext
<1> QED BY <1>1, <1>2, PTL DEF Spec

\* Type correctness of Origin: requests stay in range, jobs in their limit.
THEOREM OriginTypeTheorem == Spec => []TypeOK
<1>1. OriginInv => TypeOK
      BY DEF OriginInv
<1> QED BY <1>1, OriginInvTheorem, PTL

\* A green run of raw-origin saw the complete tree of its commit in one comparison.
THEOREM GreenTheorem == Spec => []GreenIsComplete
<1>1. ASSUME OriginInv, job.pc = "idle", outcome[job.commit] = "success"
      PROVE  {p \in File : Published[job.commit][p] # NoFile} \subseteq matched
  <2>1. /\ main \in Commit /\ job.commit = main
        /\ SeenUpTo(Len(Requests(main)))
        BY <1>1 DEF OriginInv, SeenSoFar, TypeOK
  <2> DEFINE n == Len(Targets(main))
  <2>2. n \in Nat /\ Len(Requests(main)) = n + 4 /\ Targets(main) \in Seq(File)
        BY <2>1, RequestFacts
  <2>3. Readme \in matched
    <3>1. n + 1 \in 1..Len(Requests(main))
          BY <2>2
    <3>2. Requests(main)[n + 1] = Ask("main", Readme, FALSE, FALSE)
          BY <2>1, RequestFacts
    <3> QED BY <2>1, <3>1, <3>2 DEF SeenUpTo, Ask
  <2>4. ASSUME NEW p \in File \ {Readme}, Published[main][p] # NoFile
        PROVE  p \in matched
    <3>1. PICK i \in DOMAIN SourceFiles[main] : SourceFiles[main][i] = p
          BY <2>1, <2>4, TreeAssumption
    <3>2. SourceFiles[main] \in Seq(File) /\ SourceFiles[main] # <<>>
          BY <2>1, <3>1, TreeFacts
    <3>3. Targets(main) = SourceFiles[main] /\ i \in 1..n
          BY <3>1, <3>2 DEF Targets
    <3>4. i \in 1..Len(Requests(main))
          BY <2>2, <3>3
    <3>5. Requests(main)[i] = Ask("main", p, FALSE, TRUE)
          BY <2>1, <3>1, <3>3, RequestFacts
    <3> QED BY <2>1, <3>4, <3>5 DEF SeenUpTo, Ask
  <2> QED BY <2>1, <2>3, <2>4
<1>2. OriginInv => GreenIsComplete
      BY <1>1 DEF GreenIsComplete
<1> QED BY <1>2, OriginInvTheorem, PTL

\* Stale files alone never make a run red: its faults account for its time.
THEOREM RedTheorem == Spec => []RedNeedsFaults
<1>1. OriginInv => RedNeedsFaults
      BY DEF OriginInv
<1> QED BY <1>1, OriginInvTheorem, PTL
=============================================================================
