-------------------------- MODULE TestRunnerProofs --------------------------
(***************************************************************************)
(* No test is lost or counted twice, for any number of tests and workers;  *)
(* the return code of test.py says whether all of them have passed, and    *)
(* results.xml has one entry for each that has.                            *)
(*                                                                         *)
(* The argument follows one job: until it is handed back one worker holds  *)
(* it, which alone changes it, so that what the main thread has counted    *)
(* stays as it was counted.                                                *)
(***************************************************************************)
EXTENDS TestRunner, FiniteSetTheorems, SequenceTheorems, TLAPS

USE JobsAssumption, WorkersAssumption

-----------------------------------------------------------------------------
(* Constants and operators *)

\* There is a break job after the tests.
LEMMA TotalType == Total \in Nat /\ Total > NumJobs
<1>1. Cardinality(Workers) \in Nat /\ Cardinality(Workers) # 0
  BY FS_CardinalityType, FS_EmptySet
<1> QED BY <1>1 DEF Total

\* A job that was not interrupted has one of the five results.
LEMMA StatusType ==
  ASSUME TypeOK, NEW j \in Jobs
  PROVE  /\ Status(j) \in Statuses \cup {"BREAK"}
         /\ ~job[j].is_break <=> Status(j) \in Statuses
         /\ Status(j) = "PASS" => job[j].returncode = 0
<1>1. job[j] \in JobStates
  BY DEF TypeOK
<1>2. job[j].returncode \in {0, 1, 2, 3}
  BY <1>1 DEF JobStates
<1> QED BY <1>1, <1>2 DEF Status, Statuses, JobStates

\* The entry of a job has one of the five results.
LEMMA EntryType ==
  ASSUME TypeOK, NEW j \in Jobs, ~job[j].is_break
  PROVE  Entry(j) \in Seq(Jobs \X Statuses)
<1>1. Status(j) \in Statuses /\ Verdict(j) \in Statuses
  BY StatusType DEF Verdict, Statuses
<1> QED BY <1>1 DEF Entry

\* A worker has a job while it works on one.
LEMMA WorkerType ==
  ASSUME TypeOK, NEW w \in Workers
  PROVE  /\ worker[w].st \in {"idle", "exited"} => worker[w].job = 0
         /\ worker[w].st \in {"got", "running", "died"} => worker[w].job \in Jobs
         /\ worker[w].st \in {"idle", "exited", "got", "running", "died"}
         /\ worker[w].job \in Jobs \cup {0}
<1>1. worker[w] \in Running
  BY DEF TypeOK
<1> QED BY <1>1 DEF Running

\* No test has the number 0.
LEMMA JobsPositive == 0 \notin Jobs /\ Jobs \subseteq Nat
  BY DEF Jobs

\* A process that is run leaves a job of the right type, and returns 0 only if it
\* has passed.
LEMMA FinishedType ==
  ASSUME NEW j \in Jobs, NEW end \in Endings(j), NEW code \in ReturnCodes(end), NEW file \in Files(j, end)
  PROVE  /\ [is_break |-> FALSE, returncode |-> code, end |-> end, file |-> file] \in JobStates
         /\ code = 0 => end = "pass"
<1>1. end \in {"pass", "fail", "crash", "passBad", "failBad"}
  BY DEF Endings
<1>2. ExitCode(end) \in 0 .. 3 /\ (ExitCode(end) = 0 => end = "pass")
  BY <1>1 DEF ExitCode
<1>3. code \in 0 .. 3 /\ (code = 0 => end = "pass")
  BY <1>2 DEF ReturnCodes
<1>4. file \in {"none", "empty", "torn", "whole"}
  BY DEF Files
<1> QED BY <1>1, <1>3, <1>4 DEF JobStates

-----------------------------------------------------------------------------
(* Types *)

LEMMA InitType == Init => TypeOK
<1>1. Total \in Nat /\ Total > 0
  BY TotalType
<1> SUFFICES ASSUME Init PROVE TypeOK
  OBVIOUS
<1>2. worker \in [Workers -> Running]
  BY DEF Init, Running
<1>3. job \in [Jobs -> JobStates]
  BY DEF Init, JobStates
<1>4. tally \in [Statuses -> Nat] /\ out = << >> /\ xml.entries = << >>
  BY DEF Init
<1>5. xml \in [entries : Seq(Jobs \X Statuses), illFormed : BOOLEAN, closed : BOOLEAN]
  <2>1. << >> \in Seq(Jobs \X Statuses)
    OBVIOUS
  <2> QED BY <2>1 DEF Init
<1>6. /\ put = 0 /\ got = 0 /\ thread_exit = FALSE
      /\ main = [pc |-> "dispatch", taken |-> 0, result |-> 1]
  BY DEF Init
<1>7. out \in Seq(Jobs) /\ Len(out) = 0
  BY <1>4
<1>8. /\ main \in [pc : {"dispatch", "collect", "report", "returned", "raised"},
                   taken : 0 .. NumJobs, result : {0, 1}]
      /\ main.pc = "dispatch" /\ main.taken = 0
  BY <1>6
<1>9. put \in 0 .. Total /\ got \in 0 .. put /\ (main.pc = "dispatch" <=> put < Total) /\ main.taken <= Len(out)
  BY <1>1, <1>6, <1>7, <1>8
<1>10. tally \in [Statuses -> Nat] /\ thread_exit \in BOOLEAN
  BY <1>4, <1>6
<1> QED BY <1>2, <1>3, <1>5, <1>7, <1>8, <1>9, <1>10 DEF TypeOK

\* A worker hands its job to the main thread.
LEMMA GiveType ==
  ASSUME TypeOK, NEW w \in Workers, worker[w].st \in {"got", "running"}, Give(w)
  PROVE  /\ worker' \in [Workers -> Running] /\ out' \in Seq(Jobs)
         /\ Len(out') = Len(out) + 1
<1>1. worker[w].job \in Jobs
  BY WorkerType
<1>2. [st |-> "idle", job |-> 0] \in Running
  BY DEF Running
<1> QED BY <1>1, <1>2 DEF Give, Hold, TypeOK

\* The steps of a worker keep the types.
LEMMA WorkType ==
  ASSUME TypeOK, NEW w \in Workers, Work(w) \/ Die(w)
  PROVE  TypeOK'
<1> USE DEF TypeOK
<1>1. CASE Get(w)
  <2>1. got' \in 0 .. put'
    BY <1>1 DEF Get
  <2>2. worker' \in [Workers -> Running]
    <3>1. CASE got' > NumJobs
      <4>1. [st |-> "exited", job |-> 0] \in Running
        BY DEF Running
      <4> QED BY <1>1, <3>1, <4>1 DEF Get, Hold
    <3>2. CASE ~(got' > NumJobs)
      <4>1. got' \in Jobs
        BY <1>1, <3>2, TotalType DEF Get, Jobs
      <4>2. [st |-> "got", job |-> got'] \in Running
        BY <4>1 DEF Running
      <4> QED BY <1>1, <3>2, <4>2 DEF Get, Hold
    <3> QED BY <3>1, <3>2
  <2> QED BY <1>1, <2>1, <2>2 DEF Get
<1>2. CASE HandBack(w)
  <2>1. worker' \in [Workers -> Running] /\ out' \in Seq(Jobs) /\ Len(out') = Len(out) + 1
    BY <1>2, GiveType DEF HandBack
  <2>2. job' \in [Jobs -> JobStates]
    BY <1>2 DEF HandBack, JobStates
  <2> QED BY <1>2, <2>1, <2>2 DEF HandBack
<1>3. CASE Launch(w)
  <2>1. worker[w].job \in Jobs
    BY <1>3, WorkerType DEF Launch
  <2>2. worker' \in [Workers -> Running]
    BY <1>3, <2>1 DEF Launch, Hold, Running
  <2> QED BY <1>3, <2>2 DEF Launch
<1>4. CASE Finish(w)
  <2>1. worker' \in [Workers -> Running] /\ out' \in Seq(Jobs) /\ Len(out') = Len(out) + 1
    BY <1>4, GiveType DEF Finish
  <2>2. job' \in [Jobs -> JobStates]
    <3>1. worker[w].job \in Jobs
      BY <1>4, WorkerType DEF Finish
    <3> QED BY <1>4, <3>1, FinishedType DEF Finish
  <2> QED BY <1>4, <2>1, <2>2 DEF Finish
<1>5. CASE Die(w)
  <2>1. worker[w].job \in Jobs
    BY <1>5, WorkerType DEF Die
  <2>2. worker' \in [Workers -> Running]
    BY <1>5, <2>1 DEF Die, Hold, Running
  <2> QED BY <1>5, <2>2 DEF Die
<1> QED BY <1>1, <1>2, <1>3, <1>4, <1>5 DEF Work

\* So do those of the main thread.
LEMMA MainType ==
  ASSUME TypeOK, Main \/ Sigint
  PROVE  TypeOK'
<1> USE DEF TypeOK
<1>1. CASE Dispatch
  <2>1. put' \in 1 .. Total /\ got \in 0 .. put'
    BY <1>1, TotalType DEF Dispatch
  <2>2. /\ main'.pc \in {"dispatch", "collect"} /\ main'.taken = main.taken /\ main'.result = main.result
        /\ main' \in [pc : {"dispatch", "collect", "report", "returned", "raised"},
                      taken : 0 .. NumJobs, result : {0, 1}]
        /\ main'.pc = "dispatch" <=> put' # Total
    BY <1>1 DEF Dispatch
  <2> QED BY <1>1, <2>1, <2>2, TotalType DEF Dispatch
<1>2. CASE Collect
  <2> DEFINE j == out[main.taken + 1]
  <2>1. j \in Jobs /\ main.taken + 1 \in 0 .. NumJobs /\ main.taken + 1 <= Len(out)
    BY <1>2 DEF Collect
  <2>2. CASE job[j].is_break
    BY <1>2, <2>1, <2>2 DEF Collect
  <2>3. CASE ~job[j].is_break
    <3>1. tally' \in [Statuses -> Nat]
      <4>1. Status(j) \in Statuses
        BY <2>1, <2>3, StatusType
      <4>2. tally' = Counted(j)
        BY <1>2, <2>3 DEF Collect
      <4> QED BY <4>1, <4>2 DEF Counted
    <3>2. xml' \in [entries : Seq(Jobs \X Statuses), illFormed : BOOLEAN, closed : BOOLEAN]
      <4>1. Entry(j) \in Seq(Jobs \X Statuses)
        BY <2>1, <2>3, EntryType
      <4>2. xml.entries \o Entry(j) \in Seq(Jobs \X Statuses)
        BY <4>1
      <4>3. (xml.illFormed \/ IllFormed(j)) \in BOOLEAN
        OBVIOUS
      <4> DEFINE r == Recorded(j)
      <4>4. r \in [entries : Seq(Jobs \X Statuses), illFormed : BOOLEAN, closed : BOOLEAN]
        BY <4>2, <4>3 DEF Recorded
      <4>5. xml' = xml \/ xml' = r
        BY <1>2, <2>3 DEF Collect
      <4> QED BY <4>4, <4>5
    <3>3. /\ main' \in [pc : {"dispatch", "collect", "report", "returned", "raised"},
                        taken : 0 .. NumJobs, result : {0, 1}]
          /\ main'.taken <= Len(out) /\ main'.pc # "dispatch"
      BY <1>2, <2>1, <2>3 DEF Collect
    <3> QED BY <1>2, <3>1, <3>2, <3>3 DEF Collect
  <2> QED BY <2>2, <2>3
<1>3. CASE Join
  BY <1>3 DEF Join
<1>4. CASE Return
  BY <1>4 DEF Return
<1>5. CASE Sigint
  BY <1>5 DEF Sigint
<1> QED BY <1>1, <1>2, <1>3, <1>4, <1>5 DEF Main

LEMMA NextType == TypeOK /\ [Next]_vars => TypeOK'
<1> SUFFICES ASSUME TypeOK, [Next]_vars PROVE TypeOK'
  OBVIOUS
<1>1. CASE Next
  BY <1>1, WorkType, MainType DEF Next
<1>2. CASE UNCHANGED vars
  BY <1>2 DEF vars, TypeOK
<1> QED BY <1>1, <1>2
-----------------------------------------------------------------------------
(* Every test is in one place *)

LEMMA InitAccounted == Init => Accounted
<1> SUFFICES ASSUME Init PROVE Accounted
  OBVIOUS
<1>1. got = 0 /\ Len(out) = 0 /\ \A w \in Workers : worker[w].job = 0 /\ worker[w].st = "idle"
  BY DEF Init
<1>2. \A j \in Jobs : ~Held(j) /\ ~Handed(j) /\ ~(j <= got)
  BY <1>1 DEF Held, Handed, Jobs
<1> QED BY <1>1, <1>2 DEF Accounted

\* A job that is handed over leaves its worker for the queue.
LEMMA GiveAccounted ==
  ASSUME TypeOK, Accounted, NEW w \in Workers, worker[w].st \in {"got", "running"}, Give(w), got' = got
  PROVE  Accounted'
<1> DEFINE g == worker[w].job
<1>1. g \in Jobs /\ Held(g) /\ ~Handed(g)
  BY WorkerType DEF Accounted, Held
<1>2. /\ Len(out') = Len(out) + 1 /\ out'[Len(out) + 1] = g /\ Len(out) \in Nat
      /\ \A i \in 1 .. Len(out) : out'[i] = out[i]
  BY <1>1 DEF Give, TypeOK
<1>3. \A v \in Workers : worker'[v] = IF v = w THEN [st |-> "idle", job |-> 0] ELSE worker[v]
  BY DEF Give, Hold, TypeOK
<1>4. \A j \in Jobs : Held(j)' <=> Held(j) /\ j # g
  <2> SUFFICES ASSUME NEW j \in Jobs PROVE Held(j)' <=> Held(j) /\ j # g
    OBVIOUS
  <2>1. ASSUME Held(j)' PROVE Held(j) /\ j # g
    <3>1. PICK v \in Workers : worker'[v].job = j
      BY <2>1 DEF Held
    <3>2. v # w /\ worker[v].job = j
      BY <3>1, <1>3, JobsPositive
    <3>3. j # g
      BY <3>2, JobsPositive DEF Accounted
    <3> QED BY <3>2, <3>3 DEF Held
  <2>2. ASSUME Held(j), j # g PROVE Held(j)'
    <3>1. PICK v \in Workers : worker[v].job = j
      BY <2>2 DEF Held
    <3>2. v # w
      BY <3>1, <2>2
    <3> QED BY <3>1, <3>2, <1>3 DEF Held
  <2> QED BY <2>1, <2>2
<1>5. \A j \in Jobs : Handed(j)' <=> Handed(j) \/ j = g
  BY <1>2 DEF Handed
<1>6. \A j \in Jobs : /\ Held(j)' \/ Handed(j)' <=> j <= got'
                      /\ ~(Held(j)' /\ Handed(j)')
  BY <1>1, <1>4, <1>5 DEF Accounted
<1>7. \A u, v \in Workers : u # v /\ worker'[u].job = worker'[v].job => worker'[u].job = 0
  BY <1>3 DEF Accounted
<1>8. \A i, k \in 1 .. Len(out') : out'[i] = out'[k] => i = k
  <2>1. \A i \in 1 .. Len(out) : out[i] # g
    BY <1>1 DEF Handed
  <2> QED BY <1>2, <2>1 DEF Accounted
<1>9. \A v \in Workers : worker'[v].st = "exited" => got' > NumJobs
  BY <1>3 DEF Accounted
<1> QED BY <1>6, <1>7, <1>8, <1>9 DEF Accounted, Held, Handed

\* A worker that keeps its job, or has none, changes nothing of it.
LEMMA KeepAccounted ==
  ASSUME TypeOK, Accounted, NEW w \in Workers, NEW s \in {"running", "died"},
         Hold(w, s, worker[w].job), got' = got, out' = out
  PROVE  Accounted'
<1>1. \A v \in Workers : /\ worker'[v].job = worker[v].job
                         /\ worker'[v].st = "exited" => worker[v].st = "exited"
  BY DEF Hold, TypeOK
<1>2. \A j \in Jobs : Held(j)' <=> Held(j)
  BY <1>1 DEF Held
<1>3. \A j \in Jobs : Handed(j)' <=> Handed(j)
  BY DEF Handed
<1>4. \A j \in Jobs : /\ Held(j)' \/ Handed(j)' <=> j <= got'
                      /\ ~(Held(j)' /\ Handed(j)')
  BY <1>2, <1>3 DEF Accounted
<1>5. \A u, v \in Workers : u # v /\ worker'[u].job = worker'[v].job => worker'[u].job = 0
  BY <1>1 DEF Accounted
<1>6. \A v \in Workers : worker'[v].st = "exited" => got' > NumJobs
  BY <1>1 DEF Accounted
<1> QED BY <1>4, <1>5, <1>6 DEF Accounted, Held, Handed

\* The test that is taken next was with nobody.
LEMMA GetAccounted ==
  ASSUME TypeOK, Accounted, NEW w \in Workers, Get(w)
  PROVE  Accounted'
<1>1. /\ got' = got + 1 /\ got \in Nat /\ out' = out
      /\ worker[w].st = "idle" /\ worker[w].job = 0
  BY WorkerType, TotalType DEF Get, TypeOK
<1> DEFINE taken == IF got' > NumJobs THEN [st |-> "exited", job |-> 0] ELSE [st |-> "got", job |-> got']
<1>2. \A v \in Workers : worker'[v] = IF v = w THEN taken ELSE worker[v]
  BY DEF Get, Hold, TypeOK
<1>3. taken.job = (IF got' > NumJobs THEN 0 ELSE got') /\ (taken.st = "exited" <=> got' > NumJobs)
  OBVIOUS
<1> HIDE DEF taken
<1>4. \A j \in Jobs : Handed(j)' <=> Handed(j)
  BY <1>1 DEF Handed
<1>5. \A j \in Jobs : Held(j)' <=> Held(j) \/ j = got'
  <2> SUFFICES ASSUME NEW j \in Jobs PROVE Held(j)' <=> Held(j) \/ j = got'
    OBVIOUS
  <2>0. j \in Nat /\ j # 0 /\ j <= NumJobs
    BY DEF Jobs
  <2>1. ASSUME Held(j)' PROVE Held(j) \/ j = got'
    <3>1. PICK v \in Workers : worker'[v].job = j
      BY <2>1 DEF Held
    <3> QED BY <3>1, <1>2, <1>3, <2>0 DEF Held
  <2>2. ASSUME Held(j) PROVE Held(j)'
    <3>1. PICK v \in Workers : worker[v].job = j
      BY <2>2 DEF Held
    <3>2. v # w
      BY <3>1, <1>1, <2>0
    <3> QED BY <3>1, <3>2, <1>2 DEF Held
  <2>3. ASSUME j = got' PROVE Held(j)'
    BY <2>3, <1>2, <1>3, <2>0 DEF Held
  <2> QED BY <2>1, <2>2, <2>3
<1>6. \A j \in Jobs : /\ Held(j)' \/ Handed(j)' <=> j <= got'
                      /\ ~(Held(j)' /\ Handed(j)')
  <2>1. \A j \in Jobs : j <= got' <=> j <= got \/ j = got'
    BY <1>1 DEF Jobs
  <2>2. \A j \in Jobs : j = got' => ~Handed(j)
    BY <1>1 DEF Accounted, Jobs
  <2> QED BY <1>4, <1>5, <2>1, <2>2 DEF Accounted
<1>7. \A u, v \in Workers : u # v /\ worker'[u].job = worker'[v].job => worker'[u].job = 0
  <2>1. \A v \in Workers : worker[v].job = got' => worker[v].job = 0
    <3> SUFFICES ASSUME NEW v \in Workers, worker[v].job = got', got' \in Jobs PROVE FALSE
      BY WorkerType
    <3>1. Held(got')
      BY DEF Held
    <3> QED BY <3>1, <1>1 DEF Accounted, Jobs
  <2> QED BY <1>2, <1>3, <2>1 DEF Accounted
<1>8. \A i, k \in 1 .. Len(out') : out'[i] = out'[k] => i = k
  BY <1>1 DEF Accounted
<1>9. \A v \in Workers : worker'[v].st = "exited" => got' > NumJobs
  BY <1>1, <1>2, <1>3 DEF Accounted
<1> QED BY <1>6, <1>7, <1>8, <1>9 DEF Accounted, Held, Handed

LEMMA NextAccounted == TypeOK /\ Accounted /\ [Next]_vars => Accounted'
<1> SUFFICES ASSUME TypeOK, Accounted, [Next]_vars PROVE Accounted'
  OBVIOUS
<1>1. CASE UNCHANGED <<got, worker, out>>
  BY <1>1 DEF Accounted, Held, Handed
<1>2. ASSUME NEW w \in Workers, Get(w) PROVE Accounted'
  BY <1>2, GetAccounted
<1>3. ASSUME NEW w \in Workers, HandBack(w) PROVE Accounted'
  BY <1>3, GiveAccounted DEF HandBack
<1>4. ASSUME NEW w \in Workers, Launch(w) PROVE Accounted'
  BY <1>4, KeepAccounted DEF Launch
<1>5. ASSUME NEW w \in Workers, Finish(w) PROVE Accounted'
  BY <1>5, GiveAccounted DEF Finish
<1>6. ASSUME NEW w \in Workers, Die(w) PROVE Accounted'
  BY <1>6, KeepAccounted DEF Die
<1>7. ASSUME Main \/ Sigint PROVE UNCHANGED <<got, worker, out>>
  BY <1>7 DEF Main, Sigint, Dispatch, Collect, Join, Return
<1> QED BY <1>1, <1>2, <1>3, <1>4, <1>5, <1>6, <1>7 DEF Next, Work, vars
-----------------------------------------------------------------------------
(* The statistics *)

LEMMA OfType ==
  ASSUME TypeOK, NEW s
  PROVE  Of(s) \subseteq 1 .. main.taken /\ IsFiniteSet(Of(s)) /\ Cardinality(Of(s)) \in Nat
<1>1. IsFiniteSet(1 .. main.taken) /\ Of(s) \subseteq 1 .. main.taken
  BY FS_Interval DEF Of, TypeOK
<1> QED BY <1>1, FS_Subset, FS_CardinalityType

LEMMA InitTallied == Init => Tallied /\ Concluded
<1> SUFFICES ASSUME Init PROVE Tallied /\ Concluded
  OBVIOUS
<1>1. /\ main.taken = 0 /\ main.pc = "dispatch" /\ ~xml.closed
      /\ Len(out) = 0 /\ \A s \in Statuses : tally[s] = 0
  BY DEF Init
<1>2. \A s : Of(s) = {}
  BY <1>1 DEF Of
<1>3. \A j \in Jobs : ~Handed(j)
  BY <1>1 DEF Handed
<1> QED BY <1>1, <1>2, <1>3, FS_EmptySet DEF Tallied, Concluded

\* What a job in output_queue counts as does not change any more.
LEMMA StatusKept ==
  ASSUME TypeOK, Tallied, main' = main, tally' = tally,
         \A i \in 1 .. Len(out) : out'[i] = out[i],
         \A j \in Jobs : Handed(j) => job'[j] = job[j],
         \A j \in Jobs : Handed(j)' /\ ~Handed(j) => (Status(j) \in {"BREAK", "SKIP"} \/ Ran(j))'
  PROVE  Tallied'
<1>1. main.taken \in Nat /\ main.taken <= Len(out) /\ Len(out) \in Nat
  BY DEF TypeOK
<1>2. \A j \in Jobs : Handed(j) => Status(j)' = Status(j)
  BY DEF Status
<1>3. \A j \in Jobs : Handed(j) => (Ran(j)' <=> Ran(j))
  BY DEF Ran
<1>4. \A i \in 1 .. main.taken : out[i] \in Jobs /\ Handed(out[i]) /\ out'[i] = out[i]
  BY <1>1 DEF TypeOK, Handed
<1>5. \A s : Of(s)' = Of(s)
  <2>1. \A i \in 1 .. main.taken : job'[out[i]] = job[out[i]]
    BY <1>4
  <2> QED BY <1>4, <2>1 DEF Of, Status
<1>6. \A s \in Statuses : tally'[s] = Cardinality(Of(s)')
  BY <1>5 DEF Tallied
<1>7. ASSUME NEW j \in Jobs, Handed(j)' PROVE (Status(j) \in {"BREAK", "SKIP"} \/ Ran(j))'
  <2>1. CASE Handed(j)
    BY <2>1, <1>2, <1>3 DEF Tallied
  <2> QED BY <1>7, <2>1
<1> QED BY <1>6, <1>7 DEF Tallied

\* A job is handed over with what becomes of it; no other job changes.
LEMMA GiveTallied ==
  ASSUME TypeOK, Accounted, Tallied, NEW w \in Workers, NEW g \in Jobs, g = worker[w].job,
         Give(w), main' = main, tally' = tally,
         \A j \in Jobs : j # g => job'[j] = job[j],
         (Status(g) \in {"BREAK", "SKIP"} \/ Ran(g))'
  PROVE  Tallied'
<1>1. ~Handed(g)
  BY DEF Accounted, Held
<1>2. /\ Len(out') = Len(out) + 1 /\ out'[Len(out) + 1] = g /\ Len(out) \in Nat
      /\ \A i \in 1 .. Len(out) : out'[i] = out[i]
  BY DEF Give, TypeOK
<1>3. \A j \in Jobs : Handed(j)' /\ ~Handed(j) => j = g
  BY <1>2 DEF Handed
<1>4. \A j \in Jobs : Handed(j) => job'[j] = job[j]
  BY <1>1
<1>5. \A j \in Jobs : Handed(j)' /\ ~Handed(j) => (Status(j) \in {"BREAK", "SKIP"} \/ Ran(j))'
  BY <1>3
<1> QED BY <1>2, <1>4, <1>5, StatusKept

LEMMA WorkTallied ==
  ASSUME TypeOK, Accounted, Tallied, NEW w \in Workers, Work(w) \/ Die(w)
  PROVE  Tallied'
<1>1. CASE Get(w) \/ Launch(w) \/ Die(w)
  <2>1. job' = job /\ out' = out /\ main' = main /\ tally' = tally
    BY <1>1 DEF Get, Launch, Die
  <2>2. \A j \in Jobs : Handed(j)' => Handed(j)
    BY <2>1 DEF Handed
  <2> QED BY <2>1, <2>2, StatusKept
<1>2. CASE HandBack(w)
  <2>1. PICK g \in Jobs : g = worker[w].job
    BY <1>2, WorkerType DEF HandBack
  <2>2. \A j \in Jobs : j # g => job'[j] = job[j]
    BY <1>2, <2>1 DEF HandBack, TypeOK
  <2>3. job'[g].is_break \/ g \in Skips
    BY <1>2, <2>1 DEF HandBack, TypeOK
  <2>4. Status(g)' \in {"BREAK", "SKIP"}
    BY <2>3 DEF Status
  <2> QED BY <1>2, <2>1, <2>2, <2>4, GiveTallied DEF HandBack
<1>3. CASE Finish(w)
  <2>1. PICK g \in Jobs : g = worker[w].job
    BY <1>3, WorkerType DEF Finish
  <2>2. PICK end \in Endings(g) : \E code \in ReturnCodes(end), file \in Files(g, end) :
          job' = [job EXCEPT ![g] = [is_break |-> FALSE, returncode |-> code, end |-> end, file |-> file]]
    BY <1>3, <2>1 DEF Finish
  <2>3. \A j \in Jobs : j # g => job'[j] = job[j]
    BY <2>2 DEF TypeOK
  <2>4. /\ job'[g].end \in Endings(g) /\ job'[g].returncode \in ReturnCodes(job'[g].end)
        /\ job'[g].file \in Files(g, job'[g].end)
    BY <2>1, <2>2 DEF TypeOK
  <2>5. Ran(g)'
    BY <2>4 DEF Ran
  <2> QED BY <1>3, <2>1, <2>3, <2>5, GiveTallied DEF Finish
<1> QED BY <1>1, <1>2, <1>3 DEF Work

\* The main thread counts the next job.
LEMMA CollectTallied ==
  ASSUME TypeOK, Accounted, Tallied, Collect
  PROVE  Tallied'
<1> DEFINE n == main.taken + 1
           j == out[n]
<1>1. /\ main.taken \in Nat /\ n \in 1 .. Len(out) /\ Len(out) \in Nat /\ j \in Jobs
      /\ main'.taken = n
  <2>1. main.taken \in Nat /\ Len(out) \in Nat /\ n \in 1 .. Len(out)
    BY DEF Collect, TypeOK
  <2>2. j \in Jobs
    BY <2>1 DEF TypeOK
  <2>3. main'.taken = n
    BY DEF Collect, TypeOK
  <2> QED BY <2>1, <2>2, <2>3
<1>2. job' = job /\ out' = out
  BY DEF Collect
<1>3. \A k \in Jobs : Handed(k) => (Status(k) \in {"BREAK", "SKIP"} \/ Ran(k))
  BY DEF Tallied
<1>4. \A s : Of(s)' = IF Status(j) = s THEN Of(s) \cup {n} ELSE Of(s)
  <2>1. \A s : Of(s)' = {i \in 1 .. n : Status(out[i]) = s}
    BY <1>1, <1>2 DEF Of, Status
  <2>2. 1 .. n = (1 .. main.taken) \cup {n}
    BY <1>1
  <2> HIDE DEF n, j
  <2>3. \A s : {i \in 1 .. n : Status(out[i]) = s}
                = Of(s) \cup {i \in {n} : Status(out[i]) = s}
    BY <2>2 DEF Of
  <2>4. \A s : {i \in {n} : Status(out[i]) = s} = IF Status(j) = s THEN {n} ELSE {}
    BY DEF j
  <2> QED BY <2>1, <2>3, <2>4
<1>5. \A s \in Statuses : n \notin Of(s) /\ IsFiniteSet(Of(s)) /\ Cardinality(Of(s)) \in Nat
  <2>1. \A s \in Statuses : /\ Of(s) \subseteq 1 .. main.taken
                            /\ IsFiniteSet(Of(s)) /\ Cardinality(Of(s)) \in Nat
    BY OfType
  <2>2. n \notin 1 .. main.taken
    BY <1>1
  <2> HIDE DEF n
  <2> QED BY <2>1, <2>2
<1>6. \A s \in Statuses : Cardinality(Of(s) \cup {n}) = Cardinality(Of(s)) + 1
  BY <1>5, FS_AddElement
<1>7. \A s \in Statuses : tally'[s] = IF Status(j) = s THEN tally[s] + 1 ELSE tally[s]
  <2>1. CASE job[j].is_break
    <3>1. tally' = tally /\ Status(j) \notin Statuses
      BY <2>1, <1>1, StatusType DEF Collect
    <3> QED BY <3>1
  <2>2. CASE ~job[j].is_break
    <3>1. tally' = Counted(j) /\ Status(j) \in Statuses
      BY <2>2, <1>1, StatusType DEF Collect
    <3> QED BY <3>1 DEF Counted, TypeOK
  <2> QED BY <2>1, <2>2
<1>8. \A s \in Statuses : tally'[s] = Cardinality(Of(s)')
  BY <1>4, <1>6, <1>7 DEF Tallied
<1>9. \A k \in Jobs : Handed(k)' => (Status(k) \in {"BREAK", "SKIP"} \/ Ran(k))'
  BY <1>2, <1>3 DEF Handed, Status, Ran
<1> QED BY <1>8, <1>9 DEF Tallied

\* The other steps of the main thread count nothing.
LEMMA QuietTallied ==
  ASSUME TypeOK, Tallied, UNCHANGED <<job, out, tally>>, main'.taken = main.taken
  PROVE  Tallied'
<1>1. \A s : Of(s)' = Of(s)
  BY DEF Of, Status
<1>2. \A s \in Statuses : tally'[s] = Cardinality(Of(s)')
  BY <1>1 DEF Tallied
<1>3. \A k \in Jobs : Handed(k)' => (Status(k) \in {"BREAK", "SKIP"} \/ Ran(k))'
  BY DEF Handed, Status, Ran, Tallied
<1> QED BY <1>2, <1>3 DEF Tallied

LEMMA NextTallied == TypeOK /\ Accounted /\ Tallied /\ [Next]_vars => Tallied'
<1> SUFFICES ASSUME TypeOK, Accounted, Tallied, [Next]_vars PROVE Tallied'
  OBVIOUS
<1>1. CASE Dispatch \/ Join \/ Return \/ Sigint \/ UNCHANGED vars
  <2>1. UNCHANGED <<job, out, tally>> /\ main'.taken = main.taken
    BY <1>1 DEF Dispatch, Join, Return, Sigint, vars, TypeOK
  <2> QED BY <2>1, QuietTallied
<1> QED BY <1>1, WorkTallied, CollectTallied DEF Next, Main

\* The return code is computed once, from the statistics of all tests.
LEMMA NextConcluded == TypeOK /\ Concluded /\ [Next]_vars => Concluded'
<1> SUFFICES ASSUME TypeOK, Concluded, [Next]_vars PROVE Concluded'
  OBVIOUS
<1>1. ASSUME NEW w \in Workers, Work(w) \/ Die(w) PROVE UNCHANGED <<main, tally, xml>>
  BY <1>1 DEF Work, Get, HandBack, Launch, Finish, Die
<1>2. CASE UNCHANGED <<main, tally, xml>>
  BY <1>2 DEF Concluded
<1>3. CASE Dispatch \/ Collect
  <2>1. CASE Dispatch
    BY <2>1 DEF Dispatch, Concluded, TypeOK
  <2>2. CASE Collect
    <3>1. main.pc = "collect" /\ main.taken < NumJobs /\ main.taken \in Nat
      BY <2>2 DEF Collect, TypeOK
    <3>2. ~xml.closed
      BY <3>1 DEF Concluded
    <3>3. xml'.closed = xml.closed /\ main'.pc \in {"collect", "raised"}
      BY <2>2, <3>1 DEF Collect, Recorded, TypeOK
    <3> QED BY <3>2, <3>3 DEF Concluded
  <2> QED BY <1>3, <2>1, <2>2
<1>4. CASE Join
  BY <1>4 DEF Join, Concluded, TypeOK
<1>5. CASE Return
  BY <1>5 DEF Return, Concluded, TypeOK
<1> QED BY <1>1, <1>2, <1>3, <1>4, <1>5 DEF Next, Main, Sigint, vars

-----------------------------------------------------------------------------
(* Theorems *)

\* No test is lost or counted twice: the inductive invariant of workers, queues
\* and statistics (worker_thread.run and the loop of run_tests).
THEOREM InvariantHolds == Spec => []IInv
<1>1. Init => IInv
  BY InitType, InitAccounted, InitTallied DEF IInv
<1>2. IInv /\ [Next]_vars => IInv'
  BY NextType, NextAccounted, NextTallied, NextConcluded DEF IInv
<1> QED BY <1>1, <1>2, PTL DEF Spec

\* When the main thread has taken as many jobs as there are, it has taken each.
LEMMA AllHanded ==
  ASSUME IInv, main.taken = NumJobs
  PROVE  \A j \in Jobs : Handed(j) /\ \E i \in Jobs : out[i] = j
<1> USE DEF IInv
<1> DEFINE f == [i \in Jobs |-> out[i]]
<1>1. IsFiniteSet(Jobs) /\ Cardinality(Jobs) = NumJobs
  BY FS_Interval DEF Jobs
<1>2. \A i \in Jobs : out[i] \in Jobs /\ i \in 1 .. Len(out)
  BY DEF Jobs, TypeOK
<1>3. f \in Injection(Jobs, Jobs)
  <2>1. f \in [Jobs -> Jobs]
    BY <1>2
  <2>2. \A a, b \in Jobs : f[a] = f[b] => a = b
    BY <1>2 DEF Accounted
  <2> QED BY <2>1, <2>2 DEF Injection, IsInjective
<1>4. f \in Surjection(Jobs, Jobs)
  BY <1>1, <1>3, FS_Injection
<1>5. \A j \in Jobs : \E i \in Jobs : f[i] = j
  BY <1>4 DEF Surjection
<1>6. \A j \in Jobs : \E i \in Jobs : out[i] = j
  BY <1>5
<1> QED BY <1>2, <1>6 DEF Handed

\* When all tests are collected the two statistics add up to their number only if
\* each test is among the ones or the others.
LEMMA AllCounted ==
  ASSUME IInv, main.taken = NumJobs
  PROVE  tally["PASS"] + tally["SKIP"] = NumJobs <=> \A j \in Jobs : Status(j) \in {"PASS", "SKIP"}
<1> USE DEF IInv
<1> DEFINE P == Of("PASS")
           S == Of("SKIP")
<1>1. IsFiniteSet(P) /\ IsFiniteSet(S) /\ P \subseteq Jobs /\ S \subseteq Jobs
  BY OfType DEF Jobs
<1>2. P \cap S = {}
  BY DEF Of
<1>3. Cardinality(P \cup S) = tally["PASS"] + tally["SKIP"] /\ IsFiniteSet(P \cup S)
  <2>1. tally["PASS"] = Cardinality(P) /\ tally["SKIP"] = Cardinality(S)
    BY DEF Tallied, Statuses
  <2>2. /\ IsFiniteSet(P \cup S)
        /\ Cardinality(P \cup S) = Cardinality(P) + Cardinality(S) - Cardinality(P \cap S)
    BY <1>1, FS_Union
  <2>3. Cardinality(P) \in Nat /\ Cardinality(S) \in Nat /\ Cardinality({}) = 0
    BY <1>1, FS_CardinalityType, FS_EmptySet
  <2> HIDE DEF P, S
  <2>4. Cardinality(P \cap S) = 0
    BY <1>2, <2>3
  <2> QED BY <2>1, <2>2, <2>3, <2>4
<1>4. IsFiniteSet(Jobs) /\ Cardinality(Jobs) = NumJobs
  BY FS_Interval DEF Jobs
<1>5. tally["PASS"] + tally["SKIP"] = NumJobs <=> P \cup S = Jobs
  BY <1>1, <1>3, <1>4, FS_Subset
<1>6. \A i \in Jobs : out[i] \in Jobs /\ (i \in P \cup S <=> Status(out[i]) \in {"PASS", "SKIP"})
  BY DEF Jobs, Of, TypeOK
<1>7. \A j \in Jobs : \E i \in Jobs : out[i] = j
  BY AllHanded
<1> HIDE DEF P, S
<1> QED BY <1>1, <1>5, <1>6, <1>7

\* A test that was run returns 0 only if its process has passed.
LEMMA PassHasPassed ==
  ASSUME TypeOK, NEW j \in Jobs, Status(j) = "PASS", Ran(j)
  PROVE  job[j].end = "pass"
<1>1. job[j].returncode = 0
  BY StatusType
<1> QED BY <1>1 DEF Ran, Endings, ReturnCodes, ExitCode

\* test.py reports success exactly if every test was run and has passed, or was to
\* be skipped, whatever is interrupted and however the threads interleave.
THEOREM SuccessIsHonest == Spec => []SuccessHonest
<1>1. IInv => SuccessHonest
  <2> SUFFICES ASSUME IInv, main.pc = "returned"
               PROVE  /\ main.result = 0 <=> \A j \in Jobs : \/ Status(j) = "SKIP"
                                                             \/ Status(j) = "PASS" /\ job[j].end = "pass"
                      /\ \A w \in Workers : worker[w].st # "died"
    BY DEF SuccessHonest
  <2>1. main.taken = NumJobs /\ (main.result = 0 <=> tally["PASS"] + tally["SKIP"] = NumJobs)
    BY DEF IInv, Concluded
  <2>2. main.result = 0 <=> \A j \in Jobs : Status(j) \in {"PASS", "SKIP"}
    BY <2>1, AllCounted
  <2>3. \A j \in Jobs : Handed(j)
    BY <2>1, AllHanded
  <2>4. \A j \in Jobs : Status(j) = "PASS" => job[j].end = "pass"
    BY <2>3, PassHasPassed DEF IInv, Tallied
  <2>5. ASSUME NEW w \in Workers, worker[w].st = "died" PROVE FALSE
    <3>1. worker[w].job \in Jobs
      BY <2>5, WorkerType DEF IInv
    <3>2. Held(worker[w].job) /\ Handed(worker[w].job)
      BY <2>3, <3>1 DEF Held
    <3> QED BY <3>1, <3>2 DEF IInv, Accounted
  <2> QED BY <2>2, <2>4, <2>5
<1> QED BY <1>1, InvariantHolds, PTL
-----------------------------------------------------------------------------
(* The document *)

\* The job has been taken from output_queue.
Taken(j) == \E k \in 1 .. main.taken : out[k] = j

\* It has an entry in results.xml, and which.
Written(j) == ~job[j].is_break /\ (Copied(j) => job[j].file = "whole")
Value(j) == IF Copied(j) THEN Verdict(j) ELSE Status(j)

\* It makes the document ill-formed, or its file is missing.
Spoils(j) == ~job[j].is_break /\ (IllFormed(j) \/ (Copied(j) /\ job[j].file = "none"))

\* The entries of results.xml are those of the tests that were taken, one for each, and
\* one of these tests is to blame if the document is ill-formed or test.py has raised.
Reported ==
  /\ \A i \in 1 .. Len(xml.entries) :
       LET j == xml.entries[i][1] IN Taken(j) /\ Written(j) /\ xml.entries[i][2] = Value(j)
  /\ \A j \in Jobs : Taken(j) /\ Written(j) => Entries(j) # {}
  /\ \A i, k \in 1 .. Len(xml.entries) : xml.entries[i][1] = xml.entries[k][1] => i = k
  /\ xml.illFormed \/ main.pc = "raised" => \E j \in Jobs : Taken(j) /\ Spoils(j)

\* What a job adds to the document.
LEMMA EntryForm ==
  ASSUME NEW j \in Jobs, ~job[j].is_break
  PROVE  Entry(j) = IF Written(j) THEN << <<j, Value(j)>> >> ELSE << >>
BY DEF Entry, Written, Value

\* A job that was taken is in the queue, and is no longer in the hands of a worker.
LEMMA TakenHanded ==
  ASSUME TypeOK, NEW j, Taken(j)
  PROVE  j \in Jobs /\ Handed(j)
<1>1. main.taken \in Nat /\ Len(out) \in Nat /\ main.taken <= Len(out)
  BY DEF TypeOK
<1> QED BY <1>1 DEF Taken, Handed, TypeOK

\* Steps that take nothing from the queue and change no job in it.
LEMMA KeptReported ==
  ASSUME TypeOK, Reported, xml'.entries = xml.entries, xml'.illFormed = xml.illFormed,
         main'.taken = main.taken, main'.pc = "raised" => main.pc = "raised" \/ xml.illFormed,
         \A i \in 1 .. Len(out) : out'[i] = out[i],
         \A j \in Jobs : Handed(j) => job'[j] = job[j]
  PROVE  Reported'
<1>1. main.taken \in Nat /\ Len(out) \in Nat /\ main.taken <= Len(out)
  BY DEF TypeOK
<1>2. \A j : Taken(j)' <=> Taken(j)
  BY <1>1 DEF Taken
<1>3. \A j : Taken(j) => job'[j] = job[j]
  BY TakenHanded
<1>4. \A j : Taken(j) => (Written(j)' <=> Written(j)) /\ Value(j)' = Value(j)
  BY <1>3 DEF Written, Value, Copied, Verdict, Status
<1>5. \A j : Entries(j)' = Entries(j)
  BY DEF Entries
<1>6. \A i \in 1 .. Len(xml'.entries) :
        \A j : xml'.entries[i][1] = j => Taken(j)' /\ Written(j)' /\ xml'.entries[i][2] = Value(j)'
  BY <1>2, <1>4 DEF Reported
<1>7. \A j \in Jobs : Taken(j)' /\ Written(j)' => Entries(j)' # {}
  BY <1>2, <1>4, <1>5 DEF Reported
<1>8. \A i, k \in 1 .. Len(xml'.entries) : xml'.entries[i][1] = xml'.entries[k][1] => i = k
  BY DEF Reported
<1>9. xml'.illFormed \/ main'.pc = "raised" => \E j \in Jobs : Taken(j)' /\ Spoils(j)'
  <2>1. \A j : Taken(j) => (Spoils(j)' <=> Spoils(j))
    BY <1>3 DEF Spoils, IllFormed, Copied, Status
  <2> QED BY <1>2, <2>1 DEF Reported
<1> QED BY <1>6, <1>7, <1>8, <1>9 DEF Reported

\* The main thread takes the next job and writes its entry.
LEMMA CollectReported ==
  ASSUME TypeOK, Accounted, Reported, Collect
  PROVE  Reported'
<1> DEFINE n == main.taken + 1
           old == xml.entries
           new == xml'.entries
<1>0. PICK g : g = out[n]
  OBVIOUS
<1>1. /\ main.taken \in Nat /\ n \in 1 .. Len(out) /\ g \in Jobs /\ main'.taken = n
      /\ job' = job /\ out' = out
  <2>1. main.taken \in Nat /\ Len(out) \in Nat /\ n \in 1 .. Len(out)
    BY DEF Collect, TypeOK
  <2>2. g \in Jobs
    BY <1>0, <2>1 DEF TypeOK
  <2>3. main'.taken = n /\ job' = job /\ out' = out
    BY DEF Collect, TypeOK
  <2> QED BY <2>1, <2>2, <2>3
<1>2. \A j : Taken(j)' <=> Taken(j) \/ j = g
  BY <1>0, <1>1 DEF Taken
<1>3. ~Taken(g)
  <2>1. \A k \in 1 .. main.taken : k \in 1 .. Len(out) /\ k # n
    BY <1>1 DEF TypeOK
  <2> QED BY <1>0, <1>1, <2>1 DEF Taken, Accounted
<1>4. \A j : (Written(j)' <=> Written(j)) /\ Value(j)' = Value(j)
  BY <1>1 DEF Written, Value, Copied, Verdict, Status
<1>5. new = IF Written(g) THEN Append(old, <<g, Value(g)>>) ELSE old
  <2>1. old \in Seq(Jobs \X Statuses)
    BY DEF TypeOK
  <2>2. CASE job[g].is_break
    BY <1>0, <2>2 DEF Collect, Written
  <2>3. CASE ~job[g].is_break
    <3>1. Entry(g) = IF Written(g) THEN << <<g, Value(g)>> >> ELSE << >>
      BY <1>1, <2>3, EntryForm
    <3>2. CASE Copied(g) /\ job[g].file = "none"
      BY <1>0, <2>3, <3>2 DEF Collect, Written
    <3>3. CASE ~(Copied(g) /\ job[g].file = "none")
      <4>1. new = old \o Entry(g)
        BY <1>0, <2>3, <3>3 DEF Collect, Recorded, TypeOK
      <4>2. old \o << >> = old
        BY <2>1
      <4>3. old \o << <<g, Value(g)>> >> = Append(old, <<g, Value(g)>>)
        BY <2>1
      <4> QED BY <3>1, <4>1, <4>2, <4>3
    <3> QED BY <3>2, <3>3
  <2> QED BY <2>2, <2>3
<1>6. \A i \in 1 .. Len(old) : old[i][1] # g
  BY <1>3 DEF Reported
<1>9. xml'.illFormed \/ main'.pc = "raised" => \E j \in Jobs : Taken(j)' /\ Spoils(j)'
  <2>1. \A j : Spoils(j)' <=> Spoils(j)
    BY <1>1 DEF Spoils, IllFormed, Copied, Status
  <2>2. xml'.illFormed \/ main'.pc = "raised" => xml.illFormed \/ Spoils(g)
    BY <1>0 DEF Collect, Recorded, Spoils, TypeOK
  <2> QED BY <1>1, <1>2, <2>1, <2>2 DEF Reported
<1>7. CASE ~Written(g)
  <2>1. new = old
    BY <1>5, <1>7
  <2>2. \A j : Entries(j)' = Entries(j)
    BY <2>1 DEF Entries
  <2> QED BY <1>2, <1>4, <1>7, <1>9, <2>1, <2>2 DEF Reported
<1>8. CASE Written(g)
  <2>1. /\ Len(old) \in Nat /\ Len(new) = Len(old) + 1 /\ new[Len(old) + 1] = <<g, Value(g)>>
        /\ \A i \in 1 .. Len(old) : new[i] = old[i]
    BY <1>5, <1>8 DEF TypeOK
  <2>2. \A i \in 1 .. Len(new) : i \in 1 .. Len(old) \/ i = Len(old) + 1
    BY <2>1
  <2> HIDE DEF old, new, n
  <2>3. \A i \in 1 .. Len(new) : \A j :
          new[i][1] = j => Taken(j)' /\ Written(j)' /\ new[i][2] = Value(j)'
    <3>1. \A i \in 1 .. Len(old) : \A j :
            old[i][1] = j => Taken(j) /\ Written(j) /\ old[i][2] = Value(j)
      BY DEF Reported, old
    <3>2. ASSUME NEW i \in 1 .. Len(old), NEW j, new[i][1] = j
          PROVE  Taken(j)' /\ Written(j)' /\ new[i][2] = Value(j)'
      <4>1. new[i] = old[i]
        BY <2>1
      <4>2. Taken(j) /\ Written(j) /\ new[i][2] = Value(j)
        BY <3>1, <3>2, <4>1
      <4> QED BY <1>2, <1>4, <4>2
    <3>3. new[Len(old) + 1][1] = g /\ Taken(g)' /\ Written(g)' /\ new[Len(old) + 1][2] = Value(g)'
      BY <1>2, <1>4, <1>8, <2>1
    <3> QED BY <2>2, <3>2, <3>3
  <2>4. \A j \in Jobs : Taken(j)' /\ Written(j)' => Entries(j)' # {}
    <3>1. ASSUME NEW j \in Jobs, Taken(j), Written(j) PROVE Entries(j)' # {}
      <4>1. PICK i \in 1 .. Len(old) : old[i][1] = j
        BY <3>1 DEF Reported, Entries, old
      <4>2. i \in 1 .. Len(new) /\ new[i][1] = j
        BY <2>1, <4>1
      <4> QED BY <4>2 DEF Entries, new
    <3>2. Entries(g)' # {}
      <4>1. Len(old) + 1 \in 1 .. Len(new) /\ new[Len(old) + 1][1] = g
        BY <2>1
      <4> QED BY <4>1 DEF Entries, new
    <3> QED BY <1>2, <1>4, <3>1, <3>2
  <2>5. \A i, k \in 1 .. Len(new) : new[i][1] = new[k][1] => i = k
    <3>1. \A i, k \in 1 .. Len(old) : old[i][1] = old[k][1] => i = k
      BY DEF Reported, old
    <3> QED BY <1>6, <2>1, <2>2, <3>1
  <2> QED BY <1>9, <2>3, <2>4, <2>5 DEF Reported, new
<1> QED BY <1>7, <1>8

LEMMA NextReported == TypeOK /\ Accounted /\ Reported /\ [Next]_vars => Reported'
<1> SUFFICES ASSUME TypeOK, Accounted, Reported, [Next]_vars PROVE Reported'
  OBVIOUS
<1>1. CASE Dispatch \/ Join \/ Return \/ Sigint \/ UNCHANGED vars
  <2>1. /\ job' = job /\ out' = out /\ main'.taken = main.taken
        /\ xml'.entries = xml.entries /\ xml'.illFormed = xml.illFormed
        /\ main'.pc = "raised" => main.pc = "raised" \/ xml.illFormed
    BY <1>1 DEF Dispatch, Join, Return, Sigint, vars, TypeOK
  <2> QED BY <2>1, KeptReported
<1>2. ASSUME NEW w \in Workers, Get(w) \/ Launch(w) \/ Die(w) PROVE Reported'
  BY <1>2, KeptReported DEF Get, Launch, Die
<1>3. ASSUME NEW w \in Workers, HandBack(w) \/ Finish(w) PROVE Reported'
  <2>1. PICK g \in Jobs : g = worker[w].job
    BY <1>3, WorkerType DEF HandBack, Finish
  <2>2. \A j \in Jobs : j # g => job'[j] = job[j]
    BY <1>3, <2>1 DEF HandBack, Finish, TypeOK
  <2>3. ~Handed(g)
    BY <2>1 DEF Accounted, Held
  <2>4. \A i \in 1 .. Len(out) : out'[i] = out[i]
    BY <1>3, <2>1 DEF HandBack, Finish, Give, TypeOK
  <2>5. main' = main /\ xml' = xml
    BY <1>3 DEF HandBack, Finish
  <2>6. \A j \in Jobs : Handed(j) => job'[j] = job[j]
    BY <2>2, <2>3
  <2> QED BY <2>4, <2>5, <2>6, KeptReported
<1> QED BY <1>1, <1>2, <1>3, CollectReported DEF Next, Main, Work

\* What is written of a test that was taken.
LEMMA WrittenValue ==
  ASSUME TypeOK, Tallied, NEW j \in Jobs, Handed(j)
  PROVE  /\ Status(j) = "BREAK" => ~Written(j)
         /\ Status(j) # "BREAK" /\ ~OwnWord(j) => Written(j) /\ Value(j) = Status(j)
         /\ OwnWord(j) /\ job[j].end = "crash" => ~Written(j)
         /\ OwnWord(j) /\ job[j].end # "crash" => Written(j) /\ Value(j) = Verdict(j)
<1>1. /\ Status(j) \in {"BREAK", "SKIP"} \/ Ran(j)
      /\ job[j].returncode \in {0, 1, 2, 3}
  BY DEF Tallied, TypeOK, JobStates
<1>2. ASSUME Status(j) = "BREAK" PROVE ~Written(j)
  BY <1>2, StatusType DEF Written, Statuses
<1>3. ASSUME Status(j) # "BREAK", ~OwnWord(j) PROVE Written(j) /\ Value(j) = Status(j)
  <2>1. ~job[j].is_break
    BY <1>3 DEF Status
  <2>2. ASSUME Copied(j) PROVE job[j].file = "whole" /\ Verdict(j) = Status(j)
    <3>1. Status(j) = "PASS"
      BY <1>1, <1>3, <2>1, <2>2 DEF Copied, OwnWord, Status
    <3>2. Ran(j) /\ job[j].end = "pass"
      BY <1>1, <3>1, PassHasPassed
    <3> QED BY <2>2, <3>1, <3>2 DEF Ran, Files, Copied, Verdict
  <2> QED BY <2>1, <2>2 DEF Written, Value
<1>4. ASSUME OwnWord(j) PROVE Copied(j) /\ ~job[j].is_break /\ Ran(j) /\ j \in Suites
  BY <1>1, <1>4 DEF OwnWord, Copied, Status
<1>5. ASSUME OwnWord(j), job[j].end = "crash" PROVE ~Written(j)
  BY <1>4, <1>5 DEF Ran, Files, Written
<1>6. ASSUME OwnWord(j), job[j].end # "crash" PROVE Written(j) /\ Value(j) = Verdict(j)
  BY <1>4, <1>6 DEF Ran, Files, Written, Value
<1> QED BY <1>2, <1>3, <1>5, <1>6

\* Only a suite that has crashed does so.
LEMMA SpoilsCrashed ==
  ASSUME TypeOK, Tallied, NEW j \in Jobs, Handed(j), Spoils(j)
  PROVE  j \in Suites /\ job[j].end = "crash"
<1>1. /\ Status(j) \in {"BREAK", "SKIP"} \/ Ran(j)
      /\ ~job[j].is_break /\ job[j].returncode \in {0, 1, 2, 3}
      /\ job[j].file \in {"torn", "none"} => j \notin Suites \ Skips \/ Ran(j)
  BY DEF Tallied, TypeOK, JobStates, Spoils, Status
<1>2. CASE Copied(j) /\ job[j].file \in {"torn", "none"}
  <2>1. j \in Suites /\ Ran(j)
    BY <1>1, <1>2 DEF Copied
  <2> QED BY <1>2, <2>1 DEF Ran, Files
<1>3. CASE j \in Suites /\ Status(j) = "CRASH"
  <2>1. Ran(j) /\ job[j].returncode = 3
    BY <1>1, <1>3 DEF Status
  <2>2. job[j].end \in {"pass", "fail", "crash", "passBad", "failBad"}
    BY <2>1 DEF Ran, Endings
  <2> QED BY <1>3, <2>1, <2>2 DEF Ran, ReturnCodes, ExitCode
<1> QED BY <1>2, <1>3 DEF Spoils, IllFormed

\* Once results.xml is closed it has one entry for each test that was not interrupted,
\* with the result that was counted, but for the suites of which it has their own word
\* only, whatever is interrupted and in whatever order the workers hand the tests
\* back (run_tests, test.py).
THEOREM ReportIsHonest == Spec => []ReportHonest
<1>1. Init => Reported
  <2> SUFFICES ASSUME Init PROVE Reported
    OBVIOUS
  <2>1. Len(xml.entries) = 0 /\ main.taken = 0 /\ ~xml.illFormed /\ main.pc = "dispatch"
    BY DEF Init
  <2>2. \A j : ~Taken(j)
    BY <2>1 DEF Taken
  <2> QED BY <2>1, <2>2 DEF Reported
<1>2. IInv /\ Reported /\ [Next]_vars => Reported'
  BY NextReported DEF IInv
<1>3. IInv /\ Reported => ReportHonest
  <2> SUFFICES ASSUME IInv, Reported PROVE ReportHonest
    OBVIOUS
  <2>1. xml.closed => main.taken = NumJobs
    BY DEF IInv, Concluded
  <2>2. xml.closed => \A j \in Jobs : Handed(j) /\ Taken(j)
    BY <2>1, AllHanded DEF Taken, Jobs
  <2>3. ASSUME NEW j \in Jobs, ~Written(j) PROVE Cardinality(Entries(j)) <= 1 /\ Results(j) = {}
    <3>1. Entries(j) = {}
      BY <2>3 DEF Entries, Reported
    <3> QED BY <3>1, FS_EmptySet DEF Results
  <2>4. ASSUME xml.closed, NEW j \in Jobs, Written(j) PROVE Cardinality(Entries(j)) <= 1 /\ Results(j) = {Value(j)}
    <3>1. PICK i : i \in Entries(j)
      BY <2>2, <2>4 DEF Reported
    <3>2. Entries(j) = {i}
      BY <3>1 DEF Entries, Reported
    <3>3. xml.entries[i][2] = Value(j)
      BY <3>1 DEF Entries, Reported
    <3>4. Results(j) = {Value(j)}
      BY <3>2, <3>3 DEF Results
    <3> QED BY <3>2, <3>4, FS_Singleton
  <2>5. ASSUME xml.closed, NEW j \in Jobs
        PROVE  /\ Cardinality(Entries(j)) <= 1
               /\ Status(j) = "BREAK" => Results(j) = {}
               /\ Status(j) # "BREAK" /\ ~OwnWord(j) => Results(j) = {Status(j)}
               /\ OwnWord(j) => Results(j) = IF job[j].end = "crash" THEN {} ELSE {Verdict(j)}
    <3>1. /\ Status(j) = "BREAK" => ~Written(j)
          /\ Status(j) # "BREAK" /\ ~OwnWord(j) => Written(j) /\ Value(j) = Status(j)
          /\ OwnWord(j) /\ job[j].end = "crash" => ~Written(j)
          /\ OwnWord(j) /\ job[j].end # "crash" => Written(j) /\ Value(j) = Verdict(j)
      BY <2>2, <2>5, WrittenValue DEF IInv
    <3> QED BY <2>3, <2>4, <2>5, <3>1
  <2>6. xml.illFormed \/ main.pc = "raised" => \E j \in Suites : job[j].end = "crash"
    BY TakenHanded, SpoilsCrashed DEF IInv, Reported
  <2> QED BY <2>5, <2>6 DEF ReportHonest
<1> QED BY <1>1, <1>2, <1>3, InvariantHolds, PTL DEF Spec
=============================================================================
