----------------------------- MODULE TestRunner -----------------------------
(***************************************************************************)
(* The test driver of ns-3: run_tests of test.py, whose main thread hands  *)
(* jobs to one worker thread per processor through input_queue, collects   *)
(* them from output_queue, and merges their results into results.xml and a *)
(* return code.  Control-C sets thread_exit (sigint_hook).                 *)
(*                                                                         *)
(* The main thread alone puts to input_queue and alone takes from          *)
(* output_queue, so a queue is what was ever put to it and how much of it  *)
(* has been taken.  The objects of input_queue are 1 .. NumJobs, the tests *)
(* in the order of dispatch, and after them a break job for each worker.   *)
(***************************************************************************)
EXTENDS Integers, FiniteSets, Sequences

CONSTANTS
  NumJobs,    \* tests that are dispatched: total_tests
  Suites,     \* those that are test suites; the others are examples
  Skips,      \* those with is_skip
  Workers,    \* the worker threads
  Valgrind,   \* options.valgrind
  Translate,  \* is options.html or options.text given?
  MaxDied     \* bound: workers whose Popen raises an exception

Jobs == 1 .. NumJobs

ASSUME JobsAssumption ==
  /\ NumJobs \in Nat /\ MaxDied \in Nat
  /\ Suites \subseteq Jobs /\ Skips \subseteq Jobs
  /\ Valgrind \in BOOLEAN /\ Translate \in BOOLEAN
ASSUME WorkersAssumption == IsFiniteSet(Workers) /\ Workers # {}

VARIABLES
  put,          \* objects that were put to input_queue
  got,          \* and those that were taken
  worker,       \* where a worker is in run, and the job it has (0 if none)
  job,          \* is_break and returncode of a Job; how its process ended, and the
                \* state of the file tmp_file_name then
  out,          \* the jobs that were put to output_queue
  thread_exit,
  main,         \* where the main thread is, and the jobs it has taken from output_queue
  tally,        \* passed_tests, failed_tests, valgrind_errors, crashed_tests, skipped_tests
  xml           \* results.xml: its entries, whether it is ill-formed, and closed

vars == <<put, got, worker, job, out, thread_exit, main, tally, xml>>

Total == NumJobs + Cardinality(Workers)

-----------------------------------------------------------------------------
(* The worker threads *)

Hold(w, st, j) == worker' = [worker EXCEPT ![w] = [st |-> st, job |-> j]]

Give(w) ==
  /\ out' = Append(out, worker[w].job)
  /\ Hold(w, "idle", 0)

\* input_queue.get: a break job ends the thread.
Get(w) ==
  /\ worker[w].st = "idle" /\ got < put
  /\ got' = got + 1
  /\ IF got' > NumJobs THEN Hold(w, "exited", 0) ELSE Hold(w, "got", got')
  /\ UNCHANGED <<put, job, out, thread_exit, main, tally, xml>>

(* Mutant of HandBack: an interrupted job is handed back as one that was skipped. *)
HandBackAsIs(w) ==
  /\ worker[w].st = "got" /\ (thread_exit \/ worker[w].job \in Skips)
  /\ job' = IF thread_exit THEN [job EXCEPT ![worker[w].job].returncode = 0] ELSE job
  /\ Give(w)
  /\ UNCHANGED <<put, got, thread_exit, main, tally, xml>>

(* Mutant of HandBack: an interrupted worker forgets its job. *)
HandBackNothing(w) ==
  /\ worker[w].st = "got" /\ (thread_exit \/ worker[w].job \in Skips)
  /\ IF thread_exit THEN Hold(w, "idle", 0) /\ UNCHANGED out ELSE Give(w)
  /\ UNCHANGED <<put, got, job, thread_exit, main, tally, xml>>

\* After an interrupt, and for a test to be skipped, no process is started.
HandBack(w) ==
  /\ worker[w].st = "got" /\ (thread_exit \/ worker[w].job \in Skips)
  /\ job' = IF thread_exit THEN [job EXCEPT ![worker[w].job].is_break = TRUE] ELSE job
  /\ Give(w)
  /\ UNCHANGED <<put, got, thread_exit, main, tally, xml>>

\* The last look at thread_exit; an interrupt may come at once after it.
Launch(w) ==
  /\ worker[w].st = "got" /\ ~thread_exit /\ worker[w].job \notin Skips
  /\ Hold(w, "running", worker[w].job)
  /\ UNCHANGED <<put, got, job, out, thread_exit, main, tally, xml>>

\* How the process of a job may end; if valgrind sees errors, whatever the test
\* says, its exit code is 2, as that of an example may be.
Endings(j) ==
  {"pass", "fail", "crash"} \cup IF Valgrind \/ j \notin Suites THEN {"passBad", "failBad"} ELSE {}
ExitCode(end) ==
  CASE end = "pass" -> 0 [] end = "fail" -> 1 [] end \in {"passBad", "failBad"} -> 2 [] OTHER -> 3

\* Only a suite that runs to its end leaves a whole file (TestRunnerImpl::Run).
Files(j, end) ==
  IF j \notin Suites THEN {"none"}
  ELSE IF end = "crash" THEN {"none", "empty", "torn"} ELSE {"whole"}

\* What run_job_synchronously returns: 1 if the output cannot be decoded, and 2
\* if valgrind reports a leak and nothing else is wrong.
ReturnCodes(end) ==
  {1, ExitCode(end)} \cup IF Valgrind /\ end = "pass" THEN {2} ELSE {}

\* The process ends and its worker hands the job over.
Finish(w) ==
  LET j == worker[w].job IN
  /\ worker[w].st = "running"
  /\ \E end \in Endings(j) : \E code \in ReturnCodes(end), file \in Files(j, end) :
       job' = [job EXCEPT ![j] = [is_break |-> FALSE, returncode |-> code, end |-> end, file |-> file]]
  /\ Give(w)
  /\ UNCHANGED <<put, got, thread_exit, main, tally, xml>>

\* Popen raises an exception, which ends the thread: its job is lost.
Die(w) ==
  /\ worker[w].st = "running"
  /\ Cardinality({v \in Workers : worker[v].st = "died"}) < MaxDied
  /\ Hold(w, "died", worker[w].job)
  /\ UNCHANGED <<put, got, job, out, thread_exit, main, tally, xml>>

Work(w) == Get(w) \/ HandBack(w) \/ Launch(w) \/ Finish(w)

-----------------------------------------------------------------------------
(* The main thread *)

\* sigint_hook, which runs in the main thread.
Sigint ==
  /\ ~thread_exit /\ main.pc # "returned"
  /\ thread_exit' = TRUE
  /\ UNCHANGED <<put, got, worker, job, out, main, tally, xml>>

(* Mutant of Dispatch: one break job too few. *)
DispatchOneLess ==
  /\ main.pc = "dispatch"
  /\ put' = put + 1
  /\ main' = [main EXCEPT !.pc = IF put' = Total - 1 THEN "collect" ELSE @]
  /\ UNCHANGED <<got, worker, job, out, thread_exit, tally, xml>>

\* input_queue.put, first of the tests, then of a break job for each thread.
Dispatch ==
  /\ main.pc = "dispatch"
  /\ put' = put + 1
  /\ main' = [main EXCEPT !.pc = IF put' = Total THEN "collect" ELSE @]
  /\ UNCHANGED <<got, worker, job, out, thread_exit, tally, xml>>

Status(j) ==
  IF job[j].is_break THEN "BREAK"
  ELSE IF j \in Skips THEN "SKIP"
  ELSE << "PASS", "FAIL", "VALGR", "CRASH" >>[job[j].returncode + 1]

\* What a suite has written itself.
Verdict(j) == IF job[j].end \in {"pass", "passBad"} THEN "PASS" ELSE "FAIL"

\* Is the temporary file of a suite copied to results.xml?
Copied(j) == j \in Suites \ Skips /\ job[j].returncode \in {0, 1, 2}

\* The entry of a job, if there is one.
Entry(j) ==
  IF ~Copied(j) THEN << <<j, Status(j)>> >>
  ELSE IF job[j].file = "whole" THEN << <<j, Verdict(j)>> >> ELSE << >>

\* A torn file is copied as it is; a CRASH entry ends with the wrong tag.
IllFormed(j) ==
  \/ Copied(j) /\ job[j].file = "torn"
  \/ j \in Suites /\ Status(j) = "CRASH"

(* Mutant of Recorded: what is not copied is forgotten. *)
RecordedIfCopied(j) ==
  [xml EXCEPT !.entries = IF Copied(j) THEN @ \o Entry(j) ELSE @, !.illFormed = @ \/ IllFormed(j)]

Recorded(j) == [xml EXCEPT !.entries = @ \o Entry(j), !.illFormed = @ \/ IllFormed(j)]

Counted(j) == [tally EXCEPT ![Status(j)] = @ + 1]

\* output_queue.get, the summary statistics and results.xml.  The temporary file
\* that is to be copied may not exist.
Collect ==
  /\ main.pc = "collect" /\ main.taken < NumJobs /\ main.taken < Len(out)
  /\ LET j == out[main.taken + 1] IN
     IF job[j].is_break
       THEN main' = [main EXCEPT !.taken = @ + 1] /\ UNCHANGED <<tally, xml>>
       ELSE /\ tally' = Counted(j)
            /\ IF Copied(j) /\ job[j].file = "none"
                 THEN main' = [main EXCEPT !.taken = @ + 1, !.pc = "raised"] /\ UNCHANGED xml
                 ELSE main' = [main EXCEPT !.taken = @ + 1] /\ xml' = Recorded(j)
  /\ UNCHANGED <<put, got, worker, job, out, thread_exit>>

Over(w) == worker[w].st \in {"exited", "died"}

\* The threads are joined and the XML document is closed.
Join ==
  /\ main.pc = "collect" /\ main.taken = NumJobs
  /\ \A w \in Workers : Over(w)
  /\ xml' = [xml EXCEPT !.closed = TRUE]
  /\ main' = [main EXCEPT !.pc = "report"]
  /\ UNCHANGED <<put, got, worker, job, out, thread_exit, tally>>

\* translate_to_html and translate_to_text, which parse the document; then the
\* output directory is removed and the result returned.
Return ==
  /\ main.pc = "report"
  /\ main' = IF Translate /\ xml.illFormed THEN [main EXCEPT !.pc = "raised"]
             ELSE [main EXCEPT !.pc = "returned",
                               !.result = IF tally["PASS"] + tally["SKIP"] = NumJobs THEN 0 ELSE 1]
  /\ UNCHANGED <<put, got, worker, job, out, thread_exit, tally, xml>>

-----------------------------------------------------------------------------
Statuses == {"PASS", "FAIL", "VALGR", "CRASH", "SKIP"}

Init ==
  /\ put = 0 /\ got = 0 /\ out = << >> /\ thread_exit = FALSE
  /\ worker = [w \in Workers |-> [st |-> "idle", job |-> 0]]
  /\ job = [j \in Jobs |-> [is_break |-> FALSE, returncode |-> 0, end |-> "none", file |-> "none"]]
  /\ main = [pc |-> "dispatch", taken |-> 0, result |-> 1]
  /\ tally = [s \in Statuses |-> 0]
  /\ xml = [entries |-> << >>, illFormed |-> FALSE, closed |-> FALSE]

Main == Dispatch \/ Collect \/ Join \/ Return

Next ==
  \/ Main \/ Sigint
  \/ \E w \in Workers : Work(w) \/ Die(w)

Spec == Init /\ [][Next]_vars

\* The threads run, and every process that is started ends.
FairSpec == Spec /\ WF_vars(Main) /\ \A w \in Workers : WF_vars(Work(w))

-----------------------------------------------------------------------------
(* Properties *)

Running == [st : {"idle", "exited"}, job : {0}] \cup [st : {"got", "running", "died"}, job : Jobs]
JobStates == [is_break : BOOLEAN, returncode : 0 .. 3,
              end : {"none", "pass", "fail", "crash", "passBad", "failBad"},
              file : {"none", "empty", "torn", "whole"}]

\* Types.
TypeOK ==
  /\ put \in 0 .. Total /\ got \in 0 .. put
  /\ worker \in [Workers -> Running]
  /\ job \in [Jobs -> JobStates]
  /\ out \in Seq(Jobs)
  /\ thread_exit \in BOOLEAN
  /\ main \in [pc : {"dispatch", "collect", "report", "returned", "raised"},
                taken : 0 .. NumJobs, result : {0, 1}]
  /\ main.pc = "dispatch" <=> put < Total
  /\ main.taken <= Len(out)
  /\ tally \in [Statuses -> Nat]
  /\ xml \in [entries : Seq(Jobs \X Statuses), illFormed : BOOLEAN, closed : BOOLEAN]

Held(j) == \E w \in Workers : worker[w].job = j
Handed(j) == \E i \in 1 .. Len(out) : out[i] = j

\* A test that was taken from input_queue is with one worker, which may have died
\* with it, or was put to output_queue once; a worker ends only when none is left
\* to be taken.
Accounted ==
  /\ \A j \in Jobs : Held(j) \/ Handed(j) <=> j <= got
  /\ \A j \in Jobs : ~(Held(j) /\ Handed(j))
  /\ \A v, w \in Workers : v # w /\ worker[v].job = worker[w].job => worker[v].job = 0
  /\ \A i, k \in 1 .. Len(out) : out[i] = out[k] => i = k
  /\ \A w \in Workers : worker[w].st = "exited" => got > NumJobs

\* What has come out of the queue with a status.
Of(s) == {i \in 1 .. main.taken : Status(out[i]) = s}

\* The process of the job has ended, and the job says how.
Ran(j) ==
  /\ job[j].end \in Endings(j) /\ job[j].returncode \in ReturnCodes(job[j].end)
  /\ job[j].file \in Files(j, job[j].end)

\* The statistics are those of the tests taken from output_queue, and a test is
\* handed over with a result of its own only if it was run.
Tallied ==
  /\ \A s \in Statuses : tally[s] = Cardinality(Of(s))
  /\ \A j \in Jobs : Handed(j) => Status(j) \in {"BREAK", "SKIP"} \/ Ran(j)

\* run_tests closes the document and goes on when all tests are collected, and returns
\* what they add up to.
Concluded ==
  /\ main.pc \in {"report", "returned"} \/ xml.closed => main.taken = NumJobs
  /\ main.pc = "returned" => (main.result = 0 <=> tally["PASS"] + tally["SKIP"] = NumJobs)

\* The inductive invariant.
IInv == TypeOK /\ Accounted /\ Tallied /\ Concluded

\* test.py reports success if, and only if, every test was run and has passed, or
\* was to be skipped: a job that an interrupt hands back, or that was not run to
\* its end, is never taken for a success, and nothing is reported at all if a test
\* was lost with its worker.
SuccessHonest ==
  main.pc = "returned" =>
    /\ main.result = 0 <=> \A j \in Jobs : Status(j) = "SKIP" \/ (Status(j) = "PASS" /\ job[j].end = "pass")
    /\ \A w \in Workers : worker[w].st # "died"

Entries(j) == {i \in 1 .. Len(xml.entries) : xml.entries[i][1] = j}

Results(j) == {xml.entries[i][2] : i \in Entries(j)}

\* The suites of which the document has only what they have written themselves: it
\* shows neither that valgrind has found errors nor that the output of a suite
\* could not be decoded (the comment at test.py:1743 promises a VALGR entry).
OwnWord(j) == j \in Suites /\ Status(j) \in {"FAIL", "VALGR"}

\* The document that test.py closes, whether it can be parsed then or not, has one
\* entry for each test, with the result that was counted, and none for a test that
\* was interrupted.  Of the suites above it has the verdict of the suite alone, and
\* nothing if the suite has crashed.  Only a crash of a suite makes it ill-formed, or
\* ends test.py with an exception.
ReportHonest ==
  /\ xml.closed =>
       \A j \in Jobs :
         /\ Cardinality(Entries(j)) <= 1
         /\ Status(j) = "BREAK" => Results(j) = {}
         /\ Status(j) # "BREAK" /\ ~OwnWord(j) => Results(j) = {Status(j)}
         /\ OwnWord(j) => Results(j) = IF job[j].end = "crash" THEN {} ELSE {Verdict(j)}
  /\ xml.illFormed \/ main.pc = "raised" => \E j \in Suites : job[j].end = "crash"

\* The main thread returns or raises an exception, and every thread ends, whatever
\* is interrupted, unless a worker dies with its job: then main waits for ever.
Ends ==
  <>(\/ main.pc \in {"returned", "raised"} /\ \A w \in Workers : Over(w)
     \/ \E w \in Workers : worker[w].st = "died")
=============================================================================
