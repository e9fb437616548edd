----------------------------- MODULE SweepPool -----------------------------
(***************************************************************************)
(* pallas-sweep.rs: the rows of a sweep or catalog file run as backtests   *)
(* on a pool of threads.  A worker draws an index from a shared counter,   *)
(* runs that job and sends its report to a channel; when all workers are   *)
(* gone the main thread drains the channel, sorts the reports and writes   *)
(* the table.                                                              *)
(*                                                                         *)
(* A backtest ends with a report, with an error, or with a panic (Decimal  *)
(* arithmetic panics on overflow), which the scope of the threads raises   *)
(* again after joining them.                                               *)
(***************************************************************************)
EXTENDS Integers, Sequences, FiniteSets

CONSTANTS
  Counts,     \* numbers of rows the file may have
  Requests    \* values of --jobs

ASSUME CountsAssumption == Counts \subseteq Nat /\ Requests \subseteq Nat

VARIABLES
  count,      \* jobs.len()
  requested,  \* --jobs
  next,       \* the shared counter
  worker,     \* worker -> where it stands and the job it has drawn
  channel,    \* reports in the order they were sent
  main,       \* where the main thread stands
  results,    \* the reports, sorted
  table,      \* rows of the output file
  exit        \* how the program ended

input == <<count, requested>>
vars  == <<input, next, worker, channel, main, results, table, exit>>

Jobs == 0 .. count - 1

WorkerCount == IF requested < count THEN requested ELSE count

Workers == 1 .. WorkerCount

WorkerIds == UNION {1 .. n : n \in Requests}

Reports == {"ok", "error"}

Result(job, report) == [index |-> job, report |-> report]

Results == [index : Jobs, report : Reports]

Drawing == [at |-> "draw", job |-> 0, report |-> "ok"]

Init ==
  /\ count \in Counts
  /\ requested \in Requests
  /\ next = 0
  /\ worker = [w \in Workers |-> Drawing]
  /\ channel = <<>>
  /\ main = "start"
  /\ results = <<>>
  /\ table = <<>>
  /\ exit = "none"

-----------------------------------------------------------------------------
Exit(code) == main' = "exited" /\ exit' = code

\* main refuses --jobs 0, an empty file, and a row whose config does not load.
Start ==
  /\ main = "start"
  /\ \/ requested > 0 /\ count > 0 /\ main' = "scope" /\ UNCHANGED exit
     \/ Exit("error")
  /\ UNCHANGED <<input, next, worker, channel, results, table>>

\* Mutant of Draw: a load and a store, of which another worker's may undo this one.
DrawTwice(w) ==
  /\ main = "scope" /\ worker[w].at = "draw"
  /\ worker' = [worker EXCEPT ![w].at = IF next \in Jobs THEN "run" ELSE "gone", ![w].job = next]
  /\ next' \in {next, next + 1}
  /\ UNCHANGED <<input, channel, main, results, table, exit>>

\* fetch_add, then jobs.get.
Draw(w) ==
  /\ main = "scope" /\ worker[w].at = "draw"
  /\ worker' = [worker EXCEPT ![w].at = IF next \in Jobs THEN "run" ELSE "gone", ![w].job = next]
  /\ next' = next + 1
  /\ UNCHANGED <<input, channel, main, results, table, exit>>

Run(w) ==
  /\ worker[w].at = "run"
  /\ \/ \E r \in Reports : worker' = [worker EXCEPT ![w].at = "send", ![w].report = r]
     \/ worker' = [worker EXCEPT ![w].at = "panicked"]
  /\ UNCHANGED <<input, next, channel, main, results, table, exit>>

\* Mutant of Send: a worker whose job has failed leaves the loop.
SendAndStop(w) ==
  /\ worker[w].at = "send"
  /\ channel' = Append(channel, Result(worker[w].job, worker[w].report))
  /\ worker' = [worker EXCEPT ![w].at = IF worker[w].report = "ok" THEN "draw" ELSE "gone"]
  /\ UNCHANGED <<input, next, main, results, table, exit>>

\* The receiver lives until the scope has ended, so that a send succeeds.
Send(w) ==
  /\ worker[w].at = "send"
  /\ channel' = Append(channel, Result(worker[w].job, worker[w].report))
  /\ worker' = [worker EXCEPT ![w].at = "draw"]
  /\ UNCHANGED <<input, next, main, results, table, exit>>

\* Mutant of Join: the scope waits for each worker to leave its loop.
JoinDrawers ==
  /\ main = "scope"
  /\ \A w \in Workers : worker[w].at = "gone"
  /\ main' = "collect"
  /\ UNCHANGED <<input, next, worker, channel, results, table, exit>>

\* The scope joins every worker and raises the panic of any.
Join ==
  /\ main = "scope"
  /\ \A w \in Workers : worker[w].at \in {"gone", "panicked"}
  /\ IF \E w \in Workers : worker[w].at = "panicked"
       THEN Exit("panic")
       ELSE main' = "collect" /\ UNCHANGED exit
  /\ UNCHANGED <<input, next, worker, channel, results, table>>

\* Mutant of Collect: reports stay in the order of completion.
CollectUnsorted ==
  /\ main = "collect"
  /\ results' = channel
  /\ main' = "write"
  /\ UNCHANGED <<input, next, worker, channel, table, exit>>

\* `s` holds the entries of `c` by increasing index.
IsSorting(s, c) ==
  /\ \A i, j \in DOMAIN s : i < j => s[i].index <= s[j].index
  /\ \A x \in Results :
       Cardinality({i \in DOMAIN s : s[i] = x}) = Cardinality({i \in DOMAIN c : c[i] = x})

Collect ==
  /\ main = "collect"
  /\ \E s \in [DOMAIN channel -> Results] : IsSorting(s, channel) /\ results' = s
  /\ main' = "write"
  /\ UNCHANGED <<input, next, worker, channel, table, exit>>

WriteRow ==
  /\ main = "write" /\ Len(table) < Len(results)
  /\ table' = Append(table, results[Len(table) + 1])
  /\ UNCHANGED <<input, next, worker, channel, main, results, exit>>

\* The file cannot be created or written: main returns that error at once.
WriteFails ==
  /\ main = "write"
  /\ Exit("error")
  /\ UNCHANGED <<input, next, worker, channel, results, table>>

\* Failed jobs are rows like the others; their errors make the exit status.
Report ==
  /\ main = "write" /\ Len(table) = Len(results)
  /\ Exit(IF \A i \in DOMAIN results : results[i].report = "ok" THEN "ok" ELSE "failed")
  /\ UNCHANGED <<input, next, worker, channel, results, table>>

Ended == main = "exited" /\ UNCHANGED vars

Work(w) == Draw(w) \/ Run(w) \/ Send(w)

Main == Start \/ Join \/ Collect \/ WriteRow \/ WriteFails \/ Report

Next == Main \/ (\E w \in Workers : Work(w)) \/ Ended

\* The operating system runs every thread, and a backtest ends.
Fairness ==
  /\ WF_vars(Main)
  /\ \A w \in WorkerIds : WF_vars(w \in Workers /\ Work(w))

Spec == Init /\ [][Next]_vars /\ Fairness

-----------------------------------------------------------------------------
Places == {"draw", "run", "send", "gone", "panicked"}

TypeOK ==
  /\ count \in Counts /\ requested \in Requests
  /\ next \in Nat
  /\ worker \in [Workers -> [at : Places, job : Nat, report : Reports]]
  /\ channel \in Seq(Results) /\ results \in Seq(Results) /\ table \in Seq(Results)
  /\ main \in {"start", "scope", "collect", "write", "exited"}
  /\ exit \in {"none", "ok", "failed", "error", "panic"}

\* A worker stands between drawing a job and sending its report.
Has(w, job) == worker[w].at \in {"run", "send", "panicked"} /\ worker[w].job = job

Sent(job) == \E k \in DOMAIN channel : channel[k].index = job

\* The relaxed counter gives each job to one worker: no job runs twice, at the
\* same time or one after the other.
EachJobRunsOnce ==
  /\ \A w, v \in Workers, j \in Jobs : Has(w, j) /\ Has(v, j) => w = v
  /\ \A w \in Workers, j \in Jobs : Has(w, j) => ~Sent(j)
  /\ \A k, l \in DOMAIN channel : channel[k].index = channel[l].index => k = l

\* When the scope has joined its workers without a panic, no job was skipped,
\* whatever the others did.
EveryJobReports == main \in {"collect", "write"} => \A j \in Jobs : Sent(j)

\* docs/ALGO_TESTING.md: the table retains one row per strategy in manifest order,
\* including failures, and the command exits nonzero if any backtest failed.
TableIsManifest ==
  exit \in {"ok", "failed"} =>
    /\ Len(table) = count
    /\ \A i \in DOMAIN table : table[i].index = i - 1
    /\ exit = "ok" <=> \A i \in DOMAIN table : table[i].report = "ok"

\* Every sweep ends, whichever jobs fail or panic.
SweepEnds == <>(main = "exited")
=============================================================================
