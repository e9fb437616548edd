-------------------------- MODULE SweepPoolProofs --------------------------
(***************************************************************************)
(* For any number of jobs and workers: no job runs twice, and a scope that *)
(* has ended without a panic leaves the report of every job in the         *)
(* channel.                                                                *)
(*                                                                         *)
(* The argument: a job below the counter is with exactly one worker or in  *)
(* the channel, a job at or above it with nobody, and a worker leaves its  *)
(* loop only when the counter has passed the last job.  The table follows: *)
(* the channel then holds each index once, so that its sorting, whichever  *)
(* the sort picks, puts the report of job i in row i.                      *)
(***************************************************************************)
EXTENDS SweepPool, FiniteSetTheorems, WellFoundedInduction, TLAPS

\* Only jobs below the counter have been drawn.
BelowCounter ==
  /\ \A w \in Workers : worker[w].at \in {"run", "send", "panicked"} => worker[w].job \in 0 .. next - 1
  /\ \A w \in Workers : worker[w].at \in {"run", "send"} => worker[w].job \in Jobs
  /\ \A k \in DOMAIN channel : channel[k].index \in 0 .. next - 1

\* No job below the counter has been lost.
Accounted ==
  \A j \in Jobs : j < next => Sent(j) \/ \E w \in Workers : Has(w, j)

\* A worker that has left its loop left no job to draw.
LeftAtEnd == \A w \in Workers : worker[w].at = "gone" => count <= next

\* The main thread is past the scope only after every worker.
Joined ==
  /\ main # "start" /\ main # "exited" => 1 \in Workers
  /\ main \in {"collect", "write"} => \A w \in Workers : worker[w].at = "gone"

PoolInv == TypeOK /\ BelowCounter /\ EachJobRunsOnce /\ Accounted /\ LeftAtEnd /\ Joined

-----------------------------------------------------------------------------
LEMMA InitEstablishesPoolInv == Init => PoolInv
BY CountsAssumption
   DEF Init, PoolInv, TypeOK, BelowCounter, EachJobRunsOnce, Accounted, LeftAtEnd, Joined,
       Workers, WorkerCount, Jobs, Drawing, Places, Reports, Results, Has, Sent

LEMMA DrawPreserves ==
  ASSUME PoolInv, NEW w \in Workers, Draw(w)
  PROVE  PoolInv'
<1> DEFINE place == IF next \in Jobs THEN "run" ELSE "gone"
<1>1. /\ Workers' = Workers /\ Jobs' = Jobs /\ Results' = Results
      /\ UNCHANGED <<count, requested, channel, main, results, table, exit>>
      /\ next' = next + 1
  BY DEF Draw, input, Workers, WorkerCount, Jobs, Results
<1>2. TypeOK /\ next \in Nat /\ count \in Nat
  BY CountsAssumption DEF PoolInv, TypeOK
<1>3. /\ worker' \in [Workers -> [at : Places, job : Nat, report : Reports]]
      /\ \A v \in Workers \ {w} : worker'[v] = worker[v]
      /\ worker'[w].at = place /\ worker'[w].job = next
  BY <1>2 DEF Draw, TypeOK, Places
<1>4. worker[w].at = "draw" /\ main = "scope"
  BY DEF Draw
<1>5. TypeOK'
  BY <1>1, <1>2, <1>3 DEF TypeOK
<1>6. BelowCounter'
  <2>1. 0 .. next - 1 \subseteq 0 .. next' - 1 /\ next \in 0 .. next' - 1
    BY <1>1, <1>2
  <2>2. \A k \in DOMAIN channel' : channel'[k].index \in 0 .. next' - 1
    BY <1>1, <2>1 DEF PoolInv, BelowCounter
  <2>3. \A v \in Workers' :
          worker'[v].at \in {"run", "send", "panicked"} => worker'[v].job \in 0 .. next' - 1
    BY <1>1, <1>3, <2>1 DEF PoolInv, BelowCounter
  <2>4. \A v \in Workers' : worker'[v].at \in {"run", "send"} => worker'[v].job \in Jobs'
    BY <1>1, <1>3 DEF PoolInv, BelowCounter
  <2> QED
    BY <2>2, <2>3, <2>4 DEF BelowCounter
<1>7. \A v \in Workers, j \in Jobs : Has(v, j)' <=> IF v = w THEN j = next ELSE Has(v, j)
  BY <1>1, <1>2, <1>3 DEF Has, Jobs
<1>8. \A v \in Workers, j \in Jobs : Has(v, j) => j # next /\ v # w
  BY <1>2, <1>4 DEF PoolInv, BelowCounter, Has
<1>9. \A j \in Jobs : Sent(j)' = Sent(j) /\ (Sent(j) => j # next)
  BY <1>1, <1>2 DEF PoolInv, BelowCounter, Sent
<1>10. EachJobRunsOnce'
  BY <1>1, <1>7, <1>8, <1>9 DEF PoolInv, EachJobRunsOnce
<1>11. Accounted'
  BY <1>1, <1>2, <1>7, <1>8, <1>9 DEF PoolInv, Accounted, Jobs
<1>12. LeftAtEnd'
  BY <1>1, <1>2, <1>3 DEF PoolInv, LeftAtEnd, Jobs
<1>13. Joined'
  BY <1>1, <1>4 DEF PoolInv, Joined
<1> QED
  BY <1>5, <1>6, <1>10, <1>11, <1>12, <1>13 DEF PoolInv

LEMMA RunPreserves ==
  ASSUME PoolInv, NEW w \in Workers, Run(w)
  PROVE  PoolInv'
<1>1. /\ Workers' = Workers /\ Jobs' = Jobs /\ Results' = Results
      /\ UNCHANGED <<count, requested, next, channel, main, results, table, exit>>
  BY DEF Run, input, Workers, WorkerCount, Jobs, Results
<1>2. TypeOK /\ next \in Nat /\ count \in Nat
  BY CountsAssumption DEF PoolInv, TypeOK
<1>3. /\ worker' \in [Workers -> [at : Places, job : Nat, report : Reports]]
      /\ \A v \in Workers \ {w} : worker'[v] = worker[v]
      /\ worker[w].at = "run" /\ worker'[w].at \in {"send", "panicked"}
      /\ worker'[w].job = worker[w].job
  BY <1>2 DEF Run, TypeOK, Places
<1>4. TypeOK'
  BY <1>1, <1>2, <1>3 DEF TypeOK
<1>5. BelowCounter'
  BY <1>1, <1>3 DEF PoolInv, BelowCounter
<1>6. \A v \in Workers, j \in Jobs : Has(v, j)' <=> Has(v, j)
  BY <1>1, <1>3 DEF Has
<1>7. \A j \in Jobs : Sent(j)' <=> Sent(j)
  BY <1>1 DEF Sent
<1>8. EachJobRunsOnce' /\ Accounted'
  BY <1>1, <1>6, <1>7 DEF PoolInv, EachJobRunsOnce, Accounted
<1>9. LeftAtEnd'
  BY <1>1, <1>3 DEF PoolInv, LeftAtEnd
<1>10. Joined'
  BY <1>1, <1>3 DEF PoolInv, Joined
<1> QED
  BY <1>4, <1>5, <1>8, <1>9, <1>10 DEF PoolInv

LEMMA SendPreserves ==
  ASSUME PoolInv, NEW w \in Workers, Send(w)
  PROVE  PoolInv'
<1> USE CountsAssumption DEF Send, PoolInv, input, Workers, WorkerCount, Jobs
<1> DEFINE r == Result(worker[w].job, worker[w].report)
<1>1. r \in Results /\ channel \in Seq(Results)
  BY DEF TypeOK, BelowCounter, Result, Results
<1>2. /\ channel' \in Seq(Results)
      /\ DOMAIN channel' = DOMAIN channel \cup {Len(channel) + 1}
      /\ \A k \in DOMAIN channel : channel'[k] = channel[k]
      /\ channel'[Len(channel) + 1] = r
      /\ Len(channel) + 1 \notin DOMAIN channel
  BY <1>1
<1>3. r.index = worker[w].job
  BY DEF Result
<1>4. TypeOK'
  BY <1>2 DEF TypeOK, Places, Results
<1>5. BelowCounter'
  BY <1>2, <1>3 DEF TypeOK, BelowCounter, Places
<1>6. \A j \in Jobs : Sent(j)' <=> Sent(j) \/ j = worker[w].job
  BY <1>2, <1>3 DEF Sent
<1>7. \A v \in Workers, j \in Jobs : Has(v, j)' <=> v # w /\ Has(v, j)
  BY DEF TypeOK, Has, Places
<1>8. Has(w, worker[w].job) /\ worker[w].job \in Jobs
  BY DEF Has, BelowCounter
<1>9. EachJobRunsOnce'
  <2>1. \A v, u \in Workers, j \in Jobs : Has(v, j)' /\ Has(u, j)' => v = u
    BY <1>7 DEF EachJobRunsOnce
  <2>2. \A v \in Workers, j \in Jobs : Has(v, j)' => ~Sent(j)'
    BY <1>6, <1>7, <1>8 DEF EachJobRunsOnce
  <2>3. \A k \in DOMAIN channel : channel[k].index # worker[w].job
    BY <1>8 DEF EachJobRunsOnce, Sent
  <2>4. \A k, l \in DOMAIN channel' : channel'[k].index = channel'[l].index => k = l
    BY <1>2, <1>3, <2>3 DEF EachJobRunsOnce
  <2> QED
    BY <2>1, <2>2, <2>4 DEF EachJobRunsOnce
<1>10. Accounted'
  BY <1>6, <1>7 DEF Accounted, Has
<1>11. LeftAtEnd'
  BY DEF TypeOK, LeftAtEnd, Places
<1>12. Joined'
  BY DEF TypeOK, Joined, Places
<1> QED
  BY <1>4, <1>5, <1>9, <1>10, <1>11, <1>12

\* The steps of the main thread leave the counter, the workers and the channel.
LEMMA MainPreserves ==
  ASSUME PoolInv, Main
  PROVE  PoolInv'
<1> USE CountsAssumption DEF PoolInv, input, Workers, WorkerCount, Jobs, Exit
<1>1. UNCHANGED <<input, next, worker, channel>>
  BY DEF Main, Start, Join, Collect, WriteRow, WriteFails, Report
<1>2. BelowCounter' /\ EachJobRunsOnce' /\ Accounted' /\ LeftAtEnd'
  BY <1>1 DEF BelowCounter, EachJobRunsOnce, Accounted, LeftAtEnd, Has, Sent
<1>3. Joined'
  BY <1>1 DEF Main, Start, Join, Collect, WriteRow, WriteFails, Report, Joined, TypeOK
<1>4. results' \in Seq(Results) /\ table' \in Seq(Results)
  <2>1. CASE Collect
    <3>1. PICK s \in [DOMAIN channel -> Results] : results' = s
      BY <2>1 DEF Collect
    <3>2. Len(channel) \in Nat /\ DOMAIN channel = 1 .. Len(channel)
      BY DEF TypeOK
    <3>3. s \in Seq(Results)
      BY <3>2
    <3> QED
      BY <2>1, <3>1, <3>3 DEF Collect, TypeOK
  <2>2. CASE WriteRow
    <3>1. results[Len(table) + 1] \in Results
      BY <2>2 DEF WriteRow, TypeOK
    <3> QED
      BY <2>2, <3>1 DEF WriteRow, TypeOK
  <2>3. CASE Start \/ Join \/ WriteFails \/ Report
    BY <2>3 DEF Start, Join, WriteFails, Report, TypeOK
  <2> QED
    BY <2>1, <2>2, <2>3 DEF Main
<1>5. TypeOK'
  <2>1. main' \in {"start", "scope", "collect", "write", "exited"}
    BY DEF Main, Start, Join, Collect, WriteRow, WriteFails, Report, TypeOK
  <2>2. exit' \in {"none", "ok", "failed", "error", "panic"}
    BY DEF Main, Start, Join, Collect, WriteRow, WriteFails, Report, TypeOK
  <2>3. Results' = Results
    BY <1>1 DEF Results
  <2> QED
    BY <1>1, <1>4, <2>1, <2>2, <2>3 DEF TypeOK
<1> QED
  BY <1>2, <1>3, <1>5

LEMMA StepPreservesPoolInv == PoolInv /\ [Next]_vars => PoolInv'
<1> SUFFICES ASSUME PoolInv, [Next]_vars PROVE PoolInv'
  OBVIOUS
<1>1. CASE Main
  BY <1>1, MainPreserves
<1>2. CASE \E w \in Workers : Work(w)
  BY <1>2, DrawPreserves, RunPreserves, SendPreserves DEF Work
<1>3. CASE UNCHANGED vars
  BY <1>3 DEF vars, input, PoolInv, TypeOK, BelowCounter, EachJobRunsOnce, Accounted, LeftAtEnd,
              Joined, Workers, WorkerCount, Jobs, Results, Has, Sent
<1> QED
  BY <1>1, <1>2, <1>3 DEF Next, Ended

\* run_jobs: at every moment a job below the counter is with exactly one worker or
\* in the channel, and a worker has left only if the counter has passed the end.
THEOREM PoolInvHolds == Spec => []PoolInv
BY InitEstablishesPoolInv, StepPreservesPoolInv, PTL DEF Spec

\* The counter of run_jobs, its workers and its channel keep their types, however
\* far the draws run past the last job.
THEOREM PoolTypes == Spec => []TypeOK
<1>1. PoolInv => TypeOK
  BY DEF PoolInv
<1> QED
  BY <1>1, PoolInvHolds, PTL

\* fetch_add hands every index to one worker: no backtest runs twice.
THEOREM NoJobTwice == Spec => []EachJobRunsOnce
<1>1. PoolInv => EachJobRunsOnce
  BY DEF PoolInv
<1> QED
  BY <1>1, PoolInvHolds, PTL

LEMMA PastScopeAllSent == PoolInv => EveryJobReports
<1> SUFFICES ASSUME PoolInv, main \in {"collect", "write"}, NEW j \in Jobs PROVE Sent(j)
  BY DEF EveryJobReports
<1>1. \A w \in Workers : worker[w].at = "gone"
  BY DEF PoolInv, Joined
<1>2. count <= next
  BY <1>1 DEF PoolInv, Joined, LeftAtEnd
<1>3. j < next
  BY <1>2, CountsAssumption DEF Jobs, PoolInv, TypeOK
<1>4. \A w \in Workers : ~Has(w, j)
  BY <1>1 DEF Has
<1> QED
  BY <1>3, <1>4 DEF PoolInv, Accounted

\* A sweep without a panic has a report of every job, failed or not.
THEOREM NoJobSkipped == Spec => []EveryJobReports
BY PastScopeAllSent, PoolInvHolds, PTL

-----------------------------------------------------------------------------
\* A set of naturals has a least element: what an induction over rows rests on.
LEMMA LeastOf ==
  ASSUME NEW T \in SUBSET Nat, T # {}
  PROVE  \E m \in T : \A k \in T : m <= k
<1> DEFINE Less == {p \in Nat \X Nat : p[1] < p[2]}
<1>1. IsWellFoundedOn(Less, Nat)
  BY NatLessThanWellFounded DEF OpToRel
<1>2. \E m \in T : \A k \in T : ~ (<<k, m>> \in Less)
  <2> HIDE DEF Less
  <2> QED
    BY <1>1, WFMin
<1>3. PICK m \in T : \A k \in T : ~ (<<k, m>> \in Less)
  BY <1>2
<1>4. ASSUME NEW k \in T PROVE m <= k
  <2>1. ~ (<<k, m>> \in Less)
    BY <1>3
  <2> QED
    BY <2>1, k \in Nat, m \in Nat
<1> QED
  BY <1>4

\* An increasing enumeration of 0 .. n - 1 by 1 .. n has i - 1 at i.
LEMMA IncreasingOnto ==
  ASSUME NEW n \in Nat, NEW f \in [1 .. n -> 0 .. n - 1],
         \A i, j \in 1 .. n : i < j => f[i] < f[j]
  PROVE  \A i \in 1 .. n : f[i] = i - 1
<1> DEFINE Low == {i \in 1 .. n : f[i] < i - 1}
           High == {d \in 0 .. n : n - d \in 1 .. n /\ f[n - d] > n - d - 1}
<1>1. Low = {}
  <2> SUFFICES ASSUME Low # {} PROVE FALSE
    OBVIOUS
  <2>1. PICK m \in Low : \A k \in Low : m <= k
    <3>1. Low \in SUBSET Nat
      OBVIOUS
    <3> HIDE DEF Low
    <3> QED
      BY <3>1, LeastOf
  <2>2. m \in 1 .. n /\ f[m] \in 0 .. n - 1 /\ f[m] < m - 1
    OBVIOUS
  <2>3. m - 1 \in 1 .. n /\ m - 1 \notin Low
    BY <2>1, <2>2
  <2>4. f[m - 1] \in 0 .. n - 1 /\ f[m - 1] >= m - 2 /\ f[m - 1] < f[m]
    BY <2>2, <2>3
  <2> QED
    BY <2>2, <2>4
<1>2. High = {}
  <2> SUFFICES ASSUME High # {} PROVE FALSE
    OBVIOUS
  <2>1. PICK d \in High : \A k \in High : d <= k
    <3>1. High \in SUBSET Nat
      OBVIOUS
    <3> HIDE DEF High
    <3> QED
      BY <3>1, LeastOf
  <2> DEFINE m == n - d
  <2>2. m \in 1 .. n /\ f[m] \in 0 .. n - 1 /\ f[m] > m - 1
    OBVIOUS
  <2>3. m < n /\ m + 1 \in 1 .. n /\ n - (d - 1) = m + 1
    BY <2>2
  <2>4. d \in 0 .. n /\ d # 0 /\ d - 1 \in 0 .. n
    BY <2>2, <2>3
  <2>5. d - 1 \notin High
    <3>1. ~ (d <= d - 1)
      BY <2>4
    <3> HIDE DEF High, m
    <3> QED
      BY <2>1, <3>1
  <2>6. f[m + 1] \in 0 .. n - 1 /\ f[m + 1] <= m /\ f[m] < f[m + 1]
    BY <2>2, <2>3, <2>4, <2>5
  <2> QED
    BY <2>2, <2>6
<1>3. ASSUME NEW i \in 1 .. n PROVE f[i] = i - 1
  <2>1. f[i] \in 0 .. n - 1 /\ ~ (f[i] < i - 1)
    BY <1>1
  <2>2. ~ (f[i] > i - 1)
    <3>1. n - i \in 0 .. n /\ n - (n - i) = i
      OBVIOUS
    <3>2. n - i \notin High
      BY <1>2
    <3> QED
      BY <3>1, <3>2
  <2> QED
    BY <2>1, <2>2
<1> QED
  BY <1>3

\* A sorting of the drained channel has the report of job i - 1 in row i: sort_by is
\* given each index once, so that nothing about its result is left open.
LEMMA SortingIsManifest ==
  ASSUME PoolInv, main = "collect",
         NEW s \in [DOMAIN channel -> Results], IsSorting(s, channel)
  PROVE  DOMAIN s = 1 .. count /\ \A i \in 1 .. count : s[i].index = i - 1
<1> DEFINE D == DOMAIN channel
           sent == [k \in D |-> channel[k].index]
           f    == [i \in D |-> s[i].index]
<1>1. count \in Nat /\ channel \in Seq(Results) /\ D = 1 .. Len(channel) /\ Len(channel) \in Nat
  BY CountsAssumption DEF PoolInv, TypeOK
<1>2. /\ \A k \in D : channel[k] \in Results
      /\ \A k, l \in D : channel[k].index = channel[l].index => k = l
      /\ \A j \in Jobs : \E k \in D : channel[k].index = j
  BY <1>1, PastScopeAllSent DEF PoolInv, EachJobRunsOnce, EveryJobReports, Sent
<1>3. IsFiniteSet(D) /\ Cardinality(D) = Len(channel) /\ IsFiniteSet(Jobs) /\ Cardinality(Jobs) = count
  <2>1. IsFiniteSet(1 .. Len(channel)) /\ Cardinality(1 .. Len(channel)) = Len(channel)
    <3>1. 1 \in Int /\ Len(channel) \in Int /\ (1 > Len(channel) => Len(channel) = 0)
      BY <1>1
    <3> QED
      BY <1>1, <3>1, FS_Interval
  <2>2. IsFiniteSet(0 .. count - 1) /\ Cardinality(0 .. count - 1) = count
    <3>1. 0 \in Int /\ count - 1 \in Int /\ (0 > count - 1 => count = 0) /\ count - 1 - 0 + 1 = count
      BY <1>1
    <3> QED
      BY <3>1, FS_Interval
  <2> QED
    BY <1>1, <2>1, <2>2 DEF Jobs
<1>4. Len(channel) = count
  <2>1. sent \in Surjection(D, Jobs) /\ sent \in Injection(D, Jobs)
    <3>1. sent \in [D -> Jobs]
      BY <1>2 DEF Results
    <3>2. \A j \in Jobs : \E k \in D : sent[k] = j
      BY <1>2
    <3>3. \A k, l \in D : sent[k] = sent[l] => k = l
      BY <1>2
    <3> HIDE DEF sent, D
    <3> QED
      BY <3>1, <3>2, <3>3 DEF Surjection, Injection, IsInjective
  <2> QED
    BY <1>3, <2>1, FS_Surjection
<1>5. f \in Surjection(D, Jobs)
  <2>1. f \in [D -> Jobs]
    BY DEF Results
  <2>2. ASSUME NEW j \in Jobs PROVE \E i \in D : f[i] = j
    <3>1. PICK k \in D : channel[k].index = j
      BY <1>2
    <3>2. {l \in D : channel[l] = channel[k]} = {k}
      BY <1>2
    <3>3. Cardinality({l \in D : channel[l] = channel[k]}) = 1
      BY <3>2, FS_Singleton
    <3>4. channel[k] \in Results
      BY <1>2
    <3>5. Cardinality({i \in DOMAIN s : s[i] = channel[k]}) = 1
      BY <3>3, <3>4 DEF IsSorting
    <3>6. \E i \in DOMAIN s : s[i] = channel[k]
      <4> SUFFICES ASSUME {i \in DOMAIN s : s[i] = channel[k]} = {} PROVE FALSE
        OBVIOUS
      <4> QED
        BY <3>5, FS_EmptySet
    <3> QED
      BY <3>1, <3>6
  <2> QED
    BY <2>1, <2>2 DEF Surjection
<1>6. f \in Injection(D, Jobs)
  BY <1>3, <1>4, <1>5, FS_SurjSameCardinalityImpliesInj
<1>7. \A i, j \in 1 .. count : i < j => f[i] < f[j]
  <2>1. f \in [1 .. count -> Jobs] /\ \A i, j \in D : f[i] = f[j] => i = j
    <3>1. D = 1 .. count
      BY <1>1, <1>4
    <3> HIDE DEF f, D
    <3> QED
      BY <1>6, <3>1 DEF Injection, IsInjective
  <2>2. \A i, j \in D : i < j => f[i] <= f[j]
    BY DEF IsSorting
  <2>3. D = 1 .. count
    BY <1>1, <1>4
  <2> HIDE DEF f, D
  <2>4. ASSUME NEW i \in 1 .. count, NEW j \in 1 .. count, i < j PROVE f[i] < f[j]
    <3>1. f[i] \in Int /\ f[j] \in Int
      BY <1>1, <2>1 DEF Jobs
    <3>2. f[i] # f[j] /\ f[i] <= f[j]
      BY <2>1, <2>2, <2>3, <2>4
    <3> QED
      BY <3>1, <3>2
  <2> QED
    BY <2>4
<1>8. f \in [1 .. count -> 0 .. count - 1]
  <2>1. D = 1 .. count
    BY <1>1, <1>4
  <2> HIDE DEF f, D
  <2> QED
    BY <1>6, <2>1 DEF Injection, Jobs
<1>9. \A i \in 1 .. count : f[i] = i - 1
  <2> HIDE DEF f
  <2> QED
    BY <1>1, <1>7, <1>8, IncreasingOnto
<1> QED
  BY <1>1, <1>4, <1>9

-----------------------------------------------------------------------------
\* The reports once sorted, and the rows written so far.
Sorted ==
  /\ Len(results) = count
  /\ \A i \in DOMAIN results : results[i].index = i - 1

Prefix ==
  /\ Len(table) <= Len(results)
  /\ \A i \in DOMAIN table : table[i] = results[i]

TableInv ==
  /\ PoolInv
  /\ main # "exited" => exit = "none"
  /\ main \in {"start", "scope", "collect"} => table = <<>>
  /\ main = "write" \/ exit \in {"ok", "failed"} => Sorted /\ Prefix
  /\ exit \in {"ok", "failed"} =>
       /\ Len(table) = Len(results)
       /\ (exit = "ok") <=> \A i \in DOMAIN results : results[i].report = "ok"

LEMMA InitEstablishesTableInv == Init => TableInv
BY InitEstablishesPoolInv DEF Init, TableInv

\* One case for each step of the main thread; the workers touch none of this.
LEMMA StepPreservesTableInv == TableInv /\ [Next]_vars => TableInv'
<1> SUFFICES ASSUME TableInv, [Next]_vars PROVE TableInv'
  OBVIOUS
<1>1. PoolInv /\ PoolInv'
  BY StepPreservesPoolInv DEF TableInv
<1>2. results \in Seq(Results) /\ table \in Seq(Results) /\ channel \in Seq(Results)
  BY <1>1 DEF PoolInv, TypeOK
<1>3. CASE Start \/ Join \/ WriteFails
  BY <1>1, <1>3 DEF Start, Join, WriteFails, Exit, input, TableInv, Sorted, Prefix
<1>4. CASE Collect
  <2>1. PICK s \in [DOMAIN channel -> Results] : IsSorting(s, channel) /\ results' = s
    BY <1>4 DEF Collect
  <2>2. DOMAIN s = 1 .. count /\ \A i \in 1 .. count : s[i].index = i - 1
    BY <1>1, <1>4, <2>1, SortingIsManifest DEF Collect
  <2>3. count \in Nat /\ count' = count /\ table' = <<>> /\ main' = "write" /\ exit' = "none"
    BY <1>1, <1>4, CountsAssumption DEF Collect, input, TableInv, PoolInv, TypeOK
  <2>4. results' \in Seq(Results') /\ DOMAIN results' = 1 .. count
    BY <1>1, <2>1, <2>2 DEF PoolInv, TypeOK
  <2>5. Len(results') = count
    BY <2>3, <2>4
  <2>6. Sorted'
    BY <2>1, <2>2, <2>3, <2>5 DEF Sorted
  <2>7. Prefix'
    BY <2>3, <2>5 DEF Prefix
  <2> QED
    BY <1>1, <2>3, <2>6, <2>7 DEF TableInv
<1>5. CASE WriteRow
  <2>1. /\ main = "write" /\ main' = "write" /\ exit' = exit /\ exit = "none"
        /\ results' = results /\ count' = count /\ Sorted /\ Prefix
    BY <1>5 DEF WriteRow, TableInv, input
  <2>2. Prefix'
    BY <1>2, <1>5, <2>1 DEF WriteRow, Prefix
  <2>3. Sorted'
    BY <2>1 DEF Sorted
  <2> QED
    BY <1>1, <2>1, <2>2, <2>3 DEF TableInv
<1>6. CASE Report
  <2>1. /\ main = "write" /\ main' = "exited" /\ Len(table) = Len(results)
        /\ UNCHANGED <<results, table, count>> /\ Sorted /\ Prefix
        /\ exit' = IF \A i \in DOMAIN results : results[i].report = "ok" THEN "ok" ELSE "failed"
    BY <1>6 DEF Report, Exit, TableInv, input
  <2>2. Sorted' /\ Prefix'
    BY <2>1 DEF Sorted, Prefix
  <2> QED
    BY <1>1, <2>1, <2>2 DEF TableInv
<1>7. CASE \E w \in Workers : Work(w)
  <2>1. UNCHANGED <<count, main, results, table, exit>>
    BY <1>7 DEF Work, Draw, Run, Send, input
  <2> QED
    BY <1>1, <2>1 DEF TableInv, Sorted, Prefix
<1>8. CASE UNCHANGED vars
  BY <1>1, <1>8 DEF vars, input, TableInv, Sorted, Prefix
<1> QED
  BY <1>3, <1>4, <1>5, <1>6, <1>7, <1>8 DEF Next, Main, Ended

\* docs/ALGO_TESTING.md on pallas-sweep: an ended sweep has written one row per job,
\* in the order of the file, failures included, and its status says whether all were
\* well; whichever order the workers finished in.
THEOREM TableInManifestOrder == Spec => []TableIsManifest
<1>1. TableInv => TableIsManifest
  <2> SUFFICES ASSUME TableInv, exit \in {"ok", "failed"}
               PROVE /\ Len(table) = count
                     /\ \A i \in DOMAIN table : table[i].index = i - 1
                     /\ exit = "ok" <=> \A i \in DOMAIN table : table[i].report = "ok"
    BY DEF TableIsManifest
  <2>1. results \in Seq(Results) /\ table \in Seq(Results)
    BY DEF TableInv, PoolInv, TypeOK
  <2>2. Sorted /\ Prefix /\ Len(table) = Len(results) /\ DOMAIN table = DOMAIN results
    BY <2>1 DEF TableInv
  <2> QED
    BY <2>2 DEF TableInv, Sorted, Prefix
<1> QED
  BY <1>1, InitEstablishesTableInv, StepPreservesTableInv, PTL DEF Spec
=============================================================================
