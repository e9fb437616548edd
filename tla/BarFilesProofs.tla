--------------------------- MODULE BarFilesProofs ---------------------------
(***************************************************************************)
(* For any contents of the csv, any loads and any number of edits: a load  *)
(* returns what the csv holds as long as the writers do not meet.  For any *)
(* recordings and intervals: resampling is exact.                          *)
(*                                                                         *)
(* A sidecar that looks fresh holds the first bars of the csv, and its     *)
(* header is missing or counts all of them: only a whole one can be read.  *)
(* A load that is writing is the only one, and the blocks in the sidecar   *)
(* are those it has written.                                               *)
(*                                                                         *)
(* aggregate_rows is followed row by row.  After each row the bars ascend, *)
(* the last one is that of the last row, and every bar is told by the rows *)
(* of its bucket so far: a later row is of the last bar or of none.  A row *)
(* that is merged into a bar, or opens one, does the same to the coarser   *)
(* bars that are made from the bars as to those made from the rows.        *)
(***************************************************************************)
EXTENDS BarFiles, SequenceTheorems, WellFoundedInduction, TLAPS

Row == UNION {ToSet(r) : r \in Contents}

Places == {"idle", "read", "parse", "create", "write", "loaded", "failed"}

Typed ==
  /\ csv \in [rows : Seq(Row), at : Nat]
  /\ tick \in Nat /\ csv.at <= tick
  /\ writing \in Seq(Row)
  /\ sidecar \in [count : Nat, blocks : Seq(Row), at : Int]
  /\ load \in [Loads -> [at : Places, series : Seq(Row), done : Nat]]

\* The sidecar holds the first bars of the csv.
Prefix ==
  /\ Len(sidecar.blocks) <= Len(csv.rows)
  /\ \A k \in 1..Len(sidecar.blocks) : sidecar.blocks[k] = csv.rows[k]
  /\ sidecar.count \in {0, Len(csv.rows)}

SidecarInv == sidecar.at >= csv.at => Prefix

Ours(l) == load[l].at \in {"create", "write", "loaded"} => load[l].series = csv.rows

Reads(l) == load[l].at = "read" => sidecar.at >= csv.at

Writes(l) ==
  load[l].at = "write" =>
    /\ sidecar.at >= csv.at
    /\ load[l].done = Len(sidecar.blocks)
    /\ load[l].done > 0 => sidecar.count = Len(csv.rows)

OneWriter ==
  \A l, k \in Loads : load[l].at = "write" /\ load[k].at = "write" => l = k

LoadInv == \A l \in Loads : Ours(l) /\ Reads(l) /\ Writes(l)

Good == Typed /\ SidecarInv /\ LoadInv /\ OneWriter

\* Once writers have met, nothing is claimed.
BarInv == ~clash => Good

-----------------------------------------------------------------------------
LEMMA ContentsAreRows ==
  ASSUME NEW rows \in Contents
  PROVE  rows \in Seq(Row)
BY ContentsAssumption DEF Row

\* A change of the csv that meets nobody leaves no load at work and no sidecar
\* that looks fresh.
LEMMA ChangeIsSeen ==
  ASSUME Good, NEW rows \in Seq(Row), NEW at \in Nat, at <= tick,
         ChangeCsv(rows, at), ~clash',
         writing' \in Seq(Row), UNCHANGED <<sidecar, load, tick>>
  PROVE  Good'
<1>0. csv' = [rows |-> rows, at |-> at] /\ ~Loading /\ ~(sidecar.at >= at)
  BY Zenon DEF ChangeCsv
<1>1. csv' = [rows |-> rows, at |-> at] /\ sidecar.at < at
  BY <1>0 DEF Good, Typed
<1>2. \A l \in Loads : load[l].at = "idle"
  BY <1>0 DEF Loading
<1>3. Typed'
  BY <1>1 DEF Good, Typed
<1>4. SidecarInv'
  BY <1>1 DEF SidecarInv, Good, Typed
<1>5. LoadInv' /\ OneWriter'
  BY <1>2 DEF LoadInv, Ours, Reads, Writes, OneWriter
<1> QED
  BY <1>3, <1>4, <1>5 DEF Good

\* A sidecar that looks fresh and can be read is the csv.
LEMMA ReadableIsWhole ==
  ASSUME Good, sidecar.at >= csv.at, Readable
  PROVE  sidecar.blocks = csv.rows
<1>1. /\ sidecar.blocks \in Seq(Row) /\ csv.rows \in Seq(Row)
      /\ Len(sidecar.blocks) = Len(csv.rows)
      /\ \A k \in 1..Len(sidecar.blocks) : sidecar.blocks[k] = csv.rows[k]
  BY DEF Good, Typed, SidecarInv, Prefix, Readable
<1> QED
  BY <1>1, SeqEqual

LEMMA FreshIsLater ==
  ASSUME Good, Fresh
  PROVE  sidecar.at >= csv.at
BY DEF Fresh

-----------------------------------------------------------------------------
\* A load that moves without touching a file.
LEMMA Moving ==
  ASSUME Good, NEW l \in Loads, NEW to \in Places, NEW series \in Seq(Row), NEW done \in Nat,
         load' = [load EXCEPT ![l] = [at |-> to, series |-> series, done |-> done]],
         UNCHANGED <<csv, writing, sidecar, tick>>,
         to # "write",
         to \in {"create", "loaded"} => series = csv.rows,
         to = "read" => sidecar.at >= csv.at
  PROVE  Good'
<1>1. Typed'
  BY DEF Good, Typed
<1>2. SidecarInv'
  BY DEF Good, SidecarInv, Prefix
<1>3. ASSUME NEW k \in Loads
      PROVE  (Ours(k) /\ Reads(k) /\ Writes(k))'
  <2>1. CASE k = l
    <3>1. load'[k] = [at |-> to, series |-> series, done |-> done]
      BY <2>1 DEF Good, Typed
    <3> QED
      BY <3>1 DEF Ours, Reads, Writes
  <2>2. CASE k # l
    <3>1. load'[k] = load[k]
      BY <2>2 DEF Good, Typed
    <3> QED
      BY <3>1 DEF Good, LoadInv, Ours, Reads, Writes
  <2> QED
    BY <2>1, <2>2
<1>4. OneWriter'
  <2>1. \A k \in Loads : load'[k].at = "write" => load[k].at = "write"
    BY DEF Good, Typed
  <2> QED
    BY <2>1 DEF Good, OneWriter
<1> QED
  BY <1>1, <1>2, <1>3, <1>4 DEF Good, LoadInv

\* The load that creates or writes the sidecar.
LEMMA Writing ==
  ASSUME Good, NEW l \in Loads, NEW series \in Seq(Row), NEW done \in Nat, NEW count \in Nat,
         NEW blocks \in Seq(Row),
         load' = [load EXCEPT ![l] = [at |-> "write", series |-> series, done |-> done]],
         sidecar' = [count |-> count, blocks |-> blocks, at |-> tick],
         UNCHANGED <<csv, writing, tick>>,
         series = csv.rows,
         done = Len(blocks), done <= Len(csv.rows),
         \A k \in 1..Len(blocks) : blocks[k] = csv.rows[k],
         (count = 0 /\ done = 0) \/ count = Len(csv.rows),
         \A k \in Loads : load[k].at = "write" => k = l
  PROVE  Good'
<1>1. Typed'
  BY DEF Good, Typed, Places
<1>2. SidecarInv'
  BY DEF Good, Typed, SidecarInv, Prefix
<1>3. ASSUME NEW k \in Loads
      PROVE  (Ours(k) /\ Reads(k) /\ Writes(k))'
  <2>0. sidecar'.at >= csv'.at /\ sidecar'.blocks = blocks /\ sidecar'.count = count
    BY DEF Good, Typed
  <2>1. CASE k = l
    <3>1. load'[k] = [at |-> "write", series |-> series, done |-> done]
      BY <2>1 DEF Good, Typed
    <3> QED
      BY <3>1, <2>0 DEF Ours, Reads, Writes
  <2>2. CASE k # l
    <3>1. load'[k] = load[k] /\ load[k].at # "write"
      BY <2>2 DEF Good, Typed
    <3> QED
      BY <3>1, <2>0 DEF Good, LoadInv, Ours, Reads, Writes
  <2> QED
    BY <2>1, <2>2
<1>4. OneWriter'
  <2>1. \A k \in Loads : load'[k].at = "write" => k = l
    BY DEF Good, Typed
  <2> QED
    BY <2>1 DEF OneWriter
<1> QED
  BY <1>1, <1>2, <1>3, <1>4 DEF Good, LoadInv

-----------------------------------------------------------------------------
LEMMA EditsKeepGood ==
  ASSUME Good, ~clash', StartRewrite \/ WriteRow \/ Replace
  PROVE  Good'
<1>1. CASE StartRewrite
  <2>1. ChangeCsv(<<>>, tick) /\ writing' \in Seq(Row) /\ UNCHANGED <<sidecar, load, tick>>
    BY <1>1, ContentsAreRows DEF StartRewrite
  <2>2. <<>> \in Seq(Row) /\ tick \in Nat /\ tick <= tick
    BY EmptySeq DEF Good, Typed
  <2> QED
    BY <2>1, <2>2, ChangeIsSeen
<1>2. CASE WriteRow
  <2>1. /\ ChangeCsv(Append(csv.rows, Head(writing)), tick)
        /\ writing # <<>> /\ writing' = Tail(writing) /\ UNCHANGED <<sidecar, load, tick>>
    BY <1>2 DEF WriteRow
  <2>2. writing \in Seq(Row) /\ csv.rows \in Seq(Row) /\ tick \in Nat /\ tick <= tick
    BY DEF Good, Typed
  <2>3. Head(writing) \in Row /\ Tail(writing) \in Seq(Row)
    BY <2>1, <2>2, HeadTailProperties
  <2>4. Append(csv.rows, Head(writing)) \in Seq(Row)
    BY <2>2, <2>3, AppendProperties
  <2> QED
    BY <2>1, <2>2, <2>3, <2>4, ChangeIsSeen
<1>3. CASE Replace
  <2>1. PICK rows \in Contents, at \in 0..tick : ChangeCsv(rows, at)
    BY <1>3 DEF Replace
  <2>2. writing' = writing /\ UNCHANGED <<sidecar, load, tick>>
    BY <1>3 DEF Replace
  <2>3. rows \in Seq(Row) /\ at \in Nat /\ at <= tick /\ writing \in Seq(Row)
    BY ContentsAreRows DEF Good, Typed
  <2> QED
    BY <2>1, <2>2, <2>3, ChangeIsSeen
<1> QED
  BY <1>1, <1>2, <1>3

LEMMA MovesKeepGood ==
  ASSUME Good, NEW l \in Loads, Stat(l) \/ ReadSidecar(l) \/ ParseCsv(l) \/ Leave(l)
  PROVE  Good'
<1>0. <<>> \in Seq(Row) /\ csv.rows \in Seq(Row) /\ sidecar.blocks \in Seq(Row)
  BY EmptySeq DEF Good, Typed
<1>1. CASE Stat(l)
  <2>1. CASE Fresh
    BY <1>0, <1>1, <2>1, Moving, FreshIsLater DEF Stat, Step, Places
  <2>2. CASE ~Fresh
    BY <1>0, <1>1, <2>2, Moving DEF Stat, Step, Places
  <2> QED
    BY <2>1, <2>2
<1>2. CASE ReadSidecar(l)
  <2>1. CASE Readable
    <3>1. load[l].at = "read"
      BY <1>2, <2>1 DEF ReadSidecar, Step
    <3>2. sidecar.blocks = csv.rows
      BY <2>1, <3>1, ReadableIsWhole DEF Good, LoadInv, Reads
    <3> QED
      BY <1>0, <1>2, <2>1, <3>2, Moving DEF ReadSidecar, Step, Places
  <2>2. CASE ~Readable
    BY <1>0, <1>2, <2>2, Moving DEF ReadSidecar, Step, Places
  <2> QED
    BY <2>1, <2>2
<1>3. CASE ParseCsv(l)
  BY <1>0, <1>3, Moving DEF ParseCsv, Step, Places
<1>4. CASE Leave(l)
  BY <1>0, <1>4, Moving DEF Leave, Idle, Places
<1> QED
  BY <1>1, <1>2, <1>3, <1>4

LEMMA WritesKeepGood ==
  ASSUME Good, ~clash', NEW l \in Loads, CreateSidecar(l) \/ WriteBlock(l) \/ ReturnSeries(l)
  PROVE  Good'
<1>0. /\ <<>> \in Seq(Row) /\ Len(<<>>) = 0
      /\ csv.rows \in Seq(Row) /\ sidecar.blocks \in Seq(Row) /\ sidecar.count \in Nat
      /\ load[l] \in [at : Places, series : Seq(Row), done : Nat]
      /\ load[l] = [at |-> load[l].at, series |-> load[l].series, done |-> load[l].done]
      /\ Len(csv.rows) \in Nat /\ Len(sidecar.blocks) \in Nat
  BY EmptySeq DEF Good, Typed
<1>1. CASE CreateSidecar(l)
  <2>1. load[l].series = csv.rows
    BY <1>1 DEF CreateSidecar, Step, Good, LoadInv, Ours
  <2>2. \A k \in Loads : load[k].at # "write"
    BY <1>1 DEF CreateSidecar
  <2>3. load' = [load EXCEPT ![l] = [at |-> "write", series |-> csv.rows, done |-> 0]]
    BY <1>1, <2>1 DEF CreateSidecar, Step
  <2>4. /\ sidecar' = [count |-> 0, blocks |-> <<>>, at |-> tick]
        /\ UNCHANGED <<csv, writing, tick>>
    BY <1>1 DEF CreateSidecar
  <2>5. /\ 0 = Len(<<>>) /\ 0 <= Len(csv.rows)
        /\ \A k \in 1..Len(<<>>) : <<>>[k] = csv.rows[k]
        /\ \A k \in Loads : load[k].at = "write" => k = l
    BY <1>0, <2>2
  <2> QED
    BY <1>0, <2>3, <2>4, <2>5, Writing, ZenonT(60)
<1>2. CASE WriteBlock(l)
  <2> DEFINE n == load[l].done + 1
             blocks == Append(sidecar.blocks, csv.rows[n])
  <2>1. /\ load[l].at = "write" /\ n <= Len(load[l].series)
        /\ load' = [load EXCEPT ![l].done = n]
        /\ sidecar' = [count  |-> IF n = 1 THEN Len(load[l].series) ELSE sidecar.count,
                       blocks |-> PutBlock(sidecar.blocks, n, load[l].series[n]),
                       at     |-> tick]
        /\ UNCHANGED <<csv, writing, tick>>
    BY <1>2 DEF WriteBlock
  <2>2. /\ load[l].series = csv.rows /\ sidecar.at >= csv.at
        /\ load[l].done = Len(sidecar.blocks)
        /\ load[l].done > 0 => sidecar.count = Len(csv.rows)
    BY <2>1 DEF Good, LoadInv, Ours, Writes
  <2>3. n \in 1..Len(csv.rows) /\ n = Len(sidecar.blocks) + 1 /\ n \in Nat
    BY <1>0, <2>1, <2>2
  <2>4. csv.rows[n] \in Row
    BY <1>0, <2>3, ElementOfSeq
  <2>5. /\ blocks \in Seq(Row) /\ Len(blocks) = n
        /\ \A k \in 1..Len(sidecar.blocks) : blocks[k] = sidecar.blocks[k]
        /\ blocks[n] = csv.rows[n]
    BY <1>0, <2>3, <2>4, AppendProperties
  <2>6. PutBlock(sidecar.blocks, n, csv.rows[n]) = blocks
    <3>1. Max({n, Len(sidecar.blocks)}) = n
      BY <1>0, <2>3 DEF Max
    <3>2. blocks = [k \in 1..n |-> blocks[k]]
      BY <2>5, LenProperties
    <3>3. ASSUME NEW k \in 1..n
          PROVE  blocks[k] = IF k = n THEN csv.rows[n]
                             ELSE IF k <= Len(sidecar.blocks) THEN sidecar.blocks[k] ELSE Hole
      BY <1>0, <2>3, <2>5
    <3> HIDE DEF n, blocks
    <3> QED
      BY <3>1, <3>2, <3>3 DEF PutBlock
  <2>7. \A k \in 1..Len(blocks) : blocks[k] = csv.rows[k]
    <3>1. \A k \in 1..Len(sidecar.blocks) : sidecar.blocks[k] = csv.rows[k]
      BY <2>2 DEF Good, SidecarInv, Prefix
    <3> QED
      BY <1>0, <2>3, <2>5, <3>1
  <2>8. load' = [load EXCEPT ![l] = [at |-> "write", series |-> csv.rows, done |-> n]]
    <3>0. load[l] = [at |-> "write", series |-> csv.rows, done |-> load[l].done]
      BY <1>0, <2>1, <2>2
    <3> HIDE DEF n
    <3>1. [load[l] EXCEPT !.done = n] = [at |-> "write", series |-> csv.rows, done |-> n]
      BY <3>0
    <3> QED
      BY <2>1, <3>1
  <2>9. sidecar' = [count |-> Len(csv.rows), blocks |-> blocks, at |-> tick]
    <3>1. (IF n = 1 THEN Len(load[l].series) ELSE sidecar.count) = Len(csv.rows)
      BY <1>0, <2>2, <2>3
    <3>2. PutBlock(sidecar.blocks, n, load[l].series[n]) = blocks
      BY <2>2, <2>6
    <3> HIDE DEF n, blocks
    <3> QED
      BY <2>1, <3>1, <3>2
  <2>10. \A k \in Loads : load[k].at = "write" => k = l
    BY <2>1 DEF Good, OneWriter
  <2> HIDE DEF n, blocks
  <2>11. n = Len(blocks) /\ n <= Len(csv.rows) /\ UNCHANGED <<csv, writing, tick>>
    BY <1>0, <2>1, <2>3, <2>5
  <2> QED
    BY <1>0, <2>3, <2>5, <2>7, <2>8, <2>9, <2>10, <2>11, Writing, ZenonT(60)
<1>3. CASE ReturnSeries(l)
  <2>1. load[l].series = csv.rows
    BY <1>3 DEF ReturnSeries, Good, LoadInv, Ours
  <2>2. load' = [load EXCEPT ![l] = [at |-> "loaded", series |-> csv.rows, done |-> load[l].done]]
    <3>1. [load[l] EXCEPT !.at = "loaded"]
            = [at |-> "loaded", series |-> csv.rows, done |-> load[l].done]
      BY <1>0, <2>1
    <3> QED
      BY <1>3, <3>1 DEF ReturnSeries
  <2>3. UNCHANGED <<csv, writing, sidecar, tick>>
    BY <1>3 DEF ReturnSeries
  <2>4. "loaded" \in Places
    BY DEF Places
  <2> QED
    BY <1>0, <2>2, <2>3, <2>4, Moving
<1> QED
  BY <1>1, <1>2, <1>3

-----------------------------------------------------------------------------
LEMMA BarInit == Init => BarInv
<1> SUFFICES ASSUME Init PROVE Good
  BY DEF BarInv
<1>1. Typed
  BY ContentsAreRows, EmptySeq DEF Init, Typed, NoFile, Idle, Places
<1>2. SidecarInv
  BY DEF Init, SidecarInv, NoFile
<1>3. LoadInv /\ OneWriter
  BY DEF Init, LoadInv, OneWriter, Ours, Reads, Writes, Idle
<1> QED
  BY <1>1, <1>2, <1>3 DEF Good

LEMMA BarStep == BarInv /\ [Next]_vars => BarInv'
<1> SUFFICES ASSUME BarInv, [Next]_vars, ~clash' PROVE Good'
  BY DEF BarInv
<1>0. Good
  BY DEF BarInv, Next, vars, Tick, StartRewrite, WriteRow, Replace, ChangeCsv, Stat, ReadSidecar,
         ParseCsv, CreateSidecar, WriteBlock, ReturnSeries, Leave
<1>1. CASE Tick
  <2>1. /\ tick' = tick + 1 /\ UNCHANGED <<csv, writing, sidecar, load>>
    BY <1>1 DEF Tick
  <2> QED
    BY <1>0, <2>1 DEF Good, Typed, SidecarInv, Prefix, LoadInv, Ours, Reads, Writes, OneWriter
<1>2. CASE StartRewrite \/ WriteRow \/ Replace
  BY <1>0, <1>2, EditsKeepGood
<1>3. CASE \E l \in Loads : Stat(l) \/ ReadSidecar(l) \/ ParseCsv(l) \/ Leave(l)
  BY <1>0, <1>3, MovesKeepGood
<1>4. CASE \E l \in Loads : CreateSidecar(l) \/ WriteBlock(l) \/ ReturnSeries(l)
  BY <1>0, <1>4, WritesKeepGood
<1>5. CASE UNCHANGED vars
  BY <1>0, <1>5 DEF vars, Good, Typed, SidecarInv, Prefix, LoadInv, Ours, Reads, Writes, OneWriter
<1> QED
  BY <1>1, <1>2, <1>3, <1>4, <1>5 DEF Next

(***************************************************************************)
(* The inductive invariant: until writers have met, a sidecar that looks   *)
(* fresh holds the first bars of the csv, whatever was cut off before.     *)
(***************************************************************************)
THEOREM BarInvHolds == Spec => []BarInv
BY BarInit, BarStep, PTL DEF Spec

(***************************************************************************)
(* A load returns the rows that the csv holds, although earlier loads may  *)
(* have left half a sidecar (pbar.rs:18-34, 134-142).                      *)
(***************************************************************************)
THEOREM LoadsAreCurrent == Spec => []LoadIsCurrent
<1>1. BarInv => LoadIsCurrent
  BY DEF BarInv, Good, LoadInv, Ours, LoadIsCurrent
<1> QED
  BY <1>1, BarInvHolds, PTL

-----------------------------------------------------------------------------
\* Numbers are reached by counting, and sequences row by row.
LEMMA Counting ==
  ASSUME NEW T \in SUBSET Nat, 0 \in T, \A n \in T : n + 1 \in T
  PROVE  T = Nat
<1> DEFINE Bad == Nat \ T
           Less == OpToRel(<, Nat)
<1> SUFFICES ASSUME Bad # {} PROVE FALSE
  OBVIOUS
<1>1. IsWellFoundedOn(Less, Nat)
  BY NatLessThanWellFounded
<1>2. PICK m \in Bad : \A k \in Bad : ~ (<<k, m>> \in Less)
  <2>1. Bad \in SUBSET Nat
    OBVIOUS
  <2> HIDE DEF Less, Bad
  <2> QED
    BY <1>1, <2>1, WFMin
<1>3. \A k \in Bad : ~ (k < m)
  BY <1>2 DEF OpToRel
<1>4. m \in Nat /\ m # 0 /\ m \notin T
  BY <1>2
<1>5. m - 1 \in Nat /\ m - 1 < m /\ (m - 1) + 1 = m
  BY <1>4
<1>6. m - 1 \in T
  BY <1>3, <1>5
<1> QED
  BY <1>4, <1>5, <1>6

LEMMA Growing ==
  ASSUME NEW S, NEW T \in SUBSET Seq(S), <<>> \in T, \A q \in T, x \in S : Append(q, x) \in T
  PROVE  T = Seq(S)
<1> DEFINE Lengths == {n \in Nat : \A q \in Seq(S) : Len(q) = n => q \in T}
<1>1. Lengths = Nat
  <2>1. 0 \in Lengths
    BY EmptySeq
  <2>2. ASSUME NEW n \in Lengths PROVE n + 1 \in Lengths
    <3> SUFFICES ASSUME NEW q \in Seq(S), Len(q) = n + 1 PROVE q \in T
      OBVIOUS
    <3>1. PICK f \in Seq(S), x \in S : q = Append(f, x)
      <4>1. q # <<>>
        OBVIOUS
      <4> QED
        BY <4>1, SequenceEmptyOrAppend
    <3>2. Len(f) = n
      BY <3>1, AppendProperties
    <3> QED
      BY <3>1, <3>2
  <2> HIDE DEF Lengths
  <2>3. Lengths \in SUBSET Nat
    BY DEF Lengths
  <2> QED
    BY <2>1, <2>2, <2>3, Counting
<1>2. \A q \in Seq(S) : Len(q) \in Lengths
  BY <1>1
<1> QED
  BY <1>2

-----------------------------------------------------------------------------
\* The two loops over rows: bars are made, or volumes are added up.
Making(secs) == [of |-> "bars", secs |-> secs]
Adding(bucket) == [of |-> "volume", bucket |-> bucket]

Begin(loop) == IF loop.of = "bars" THEN <<>> ELSE 0

Advance(loop, made, rows, k) ==
  IF loop.of = "bars" THEN AddRow(made, rows[k], loop.secs)
  ELSE made + (IF k \in loop.bucket THEN rows[k].volume ELSE 0)

\* What a loop has made after each of the first n rows.
Runs(f, loop, rows, n) ==
  f = [k \in 0..n |-> IF k = 0 THEN Begin(loop) ELSE Advance(loop, f[k - 1], rows, k)]

LEMMA RunsAt ==
  ASSUME NEW f, NEW loop, NEW rows, NEW n \in Nat, Runs(f, loop, rows, n), NEW k \in 0..n
  PROVE  f[k] = IF k = 0 THEN Begin(loop) ELSE Advance(loop, f[k - 1], rows, k)
<1> DEFINE F(j) == IF j = 0 THEN Begin(loop) ELSE Advance(loop, f[j - 1], rows, j)
<1>1. f = [j \in 0..n |-> F(j)]
  BY DEF Runs
<1> HIDE DEF F
<1>2. f[k] = F(k)
  BY <1>1
<1> QED
  BY <1>2 DEF F

LEMMA RunExists ==
  ASSUME NEW loop, NEW rows, NEW n \in Nat
  PROVE  \E f : Runs(f, loop, rows, n)
<1> DEFINE T == {m \in Nat : \E f : Runs(f, loop, rows, m)}
<1>1. 0 \in T
  <2> DEFINE f == [k \in 0..0 |-> Begin(loop)]
             F(k) == IF k = 0 THEN Begin(loop) ELSE Advance(loop, f[k - 1], rows, k)
  <2>1. \A k \in 0..0 : f[k] = F(k)
    OBVIOUS
  <2>2. f = [k \in 0..0 |-> F(k)]
    <3> HIDE DEF F
    <3> QED
      BY <2>1
  <2> QED
    BY <2>2 DEF Runs
<1>2. ASSUME NEW m \in T PROVE m + 1 \in T
  <2>1. PICK f : Runs(f, loop, rows, m)
    OBVIOUS
  <2> DEFINE g == [k \in 0..(m + 1) |-> IF k = m + 1 THEN Advance(loop, f[m], rows, m + 1) ELSE f[k]]
             G(k) == IF k = 0 THEN Begin(loop) ELSE Advance(loop, g[k - 1], rows, k)
  <2>2. ASSUME NEW k \in 0..(m + 1) PROVE g[k] = G(k)
    <3>1. CASE k = m + 1
      <4>1. k - 1 = m /\ m \in 0..(m + 1) /\ m # m + 1 /\ k # 0
        BY <3>1
      <4>2. g[m] = f[m]
        BY <4>1
      <4> QED
        BY <3>1, <4>1, <4>2
    <3>2. CASE k \in 1..m
      <4>1. k \in 0..m /\ k - 1 \in 0..(m + 1) /\ k - 1 # m + 1 /\ k # m + 1 /\ k # 0
        BY <3>2
      <4>2. f[k] = Advance(loop, f[k - 1], rows, k)
        BY <2>1, <4>1, RunsAt
      <4>3. g[k] = f[k] /\ g[k - 1] = f[k - 1]
        BY <4>1
      <4> QED
        BY <4>1, <4>2, <4>3
    <3>3. CASE k = 0
      <4>1. f[0] = Begin(loop)
        BY <2>1, RunsAt
      <4> QED
        BY <3>3, <4>1
    <3> QED
      BY <3>1, <3>2, <3>3
  <2>3. g = [k \in 0..(m + 1) |-> G(k)]
    <3>1. g = [k \in 0..(m + 1) |-> g[k]]
      OBVIOUS
    <3> HIDE DEF g, G
    <3> QED
      BY <2>2, <3>1
  <2> HIDE DEF g
  <2>4. Runs(g, loop, rows, m + 1)
    BY <2>3 DEF Runs
  <2> QED
    BY <2>4
<1> HIDE DEF T
<1>3. T \in SUBSET Nat
  BY DEF T
<1>4. T = Nat
  BY <1>1, <1>2, <1>3, Counting
<1> QED
  BY <1>4 DEF T

\* Loops that take the same steps make the same.
LEMMA RunsAgree ==
  ASSUME NEW loop, NEW other, NEW p, NEW q, NEW n \in Nat, NEW m \in Nat, n <= m,
         NEW f, Runs(f, loop, p, n), NEW g, Runs(g, other, q, m),
         Begin(loop) = Begin(other),
         \A k \in 1..n : \A made : Advance(loop, made, p, k) = Advance(other, made, q, k)
  PROVE  f[n] = g[n]
<1> DEFINE T == {k \in Nat : k <= n => f[k] = g[k]}
<1>1. 0 \in T
  BY RunsAt
<1>2. ASSUME NEW k \in T PROVE k + 1 \in T
  <2> SUFFICES ASSUME k + 1 <= n PROVE f[k + 1] = g[k + 1]
    OBVIOUS
  <2> DEFINE j == k + 1
  <2>1. j \in 0..n /\ j \in 0..m /\ j \in 1..n /\ j # 0 /\ j - 1 = k
    OBVIOUS
  <2> HIDE DEF j
  <2>2. f[j] = Advance(loop, f[j - 1], p, j)
    BY <2>1, RunsAt
  <2>3. g[j] = Advance(other, g[j - 1], q, j)
    BY <2>1, RunsAt
  <2>4. f[k] = g[k]
    OBVIOUS
  <2>5. Advance(loop, f[k], p, j) = Advance(other, f[k], q, j)
    BY <2>1
  <2>6. f[j] = g[j]
    BY <2>1, <2>2, <2>3, <2>4, <2>5
  <2> QED
    BY <2>6 DEF j
<1> HIDE DEF T
<1>3. T \in SUBSET Nat
  BY DEF T
<1>4. T = Nat
  BY <1>1, <1>2, <1>3, Counting
<1> QED
  BY <1>4 DEF T

LEMMA BarsRun ==
  ASSUME NEW rows, NEW secs, Len(rows) \in Nat
  PROVE  \E f : Runs(f, Making(secs), rows, Len(rows)) /\ aggregate_rows(rows, secs) = f[Len(rows)]
<1> DEFINE f == CHOOSE f : Runs(f, Making(secs), rows, Len(rows))
<1>1. Runs(f, Making(secs), rows, Len(rows))
  BY RunExists
<1>2. aggregate_rows(rows, secs) = f[Len(rows)]
  BY DEF aggregate_rows, Runs, Making, Begin, Advance
<1> QED
  BY <1>1, <1>2

LEMMA VolumeRuns ==
  ASSUME NEW rows, NEW bucket, Len(rows) \in Nat
  PROVE  \E f : Runs(f, Adding(bucket), rows, Len(rows)) /\ VolumeOf(rows, bucket) = f[Len(rows)]
<1> DEFINE f == CHOOSE f : Runs(f, Adding(bucket), rows, Len(rows))
<1>1. Runs(f, Adding(bucket), rows, Len(rows))
  BY RunExists
<1>2. VolumeOf(rows, bucket) = f[Len(rows)]
  BY DEF VolumeOf, Runs, Adding, Begin, Advance
<1> QED
  BY <1>1, <1>2

\* One more row is one more step of the loop.
LEMMA AggregateGrows ==
  ASSUME NEW S, NEW secs
  PROVE  /\ aggregate_rows(<<>>, secs) = <<>>
         /\ \A q \in Seq(S), x \in S :
              aggregate_rows(Append(q, x), secs) = AddRow(aggregate_rows(q, secs), x, secs)
<1>1. aggregate_rows(<<>>, secs) = <<>>
  <2> DEFINE e == <<>>
             n == Len(e)
  <2>1. n = 0
    OBVIOUS
  <2>2. PICK f : Runs(f, Making(secs), e, n) /\ aggregate_rows(e, secs) = f[n]
    BY <2>1, BarsRun
  <2> HIDE DEF n
  <2>3. f[0] = Begin(Making(secs))
    BY <2>1, <2>2, RunsAt
  <2> QED
    BY <2>1, <2>2, <2>3 DEF Begin, Making
<1>2. ASSUME NEW q \in Seq(S), NEW x \in S
      PROVE  aggregate_rows(Append(q, x), secs) = AddRow(aggregate_rows(q, secs), x, secs)
  <2> DEFINE n == Len(q)
             r == Append(q, x)
             m == Len(r)
             loop == Making(secs)
  <2>1. n \in Nat /\ m \in Nat /\ m = n + 1 /\ n <= m /\ m \in 0..m /\ m # 0 /\ m - 1 = n
        /\ r[m] = x /\ \A k \in 1..n : q[k] = r[k]
    BY AppendProperties
  <2>2. PICK f : Runs(f, loop, q, n) /\ aggregate_rows(q, secs) = f[n]
    BY <2>1, BarsRun
  <2>3. PICK g : Runs(g, loop, r, m) /\ aggregate_rows(r, secs) = g[m]
    BY <2>1, BarsRun
  <2>4. \A k \in 1..n : \A made : Advance(loop, made, q, k) = Advance(loop, made, r, k)
    BY <2>1 DEF Advance, Making
  <2> HIDE DEF n, r, m, loop
  <2>5. f[n] = g[n]
    BY <2>1, <2>2, <2>3, <2>4, RunsAgree
  <2>6. g[m] = Advance(loop, g[m - 1], r, m)
    BY <2>1, <2>3, RunsAt
  <2>7. g[m] = AddRow(g[n], x, secs)
    BY <2>1, <2>6 DEF Advance, loop, Making
  <2> QED
    BY <2>1, <2>2, <2>3, <2>5, <2>7 DEF r
<1> QED
  BY <1>1, <1>2

\* The volume of one more row is added if it is in the bucket.
LEMMA VolumeGrows ==
  ASSUME NEW S, NEW bucket
  PROVE  /\ VolumeOf(<<>>, bucket) = 0
         /\ \A q \in Seq(S), x \in S :
              /\ VolumeOf(Append(q, x), bucket)
                   = VolumeOf(q, bucket) + (IF Len(q) + 1 \in bucket THEN x.volume ELSE 0)
              /\ \A part : (\A k \in 1..Len(q) : k \in bucket <=> k \in part)
                             => VolumeOf(q, bucket) = VolumeOf(q, part)
<1>1. VolumeOf(<<>>, bucket) = 0
  <2> DEFINE e == <<>>
             n == Len(e)
  <2>1. n = 0
    OBVIOUS
  <2>2. PICK f : Runs(f, Adding(bucket), e, n) /\ VolumeOf(e, bucket) = f[n]
    BY <2>1, VolumeRuns
  <2> HIDE DEF n
  <2>3. f[0] = Begin(Adding(bucket))
    BY <2>1, <2>2, RunsAt
  <2> QED
    BY <2>1, <2>2, <2>3 DEF Begin, Adding
<1>2. ASSUME NEW q \in Seq(S), NEW x \in S
      PROVE  VolumeOf(Append(q, x), bucket)
               = VolumeOf(q, bucket) + (IF Len(q) + 1 \in bucket THEN x.volume ELSE 0)
  <2> DEFINE n == Len(q)
             r == Append(q, x)
             m == Len(r)
             loop == Adding(bucket)
  <2>1. n \in Nat /\ m \in Nat /\ m = n + 1 /\ n <= m /\ m \in 0..m /\ m # 0 /\ m - 1 = n
        /\ r[m] = x /\ \A k \in 1..n : q[k] = r[k]
    BY AppendProperties
  <2>2. PICK f : Runs(f, loop, q, n) /\ VolumeOf(q, bucket) = f[n]
    BY <2>1, VolumeRuns
  <2>3. PICK g : Runs(g, loop, r, m) /\ VolumeOf(r, bucket) = g[m]
    BY <2>1, VolumeRuns
  <2>4. \A k \in 1..n : \A made : Advance(loop, made, q, k) = Advance(loop, made, r, k)
    BY <2>1 DEF Advance, Adding
  <2> HIDE DEF n, r, m, loop
  <2>5. f[n] = g[n]
    BY <2>1, <2>2, <2>3, <2>4, RunsAgree
  <2>6. g[m] = Advance(loop, g[m - 1], r, m)
    BY <2>1, <2>3, RunsAt
  <2>7. g[m] = g[n] + (IF m \in bucket THEN x.volume ELSE 0)
    BY <2>1, <2>6 DEF Advance, loop, Adding
  <2> QED
    BY <2>1, <2>2, <2>3, <2>5, <2>7 DEF r, n
<1>3. ASSUME NEW q \in Seq(S), NEW part, \A k \in 1..Len(q) : k \in bucket <=> k \in part
      PROVE  VolumeOf(q, bucket) = VolumeOf(q, part)
  <2> DEFINE n == Len(q)
             loop == Adding(bucket)
             other == Adding(part)
  <2>1. n \in Nat /\ n <= n
    OBVIOUS
  <2>2. PICK f : Runs(f, loop, q, n) /\ VolumeOf(q, bucket) = f[n]
    BY <2>1, VolumeRuns
  <2>3. PICK g : Runs(g, other, q, n) /\ VolumeOf(q, part) = g[n]
    BY <2>1, VolumeRuns
  <2>4. \A k \in 1..n : \A made : Advance(loop, made, q, k) = Advance(other, made, q, k)
    BY <1>3 DEF Advance, Adding
  <2>5. Begin(loop) = Begin(other)
    BY DEF Begin, Adding
  <2> HIDE DEF n, loop, other
  <2>6. f[n] = g[n]
    BY <2>1, <2>2, <2>3, <2>4, <2>5, RunsAgree
  <2> QED
    BY <2>2, <2>3, <2>6
<1> QED
  BY <1>1, <1>2, <1>3

-----------------------------------------------------------------------------
\* Buckets, and the bars that rows are merged into.
Ohlcv == [ts : Int, open : Int, high : Int, low : Int, close : Int, volume : Int]

LEMMA Products ==
  ASSUME NEW a \in Nat, NEW b \in Nat
  PROVE  a * b \in Nat
OBVIOUS

LEMMA BucketStart ==
  ASSUME NEW secs \in Nat \ {0}, NEW t \in Int
  PROVE  /\ bucket_start(t, secs) \in Int
         /\ bucket_start(t, secs) <= t /\ t < bucket_start(t, secs) + secs
         /\ t - (t % secs) = bucket_start(t, secs)
         /\ \E j \in Int : bucket_start(t, secs) = secs * j
<1> DEFINE j == t \div secs
           r == t % secs
<1>1. j \in Int /\ r \in 0..(secs - 1) /\ t = secs * j + r
  OBVIOUS
<1>2. bucket_start(t, secs) = j * secs
  BY DEF bucket_start
<1> HIDE DEF j, r
<1>3. j * secs = secs * j /\ secs * j \in Int
  BY <1>1
<1> DEFINE b == secs * j
<1>4. bucket_start(t, secs) = b /\ b \in Int
  BY <1>2, <1>3
<1>5. r \in Int /\ 0 <= r /\ r < secs /\ t = b + r
  BY <1>1
<1> HIDE DEF b
<1>6. b <= t /\ t < b + secs /\ t - r = b
  BY <1>4, <1>5
<1>7. t - (t % secs) = b
  BY <1>6 DEF r
<1>8. \E i \in Int : b = secs * i
  BY <1>1 DEF b
<1> QED
  BY <1>4, <1>6, <1>7, <1>8

\* Buckets do not overlap.
LEMMA OneBucket ==
  ASSUME NEW secs \in Nat \ {0}, NEW t \in Int, NEW u \in Int, t <= u,
         NEW i \in Int, secs * i <= t, t < secs * i + secs,
         NEW j \in Int, secs * j <= u, u < secs * j + secs
  PROVE  i <= j /\ secs * i <= secs * j /\ (t = u => i = j)
<1> DEFINE d == j - i
<1>1. d \in Int /\ secs * j = secs * i + secs * d /\ secs * i \in Int /\ secs * d \in Int
  OBVIOUS
<1>2. ASSUME -d - 1 \in Nat PROVE FALSE
  <2>1. secs * (-d - 1) \in Nat /\ secs * (-d - 1) = -(secs * d) - secs
    BY <1>1, <1>2, Products
  <2> QED
    BY <2>1, <1>1
<1>3. d \in Nat
  BY <1>1, <1>2
<1>4. secs * d \in Nat
  BY <1>3, Products
<1>5. ASSUME t = u PROVE i = j
  <2>1. ASSUME d - 1 \in Nat PROVE FALSE
    <3>1. secs * (d - 1) \in Nat /\ secs * (d - 1) = secs * d - secs
      BY <1>1, <2>1, Products
    <3> QED
      BY <3>1, <1>1, <1>5
  <2> QED
    BY <2>1, <1>1, <1>3
<1> QED
  BY <1>1, <1>3, <1>4, <1>5

LEMMA BucketsAscend ==
  ASSUME NEW secs \in Nat \ {0}, NEW t \in Int, NEW u \in Int, t <= u
  PROVE  bucket_start(t, secs) <= bucket_start(u, secs)
<1>1. PICK i \in Int : bucket_start(t, secs) = secs * i
  BY BucketStart
<1>2. PICK j \in Int : bucket_start(u, secs) = secs * j
  BY BucketStart
<1>3. secs * i <= t /\ t < secs * i + secs /\ secs * j <= u /\ u < secs * j + secs
  BY <1>1, <1>2, BucketStart
<1> QED
  BY <1>1, <1>2, <1>3, OneBucket

\* An instant is in the bucket of another if it has its start.
LEMMA InBucket ==
  ASSUME NEW secs \in Nat \ {0}, NEW t \in Int, NEW u \in Int
  PROVE  bucket_start(u, secs) <= t /\ t < bucket_start(u, secs) + secs
           <=> bucket_start(t, secs) = bucket_start(u, secs)
<1>1. PICK i \in Int : bucket_start(t, secs) = secs * i
  BY BucketStart
<1>2. PICK j \in Int : bucket_start(u, secs) = secs * j
  BY BucketStart
<1>3. secs * i <= t /\ t < secs * i + secs
  BY <1>1, BucketStart
<1>4. ASSUME secs * j <= t, t < secs * j + secs PROVE i = j
  BY <1>3, <1>4, OneBucket
<1>5. secs * i = secs * j => secs * j <= t /\ t < secs * j + secs
  BY <1>3
<1> QED
  BY <1>1, <1>2, <1>4, <1>5

\* A coarser bucket is made of whole finer ones.
LEMMA CoarserBucket ==
  ASSUME NEW secs \in Nat \ {0}, NEW coarser \in Nat \ {0}, coarser % secs = 0, NEW t \in Int
  PROVE  bucket_start(bucket_start(t, secs), coarser) = bucket_start(t, coarser)
<1> DEFINE s == bucket_start(t, secs)
           c == bucket_start(t, coarser)
           k == coarser \div secs
<1>1. k \in Int /\ coarser = secs * k
  OBVIOUS
<1>2. s \in Int /\ s <= t /\ t < s + secs /\ c \in Int /\ c <= t /\ t < c + coarser
  BY BucketStart
<1>3. PICK j \in Int : s = secs * j
  BY BucketStart
<1>4. PICK i \in Int : c = coarser * i
  BY BucketStart
<1> HIDE DEF k
<1>5. k * i \in Int /\ c = secs * (k * i)
  <2>1. coarser * i = (secs * k) * i
    BY <1>1
  <2>2. (secs * k) * i = secs * (k * i) /\ k * i \in Int
    BY <1>1
  <2> QED
    BY <1>4, <2>1, <2>2
<1> DEFINE m == k * i
<1> HIDE DEF s, c, m
<1>6. m <= j
  <2> DEFINE d == j - m
  <2>1. m \in Int /\ c = secs * m
    BY <1>5 DEF m
  <2>2. d \in Int /\ secs * j = secs * m + secs * d /\ secs * d \in Int
    BY <2>1
  <2>3. ASSUME -d - 1 \in Nat PROVE FALSE
    <3>1. secs * (-d - 1) \in Nat /\ secs * (-d - 1) = -(secs * d) - secs
      BY <2>2, <2>3, Products
    <3> QED
      BY <3>1, <2>1, <2>2, <1>2, <1>3
  <2> QED
    BY <2>1, <2>2, <2>3
<1>7. c <= s
  <2> DEFINE d == j - m
  <2>1. m \in Int /\ c = secs * m
    BY <1>5 DEF m
  <2>2. d \in Nat /\ secs * j = secs * m + secs * d /\ secs * d \in Int
    BY <1>6, <2>1
  <2>3. secs * d \in Nat
    BY <2>2, Products
  <2> QED
    BY <2>1, <2>2, <2>3, <1>2, <1>3
<1>8. c <= s /\ s < c + coarser
  BY <1>2, <1>7
<1>9. bucket_start(s, coarser) = bucket_start(t, coarser)
  BY <1>2, <1>8, InBucket DEF c
<1> QED
  BY <1>9 DEF s

-----------------------------------------------------------------------------
LEMMA MaxIs ==
  ASSUME NEW S \in SUBSET Int, NEW m \in S, \A x \in S : x <= m
  PROVE  Max(S) = m
<1> DEFINE P(y) == y \in S /\ \A x \in S : y >= x
<1>1. Max(S) = CHOOSE y : P(y)
  BY DEF Max
<1>2. P(m)
  OBVIOUS
<1> HIDE DEF P
<1>3. P(Max(S))
  BY <1>1, <1>2
<1>4. Max(S) \in S /\ Max(S) >= m
  BY <1>3 DEF P
<1>5. Max(S) \in Int /\ m \in Int /\ Max(S) <= m
  BY <1>4
<1> QED
  BY <1>4, <1>5

LEMMA MinIs ==
  ASSUME NEW S \in SUBSET Int, NEW m \in S, \A x \in S : m <= x
  PROVE  Min(S) = m
<1> DEFINE P(y) == y \in S /\ \A x \in S : y <= x
<1>1. Min(S) = CHOOSE y : P(y)
  BY DEF Min
<1>2. P(m)
  OBVIOUS
<1> HIDE DEF P
<1>3. P(Min(S))
  BY <1>1, <1>2
<1>4. Min(S) \in S /\ Min(S) <= m
  BY <1>3 DEF P
<1>5. Min(S) \in Int /\ m \in Int /\ m <= Min(S)
  BY <1>4
<1> QED
  BY <1>4, <1>5

LEMMA OfTwo ==
  ASSUME NEW a \in Int, NEW b \in Int
  PROVE  /\ Max({a, b}) = IF a >= b THEN a ELSE b
         /\ Min({a, b}) = IF a <= b THEN a ELSE b
<1> DEFINE S == {a, b}
<1>0. S \in SUBSET Int
  OBVIOUS
<1>1. ASSUME a >= b PROVE Max(S) = a /\ Min(S) = b
  <2>1. a \in S /\ b \in S /\ (\A x \in S : x <= a) /\ (\A x \in S : b <= x)
    BY <1>1
  <2> HIDE DEF S
  <2> QED
    BY <1>0, <2>1, MaxIs, MinIs
<1>2. ASSUME a <= b PROVE Max(S) = b /\ Min(S) = a
  <2>1. a \in S /\ b \in S /\ (\A x \in S : x <= b) /\ (\A x \in S : a <= x)
    BY <1>2
  <2> HIDE DEF S
  <2> QED
    BY <1>0, <2>1, MaxIs, MinIs
<1>3. Max({a, b}) = IF a >= b THEN a ELSE b
  BY <1>1, <1>2
<1>4. Min({a, b}) = IF a <= b THEN a ELSE b
  BY <1>1, <1>2
<1> QED
  BY <1>3, <1>4

\* A row is merged field by field, and the order of merging does not matter.
LEMMA Absorbed ==
  ASSUME NEW bar \in Ohlcv, NEW row \in Ohlcv
  PROVE  /\ Absorb(bar, row) \in Ohlcv
         /\ Absorb(bar, row) =
              [ts |-> bar.ts, open |-> bar.open,
               high |-> IF bar.high >= row.high THEN bar.high ELSE row.high,
               low |-> IF bar.low <= row.low THEN bar.low ELSE row.low,
               close |-> row.close, volume |-> bar.volume + row.volume]
<1>1. bar.high \in Int /\ row.high \in Int /\ bar.low \in Int /\ row.low \in Int
      /\ bar.volume \in Int /\ row.volume \in Int
  BY DEF Ohlcv
<1> DEFINE high == Max({bar.high, row.high})
           low == Min({bar.low, row.low})
           volume == bar.volume + row.volume
<1>2. high = (IF bar.high >= row.high THEN bar.high ELSE row.high)
      /\ low = (IF bar.low <= row.low THEN bar.low ELSE row.low)
  BY <1>1, OfTwo
<1>3. high \in Int /\ low \in Int /\ volume \in Int
  BY <1>1, <1>2
<1>4. Absorb(bar, row) =
        [bar EXCEPT !.high = high, !.low = low, !.close = row.close, !.volume = volume]
  BY DEF Absorb
<1> HIDE DEF high, low, volume
<1>5. Absorb(bar, row) = [ts |-> bar.ts, open |-> bar.open, high |-> high, low |-> low,
                          close |-> row.close, volume |-> volume]
  BY <1>4 DEF Ohlcv
<1>6. bar.ts \in Int /\ bar.open \in Int /\ row.close \in Int
  BY DEF Ohlcv
<1>7. Absorb(bar, row) \in Ohlcv
  BY <1>3, <1>5, <1>6 DEF Ohlcv
<1> QED
  BY <1>2, <1>5, <1>7 DEF volume

LEMMA AbsorbTwice ==
  ASSUME NEW a \in Ohlcv, NEW b \in Ohlcv, NEW c \in Ohlcv
  PROVE  Absorb(Absorb(a, b), c) = Absorb(a, Absorb(b, c))
<1> DEFINE ab == Absorb(a, b)
           bc == Absorb(b, c)
<1>1. ab \in Ohlcv /\ bc \in Ohlcv
  BY Absorbed
<1>2. /\ ab.ts = a.ts /\ ab.open = a.open
      /\ ab.high = (IF a.high >= b.high THEN a.high ELSE b.high)
      /\ ab.low = (IF a.low <= b.low THEN a.low ELSE b.low)
      /\ ab.volume = a.volume + b.volume
  <2>1. ab = [ts |-> a.ts, open |-> a.open,
               high |-> IF a.high >= b.high THEN a.high ELSE b.high,
               low |-> IF a.low <= b.low THEN a.low ELSE b.low,
               close |-> b.close, volume |-> a.volume + b.volume]
    BY Absorbed
  <2> HIDE DEF ab
  <2> QED
    BY <2>1
<1>3. /\ bc.high = (IF b.high >= c.high THEN b.high ELSE c.high)
      /\ bc.low = (IF b.low <= c.low THEN b.low ELSE c.low)
      /\ bc.close = c.close
      /\ bc.volume = b.volume + c.volume
  <2>1. bc = [ts |-> b.ts, open |-> b.open,
               high |-> IF b.high >= c.high THEN b.high ELSE c.high,
               low |-> IF b.low <= c.low THEN b.low ELSE c.low,
               close |-> c.close, volume |-> b.volume + c.volume]
    BY Absorbed
  <2> HIDE DEF bc
  <2> QED
    BY <2>1
<1> HIDE DEF ab, bc
<1>4. Absorb(ab, c) =
        [ts |-> ab.ts, open |-> ab.open, high |-> IF ab.high >= c.high THEN ab.high ELSE c.high,
         low |-> IF ab.low <= c.low THEN ab.low ELSE c.low, close |-> c.close,
         volume |-> ab.volume + c.volume]
  BY <1>1, Absorbed
<1>5. Absorb(a, bc) =
        [ts |-> a.ts, open |-> a.open, high |-> IF a.high >= bc.high THEN a.high ELSE bc.high,
         low |-> IF a.low <= bc.low THEN a.low ELSE bc.low, close |-> bc.close,
         volume |-> a.volume + bc.volume]
  BY <1>1, Absorbed
<1>6. /\ a.high \in Int /\ b.high \in Int /\ c.high \in Int /\ a.low \in Int /\ b.low \in Int
      /\ c.low \in Int /\ a.volume \in Int /\ b.volume \in Int /\ c.volume \in Int
  BY DEF Ohlcv
<1>7. (IF ab.high >= c.high THEN ab.high ELSE c.high) = (IF a.high >= bc.high THEN a.high ELSE bc.high)
  BY <1>2, <1>3, <1>6
<1>8. (IF ab.low <= c.low THEN ab.low ELSE c.low) = (IF a.low <= bc.low THEN a.low ELSE bc.low)
  BY <1>2, <1>3, <1>6
<1>9. ab.volume + c.volume = a.volume + bc.volume
  BY <1>2, <1>3, <1>6
<1>10. ab.ts = a.ts /\ ab.open = a.open /\ bc.close = c.close
  BY <1>2, <1>3
<1>11. Absorb(ab, c) = Absorb(a, bc)
  BY <1>4, <1>5, <1>7, <1>8, <1>9, <1>10
<1> QED
  BY <1>11 DEF ab, bc

\* The bar that a row opens.
Opened(row, secs) == [row EXCEPT !.ts = bucket_start(row.ts, secs)]

LEMMA AppendsAreTaken ==
  ASSUME NEW S, NEW a \in Seq(S), NEW y \in S
  PROVE  /\ Append(a, y) \in Seq(S) /\ Append(a, y) # <<>>
         /\ Front(Append(a, y)) = a /\ Last(Append(a, y)) = y
<1> DEFINE r == Append(a, y)
           n == Len(a)
<1>1. /\ r \in Seq(S) /\ r # <<>> /\ n \in Nat /\ Len(r) = n + 1 /\ r[n + 1] = y
      /\ \A k \in 1..n : r[k] = a[k]
  BY AppendProperties
<1>2. Last(r) = y
  BY <1>1 DEF Last
<1> DEFINE f == SubSeq(r, 1, n)
<1>3. Front(r) = f
  <2>1. Len(r) - 1 = n
    BY <1>1
  <2> HIDE DEF r, n
  <2> QED
    BY <2>1 DEF Front, f
<1>4. /\ f \in Seq(S) /\ Len(f) = n /\ \A k \in 1..n : f[k] = a[k]
  <2>1. \A k \in 1..n : r[k] \in S
    BY <1>1
  <2> HIDE DEF r
  <2>2. /\ f \in Seq(S) /\ Len(f) = IF 1 <= n THEN n - 1 + 1 ELSE 0
        /\ \A k \in 1..(n - 1 + 1) : f[k] = r[1 + k - 1]
    BY <1>1, <2>1, SubSeqProperties
  <2> HIDE DEF f
  <2> QED
    BY <1>1, <2>2
<1> HIDE DEF f, r
<1>5. f = a
  BY <1>4, SeqEqual
<1> QED
  BY <1>1, <1>2, <1>3, <1>5 DEF r

LEMMA OpenedIs ==
  ASSUME NEW secs \in Nat \ {0}, NEW row \in Ohlcv
  PROVE  /\ Opened(row, secs) \in Ohlcv
         /\ Opened(row, secs) =
              [ts |-> bucket_start(row.ts, secs), open |-> row.open, high |-> row.high,
               low |-> row.low, close |-> row.close, volume |-> row.volume]
<1> DEFINE b == bucket_start(row.ts, secs)
<1>1. b \in Int
  <2>1. row.ts \in Int
    BY DEF Ohlcv
  <2> QED
    BY <2>1, BucketStart
<1>2. Opened(row, secs) = [row EXCEPT !.ts = b]
  BY DEF Opened
<1> HIDE DEF b
<1>3. [row EXCEPT !.ts = b] \in Ohlcv
  BY <1>1 DEF Ohlcv
<1>4. [row EXCEPT !.ts = b] =
        [ts |-> b, open |-> row.open, high |-> row.high, low |-> row.low,
         close |-> row.close, volume |-> row.volume]
  BY <1>1 DEF Ohlcv
<1> QED
  BY <1>2, <1>3, <1>4 DEF b

LEMMA FirstRowAdded ==
  ASSUME NEW secs, NEW row
  PROVE  AddRow(<<>>, row, secs) = Append(<<>>, Opened(row, secs))
BY DEF AddRow, Opened

\* A row is merged into the last bar, or opens one after it.
LEMMA RowAdded ==
  ASSUME NEW secs \in Nat \ {0}, NEW row \in Ohlcv, NEW a \in Seq(Ohlcv), NEW bar \in Ohlcv
  PROVE  /\ bar.ts = bucket_start(row.ts, secs) =>
              AddRow(Append(a, bar), row, secs) = Append(a, Absorb(bar, row))
         /\ bar.ts # bucket_start(row.ts, secs) =>
              AddRow(Append(a, bar), row, secs) = Append(Append(a, bar), Opened(row, secs))
<1> DEFINE r == Append(a, bar)
<1>1. r # <<>> /\ Front(r) = a /\ Last(r) = bar
  BY AppendsAreTaken
<1> HIDE DEF r
<1>3. bar.ts = bucket_start(row.ts, secs) => AddRow(r, row, secs) = Append(a, Absorb(bar, row))
  BY <1>1 DEF AddRow
<1>4. bar.ts # bucket_start(row.ts, secs) =>
        AddRow(r, row, secs) = Append(r, Opened(row, secs))
  BY <1>1 DEF AddRow, Opened
<1> QED
  BY <1>3, <1>4 DEF r

LEMMA RowAddedTyped ==
  ASSUME NEW secs \in Nat \ {0}, NEW row \in Ohlcv, NEW bars \in Seq(Ohlcv)
  PROVE  AddRow(bars, row, secs) \in Seq(Ohlcv) /\ AddRow(bars, row, secs) # <<>>
<1>1. CASE bars = <<>>
  <2>1. AddRow(bars, row, secs) = Append(<<>>, Opened(row, secs))
    BY <1>1, FirstRowAdded
  <2> QED
    BY <2>1, OpenedIs, EmptySeq, AppendsAreTaken
<1>2. CASE bars # <<>>
  <2>1. PICK a \in Seq(Ohlcv), bar \in Ohlcv : bars = Append(a, bar)
    BY <1>2, SequenceEmptyOrAppend
  <2>2. \/ AddRow(bars, row, secs) = Append(a, Absorb(bar, row))
        \/ AddRow(bars, row, secs) = Append(bars, Opened(row, secs))
    BY <2>1, RowAdded
  <2>3. Absorb(bar, row) \in Ohlcv /\ Opened(row, secs) \in Ohlcv
    BY Absorbed, OpenedIs
  <2>4. Append(a, Absorb(bar, row)) \in Seq(Ohlcv) /\ Append(a, Absorb(bar, row)) # <<>>
    BY <2>3, AppendsAreTaken
  <2>5. Append(bars, Opened(row, secs)) \in Seq(Ohlcv) /\ Append(bars, Opened(row, secs)) # <<>>
    BY <2>3, AppendsAreTaken
  <2> QED
    BY <2>2, <2>4, <2>5
<1> QED
  BY <1>1, <1>2

LEMMA BarsTyped ==
  ASSUME NEW secs \in Nat \ {0}
  PROVE  \A q \in Seq(Ohlcv) : aggregate_rows(q, secs) \in Seq(Ohlcv)
<1> DEFINE T == {q \in Seq(Ohlcv) : aggregate_rows(q, secs) \in Seq(Ohlcv)}
<1>1. <<>> \in T
  BY AggregateGrows, EmptySeq
<1>2. ASSUME NEW q \in T, NEW x \in Ohlcv PROVE Append(q, x) \in T
  <2>1. aggregate_rows(Append(q, x), secs) = AddRow(aggregate_rows(q, secs), x, secs)
    BY AggregateGrows
  <2> QED
    BY <2>1, RowAddedTyped, AppendsAreTaken
<1> HIDE DEF T
<1>3. T \in SUBSET Seq(Ohlcv)
  BY DEF T
<1>4. T = Seq(Ohlcv)
  BY <1>1, <1>2, <1>3, Growing
<1> QED
  BY <1>4 DEF T

-----------------------------------------------------------------------------
\* To add a row to bars, and to add the bar that it opens, is the same.
LEMMA OpenedAddsAlike ==
  ASSUME NEW secs \in Nat \ {0}, NEW coarser \in Nat \ {0}, coarser % secs = 0,
         NEW row \in Ohlcv, NEW bars \in Seq(Ohlcv)
  PROVE  AddRow(bars, Opened(row, secs), coarser) = AddRow(bars, row, coarser)
<1> DEFINE o == Opened(row, secs)
           c == bucket_start(row.ts, coarser)
<1>1. o \in Ohlcv /\ row.ts \in Int
  BY OpenedIs DEF Ohlcv
<1>2. /\ o.ts = bucket_start(row.ts, secs)
      /\ o.open = row.open /\ o.high = row.high /\ o.low = row.low /\ o.close = row.close
      /\ o.volume = row.volume
  <2>1. o = [ts |-> bucket_start(row.ts, secs), open |-> row.open, high |-> row.high,
             low |-> row.low, close |-> row.close, volume |-> row.volume]
    BY OpenedIs
  <2> HIDE DEF o
  <2> QED
    BY <2>1
<1>3. bucket_start(o.ts, coarser) = c
  BY <1>1, <1>2, CoarserBucket
<1> HIDE DEF o
<1>4. Opened(o, coarser) = Opened(row, coarser)
  <2>1. Opened(o, coarser) = [ts |-> c, open |-> o.open, high |-> o.high, low |-> o.low,
                              close |-> o.close, volume |-> o.volume]
    BY <1>1, <1>3, OpenedIs
  <2>2. Opened(row, coarser) = [ts |-> c, open |-> row.open, high |-> row.high, low |-> row.low,
                                close |-> row.close, volume |-> row.volume]
    BY OpenedIs
  <2> QED
    BY <2>1, <2>2, <1>2
<1>5. \A bar \in Ohlcv : Absorb(bar, o) = Absorb(bar, row)
  BY <1>2 DEF Absorb
<1> HIDE DEF c
<1>6. CASE bars = <<>>
  BY <1>4, <1>6, FirstRowAdded DEF o
<1>7. CASE bars # <<>>
  <2>1. PICK a \in Seq(Ohlcv), bar \in Ohlcv : bars = Append(a, bar)
    BY <1>7, SequenceEmptyOrAppend
  <2>2. CASE bar.ts = c
    <3>1. AddRow(bars, o, coarser) = Append(a, Absorb(bar, o))
      BY <1>1, <1>3, <2>1, <2>2, RowAdded
    <3>2. AddRow(bars, row, coarser) = Append(a, Absorb(bar, row))
      BY <2>1, <2>2, RowAdded DEF c
    <3> QED
      BY <3>1, <3>2, <1>5 DEF o
  <2>3. CASE bar.ts # c
    <3>1. AddRow(bars, o, coarser) = Append(bars, Opened(o, coarser))
      BY <1>1, <1>3, <2>1, <2>3, RowAdded
    <3>2. AddRow(bars, row, coarser) = Append(bars, Opened(row, coarser))
      BY <2>1, <2>3, RowAdded DEF c
    <3> QED
      BY <3>1, <3>2, <1>4 DEF o
  <2> QED
    BY <2>2, <2>3
<1> QED
  BY <1>6, <1>7

LEMMA AbsorbedAt ==
  ASSUME NEW bar \in Ohlcv, NEW row \in Ohlcv
  PROVE  Absorb(bar, row).ts = bar.ts
<1> DEFINE m == Absorb(bar, row)
           high == IF bar.high >= row.high THEN bar.high ELSE row.high
           low == IF bar.low <= row.low THEN bar.low ELSE row.low
<1>1. m = [ts |-> bar.ts, open |-> bar.open, high |-> high, low |-> low,
           close |-> row.close, volume |-> bar.volume + row.volume]
  BY Absorbed
<1> HIDE DEF m, high, low
<1> QED
  BY <1>1 DEF m

\* To add a row after a bar of its bucket is to add that bar with the row
\* merged into it.
LEMMA AbsorbedAddsAlike ==
  ASSUME NEW coarser \in Nat \ {0}, NEW bar \in Ohlcv, NEW row \in Ohlcv,
         bucket_start(bar.ts, coarser) = bucket_start(row.ts, coarser),
         NEW bars \in Seq(Ohlcv)
  PROVE  AddRow(bars, Absorb(bar, row), coarser) = AddRow(AddRow(bars, bar, coarser), row, coarser)
<1> DEFINE m == Absorb(bar, row)
           c == bucket_start(row.ts, coarser)
           o == Opened(bar, coarser)
<1>1. m \in Ohlcv /\ o \in Ohlcv
  BY Absorbed, OpenedIs
<1>2. m.ts = bar.ts
  BY AbsorbedAt
<1>3. o.ts = c
  BY OpenedIs
<1>4. Opened(m, coarser) = Absorb(o, row)
  <2>1. m = [ts |-> bar.ts, open |-> bar.open,
             high |-> IF bar.high >= row.high THEN bar.high ELSE row.high,
             low |-> IF bar.low <= row.low THEN bar.low ELSE row.low,
             close |-> row.close, volume |-> bar.volume + row.volume]
    BY Absorbed
  <2>2. o = [ts |-> c, open |-> bar.open, high |-> bar.high, low |-> bar.low,
             close |-> bar.close, volume |-> bar.volume]
    BY OpenedIs
  <2> DEFINE high == IF bar.high >= row.high THEN bar.high ELSE row.high
             low == IF bar.low <= row.low THEN bar.low ELSE row.low
  <2>3. Opened(m, coarser) = [ts |-> bucket_start(m.ts, coarser), open |-> m.open,
          high |-> m.high, low |-> m.low, close |-> m.close, volume |-> m.volume]
    BY <1>1, OpenedIs
  <2>4. Absorb(o, row) =
          [ts |-> o.ts, open |-> o.open,
           high |-> IF o.high >= row.high THEN o.high ELSE row.high,
           low |-> IF o.low <= row.low THEN o.low ELSE row.low,
           close |-> row.close, volume |-> o.volume + row.volume]
    BY <1>1, Absorbed
  <2> HIDE DEF m, o, c
  <2>5. m.open = bar.open /\ m.high = high /\ m.low = low /\ m.close = row.close
        /\ m.volume = bar.volume + row.volume
    BY <2>1
  <2>6. o.open = bar.open /\ o.high = bar.high /\ o.low = bar.low /\ o.volume = bar.volume
    BY <2>2
  <2>7. bucket_start(m.ts, coarser) = c
    BY <1>2 DEF c
  <2> QED
    BY <2>3, <2>4, <2>5, <2>6, <2>7, <1>3
<1> HIDE DEF m, o
<1>5. AddRow(Append(bars, o), row, coarser) = Append(bars, Absorb(o, row))
  BY <1>1, <1>3, RowAdded
<1>6. CASE bars = <<>>
  <2>1. AddRow(bars, m, coarser) = Append(bars, Opened(m, coarser))
    BY <1>6, FirstRowAdded
  <2>2. AddRow(bars, bar, coarser) = Append(bars, o)
    BY <1>6, FirstRowAdded DEF o
  <2> QED
    BY <2>1, <2>2, <1>4, <1>5 DEF m
<1>7. CASE bars # <<>>
  <2>1. PICK a \in Seq(Ohlcv), k \in Ohlcv : bars = Append(a, k)
    BY <1>7, SequenceEmptyOrAppend
  <2>2. CASE k.ts = c
    <3>1. AddRow(bars, m, coarser) = Append(a, Absorb(k, m))
      BY <1>1, <1>2, <2>1, <2>2, RowAdded
    <3>2. AddRow(bars, bar, coarser) = Append(a, Absorb(k, bar))
      BY <2>1, <2>2, RowAdded
    <3>3. Absorb(k, bar) \in Ohlcv /\ Absorb(k, bar).ts = k.ts
      BY Absorbed, AbsorbedAt
    <3>4. AddRow(Append(a, Absorb(k, bar)), row, coarser) = Append(a, Absorb(Absorb(k, bar), row))
      BY <2>2, <3>3, RowAdded
    <3>5. Absorb(Absorb(k, bar), row) = Absorb(k, m)
      BY AbsorbTwice DEF m
    <3> QED
      BY <3>1, <3>2, <3>4, <3>5 DEF m
  <2>3. CASE k.ts # c
    <3>1. AddRow(bars, m, coarser) = Append(bars, Opened(m, coarser))
      BY <1>1, <1>2, <2>1, <2>3, RowAdded
    <3>2. AddRow(bars, bar, coarser) = Append(bars, o)
      BY <2>1, <2>3, RowAdded DEF o
    <3> QED
      BY <3>1, <3>2, <1>4, <1>5 DEF m
  <2> QED
    BY <2>2, <2>3
<1> QED
  BY <1>6, <1>7

\* Bars made from bars are those made from the rows.
LEMMA CoarserAgrees ==
  ASSUME NEW secs \in Nat \ {0}, NEW coarser \in Nat \ {0}, coarser % secs = 0
  PROVE  \A q \in Seq(Ohlcv) :
           aggregate_rows(aggregate_rows(q, secs), coarser) = aggregate_rows(q, coarser)
<1> DEFINE T == {q \in Seq(Ohlcv) :
                   aggregate_rows(aggregate_rows(q, secs), coarser) = aggregate_rows(q, coarser)}
<1>1. <<>> \in T
  BY AggregateGrows, EmptySeq
<1>2. ASSUME NEW q \in T, NEW x \in Ohlcv PROVE Append(q, x) \in T
  <2> DEFINE b == aggregate_rows(q, secs)
             r == Append(q, x)
             d == aggregate_rows(q, coarser)
  <2>1. b \in Seq(Ohlcv) /\ d \in Seq(Ohlcv) /\ r \in Seq(Ohlcv)
    BY BarsTyped, AppendsAreTaken
  <2>2. aggregate_rows(r, secs) = AddRow(b, x, secs) /\ aggregate_rows(r, coarser) = AddRow(d, x, coarser)
    BY AggregateGrows
  <2>3. aggregate_rows(b, coarser) = d
    OBVIOUS
  <2>4. q \in Seq(Ohlcv)
    OBVIOUS
  <2> HIDE DEF T, b, r, d
  <2>5. ASSUME AddRow(b, x, secs) = Append(b, Opened(x, secs))
        PROVE  aggregate_rows(AddRow(b, x, secs), coarser) = AddRow(d, x, coarser)
    <3>1. Opened(x, secs) \in Ohlcv
      BY OpenedIs
    <3>2. aggregate_rows(AddRow(b, x, secs), coarser) = AddRow(d, Opened(x, secs), coarser)
      BY <2>1, <2>3, <2>5, <3>1, AggregateGrows
    <3> QED
      BY <2>1, <3>2, OpenedAddsAlike
  <2> DEFINE Goal == aggregate_rows(AddRow(b, x, secs), coarser) = AddRow(d, x, coarser)
  <2>6. ASSUME b = <<>> PROVE Goal
    BY <2>5, <2>6, FirstRowAdded
  <2>7. ASSUME b # <<>> PROVE Goal
    <3>1. PICK a \in Seq(Ohlcv), bar \in Ohlcv : b = Append(a, bar)
      BY <2>1, <2>7, SequenceEmptyOrAppend
    <3>2. CASE bar.ts # bucket_start(x.ts, secs)
      BY <2>5, <3>1, <3>2, RowAdded
    <3>3. CASE bar.ts = bucket_start(x.ts, secs)
      <4> DEFINE A == aggregate_rows(a, coarser)
                 m == Absorb(bar, x)
      <4>1. A \in Seq(Ohlcv) /\ m \in Ohlcv
        BY BarsTyped, Absorbed
      <4>2. AddRow(b, x, secs) = Append(a, m)
        BY <3>1, <3>3, RowAdded
      <4>3. aggregate_rows(Append(a, m), coarser) = AddRow(A, m, coarser)
        BY <4>1, AggregateGrows
      <4>4. d = AddRow(A, bar, coarser)
        BY <2>3, <3>1, AggregateGrows
      <4>5. bucket_start(bar.ts, coarser) = bucket_start(x.ts, coarser)
        <5>1. x.ts \in Int
          BY DEF Ohlcv
        <5> QED
          BY <3>3, <5>1, CoarserBucket
      <4>6. AddRow(A, m, coarser) = AddRow(AddRow(A, bar, coarser), x, coarser)
        <5> HIDE DEF A
        <5> QED
          BY <4>1, <4>5, AbsorbedAddsAlike
      <4> HIDE DEF A, m
      <4> QED
        BY <4>2, <4>3, <4>4, <4>6
    <3> QED
      BY <3>2, <3>3
  <2>8. aggregate_rows(aggregate_rows(r, secs), coarser) = aggregate_rows(r, coarser)
    BY <2>2, <2>6, <2>7
  <2> HIDE DEF Goal
  <2> QED
    BY <2>1, <2>8 DEF T, r
<1> HIDE DEF T
<1>3. T \in SUBSET Seq(Ohlcv)
  BY DEF T
<1>4. T = Seq(Ohlcv)
  BY <1>1, <1>2, <1>3, Growing
<1> QED
  BY <1>4 DEF T

-----------------------------------------------------------------------------
\* Rows in time order, and what a bar of theirs is.
Ordered(rows) == \A n \in 1..Len(rows) : n > 1 => rows[n - 1].ts <= rows[n].ts

InTime(rows) == \A j, k \in 1..Len(rows) : j <= k => rows[j].ts <= rows[k].ts

LEMMA AppendedAt ==
  ASSUME NEW S, NEW q \in Seq(S), NEW x \in S
  PROVE  /\ Append(q, x) \in Seq(S) /\ Len(q) \in Nat /\ Len(Append(q, x)) = Len(q) + 1
         /\ Append(q, x)[Len(q) + 1] = x
         /\ \A k \in 1..Len(q) : Append(q, x)[k] = q[k]
BY AppendProperties

LEMMA OrderedIsInTime ==
  \A q \in Seq(Ohlcv) : Ordered(q) => InTime(q)
<1> DEFINE T == {q \in Seq(Ohlcv) : Ordered(q) => InTime(q)}
<1>1. <<>> \in T
  BY EmptySeq DEF InTime
<1>2. ASSUME NEW q \in T, NEW x \in Ohlcv PROVE Append(q, x) \in T
  <2> DEFINE r == Append(q, x)
             n == Len(q)
  <2>1. /\ r \in Seq(Ohlcv) /\ n \in Nat /\ Len(r) = n + 1 /\ r[n + 1] = x
        /\ \A k \in 1..n : r[k] = q[k]
    BY AppendedAt
  <2> HIDE DEF r
  <2> SUFFICES ASSUME Ordered(r) PROVE InTime(r)
    BY <2>1 DEF r
  <2>2. Ordered(q)
    <3> SUFFICES ASSUME NEW k \in 1..n, k > 1 PROVE q[k - 1].ts <= q[k].ts
      BY DEF Ordered
    <3>1. k - 1 \in 1..n /\ k \in 1..Len(r)
      BY <2>1
    <3> QED
      BY <2>1, <3>1 DEF Ordered
  <2>3. InTime(q)
    BY <2>2
  <2>4. ASSUME NEW k \in 1..(n + 1) PROVE r[k].ts \in Int
    <3>1. r[k] \in Ohlcv
      BY <2>1
    <3> QED
      BY <3>1 DEF Ohlcv
  <2> SUFFICES ASSUME NEW j \in 1..(n + 1), NEW k \in 1..(n + 1), j <= k
               PROVE  r[j].ts <= r[k].ts
    BY <2>1 DEF InTime
  <2>5. CASE k \in 1..n
    <3>1. j \in 1..n
      BY <2>5
    <3> QED
      BY <2>1, <2>3, <2>5, <3>1 DEF InTime
  <2>6. CASE j = k
    BY <2>4, <2>6
  <2>7. CASE k = n + 1 /\ j \in 1..n
    <3>1. n \in 1..n /\ n + 1 \in 1..(n + 1) /\ n + 1 > 1 /\ (n + 1) - 1 = n
      BY <2>1, <2>7
    <3>2. r[n].ts <= r[n + 1].ts
      BY <2>1, <3>1 DEF Ordered
    <3>3. q[j].ts <= q[n].ts
      BY <2>3, <2>7, <3>1 DEF InTime
    <3>4. r[j].ts <= r[n].ts
      BY <2>1, <2>7, <3>1, <3>3
    <3>5. r[j].ts \in Int /\ r[n].ts \in Int /\ r[n + 1].ts \in Int
      BY <2>1, <2>4, <3>1
    <3>6. r[j].ts <= r[n + 1].ts
      BY <3>2, <3>4, <3>5
    <3> QED
      BY <2>7, <3>6
  <2> QED
    BY <2>1, <2>5, <2>6, <2>7
<1> HIDE DEF T
<1>3. T \in SUBSET Seq(Ohlcv)
  BY DEF T
<1>4. T = Seq(Ohlcv)
  BY <1>1, <1>2, <1>3, Growing
<1> QED
  BY <1>4 DEF T

-----------------------------------------------------------------------------
\* The rows of the bucket that starts at b.
Part(rows, b, secs) == {n \in 1..Len(rows) : bucket_start(rows[n].ts, secs) = b}

\* A bar is what the rows of part say it is.
Tells(bar, rows, part) ==
  /\ \E k \in part : bar.open = rows[k].open /\ \A n \in part : k <= n
  /\ \E k \in part : bar.close = rows[k].close /\ \A n \in part : n <= k
  /\ \E k \in part : bar.high = rows[k].high /\ \A n \in part : rows[n].high <= rows[k].high
  /\ \E k \in part : bar.low = rows[k].low /\ \A n \in part : rows[k].low <= rows[n].low
  /\ bar.volume = VolumeOf(rows, part)

Ascend(bars) == \A j, k \in 1..Len(bars) : j < k => bars[j].ts < bars[k].ts

Covers(bars, rows, secs) ==
  \A k \in 1..Len(rows) : \E j \in 1..Len(bars) : bars[j].ts = bucket_start(rows[k].ts, secs)

AllTell(bars, rows, secs) ==
  \A j \in 1..Len(bars) : Tells(bars[j], rows, Part(rows, bars[j].ts, secs))

\* The last bar is that of the last row.
SameEnd(bars, rows, secs) ==
  /\ rows = <<>> <=> bars = <<>>
  /\ rows # <<>> => bars[Len(bars)].ts = bucket_start(rows[Len(rows)].ts, secs)

Exact(bars, rows, secs) ==
  Ascend(bars) /\ Covers(bars, rows, secs) /\ AllTell(bars, rows, secs) /\ SameEnd(bars, rows, secs)

LEMMA RowCounted ==
  ASSUME NEW part, NEW q \in Seq(Ohlcv), NEW x \in Ohlcv
  PROVE  /\ VolumeOf(Append(q, x), part)
              = VolumeOf(q, part) + (IF Len(q) + 1 \in part THEN x.volume ELSE 0)
         /\ \A other : (\A k \in 1..Len(q) : k \in part <=> k \in other)
                          => VolumeOf(q, part) = VolumeOf(q, other)
<1>1. \A p \in Seq(Ohlcv), y \in Ohlcv :
        /\ VolumeOf(Append(p, y), part)
             = VolumeOf(p, part) + (IF Len(p) + 1 \in part THEN y.volume ELSE 0)
        /\ \A other : (\A k \in 1..Len(p) : k \in part <=> k \in other)
                         => VolumeOf(p, part) = VolumeOf(p, other)
  BY VolumeGrows
<1> QED
  BY <1>1

LEMMA NoVolume ==
  \A q \in Seq(Ohlcv) : VolumeOf(q, {}) = 0
<1> DEFINE T == {q \in Seq(Ohlcv) : VolumeOf(q, {}) = 0}
<1>1. <<>> \in T
  BY VolumeGrows, EmptySeq
<1>2. ASSUME NEW q \in T, NEW x \in Ohlcv PROVE Append(q, x) \in T
  <2>1. VolumeOf(Append(q, x), {}) = VolumeOf(q, {}) + (IF Len(q) + 1 \in {} THEN x.volume ELSE 0)
    <3>1. q \in Seq(Ohlcv)
      OBVIOUS
    <3> HIDE DEF T
    <3> QED
      BY <3>1, RowCounted
  <2> QED
    BY <2>1, AppendedAt
<1> HIDE DEF T
<1>3. T \in SUBSET Seq(Ohlcv)
  BY DEF T
<1>4. T = Seq(Ohlcv)
  BY <1>1, <1>2, <1>3, Growing
<1> QED
  BY <1>4 DEF T

LEMMA VolumeIsInt ==
  ASSUME NEW part
  PROVE  \A q \in Seq(Ohlcv) : VolumeOf(q, part) \in Int
<1> DEFINE T == {q \in Seq(Ohlcv) : VolumeOf(q, part) \in Int}
<1>1. <<>> \in T
  BY VolumeGrows, EmptySeq
<1>2. ASSUME NEW q \in T, NEW x \in Ohlcv PROVE Append(q, x) \in T
  <2>1. VolumeOf(Append(q, x), part)
          = VolumeOf(q, part) + (IF Len(q) + 1 \in part THEN x.volume ELSE 0)
    <3>1. q \in Seq(Ohlcv)
      OBVIOUS
    <3> HIDE DEF T
    <3> QED
      BY <3>1, RowCounted
  <2>2. x.volume \in Int
    BY DEF Ohlcv
  <2> QED
    BY <2>1, <2>2, AppendedAt
<1> HIDE DEF T
<1>3. T \in SUBSET Seq(Ohlcv)
  BY DEF T
<1>4. T = Seq(Ohlcv)
  BY <1>1, <1>2, <1>3, Growing
<1> QED
  BY <1>4 DEF T

LEMMA PartGrows ==
  ASSUME NEW q \in Seq(Ohlcv), NEW x \in Ohlcv, NEW secs, NEW b
  PROVE  Part(Append(q, x), b, secs) =
           IF b = bucket_start(x.ts, secs) THEN Part(q, b, secs) \cup {Len(q) + 1}
           ELSE Part(q, b, secs)
<1> DEFINE r == Append(q, x)
           n == Len(q)
<1>1. /\ n \in Nat /\ Len(r) = n + 1 /\ r[n + 1] = x
      /\ \A k \in 1..n : r[k] = q[k]
  BY AppendedAt
<1> HIDE DEF r, n
<1>2. \A k : k \in 1..(n + 1) <=> k \in 1..n \/ k = n + 1
  BY <1>1
<1>3. \A k \in 1..n : k # n + 1
  BY <1>1
<1>4. Part(r, b, secs) = IF b = bucket_start(x.ts, secs) THEN Part(q, b, secs) \cup {n + 1}
                         ELSE Part(q, b, secs)
  BY <1>1, <1>2, <1>3 DEF Part, n
<1> QED
  BY <1>4 DEF r, n

\* The volume of one more row, over indices of the rows so far.
LEMMA VolumeOfMore ==
  ASSUME NEW q \in Seq(Ohlcv), NEW x \in Ohlcv, NEW part \in SUBSET (1..Len(q))
  PROVE  /\ VolumeOf(Append(q, x), part) = VolumeOf(q, part)
         /\ VolumeOf(Append(q, x), part \cup {Len(q) + 1}) = VolumeOf(q, part) + x.volume
<1> DEFINE n == Len(q)
           more == part \cup {n + 1}
<1>0. n \in Nat
  OBVIOUS
<1>1. n + 1 \notin part /\ n + 1 \in more /\ \A k \in 1..n : k \in more <=> k \in part
  BY <1>0
<1>2. VolumeOf(Append(q, x), part) = VolumeOf(q, part) + 0
  BY <1>1, RowCounted
<1>3. VolumeOf(Append(q, x), more) = VolumeOf(q, more) + x.volume
  <2> HIDE DEF more
  <2> QED
    BY <1>1, RowCounted
<1>4. VolumeOf(q, more) = VolumeOf(q, part)
  <2> HIDE DEF more
  <2> QED
    BY <1>1, RowCounted
<1>5. VolumeOf(q, part) \in Int
  BY VolumeIsInt
<1> QED
  BY <1>2, <1>3, <1>4, <1>5

LEMMA TellsOld ==
  ASSUME NEW q \in Seq(Ohlcv), NEW x \in Ohlcv, NEW bar, NEW part \in SUBSET (1..Len(q)),
         Tells(bar, q, part)
  PROVE  Tells(bar, Append(q, x), part)
<1> DEFINE r == Append(q, x)
<1>1. \A k \in part : r[k] = q[k]
  BY AppendedAt
<1>2. VolumeOf(r, part) = VolumeOf(q, part)
  BY VolumeOfMore
<1> HIDE DEF r
<1>3. \E k \in part : bar.open = r[k].open /\ \A n \in part : k <= n
  BY <1>1 DEF Tells
<1>4. \E k \in part : bar.close = r[k].close /\ \A n \in part : n <= k
  BY <1>1 DEF Tells
<1>5. \E k \in part : bar.high = r[k].high /\ \A n \in part : r[n].high <= r[k].high
  <2>1. PICK k \in part : bar.high = q[k].high /\ \A n \in part : q[n].high <= q[k].high
    BY DEF Tells
  <2> QED
    BY <1>1, <2>1
<1>6. \E k \in part : bar.low = r[k].low /\ \A n \in part : r[k].low <= r[n].low
  <2>1. PICK k \in part : bar.low = q[k].low /\ \A n \in part : q[k].low <= q[n].low
    BY DEF Tells
  <2> QED
    BY <1>1, <2>1
<1>7. bar.volume = VolumeOf(r, part)
  BY <1>2 DEF Tells
<1>8. Tells(bar, r, part)
  BY <1>3, <1>4, <1>5, <1>6, <1>7 DEF Tells
<1> QED
  BY <1>8 DEF r

LEMMA TellsMerged ==
  ASSUME NEW q \in Seq(Ohlcv), NEW x \in Ohlcv, NEW bar \in Ohlcv,
         NEW part \in SUBSET (1..Len(q)), Tells(bar, q, part)
  PROVE  Tells(Absorb(bar, x), Append(q, x), part \cup {Len(q) + 1})
<1> DEFINE r == Append(q, x)
           n == Len(q)
           more == part \cup {n + 1}
           new == Absorb(bar, x)
           high == IF bar.high >= x.high THEN bar.high ELSE x.high
           low == IF bar.low <= x.low THEN bar.low ELSE x.low
<1>1. /\ n \in Nat /\ r[n + 1] = x /\ n + 1 \notin part
      /\ \A k \in part : k \in Nat /\ k <= n /\ k <= n + 1 /\ r[k] = q[k] /\ q[k] \in Ohlcv
  BY AppendedAt
<1>2. VolumeOf(r, more) = VolumeOf(q, part) + x.volume
  BY VolumeOfMore
<1>3. new = [ts |-> bar.ts, open |-> bar.open, high |-> high, low |-> low,
             close |-> x.close, volume |-> bar.volume + x.volume]
  BY Absorbed
<1>4. x.high \in Int /\ x.low \in Int /\ bar.high \in Int /\ bar.low \in Int
  BY DEF Ohlcv
<1>5. \A k \in part : r[k].high \in Int /\ r[k].low \in Int
  BY <1>1 DEF Ohlcv
<1> HIDE DEF r, n, new, high, low
<1>6. new.open = bar.open /\ new.high = high /\ new.low = low /\ new.close = x.close
      /\ new.volume = bar.volume + x.volume
  BY <1>3
<1>7. \A k \in more : k \in part \/ k = n + 1
  OBVIOUS
<1>8. part \subseteq more /\ n + 1 \in more
  OBVIOUS
<1> HIDE DEF more
<1>9. \E k \in more : new.open = r[k].open /\ \A m \in more : k <= m
  <2>1. PICK k \in part : bar.open = q[k].open /\ \A m \in part : k <= m
    BY DEF Tells
  <2>2. \A m \in more : k <= m
    BY <2>1, <1>1, <1>7
  <2> QED
    BY <2>1, <2>2, <1>1, <1>6, <1>8
<1>10. \E k \in more : new.close = r[k].close /\ \A m \in more : m <= k
  <2>1. ASSUME NEW m \in more PROVE m <= n + 1
    <3>1. n + 1 \in Nat /\ n + 1 <= n + 1
      BY <1>1
    <3>2. CASE m \in part
      BY <1>1, <3>2
    <3>3. CASE m = n + 1
      BY <3>1, <3>3
    <3> QED
      BY <1>7, <3>2, <3>3
  <2> QED
    BY <2>1, <1>1, <1>6, <1>8
<1>11. \E k \in more : new.high = r[k].high /\ \A m \in more : r[m].high <= r[k].high
  <2>1. PICK k \in part : bar.high = q[k].high /\ \A m \in part : q[m].high <= q[k].high
    BY DEF Tells
  <2>2. r[k].high = bar.high /\ \A m \in part : r[m].high <= bar.high
    BY <2>1, <1>1
  <2>3. CASE bar.high >= x.high
    <3>1. new.high = r[k].high
      BY <1>6, <2>2, <2>3 DEF high
    <3>2. \A m \in more : r[m].high <= r[k].high
      BY <1>1, <1>4, <1>7, <2>2, <2>3
    <3> QED
      BY <3>1, <3>2, <1>8
  <2>4. CASE ~(bar.high >= x.high)
    <3>1. new.high = r[n + 1].high
      BY <1>1, <1>6, <2>4 DEF high
    <3>2. ASSUME NEW m \in more PROVE r[m].high <= r[n + 1].high
      <4>1. CASE m \in part
        BY <1>1, <1>4, <1>5, <2>2, <2>4, <4>1
      <4>2. CASE m = n + 1
        BY <1>1, <1>4, <4>2
      <4> QED
        BY <1>7, <4>1, <4>2
    <3> QED
      BY <3>1, <3>2, <1>8
  <2> QED
    BY <2>3, <2>4
<1>12. \E k \in more : new.low = r[k].low /\ \A m \in more : r[k].low <= r[m].low
  <2>1. PICK k \in part : bar.low = q[k].low /\ \A m \in part : q[k].low <= q[m].low
    BY DEF Tells
  <2>2. r[k].low = bar.low /\ \A m \in part : bar.low <= r[m].low
    BY <2>1, <1>1
  <2>3. CASE bar.low <= x.low
    <3>1. new.low = r[k].low
      BY <1>6, <2>2, <2>3 DEF low
    <3>2. \A m \in more : r[k].low <= r[m].low
      BY <1>1, <1>4, <1>7, <2>2, <2>3
    <3> QED
      BY <3>1, <3>2, <1>8
  <2>4. CASE ~(bar.low <= x.low)
    <3>1. new.low = r[n + 1].low
      BY <1>1, <1>6, <2>4 DEF low
    <3>2. ASSUME NEW m \in more PROVE r[n + 1].low <= r[m].low
      <4>1. CASE m \in part
        BY <1>1, <1>4, <1>5, <2>2, <2>4, <4>1
      <4>2. CASE m = n + 1
        BY <1>1, <1>4, <4>2
      <4> QED
        BY <1>7, <4>1, <4>2
    <3> QED
      BY <3>1, <3>2, <1>8
  <2> QED
    BY <2>3, <2>4
<1>13. new.volume = VolumeOf(r, more)
  BY <1>2, <1>6 DEF Tells
<1>14. Tells(new, r, more)
  BY <1>9, <1>10, <1>11, <1>12, <1>13 DEF Tells
<1> QED
  BY <1>14 DEF new, r, more, n

LEMMA TellsOpened ==
  ASSUME NEW q \in Seq(Ohlcv), NEW x \in Ohlcv, NEW secs \in Nat \ {0}
  PROVE  Tells(Opened(x, secs), Append(q, x), {Len(q) + 1})
<1> DEFINE r == Append(q, x)
           n == Len(q)
           new == Opened(x, secs)
<1>1. n \in Nat /\ r[n + 1] = x
  BY AppendedAt
<1>2. VolumeOf(r, {n + 1}) = x.volume
  <2>1. {} \in SUBSET (1..n) /\ {} \cup {n + 1} = {n + 1}
    OBVIOUS
  <2>2. VolumeOf(r, {} \cup {n + 1}) = VolumeOf(q, {}) + x.volume
    BY <2>1, VolumeOfMore
  <2>3. VolumeOf(q, {}) = 0 /\ x.volume \in Int
    BY NoVolume DEF Ohlcv
  <2> QED
    BY <2>1, <2>2, <2>3
<1>3. new = [ts |-> bucket_start(x.ts, secs), open |-> x.open, high |-> x.high,
             low |-> x.low, close |-> x.close, volume |-> x.volume]
  BY OpenedIs
<1>4. x.high \in Int /\ x.low \in Int
  BY DEF Ohlcv
<1> HIDE DEF r, n, new
<1>5. new.open = x.open /\ new.high = x.high /\ new.low = x.low /\ new.close = x.close
      /\ new.volume = x.volume
  BY <1>3
<1> DEFINE only == {n + 1}
<1>6. n + 1 \in only /\ \A m \in only : m = n + 1
  OBVIOUS
<1>7. n + 1 \in Int /\ new.volume = VolumeOf(r, only)
  BY <1>1, <1>2, <1>5
<1> HIDE DEF only
<1>8. Tells(new, r, only)
  <2>1. \A m \in only : n + 1 <= m /\ m <= n + 1 /\ r[m].high <= x.high /\ x.low <= r[m].low
    BY <1>1, <1>4, <1>6, <1>7
  <2> QED
    BY <2>1, <1>1, <1>5, <1>6, <1>7 DEF Tells
<1> QED
  BY <1>8 DEF new, r, only, n

-----------------------------------------------------------------------------
\* The bars stay exact when a row is added.
LEMMA PartOfRows ==
  ASSUME NEW q \in Seq(Ohlcv), NEW b, NEW secs
  PROVE  Part(q, b, secs) \in SUBSET (1..Len(q))
BY DEF Part

\* Merged into the last bar.
LEMMA MergedIsExact ==
  ASSUME NEW secs \in Nat \ {0}, NEW q \in Seq(Ohlcv), NEW x \in Ohlcv,
         NEW a \in Seq(Ohlcv), NEW l \in Ohlcv, Exact(Append(a, l), q, secs),
         l.ts = bucket_start(x.ts, secs)
  PROVE  Exact(Append(a, Absorb(l, x)), Append(q, x), secs)
<1> DEFINE r == Append(q, x)
           s == bucket_start(x.ts, secs)
           m == Len(a)
           bars == Append(a, l)
           new == Append(a, Absorb(l, x))
<1>1. /\ Len(q) \in Nat /\ Len(r) = Len(q) + 1 /\ r # <<>> /\ r[Len(q) + 1] = x
      /\ \A k \in 1..Len(q) : r[k] = q[k]
  BY AppendedAt, AppendsAreTaken
<1>2. Absorb(l, x) \in Ohlcv /\ Absorb(l, x).ts = s
  BY Absorbed, AbsorbedAt
<1>3. /\ m \in Nat /\ Len(bars) = m + 1 /\ bars[m + 1] = l
      /\ \A k \in 1..m : bars[k] = a[k]
  BY AppendedAt
<1>4. /\ Len(new) = m + 1 /\ new[m + 1] = Absorb(l, x) /\ new # <<>>
      /\ \A k \in 1..m : new[k] = a[k]
  BY <1>2, AppendedAt, AppendsAreTaken
<1>5. \A k : k \in 1..(m + 1) <=> k \in 1..m \/ k = m + 1
  BY <1>3
<1> HIDE DEF r, s, m, bars, new
<1>6. Exact(bars, q, secs) /\ l.ts = s
  BY DEF bars, s
<1>7. \A k \in 1..(m + 1) : new[k].ts = bars[k].ts
  BY <1>2, <1>3, <1>4, <1>5, <1>6
<1>8. Ascend(new)
  BY <1>3, <1>4, <1>6, <1>7 DEF Exact, Ascend
<1>9. Covers(new, r, secs)
  <2> SUFFICES ASSUME NEW k \in 1..Len(r)
               PROVE  \E j \in 1..(m + 1) : new[j].ts = bucket_start(r[k].ts, secs)
    BY <1>4 DEF Covers
  <2>1. CASE k \in 1..Len(q)
    <3>1. PICK j \in 1..(m + 1) : bars[j].ts = bucket_start(q[k].ts, secs)
      BY <2>1, <1>3, <1>6 DEF Exact, Covers
    <3> QED
      BY <3>1, <2>1, <1>1, <1>7
  <2>2. CASE k = Len(q) + 1
    <3>1. r[k] = x /\ m + 1 \in 1..(m + 1)
      BY <2>2, <1>1, <1>3
    <3>2. new[m + 1].ts = bucket_start(x.ts, secs)
      BY <1>2, <1>4 DEF s
    <3> QED
      BY <3>1, <3>2
  <2> QED
    BY <1>1, <2>1, <2>2
<1>10. AllTell(new, r, secs)
  <2> SUFFICES ASSUME NEW j \in 1..(m + 1) PROVE Tells(new[j], r, Part(r, new[j].ts, secs))
    BY <1>4 DEF AllTell
  <2> DEFINE part == Part(q, bars[j].ts, secs)
  <2>1. Tells(bars[j], q, part) /\ part \in SUBSET (1..Len(q))
    BY <1>3, <1>6, PartOfRows DEF Exact, AllTell
  <2>2. CASE j \in 1..m
    <3>1. bars[j].ts # s
      <4>1. bars[j].ts < bars[m + 1].ts
        <5>1. j \in 1..Len(bars) /\ m + 1 \in 1..Len(bars) /\ j < m + 1
          BY <2>2, <1>3
        <5> QED
          BY <5>1, <1>6 DEF Exact, Ascend
      <4>2. s \in Int
        <5>1. x.ts \in Int
          BY DEF Ohlcv
        <5> QED
          BY <5>1, BucketStart DEF s
      <4>3. bars[m + 1].ts = s
        BY <1>3, <1>6
      <4> QED
        BY <4>1, <4>2, <4>3
    <3>2. Part(r, bars[j].ts, secs) = part
      BY <3>1, PartGrows DEF r, s
    <3> HIDE DEF part
    <3>3. Tells(bars[j], r, part)
      BY <2>1, TellsOld DEF r
    <3>4. new[j] = bars[j]
      BY <2>2, <1>3, <1>4
    <3> QED
      BY <3>2, <3>3, <3>4
  <2>3. CASE j = m + 1
    <3>1. bars[j] = l /\ new[j] = Absorb(l, x) /\ bars[j].ts = s /\ new[j].ts = s
      BY <2>3, <1>2, <1>3, <1>4, <1>6
    <3>2. Part(r, s, secs) = part \cup {Len(q) + 1}
      BY <3>1, PartGrows DEF r, s
    <3> HIDE DEF part
    <3>3. Tells(Absorb(l, x), r, part \cup {Len(q) + 1})
      BY <2>1, <3>1, TellsMerged DEF r
    <3> QED
      BY <3>1, <3>2, <3>3
  <2> QED
    BY <1>5, <2>2, <2>3
<1>11. SameEnd(new, r, secs)
  <2>1. new[Len(new)].ts = s /\ r[Len(r)] = x
    BY <1>1, <1>2, <1>4
  <2> QED
    BY <2>1, <1>1, <1>4 DEF SameEnd, s
<1>12. Exact(new, r, secs)
  BY <1>8, <1>9, <1>10, <1>11 DEF Exact
<1> QED
  BY <1>12 DEF new, r
\* A row of a later bucket opens a bar.
LEMMA OpenedIsExact ==
  ASSUME NEW secs \in Nat \ {0}, NEW q \in Seq(Ohlcv), NEW x \in Ohlcv,
         NEW bars \in Seq(Ohlcv), Exact(bars, q, secs),
         \A k \in 1..Len(q) : bucket_start(q[k].ts, secs) # bucket_start(x.ts, secs),
         \A j \in 1..Len(bars) : bars[j].ts < bucket_start(x.ts, secs)
  PROVE  Exact(Append(bars, Opened(x, secs)), Append(q, x), secs)
<1> DEFINE r == Append(q, x)
           s == bucket_start(x.ts, secs)
           o == Opened(x, secs)
           m == Len(bars)
           new == Append(bars, o)
<1>1. /\ Len(q) \in Nat /\ Len(r) = Len(q) + 1 /\ r # <<>> /\ r[Len(q) + 1] = x
      /\ \A k \in 1..Len(q) : r[k] = q[k]
  BY AppendedAt, AppendsAreTaken
<1>2. s \in Int
  <2>1. x.ts \in Int
    BY DEF Ohlcv
  <2> QED
    BY <2>1, BucketStart
<1>3. o \in Ohlcv /\ o.ts = s
  <2>1. o \in Ohlcv /\ o = [ts |-> s, open |-> x.open, high |-> x.high,
                            low |-> x.low, close |-> x.close, volume |-> x.volume]
    BY OpenedIs
  <2> HIDE DEF o, s
  <2> QED
    BY <2>1
<1>4. /\ m \in Nat /\ Len(new) = m + 1 /\ new[m + 1] = o /\ new # <<>>
      /\ \A k \in 1..m : new[k] = bars[k]
  BY <1>3, AppendedAt, AppendsAreTaken
<1>5. \A k : k \in 1..(m + 1) <=> k \in 1..m \/ k = m + 1
  BY <1>4
<1>6. /\ \A k \in 1..Len(q) : bucket_start(q[k].ts, secs) # s
      /\ \A j \in 1..m : bars[j].ts < s
  OBVIOUS
<1> HIDE DEF r, s, o, m, new
<1>7. Ascend(new)
  <2> SUFFICES ASSUME NEW j \in 1..(m + 1), NEW k \in 1..(m + 1), j < k
               PROVE  new[j].ts < new[k].ts
    BY <1>4 DEF Ascend
  <2>1. j \in 1..m
    BY <1>4
  <2>2. CASE k \in 1..m
    BY <2>1, <2>2, <1>4 DEF Exact, Ascend, m
  <2>3. CASE k = m + 1
    BY <2>1, <2>3, <1>3, <1>4, <1>6
  <2> QED
    BY <1>5, <2>2, <2>3
<1>8. Covers(new, r, secs)
  <2> SUFFICES ASSUME NEW k \in 1..Len(r)
               PROVE  \E j \in 1..(m + 1) : new[j].ts = bucket_start(r[k].ts, secs)
    BY <1>4 DEF Covers
  <2>1. CASE k \in 1..Len(q)
    <3>1. PICK j \in 1..m : bars[j].ts = bucket_start(q[k].ts, secs)
      BY <2>1 DEF Exact, Covers, m
    <3> QED
      BY <3>1, <2>1, <1>1, <1>4, <1>5
  <2>2. CASE k = Len(q) + 1
    <3>1. r[k] = x /\ m + 1 \in 1..(m + 1)
      BY <2>2, <1>1, <1>5
    <3>2. new[m + 1].ts = bucket_start(x.ts, secs)
      BY <1>3, <1>4 DEF s
    <3> QED
      BY <3>1, <3>2
  <2> QED
    BY <1>1, <2>1, <2>2
<1>9. AllTell(new, r, secs)
  <2> SUFFICES ASSUME NEW j \in 1..(m + 1) PROVE Tells(new[j], r, Part(r, new[j].ts, secs))
    BY <1>4 DEF AllTell
  <2>1. CASE j \in 1..m
    <3> DEFINE part == Part(q, bars[j].ts, secs)
    <3>1. Tells(bars[j], q, part) /\ part \in SUBSET (1..Len(q))
      BY <2>1, PartOfRows DEF Exact, AllTell, m
    <3>2. bars[j].ts # s
      BY <2>1, <1>2, <1>6
    <3>3. Part(r, bars[j].ts, secs) = part
      BY <3>2, PartGrows DEF r, s
    <3> HIDE DEF part
    <3>4. Tells(bars[j], r, part)
      BY <3>1, TellsOld DEF r
    <3> QED
      BY <2>1, <3>3, <3>4, <1>4
  <2>2. CASE j = m + 1
    <3>1. Part(q, s, secs) = {}
      BY <1>6 DEF Part
    <3>2. Part(r, s, secs) = {Len(q) + 1}
      <4>1. Part(r, s, secs) = Part(q, s, secs) \cup {Len(q) + 1}
        BY PartGrows DEF r, s
      <4> QED
        BY <3>1, <4>1
    <3>3. Tells(o, r, {Len(q) + 1})
      BY TellsOpened DEF o, r
    <3> QED
      BY <2>2, <3>2, <3>3, <1>3, <1>4
  <2> QED
    BY <1>5, <2>1, <2>2
<1>10. SameEnd(new, r, secs)
  <2>1. new[Len(new)].ts = s /\ r[Len(r)] = x
    BY <1>1, <1>3, <1>4
  <2> QED
    BY <2>1, <1>1, <1>4 DEF SameEnd, s
<1>11. Exact(new, r, secs)
  BY <1>7, <1>8, <1>9, <1>10 DEF Exact
<1> QED
  BY <1>11 DEF new, r, o

LEMMA RowKeepsExact ==
  ASSUME NEW secs \in Nat \ {0}, NEW q \in Seq(Ohlcv), NEW x \in Ohlcv,
         NEW bars \in Seq(Ohlcv), Exact(bars, q, secs), InTime(Append(q, x))
  PROVE  Exact(AddRow(bars, x, secs), Append(q, x), secs)
<1> DEFINE s == bucket_start(x.ts, secs)
           n == Len(q)
           r == Append(q, x)
<1>1. CASE bars = <<>>
  <2>1. q = <<>>
    BY <1>1 DEF Exact, SameEnd
  <2>2. AddRow(bars, x, secs) = Append(bars, Opened(x, secs))
    BY <1>1, FirstRowAdded
  <2>3. /\ \A k \in 1..Len(q) : bucket_start(q[k].ts, secs) # s
        /\ \A j \in 1..Len(bars) : bars[j].ts < s
    BY <1>1, <2>1
  <2> QED
    BY <2>2, <2>3, OpenedIsExact
<1>2. CASE bars # <<>>
  <2>1. PICK a \in Seq(Ohlcv), l \in Ohlcv : bars = Append(a, l)
    BY <1>2, SequenceEmptyOrAppend
  <2>2. CASE l.ts = s
    <3>1. Exact(Append(a, l), q, secs) /\ l.ts = bucket_start(x.ts, secs)
      BY <2>1, <2>2
    <3>2. AddRow(bars, x, secs) = Append(a, Absorb(l, x))
      BY <2>1, <3>1, RowAdded
    <3>3. Exact(Append(a, Absorb(l, x)), Append(q, x), secs)
      BY <3>1, MergedIsExact
    <3> QED
      BY <3>2, <3>3
  <2>3. CASE l.ts # s
    <3>1. AddRow(bars, x, secs) = Append(bars, Opened(x, secs))
      BY <2>1, <2>3, RowAdded
    <3>2. /\ n \in Nat /\ Len(r) = n + 1 /\ r[n + 1] = x /\ \A k \in 1..n : r[k] = q[k]
      BY AppendedAt
    <3>3. Len(a) \in Nat /\ Len(bars) = Len(a) + 1 /\ bars[Len(a) + 1] = l
      BY <2>1, AppendedAt
    <3>4. q # <<>> /\ bars[Len(bars)].ts = bucket_start(q[n].ts, secs)
      BY <1>2 DEF Exact, SameEnd
    <3> HIDE DEF r
    <3>5. n \in 1..n
      BY <3>2, <3>4, EmptySeq
    <3> DEFINE e == bucket_start(q[n].ts, secs)
    <3>6. \A k \in 1..n : q[k].ts \in Int /\ q[k].ts <= q[n].ts /\ q[n].ts <= x.ts
      <4> SUFFICES ASSUME NEW k \in 1..n
                   PROVE  q[k].ts \in Int /\ q[k].ts <= q[n].ts /\ q[n].ts <= x.ts
        OBVIOUS
      <4>1. k \in 1..Len(r) /\ n \in 1..Len(r) /\ n + 1 \in 1..Len(r) /\ k <= n /\ n <= n + 1
        BY <3>2, <3>5
      <4>2. r[k].ts <= r[n].ts /\ r[n].ts <= r[n + 1].ts
        BY <4>1 DEF InTime, r
      <4>3. q[k] \in Ohlcv
        OBVIOUS
      <4> QED
        BY <3>2, <3>5, <4>2, <4>3 DEF Ohlcv
    <3>7. x.ts \in Int /\ q[n].ts \in Int /\ q[n].ts <= x.ts
      BY <3>5, <3>6 DEF Ohlcv
    <3>8. e \in Int /\ s \in Int /\ e <= s
      BY <3>7, BucketStart, BucketsAscend
    <3>9. e < s
      <4>1. e # s
        BY <2>3, <3>3, <3>4
      <4> HIDE DEF e, s
      <4> QED
        BY <3>8, <4>1
    <3>10. ASSUME NEW k \in 1..n PROVE bucket_start(q[k].ts, secs) # s
      <4>1. bucket_start(q[k].ts, secs) <= e /\ bucket_start(q[k].ts, secs) \in Int
        BY <3>6, <3>7, BucketsAscend, BucketStart
      <4> HIDE DEF e, s
      <4> QED
        BY <4>1, <3>8, <3>9
    <3>11. ASSUME NEW j \in 1..Len(bars) PROVE bars[j].ts < s
      <4>1. bars[j].ts \in Int
        <5>1. bars[j] \in Ohlcv
          OBVIOUS
        <5> QED
          BY <5>1 DEF Ohlcv
      <4>2. j = Len(bars) \/ bars[j].ts < bars[Len(bars)].ts
        <5>1. Len(bars) \in 1..Len(bars) /\ (j = Len(bars) \/ j < Len(bars))
          BY <3>3
        <5> QED
          BY <5>1 DEF Exact, Ascend
      <4> HIDE DEF e, s
      <4> QED
        BY <4>1, <4>2, <3>4, <3>8, <3>9 DEF e
    <3> QED
      BY <3>1, <3>10, <3>11, OpenedIsExact
  <2> QED
    BY <2>2, <2>3
<1> QED
  BY <1>1, <1>2

LEMMA BarsAreExact ==
  ASSUME NEW secs \in Nat \ {0}
  PROVE  \A q \in Seq(Ohlcv) : InTime(q) => Exact(aggregate_rows(q, secs), q, secs)
<1> DEFINE T == {q \in Seq(Ohlcv) : InTime(q) => Exact(aggregate_rows(q, secs), q, secs)}
<1>1. <<>> \in T
  <2>1. aggregate_rows(<<>>, secs) = <<>> /\ <<>> \in Seq(Ohlcv)
    BY AggregateGrows, EmptySeq
  <2>2. Exact(<<>>, <<>>, secs)
    BY DEF Exact, Ascend, Covers, AllTell, SameEnd
  <2> QED
    BY <2>1, <2>2
<1>2. ASSUME NEW q \in T, NEW x \in Ohlcv PROVE Append(q, x) \in T
  <2> DEFINE r == Append(q, x)
             bars == aggregate_rows(q, secs)
  <2>1. q \in Seq(Ohlcv) /\ (InTime(q) => Exact(bars, q, secs))
    OBVIOUS
  <2> HIDE DEF T
  <2>2. r \in Seq(Ohlcv) /\ bars \in Seq(Ohlcv) /\ aggregate_rows(r, secs) = AddRow(bars, x, secs)
    BY <2>1, AppendedAt, BarsTyped, AggregateGrows
  <2>3. InTime(r) => InTime(q)
    <3>1. /\ Len(q) \in Nat /\ Len(r) = Len(q) + 1 /\ \A k \in 1..Len(q) : r[k] = q[k] /\ k \in 1..Len(r)
      BY <2>1, AppendedAt
    <3> HIDE DEF r
    <3> QED
      BY <3>1 DEF InTime
  <2>4. ASSUME InTime(r) PROVE Exact(aggregate_rows(r, secs), r, secs)
    <3>1. Exact(bars, q, secs)
      BY <2>1, <2>3, <2>4
    <3> HIDE DEF bars
    <3>2. Exact(AddRow(bars, x, secs), r, secs)
      BY <2>1, <2>2, <2>4, <3>1, RowKeepsExact
    <3> QED
      BY <2>2, <3>2
  <2> QED
    BY <2>2, <2>4 DEF T
<1> HIDE DEF T
<1>3. T \in SUBSET Seq(Ohlcv)
  BY DEF T
<1>4. T = Seq(Ohlcv)
  BY <1>1, <1>2, <1>3, Growing
<1> QED
  BY <1>4 DEF T

LEMMA BucketIsPart ==
  ASSUME NEW secs \in Nat \ {0}, NEW q \in Seq(Ohlcv), NEW t \in Int
  PROVE  Bucket(q, bucket_start(t, secs), secs) = Part(q, bucket_start(t, secs), secs)
<1> DEFINE b == bucket_start(t, secs)
<1>1. ASSUME NEW n \in 1..Len(q)
      PROVE  b <= q[n].ts /\ q[n].ts < b + secs <=> bucket_start(q[n].ts, secs) = b
  <2>1. q[n] \in Ohlcv
    OBVIOUS
  <2>2. q[n].ts \in Int
    BY <2>1 DEF Ohlcv
  <2> QED
    BY <2>2, InBucket
<1> HIDE DEF b
<1>2. Bucket(q, b, secs) = Part(q, b, secs)
  BY <1>1 DEF Bucket, Part
<1> QED
  BY <1>2 DEF b

\* A bar that the rows of its bucket tell is the reference's.
LEMMA ToldIsBarOf ==
  ASSUME NEW secs \in Nat \ {0}, NEW q \in Seq(Ohlcv), NEW bar \in Ohlcv, NEW t \in Int,
         bar.ts = bucket_start(t, secs), Tells(bar, q, Part(q, bar.ts, secs))
  PROVE  bar = BarOf(q, bar.ts, secs)
<1> DEFINE part == Part(q, bar.ts, secs)
           highs == {q[n].high : n \in part}
           lows == {q[n].low : n \in part}
<1>1. Bucket(q, bar.ts, secs) = part
  BY BucketIsPart
<1>2. part \in SUBSET (1..Len(q)) /\ part \in SUBSET Int
  BY DEF Part
<1>3. ASSUME NEW n \in part PROVE q[n].high \in Int /\ q[n].low \in Int
  <2>1. q[n] \in Ohlcv
    BY <1>2
  <2> QED
    BY <2>1 DEF Ohlcv
<1>4. Tells(bar, q, part)
  OBVIOUS
<1>5. BarOf(q, bar.ts, secs) =
        [ts |-> bar.ts, open |-> q[Min(part)].open, high |-> Max(highs), low |-> Min(lows),
         close |-> q[Max(part)].close, volume |-> VolumeOf(q, part)]
  BY <1>1 DEF BarOf
<1> HIDE DEF part
<1>6. bar.open = q[Min(part)].open
  <2>1. PICK k \in part : bar.open = q[k].open /\ \A n \in part : k <= n
    BY <1>4 DEF Tells
  <2>2. Min(part) = k
    BY <1>2, <2>1, MinIs
  <2> QED
    BY <2>1, <2>2
<1>7. bar.close = q[Max(part)].close
  <2>1. PICK k \in part : bar.close = q[k].close /\ \A n \in part : n <= k
    BY <1>4 DEF Tells
  <2>2. Max(part) = k
    BY <1>2, <2>1, MaxIs
  <2> QED
    BY <2>1, <2>2
<1>8. bar.high = Max(highs)
  <2>1. PICK k \in part : bar.high = q[k].high /\ \A n \in part : q[n].high <= q[k].high
    BY <1>4 DEF Tells
  <2>2. highs \in SUBSET Int /\ q[k].high \in highs /\ \A x \in highs : x <= q[k].high
    BY <1>3, <2>1
  <2> HIDE DEF highs
  <2>3. Max(highs) = q[k].high
    BY <2>2, MaxIs
  <2> QED
    BY <2>1, <2>3
<1>9. bar.low = Min(lows)
  <2>1. PICK k \in part : bar.low = q[k].low /\ \A n \in part : q[k].low <= q[n].low
    BY <1>4 DEF Tells
  <2>2. lows \in SUBSET Int /\ q[k].low \in lows /\ \A x \in lows : q[k].low <= x
    BY <1>3, <2>1
  <2> HIDE DEF lows
  <2>3. Min(lows) = q[k].low
    BY <2>2, MinIs
  <2> QED
    BY <2>1, <2>3
<1>10. bar.volume = VolumeOf(q, part)
  BY <1>4 DEF Tells
<1>11. bar = [ts |-> bar.ts, open |-> bar.open, high |-> bar.high, low |-> bar.low,
              close |-> bar.close, volume |-> bar.volume]
  BY DEF Ohlcv
<1> QED
  BY <1>5, <1>6, <1>7, <1>8, <1>9, <1>10, <1>11

LEMMA BarsOfRows ==
  ASSUME NEW secs \in Nat \ {0}, NEW q \in Seq(Ohlcv), InTime(q)
  PROVE  AreBarsOf(aggregate_rows(q, secs), q, secs)
<1> DEFINE bars == aggregate_rows(q, secs)
<1>1. Exact(bars, q, secs) /\ bars \in Seq(Ohlcv)
  BY BarsAreExact, BarsTyped
<1> HIDE DEF bars
<1>2. \A bar \in ToSet(bars) : \E j \in 1..Len(bars) : bar = bars[j]
  BY <1>1 DEF ToSet
<1>3. \A j \in 1..Len(bars) : bars[j] \in ToSet(bars) /\ bars[j] \in Ohlcv
  BY <1>1 DEF ToSet
<1>4. \A row \in ToSet(q) : \E k \in 1..Len(q) : row = q[k]
  BY DEF ToSet
<1>5. \A k \in 1..Len(q) : q[k] \in ToSet(q) /\ q[k] \in Ohlcv
  BY DEF ToSet
<1>6. \A k \in 1..Len(q) :
        q[k].ts \in Int /\ q[k].ts - (q[k].ts % secs) = bucket_start(q[k].ts, secs)
  <2> TAKE k \in 1..Len(q)
  <2>1. q[k].ts \in Int
    BY <1>5 DEF Ohlcv
  <2> QED
    BY <2>1, BucketStart
<1>7. ASSUME NEW j \in 1..Len(bars)
      PROVE  /\ \E k \in 1..Len(q) : bars[j].ts = bucket_start(q[k].ts, secs)
             /\ bars[j] = BarOf(q, bars[j].ts, secs)
  <2>1. Tells(bars[j], q, Part(q, bars[j].ts, secs))
    BY <1>1 DEF Exact, AllTell
  <2>2. PICK k \in 1..Len(q) : bars[j].ts = bucket_start(q[k].ts, secs)
    <3>1. Part(q, bars[j].ts, secs) # {}
      BY <2>1 DEF Tells
    <3> QED
      BY <3>1 DEF Part
  <2>3. q[k].ts \in Int /\ bars[j] \in Ohlcv
    BY <1>3, <1>6
  <2>4. bars[j] = BarOf(q, bars[j].ts, secs)
    BY <2>1, <2>2, <2>3, ToldIsBarOf
  <2> QED
    BY <2>2, <2>4
<1>8. {bar.ts : bar \in ToSet(bars)} = {row.ts - (row.ts % secs) : row \in ToSet(q)}
  <2> DEFINE made == {bar.ts : bar \in ToSet(bars)}
             starts == {row.ts - (row.ts % secs) : row \in ToSet(q)}
  <2>1. ASSUME NEW b \in made PROVE b \in starts
    <3>1. PICK j \in 1..Len(bars) : b = bars[j].ts
      BY <1>2
    <3>2. PICK k \in 1..Len(q) : b = bucket_start(q[k].ts, secs)
      BY <3>1, <1>7
    <3> QED
      BY <3>2, <1>5, <1>6
  <2>2. ASSUME NEW b \in starts PROVE b \in made
    <3>1. PICK k \in 1..Len(q) : b = q[k].ts - (q[k].ts % secs)
      BY <1>4
    <3>2. PICK j \in 1..Len(bars) : bars[j].ts = b
      BY <3>1, <1>1, <1>6 DEF Exact, Covers
    <3> QED
      BY <3>2, <1>3
  <2> QED
    BY <2>1, <2>2
<1>9. \A bar \in ToSet(bars) : bar = BarOf(q, bar.ts, secs)
  BY <1>2, <1>7
<1>10. AreBarsOf(bars, q, secs)
  BY <1>1, <1>8, <1>9 DEF AreBarsOf, Exact, Ascend
<1> QED
  BY <1>10 DEF bars

-----------------------------------------------------------------------------
Event == [kind : STRING, inst : STRING, ts : Int, price : Int, qty : Int]

\* The trades that are accepted are bars in time order.
LEMMA TradeRowsAreBars ==
  ASSUME NEW events \in Seq(Event), trade_rows(events) # Rejected
  PROVE  trade_rows(events) \in Seq(Ohlcv) /\ InTime(trade_rows(events))
<1> DEFINE n == Len(events)
           rows == [k \in 1..n |-> RowOf(events[k])]
<1>1. n \in Nat /\ \A k \in 1..n : events[k] \in Event
  OBVIOUS
<1>2. /\ trade_rows(events) = rows
      /\ \A k \in 1..n : k > 1 => events[k - 1].ts <= events[k].ts
  BY DEF trade_rows
<1>3. \A k \in 1..n : RowOf(events[k]) \in Ohlcv /\ RowOf(events[k]).ts = events[k].ts
  <2> TAKE k \in 1..n
  <2>1. events[k].ts \in Int /\ events[k].price \in Int /\ events[k].qty \in Int
    BY <1>1 DEF Event
  <2> QED
    BY <2>1 DEF RowOf, Ohlcv
<1> HIDE DEF n
<1>4. rows \in Seq(Ohlcv) /\ Len(rows) = n /\ \A k \in 1..n : rows[k] = RowOf(events[k])
  BY <1>1, <1>3
<1> HIDE DEF rows
<1>5. Ordered(rows)
  <2> SUFFICES ASSUME NEW k \in 1..n, k > 1 PROVE rows[k - 1].ts <= rows[k].ts
    BY <1>4 DEF Ordered
  <2>1. k - 1 \in 1..n
    BY <1>1
  <2> QED
    BY <2>1, <1>2, <1>3, <1>4
<1> QED
  BY <1>2, <1>4, <1>5, OrderedIsInTime

(***************************************************************************)
(* pallas-resample makes, of any tape it accepts and for any interval, the *)
(* bars of the buckets, and coarser bars that do not depend on what they   *)
(* are made from (pallas-resample.rs:133-211).                             *)
(***************************************************************************)
THEOREM ResampledExactly == Spec => []ResampleIsExact
<1>1. ASSUME NEW events \in Recordings, trade_rows(events) # Rejected,
             NEW secs \in Intervals
      PROVE  /\ AreBarsOf(aggregate_rows(trade_rows(events), secs), trade_rows(events), secs)
             /\ \A coarser \in Intervals :
                  coarser % secs = 0 =>
                    aggregate_rows(aggregate_rows(trade_rows(events), secs), coarser)
                      = aggregate_rows(trade_rows(events), coarser)
  <2>1. secs \in Nat \ {0} /\ events \in Seq(Event)
    BY RecordingsAssumption DEF Event
  <2>2. trade_rows(events) \in Seq(Ohlcv) /\ InTime(trade_rows(events))
    BY <1>1, <2>1, TradeRowsAreBars
  <2>3. AreBarsOf(aggregate_rows(trade_rows(events), secs), trade_rows(events), secs)
    BY <2>1, <2>2, BarsOfRows
  <2>4. ASSUME NEW coarser \in Intervals, coarser % secs = 0
        PROVE  aggregate_rows(aggregate_rows(trade_rows(events), secs), coarser)
                 = aggregate_rows(trade_rows(events), coarser)
    <3>1. coarser \in Nat \ {0}
      BY RecordingsAssumption
    <3> QED
      BY <2>1, <2>2, <2>4, <3>1, CoarserAgrees
  <2> QED
    BY <2>3, <2>4
<1>2. ResampleIsExact
  BY <1>1 DEF ResampleIsExact
<1> QED
  BY <1>2, PTL
=============================================================================
