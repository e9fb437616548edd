------------------------------ MODULE BarFiles ------------------------------
(***************************************************************************)
(* The bar files of a backtest: a csv that pallas-resample writes or a     *)
(* download replaces, and the .pbar sidecar that every load of the csv     *)
(* reads if it looks fresh and rewrites if it does not (backtest::pbar).   *)
(* Nothing locks either file.  A load may stop at any write: its process   *)
(* ends, or the disk is full and the error is ignored.                     *)
(*                                                                         *)
(* A file is a sequence of blocks, one per flush; a block is one bar here. *)
(* A write past the end of a file that another load has truncated leaves a *)
(* hole of zeros.                                                          *)
(***************************************************************************)
EXTENDS Resample

CONSTANTS
  Loads,      \* backtests that load the csv, in one sweep or in several programs
  Contents,   \* what the csv may be made to hold, each a sequence of bars
  Hole,       \* a block of zeros
  Recordings, \* event files pallas-resample may be given
  Intervals,  \* target intervals, in seconds
  MaxTick,    \* bound on the clock of the file system
  MaxEdits    \* bound on the changes of the csv

ASSUME ContentsAssumption ==
  \A rows \in Contents : rows \in Seq(UNION {ToSet(r) : r \in Contents}) /\ rows # <<>>

\* What an event file is parsed to, and the intervals --to takes.
ASSUME RecordingsAssumption ==
  /\ Recordings \subseteq Seq([kind : STRING, inst : STRING, ts : Int, price : Int, qty : Int])
  /\ Intervals \subseteq Nat \ {0}

ASSUME BoundsAssumption == MaxTick \in Nat /\ MaxEdits \in Nat

VARIABLES
  csv,       \* the csv: its rows and the time of its last change
  writing,   \* the rows pallas-resample has still to write, or <<>>
  sidecar,   \* the .pbar file: the bar count of its header, its blocks, its time
  load,      \* load -> where it is and the series it works on
  tick,      \* the clock
  edits,     \* the changes of the csv so far
  clash      \* whether writers have met as nothing in the code prevents

vars == <<csv, writing, sidecar, load, tick, edits, clash>>

\* No file, or no header yet: the magic is missing.
NoFile == [count |-> 0, blocks |-> <<>>, at |-> -1]

Idle == [at |-> "idle", series |-> <<>>, done |-> 0]

Init ==
  /\ \E rows \in Contents : csv = [rows |-> rows, at |-> 0]
  /\ writing = <<>>
  /\ sidecar = NoFile
  /\ load = [l \in Loads |-> Idle]
  /\ tick = 0
  /\ edits = 0
  /\ clash = FALSE

Tick ==
  /\ tick < MaxTick
  /\ tick' = tick + 1
  /\ UNCHANGED <<csv, writing, sidecar, load, edits, clash>>

-----------------------------------------------------------------------------
\* Changes of the csv

Loading == \E l \in Loads : load[l].at # "idle"

\* The csv now holds rows and the file system says it changed at time at.
ChangeCsv(rows, at) ==
  /\ csv' = [rows |-> rows, at |-> at]
  /\ clash' = (clash \/ Loading \/ sidecar.at >= at)

\* File::create in write_ohlcv empties the file.
StartRewrite ==
  /\ edits < MaxEdits /\ writing = <<>>
  /\ writing' \in Contents
  /\ ChangeCsv(<<>>, tick)
  /\ edits' = edits + 1
  /\ UNCHANGED <<sidecar, load, tick>>

\* One flush of write_ohlcv.
WriteRow ==
  /\ writing # <<>>
  /\ ChangeCsv(Append(csv.rows, Head(writing)), tick)
  /\ writing' = Tail(writing)
  /\ UNCHANGED <<sidecar, load, tick, edits>>

\* A download is renamed over the csv: the time of the file is that of its
\* last write under its temporary name.
Replace ==
  /\ edits < MaxEdits /\ writing = <<>>
  /\ \E rows \in Contents, at \in 0..tick : ChangeCsv(rows, at)
  /\ edits' = edits + 1
  /\ UNCHANGED <<writing, sidecar, load, tick>>

-----------------------------------------------------------------------------
\* BarSeries::from_csv_path_or_pbar

\* sidecar_is_fresh: as late as the csv, to the resolution of the clock.
Fresh == sidecar # NoFile /\ sidecar.at >= csv.at

\* Mutant of Readable: the blocks are not counted.
ReadableAnyhow == sidecar.count > 0

\* read_pbar: the header is there and counts the blocks that follow.
Readable == sidecar.count > 0 /\ sidecar.count = Len(sidecar.blocks)

Step(l, from, to, series) ==
  /\ load[l].at = from
  /\ load' = [load EXCEPT ![l] = [at |-> to, series |-> series, done |-> 0]]

\* The times of both files are compared.
Stat(l) ==
  /\ Step(l, "idle", IF Fresh THEN "read" ELSE "parse", <<>>)
  /\ UNCHANGED <<csv, writing, sidecar, tick, edits, clash>>

\* The sidecar is read; if it cannot be, the csv is parsed after all.
ReadSidecar(l) ==
  /\ IF Readable
     THEN Step(l, "read", "loaded", sidecar.blocks)
     ELSE Step(l, "read", "parse", <<>>)
  /\ UNCHANGED <<csv, writing, sidecar, tick, edits, clash>>

\* from_csv_path: a csv without rows is an error, and so is half a row.
ParseCsv(l) ==
  /\ \/ csv.rows # <<>> /\ Step(l, "parse", "create", csv.rows)
     \/ (csv.rows = <<>> \/ writing # <<>>) /\ Step(l, "parse", "failed", <<>>)
  /\ UNCHANGED <<csv, writing, sidecar, tick, edits, clash>>

\* File::create in write_pbar truncates what any other load has written.
CreateSidecar(l) ==
  /\ Step(l, "create", "write", load[l].series)
  /\ sidecar' = [count |-> 0, blocks |-> <<>>, at |-> tick]
  /\ clash' = (clash \/ \E k \in Loads : load[k].at = "write")
  /\ UNCHANGED <<csv, writing, tick, edits>>

\* A block goes where this writer's file position is.
PutBlock(blocks, n, block) ==
  [k \in 1..Max({n, Len(blocks)}) |->
     IF k = n THEN block ELSE IF k <= Len(blocks) THEN blocks[k] ELSE Hole]

\* One flush of the buffer; the header goes with the first.
WriteBlock(l) ==
  LET series == load[l].series
      n      == load[l].done + 1
  IN  /\ load[l].at = "write" /\ n <= Len(series)
      /\ load' = [load EXCEPT ![l].done = n]
      /\ sidecar' = [count  |-> IF n = 1 THEN Len(series) ELSE sidecar.count,
                     blocks |-> PutBlock(sidecar.blocks, n, series[n]),
                     at     |-> tick]
      /\ UNCHANGED <<csv, writing, tick, edits, clash>>

\* The sidecar is written, or a create or a flush failed: the series is
\* returned all the same.
ReturnSeries(l) ==
  /\ load[l].at \in {"create", "write"}
  /\ load' = [load EXCEPT ![l].at = "loaded"]
  /\ UNCHANGED <<csv, writing, sidecar, tick, edits, clash>>

\* The caller has its answer, or its process ends before that.
Leave(l) ==
  /\ load[l].at # "idle"
  /\ load' = [load EXCEPT ![l] = Idle]
  /\ UNCHANGED <<csv, writing, sidecar, tick, edits, clash>>

Next ==
  \/ Tick
  \/ StartRewrite
  \/ WriteRow
  \/ Replace
  \/ \E l \in Loads :
       \/ Stat(l)
       \/ ReadSidecar(l)
       \/ ParseCsv(l)
       \/ CreateSidecar(l)
       \/ WriteBlock(l)
       \/ ReturnSeries(l)
       \/ Leave(l)

Spec == Init /\ [][Next]_vars

-----------------------------------------------------------------------------

Untouched == tick = 0 /\ edits = 0 /\ load = [l \in Loads |-> Idle]

(***************************************************************************)
(* From a tape that pallas-resample accepts it makes the bars of the       *)
(* buckets, also before the epoch, and bars that are made coarser once     *)
(* more are those made from the trades at once (pallas-resample.rs:133-    *)
(* 211).                                                                   *)
(***************************************************************************)
ResampleIsExact ==
  Untouched =>
    \A events \in Recordings :
      LET rows == trade_rows(events) IN
      rows # Rejected =>
        \A secs \in Intervals :
          LET bars == aggregate_rows(rows, secs) IN
          /\ AreBarsOf(bars, rows, secs)
          /\ \A coarser \in Intervals :
               coarser % secs = 0 =>
                 aggregate_rows(bars, coarser) = aggregate_rows(rows, coarser)

(***************************************************************************)
(* A load returns the rows the csv holds, although loads stop at any write *)
(* and leave half a sidecar that looks fresh, and although later loads     *)
(* read it: as long as no two loads write the sidecar at once, the csv     *)
(* does not change under a running load, and every change of it is dated   *)
(* after the sidecar (pbar.rs:18-34, 134-142).                             *)
(***************************************************************************)
LoadIsCurrent ==
  ~clash => \A l \in Loads : load[l].at = "loaded" => load[l].series = csv.rows
=============================================================================
