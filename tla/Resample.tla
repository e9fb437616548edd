------------------------------ MODULE Resample ------------------------------
(***************************************************************************)
(* pallas-resample: trades or bars into bars of a coarser interval.  A row *)
(* is a bar; a trade is a bar of one price.                                *)
(***************************************************************************)
EXTENDS Integers, Sequences, SequencesExt, FiniteSetsExt

\* A tape that is an error: no accepted one is without rows.
Rejected == <<>>

\* The bar that a trade is on its own.
RowOf(e) ==
  [ts |-> e.ts, open |-> e.price, high |-> e.price, low |-> e.price,
   close |-> e.price, volume |-> e.qty]

\* One instrument's trades, with a price and a quantity, in time order.
trade_rows(events) ==
  IF /\ events # <<>>
     /\ \A n \in 1..Len(events) :
          /\ events[n].kind = "trade"
          /\ events[n].price > 0 /\ events[n].qty > 0
          /\ events[n].inst = events[1].inst
          /\ n > 1 => events[n - 1].ts <= events[n].ts
  THEN [n \in 1..Len(events) |-> RowOf(events[n])]
  ELSE Rejected

\* Mutant of bucket_start: the quotient is truncated.
bucket_start_truncated(ts, secs) ==
  IF ts < 0 THEN -(((-ts) \div secs) * secs) ELSE (ts \div secs) * secs

\* div_euclid rounds down, also before the epoch.
bucket_start(ts, secs) == (ts \div secs) * secs

\* A row of the bucket that the last bar is of is merged into it; any other
\* row opens a bar at the start of its bucket.
Absorb(bar, row) ==
  [bar EXCEPT !.high   = Max({@, row.high}),
              !.low    = Min({@, row.low}),
              !.close  = row.close,
              !.volume = @ + row.volume]

AddRow(bars, row, secs) ==
  LET start == bucket_start(row.ts, secs) IN
  IF bars # <<>> /\ Last(bars).ts = start
  THEN Append(Front(bars), Absorb(Last(bars), row))
  ELSE Append(bars, [row EXCEPT !.ts = start])

aggregate_rows(rows, secs) ==
  LET bars[n \in 0..Len(rows)] ==
        IF n = 0 THEN <<>> ELSE AddRow(bars[n - 1], rows[n], secs)
  IN  bars[Len(rows)]

-----------------------------------------------------------------------------

\* The rows of the bucket that starts at b, as indices.
Bucket(rows, b, secs) == {n \in 1..Len(rows) : b <= rows[n].ts /\ rows[n].ts < b + secs}

VolumeOf(rows, bucket) ==
  LET sum[n \in 0..Len(rows)] ==
        IF n = 0 THEN 0 ELSE sum[n - 1] + (IF n \in bucket THEN rows[n].volume ELSE 0)
  IN  sum[Len(rows)]

BarOf(rows, b, secs) ==
  LET bucket == Bucket(rows, b, secs)
  IN  [ts     |-> b,
       open   |-> rows[Min(bucket)].open,
       high   |-> Max({rows[n].high : n \in bucket}),
       low    |-> Min({rows[n].low : n \in bucket}),
       close  |-> rows[Max(bucket)].close,
       volume |-> VolumeOf(rows, bucket)]

\* The bars of rows in time order, bucket by bucket, without a running bar.
AreBarsOf(bars, rows, secs) ==
  /\ {bar.ts : bar \in ToSet(bars)} = {row.ts - (row.ts % secs) : row \in ToSet(rows)}
  /\ \A j, k \in 1..Len(bars) : j < k => bars[j].ts < bars[k].ts
  /\ \A bar \in ToSet(bars) : bar = BarOf(rows, bar.ts, secs)
=============================================================================
