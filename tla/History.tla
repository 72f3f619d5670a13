------------------------------- MODULE History -------------------------------
(***************************************************************************)
(* The history of a metric: the range a request resolves to, the intervals *)
(* ("buckets") it is cut into, the rows the database aggregates and the    *)
(* bars the mobile application draws of them.  A date is an integer, 0 is  *)
(* a midnight; a bucket keeps its measurements, of which the database      *)
(* returns the average, the extremes and the count.                        *)
(***************************************************************************)
EXTENDS Integers, FiniteSets

CONSTANTS
  MaxBuckets,    \* MAX_HISTORY_BUCKETS
  DefaultSpan,   \* DEFAULT_HISTORY_SPAN_MS
  MaxSpan,       \* MAX_HISTORY_SPAN_MS
  Sizes,         \* BUCKET_SIZES_MS
  Unset          \* a bound the query does not give

(* The widest size is enough for the longest range. *)
ASSUME SizesAssumption ==
  /\ MaxBuckets \in Nat /\ MaxBuckets > 1
  /\ DefaultSpan \in Nat /\ MaxSpan \in Nat
  /\ IsFiniteSet(Sizes) /\ Sizes \subseteq Nat \ {0}
  /\ \E size \in Sizes : size * (MaxBuckets - 1) >= MaxSpan

Later(t1, t2) == IF t1 < t2 THEN t2 ELSE t1

(* The bounds that are asked for, the default ones and the longest span.   *)
ResolveHistoryRange(asked, now) ==
  LET to == IF asked.to = Unset THEN now ELSE asked.to
      from == IF asked.from = Unset THEN to - DefaultSpan ELSE asked.from
  IN [from |-> Later(from, to - MaxSpan), to |-> to]

Span(range) == Later(range.to - range.from, 0)

(* Seeded fault: the second partial bucket is not counted. *)
FitsWithoutPartial(size, range) == size * MaxBuckets >= Span(range)

(* Whole buckets, and a partial one at either end, are few enough. *)
Fits(size, range) == size * (MaxBuckets - 1) >= Span(range)

Smallest(S) == CHOOSE size \in S : \A other \in S : size <= other
Largest(S) == CHOOSE size \in S : \A other \in S : other <= size

ResolveBucket(range) ==
  LET fitting == {size \in Sizes : Fits(size, range)}
  IN IF fitting # {} THEN Smallest(fitting) ELSE Largest(Sizes)

(* time_bucket of TimescaleDB: aligned on midnights, not on the range. *)
TimeBucket(bucket, at) == (at \div bucket) * bucket

InRange(stored, range) == {m \in stored : range.from <= m.at /\ m.at <= range.to}

Rows(stored, range, bucket) ==
  LET asked == InRange(stored, range) IN
  {[start |-> start, measurements |-> {m \in asked : TimeBucket(bucket, m.at) = start}] :
     start \in {TimeBucket(bucket, m.at) : m \in asked}}

(* GET /devices/:id/history, on the measurements of one metric. *)
HistoryOf(stored, asked, now) ==
  LET range == ResolveHistoryRange(asked, now) IN
  [from |-> range.from, to |-> range.to, bucket |-> ResolveBucket(range),
   rows |-> Rows(stored, range, ResolveBucket(range))]

-----------------------------------------------------------------------------
(* The chart *)

BAR_WIDTH == 8
PIXELS_PER_BUCKET == 12

SlotsOf(h) == Later((h.to - h.from + h.bucket - 1) \div h.bucket, 1)
ChartWidth(h) == SlotsOf(h) * PIXELS_PER_BUCKET

(* xForTime: the slot a date falls in, kept within the chart. *)
XForTime(h, at) ==
  LET x == Later(((at - h.from) \div h.bucket) * PIXELS_PER_BUCKET, 0)
      last == ChartWidth(h) - BAR_WIDTH
  IN IF x < last THEN x ELSE last

-----------------------------------------------------------------------------
(* What is expected of them *)

(* As many rows as announced at most, whatever the density of the          *)
(* measurements. *)
InFewRows(h) == Cardinality(h.rows) <= MaxBuckets

(* Every measurement of the range is counted, in one row only. *)
CountsEach(stored, h) ==
  \A m \in InRange(stored, h) : Cardinality({r \in h.rows : m \in r.measurements}) = 1

(* Two bars only ever overlap at the edges of the chart: the earlier one   *)
(* began before the range, or the later one begins at its very end. *)
BarsApart(h) ==
  \A r1, r2 \in h.rows :
    r1.start < r2.start =>
      \/ XForTime(h, r2.start) - XForTime(h, r1.start) >= BAR_WIDTH
      \/ r1.start < h.from
      \/ r2.start = h.to
=============================================================================
