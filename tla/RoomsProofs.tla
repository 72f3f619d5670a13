----------------------------- MODULE RoomsProofs -----------------------------
(***************************************************************************)
(* Proofs about Rooms and History, for any devices, rooms, users, queries  *)
(* and number of measurements.                                             *)
(***************************************************************************)
EXTENDS Rooms, TLAPS, FiniteSetTheorems, WellFoundedInduction

Call ==
  [user : Users, room : RoomIds, code : Codes, waited : BOOLEAN,
   answer : {"none", "refused", "done"}, overtaken : BOOLEAN]

Success == [kind : {"success"}, device : Devices, overtaken : BOOLEAN]
Outcome == {None, [kind |-> "refused"], [kind |-> "unknown"]} \cup Success
OpenScan == [room : RoomIds, locked : BOOLEAN, outcome : Outcome]

Room == [read : BOOLEAN, at : Nat, devices : SUBSET Devices, silent : BOOLEAN]
List ==
  [stage : {"idle", "reading", "answered"}, rooms : [RoomIds -> Room], steady : SUBSET Devices]

ScanTyped ==
  /\ roomOf \in [Devices -> RoomIds]
  /\ scan \in [Users -> OpenScan \cup {Closed}]
  /\ call \in [Calls -> Call \cup {Free}]

(* A screen waits for a call about its own room, locked and with nothing   *)
(* to show yet. *)
Waiting ==
  \A i \in Calls : call[i] # Free /\ call[i].waited =>
    LET s == scan[call[i].user] IN
    s # Closed /\ s.locked /\ s.outcome = None /\ s.room = call[i].room

OneCall ==
  \A i, j \in Calls :
    /\ call[i] # Free /\ call[i].waited
    /\ call[j] # Free /\ call[j].waited
    /\ call[i].user = call[j].user
    => i = j

(* What was done is still there, unless the device was associated again.   *)
Placed ==
  \A i \in Calls : call[i] # Free /\ call[i].answer = "done" =>
    call[i].code \in Devices /\ (~call[i].overtaken => roomOf[call[i].code] = call[i].room)

Told ==
  \A u \in Users : IsOpen(u) /\ scan[u].outcome.kind = "success" /\ ~scan[u].outcome.overtaken =>
    roomOf[scan[u].outcome.device] = scan[u].room

ScanInv == ScanTyped /\ Waiting /\ OneCall /\ Placed /\ Told

ListTyped ==
  /\ now \in Nat /\ stored \in SUBSET [metric : Metrics, at : Nat]
  /\ roomOf \in [Devices -> RoomIds]
  /\ list \in List

(* No device is left to read in a room that is not begun, or once the list *)
(* is answered. *)
ReadInOrder ==
  \A r \in RoomIds :
    /\ ~list.rooms[r].read => list.rooms[r].devices = {}
    /\ list.stage = "answered" => list.rooms[r].read /\ list.rooms[r].devices = {}

(* IsSilent, as a function of the measurements. *)
SilentAmong(rows, d, date) ==
  \E m \in rows :
    /\ m.metric[1] = d
    /\ \A other \in rows : other.metric[1] = d /\ other.metric = m.metric => other.at <= m.at
    /\ ~IsFresh(m.at, date)

(* Until its room is judged, a steady device is silent at the date its     *)
(* room will be judged at, and still to be read. *)
SteadyIsSeen ==
  \A d \in list.steady :
    LET room == list.rooms[roomOf[d]] IN
    IF ~room.read THEN SilentAmong(stored, d, now)
    ELSE IF room.devices = {} THEN room.silent
    ELSE d \in room.devices /\ SilentAmong(stored, d, room.at)

ListInv == ListTyped /\ ReadInOrder /\ SteadyIsSeen

RInv == ScanInv /\ ListInv

-----------------------------------------------------------------------------
(* Intervals of a whole number of units *)

LEMMA TimesMonotone ==
  ASSUME NEW b \in Nat, NEW x \in Int, NEW y \in Int, x <= y
  PROVE  b * x <= b * y
  <1>1. PICK k \in Nat : y = x + k
    <2>1. y - x \in Nat /\ y = x + (y - x)
      OBVIOUS
    <2> QED BY <2>1
  <1>2. b * y = b * x + b * k
    BY <1>1
  <1>3. b * k \in Nat
    OBVIOUS
  <1>4. b * x \in Int
    OBVIOUS
  <1> QED BY <1>2, <1>3, <1>4

LEMMA DivIs ==
  ASSUME NEW b \in Nat \ {0}, NEW x \in Int
  PROVE  x \div b \in Int /\ b * (x \div b) <= x /\ x < b * (x \div b) + b
  OBVIOUS

(* x \div b is the only quotient. *)
LEMMA DivOnly ==
  ASSUME NEW b \in Nat \ {0}, NEW x \in Int, NEW q \in Int, b * q <= x, x < b * q + b
  PROVE  x \div b = q
  <1>1. x \div b \in Int /\ b * (x \div b) <= x /\ x < b * (x \div b) + b
    BY DivIs
  <1>2. ~(x \div b + 1 <= q)
    <2>1. SUFFICES ASSUME x \div b + 1 <= q PROVE FALSE
      OBVIOUS
    <2>2. b * (x \div b + 1) <= b * q
      BY <1>1, <2>1, TimesMonotone
    <2>3. b * (x \div b + 1) = b * (x \div b) + b
      BY <1>1
    <2> QED BY <1>1, <2>2, <2>3
  <1>3. ~(q + 1 <= x \div b)
    <2>1. SUFFICES ASSUME q + 1 <= x \div b PROVE FALSE
      OBVIOUS
    <2>2. b * (q + 1) <= b * (x \div b)
      BY <1>1, <2>1, TimesMonotone
    <2>3. b * (q + 1) = b * q + b
      OBVIOUS
    <2> QED BY <1>1, <2>2, <2>3
  <1> QED BY <1>1, <1>2, <1>3

LEMMA DivMonotone ==
  ASSUME NEW b \in Nat \ {0}, NEW x \in Int, NEW y \in Int, x <= y
  PROVE  x \div b <= y \div b
  <1>1. /\ x \div b \in Int /\ b * (x \div b) <= x /\ x < b * (x \div b) + b
        /\ y \div b \in Int /\ b * (y \div b) <= y /\ y < b * (y \div b) + b
    BY DivIs
  <1>2. SUFFICES ASSUME y \div b + 1 <= x \div b PROVE FALSE
    BY <1>1
  <1>3. b * (y \div b + 1) <= b * (x \div b)
    BY <1>1, <1>2, TimesMonotone
  <1>4. b * (y \div b + 1) = b * (y \div b) + b
    BY <1>1
  <1> QED BY <1>1, <1>3, <1>4

(* Whole buckets further on, a date falls whole buckets further on. *)
LEMMA DivPlus ==
  ASSUME NEW b \in Nat \ {0}, NEW x \in Int, NEW k \in Int
  PROVE  (x + b * k) \div b = x \div b + k
  <1>1. x \div b \in Int /\ b * (x \div b) <= x /\ x < b * (x \div b) + b
    BY DivIs
  <1>2. b * (x \div b + k) = b * (x \div b) + b * k
    BY <1>1
  <1>3. b * k \in Int /\ b * (x \div b) \in Int
    BY <1>1
  <1>4. b * (x \div b + k) <= x + b * k /\ x + b * k < b * (x \div b + k) + b
    BY <1>1, <1>2, <1>3
  <1>5. x + b * k \in Int /\ x \div b + k \in Int
    BY <1>1, <1>3
  <1> QED BY <1>4, <1>5, DivOnly

(* A set of numbers has a smallest one: its numbers are ordered like the   *)
(* intervals they end, which inclusion orders well. *)
LEMMA SmallestIs ==
  ASSUME NEW S \in SUBSET Nat, S # {}
  PROVE  Smallest(S) \in S
  <1> DEFINE T == {0..n : n \in S}
  <1>1. T \subseteq FiniteSubsetsOf(Nat)
    <2>1. SUFFICES ASSUME NEW n \in S PROVE 0..n \in FiniteSubsetsOf(Nat)
      OBVIOUS
    <2>2. IsFiniteSet(0..n)
      BY FS_Interval
    <2> QED BY <2>2 DEF FiniteSubsetsOf
  <1>2. T # {}
    OBVIOUS
  <1>3. IsWellFoundedOn(StrictSubsetOrdering(Nat), FiniteSubsetsOf(Nat))
    BY FS_StrictSubsetOrderingWellFounded
  <1>4. PICK t \in T : \A u \in T : ~(<<u, t>> \in StrictSubsetOrdering(Nat))
    <2> HIDE DEF T
    <2> QED BY <1>1, <1>2, <1>3, WFMin
  <1>5. PICK n \in S : t = 0..n
    OBVIOUS
  <1>6. \A m \in S : n <= m
    <2>1. SUFFICES ASSUME NEW m \in S, m < n PROVE FALSE
      OBVIOUS
    <2>2. 0..m \in T
      OBVIOUS
    <2>3. 0..m \subseteq 0..n /\ n \in 0..n /\ n \notin 0..m
      BY <2>1
    <2>4. 0..m # 0..n
      BY <2>3
    <2>5. <<0..m, 0..n>> \in StrictSubsetOrdering(Nat)
      BY <2>3, <2>4 DEF StrictSubsetOrdering
    <2> QED BY <1>4, <1>5, <2>2, <2>5
  <1> QED BY <1>6 DEF Smallest

-----------------------------------------------------------------------------
(* The history of a metric *)

Asked == [from : Int \cup {Unset}, to : Int \cup {Unset}]

LEMMA RangeIs ==
  ASSUME NEW asked \in Asked, NEW date \in Int, NEW range, range = ResolveHistoryRange(asked, date)
  PROVE  range.from \in Int /\ range.to \in Int /\ range.to - range.from <= MaxSpan
  <1>1. MaxSpan \in Nat /\ DefaultSpan \in Nat
    BY SizesAssumption
  <1>2. asked.from \in Int \cup {Unset} /\ asked.to \in Int \cup {Unset}
    BY DEF Asked
  <1> DEFINE to == IF asked.to = Unset THEN date ELSE asked.to
             from == IF asked.from = Unset THEN to - DefaultSpan ELSE asked.from
  <1>3. to \in Int
    BY <1>2
  <1>4. from \in Int
    BY <1>1, <1>2, <1>3
  <1>5. range = [from |-> Later(from, to - MaxSpan), to |-> to]
    BY DEF ResolveHistoryRange
  <1> HIDE DEF to, from
  <1>6. range.from = Later(from, to - MaxSpan) /\ range.to = to
    BY <1>5
  <1>7. Later(from, to - MaxSpan) \in Int /\ to - Later(from, to - MaxSpan) <= MaxSpan
    BY <1>1, <1>3, <1>4 DEF Later
  <1> QED BY <1>3, <1>6, <1>7

(* The widest size fits the longest range, so that the size that is taken  *)
(* always fits. *)
LEMMA BucketFits ==
  ASSUME NEW range, range.from \in Int, range.to \in Int, range.to - range.from <= MaxSpan
  PROVE  ResolveBucket(range) \in Nat \ {0} /\ Fits(ResolveBucket(range), range)
  <1> DEFINE fitting == {size \in Sizes : Fits(size, range)}
  <1>1. Sizes \subseteq Nat \ {0} /\ MaxSpan \in Nat
    BY SizesAssumption
  <1>2. PICK widest \in Sizes : widest * (MaxBuckets - 1) >= MaxSpan
    BY SizesAssumption
  <1>3. Span(range) \in Nat /\ Span(range) <= MaxSpan
    BY <1>1 DEF Span, Later
  <1>4. widest * (MaxBuckets - 1) \in Int
    BY <1>1, <1>2, SizesAssumption
  <1>5. Fits(widest, range)
    BY <1>1, <1>2, <1>3, <1>4 DEF Fits
  <1>6. fitting # {} /\ fitting \in SUBSET Nat
    BY <1>1, <1>5
  <1>7. ResolveBucket(range) = Smallest(fitting)
    BY <1>6 DEF ResolveBucket
  <1>8. Smallest(fitting) \in fitting
    <2> HIDE DEF fitting
    <2> QED BY <1>6, SmallestIs
  <1> QED BY <1>1, <1>7, <1>8

(* A row of an aggregated history. *)
LEMMA RowIs ==
  ASSUME NEW mine, NEW range, NEW bucket, NEW row \in Rows(mine, range, bucket)
  PROVE  /\ \E m \in InRange(mine, range) : row.start = TimeBucket(bucket, m.at)
         /\ row.measurements =
              {m \in InRange(mine, range) : TimeBucket(bucket, m.at) = row.start}
         /\ row = [start |-> row.start, measurements |-> row.measurements]
  BY DEF Rows

LEMMA EachIsCounted ==
  ASSUME NEW mine, NEW asked, NEW date
  PROVE  CountsEach(mine, HistoryOf(mine, asked, date))
  <1> DEFINE h == HistoryOf(mine, asked, date)
             range == ResolveHistoryRange(asked, date)
             bucket == ResolveBucket(range)
  <1>1. /\ h.rows = Rows(mine, range, bucket) /\ h.from = range.from /\ h.to = range.to
    BY DEF HistoryOf
  <1>2. InRange(mine, h) = InRange(mine, range)
    BY <1>1 DEF InRange
  <1> HIDE DEF h, range, bucket
  <1>3. SUFFICES ASSUME NEW m \in InRange(mine, range)
                 PROVE  Cardinality({r \in h.rows : m \in r.measurements}) = 1
    BY <1>2 DEF CountsEach, h
  <1> DEFINE its == [start |-> TimeBucket(bucket, m.at),
                     measurements |-> {o \in InRange(mine, range) :
                                         TimeBucket(bucket, o.at) = TimeBucket(bucket, m.at)}]
  <1>4. its \in h.rows /\ m \in its.measurements
    BY <1>1, <1>3 DEF Rows
  <1>5. ASSUME NEW r \in h.rows, m \in r.measurements PROVE r = its
    <2>1. r.measurements = {o \in InRange(mine, range) : TimeBucket(bucket, o.at) = r.start}
      BY <1>1, RowIs
    <2>2. r.start = TimeBucket(bucket, m.at)
      BY <1>5, <2>1
    <2>3. r = [start |-> r.start, measurements |-> r.measurements]
      BY <1>1, RowIs
    <2> QED BY <2>1, <2>2, <2>3
  <1> HIDE DEF its
  <1>6. {r \in h.rows : m \in r.measurements} = {its}
    BY <1>4, <1>5
  <1> QED BY <1>6, FS_Singleton

(* The rows of a history start at whole buckets that dates of the range    *)
(* fall in, each its own. *)
LEMMA StartIs ==
  ASSUME NEW range, NEW mine, \A m \in mine : m.at \in Int,
         range.from \in Int, range.to \in Int,
         NEW bucket \in Nat \ {0}, NEW row \in Rows(mine, range, bucket)
  PROVE  \E q \in Int :
           /\ row.start = bucket * q
           /\ range.from \div bucket <= q /\ q <= range.to \div bucket
           /\ bucket * q <= range.to
           /\ range.from <= range.to
  <1>1. PICK m \in InRange(mine, range) : row.start = TimeBucket(bucket, m.at)
    BY RowIs
  <1>2. m.at \in Int /\ range.from <= m.at /\ m.at <= range.to
    BY DEF InRange
  <1> DEFINE q == m.at \div bucket
  <1>3. q \in Int /\ bucket * q <= m.at
    BY <1>2, DivIs
  <1>4. row.start = q * bucket
    BY <1>1 DEF TimeBucket
  <1>5. range.from \div bucket <= q /\ q <= range.to \div bucket
    BY <1>2, DivMonotone
  <1> HIDE DEF q
  <1>6. row.start = bucket * q
    BY <1>3, <1>4
  <1>7. bucket * q \in Int
    BY <1>3
  <1>8. bucket * q <= range.to /\ range.from <= range.to
    BY <1>2, <1>3, <1>7
  <1> QED BY <1>3, <1>5, <1>6, <1>8

LEMMA FewRows ==
  ASSUME NEW range, range.from \in Int, range.to \in Int,
         NEW mine, \A m \in mine : m.at \in Int,
         NEW bucket \in Nat \ {0}, Fits(bucket, range)
  PROVE  IsFiniteSet(Rows(mine, range, bucket)) /\ Cardinality(Rows(mine, range, bucket)) <= MaxBuckets
  <1> DEFINE rows == Rows(mine, range, bucket)
             first == range.from \div bucket
             last == range.to \div bucket
             f == [row \in rows |-> row.start \div bucket]
  <1>1. MaxBuckets \in Nat /\ MaxBuckets > 1
    BY SizesAssumption
  <1>2. CASE rows = {}
    BY <1>1, <1>2, FS_EmptySet
  <1>3. CASE rows # {}
    <2>1. range.from <= range.to
      BY <1>3, StartIs
    <2>2. first \in Int /\ last \in Int /\ first <= last
      BY <2>1, DivIs, DivMonotone
    <2>3. last <= first + (MaxBuckets - 1)
      <3>1. Span(range) = range.to - range.from
        BY <2>1 DEF Span, Later
      <3>2. bucket * (MaxBuckets - 1) \in Int
        BY <1>1
      <3>3. range.to <= range.from + bucket * (MaxBuckets - 1)
        BY <3>1, <3>2 DEF Fits
      <3>4. MaxBuckets - 1 \in Int /\ range.from + bucket * (MaxBuckets - 1) \in Int
        BY <1>1, <3>2
      <3>5. last <= (range.from + bucket * (MaxBuckets - 1)) \div bucket
        BY <3>3, <3>4, DivMonotone
      <3>6. (range.from + bucket * (MaxBuckets - 1)) \div bucket = first + (MaxBuckets - 1)
        BY <3>4, DivPlus
      <3> QED BY <3>5, <3>6
    <2>4. ASSUME NEW row \in rows
          PROVE  f[row] \in first..last /\ row.start = bucket * f[row]
      <3>1. PICK q \in Int : row.start = bucket * q /\ first <= q /\ q <= last
        BY <2>4, StartIs
      <3>2. row.start \in Int
        BY <3>1
      <3>3. row.start \div bucket = q
        <4>1. bucket * q <= row.start /\ row.start < bucket * q + bucket
          BY <3>1, <3>2
        <4> QED BY <3>2, <4>1, DivOnly
      <3> QED BY <2>2, <3>1, <3>3
    <2>5. ASSUME NEW r1 \in rows, NEW r2 \in rows, f[r1] = f[r2] PROVE r1 = r2
      <3>1. r1.start = r2.start
        BY <2>4, <2>5
      <3>2. /\ r1 = [start |-> r1.start, measurements |-> r1.measurements]
            /\ r1.measurements =
                 {m \in InRange(mine, range) : TimeBucket(bucket, m.at) = r1.start}
        BY RowIs
      <3>3. /\ r2 = [start |-> r2.start, measurements |-> r2.measurements]
            /\ r2.measurements =
                 {m \in InRange(mine, range) : TimeBucket(bucket, m.at) = r2.start}
        BY RowIs
      <3>4. r1.measurements = r2.measurements
        BY <3>1, <3>2, <3>3
      <3> QED BY <3>1, <3>2, <3>3, <3>4
    <2>6. f \in Injection(rows, first..last)
      <3> HIDE DEF rows, first, last
      <3>1. f \in [rows -> first..last]
        BY <2>4
      <3> HIDE DEF f
      <3> QED BY <2>5, <3>1 DEF Injection, IsInjective
    <2>7. /\ IsFiniteSet(first..last)
          /\ Cardinality(first..last) = last - first + 1
      <3> HIDE DEF first, last
      <3> QED BY <2>2, FS_Interval
    <2>8. /\ IsFiniteSet(rows) /\ Cardinality(rows) <= Cardinality(first..last)
      <3> HIDE DEF rows, first, last, f
      <3> QED BY <2>6, <2>7, FS_Injection
    <2>9. Cardinality(rows) \in Nat
      BY <2>8, FS_CardinalityType
    <2>10. Cardinality(rows) <= MaxBuckets
      <3> HIDE DEF rows, first, last
      <3> QED BY <1>1, <2>2, <2>3, <2>7, <2>8, <2>9
    <2> QED BY <2>8, <2>10
  <1> QED BY <1>2, <1>3

(* The bar of a row that starts in the range lies in a slot of its own,    *)
(* before the last one unless it starts at the end of the range. *)
LEMMA XIs ==
  ASSUME NEW h, h.from \in Int, h.to \in Int, h.bucket \in Nat \ {0},
         NEW q \in Int, h.from <= h.bucket * q, h.bucket * q < h.to
  PROVE  /\ (h.bucket * q - h.from) \div h.bucket \in Int
         /\ XForTime(h, h.bucket * q) = ((h.bucket * q - h.from) \div h.bucket) * PIXELS_PER_BUCKET
  <1> DEFINE b == h.bucket
             at == b * q
             slot == (at - h.from) \div b
             end == (h.to - h.from + b - 1) \div b
  <1>1. at \in Int /\ b \in Nat \ {0}
    OBVIOUS
  <1>2. slot \in Int /\ slot >= 0
    <2> DEFINE offset == at - h.from
    <2>1. offset \in Int /\ 0 <= offset /\ 0 \in Int
      BY <1>1
    <2>2. offset \div b \in Int /\ 0 \div b <= offset \div b
      <3> HIDE DEF at, b, offset
      <3>1. offset \div b \in Int
        BY <1>1, <2>1, DivIs
      <3>2. 0 \div b <= offset \div b
        BY <1>1, <2>1, DivMonotone
      <3> QED BY <3>1, <3>2
    <2>3. 0 \div b = 0
      <3>1. b * 0 <= 0 /\ 0 < b * 0 + b
        BY <1>1
      <3> QED BY <1>1, <3>1, DivOnly
    <2> QED BY <2>2, <2>3
  <1>3. end \in Int /\ slot + 1 <= end
    <2>1. at - h.from + b * 1 \in Int /\ h.to - h.from + b - 1 \in Int
      BY <1>1
    <2>2. at - h.from + b * 1 <= h.to - h.from + b - 1
      BY <1>1
    <2>3. (at - h.from + b * 1) \div b <= end
      BY <1>1, <2>1, <2>2, DivMonotone
    <2>4. (at - h.from + b * 1) \div b = slot + 1
      <3>1. at - h.from \in Int
        BY <1>1
      <3> HIDE DEF at
      <3> QED BY <1>1, <3>1, DivPlus
    <2>5. end \in Int
      BY <1>1, <2>1, DivIs
    <2> QED BY <2>3, <2>4, <2>5
  <1> HIDE DEF b, at, slot, end
  <1>4. SlotsOf(h) = Later(end, 1)
    BY DEF SlotsOf, end, b
  <1>5. SlotsOf(h) \in Int /\ slot + 1 <= SlotsOf(h)
    BY <1>2, <1>3, <1>4 DEF Later
  <1>6. slot * PIXELS_PER_BUCKET < ChartWidth(h) - BAR_WIDTH
    BY <1>2, <1>5 DEF ChartWidth, PIXELS_PER_BUCKET, BAR_WIDTH
  <1>7. Later(slot * PIXELS_PER_BUCKET, 0) = slot * PIXELS_PER_BUCKET
    BY <1>2 DEF Later, PIXELS_PER_BUCKET
  <1>8. XForTime(h, at) = slot * PIXELS_PER_BUCKET
    BY <1>6, <1>7 DEF XForTime, slot, b
  <1> QED BY <1>2, <1>8 DEF slot, at, b

LEMMA BarsAreApart ==
  ASSUME NEW h, h.from \in Int, h.to \in Int, h.bucket \in Nat \ {0},
         \A row \in h.rows : \E q \in Int : row.start = h.bucket * q /\ h.bucket * q <= h.to
  PROVE  BarsApart(h)
  <1>1. SUFFICES ASSUME NEW r1 \in h.rows, NEW r2 \in h.rows, r1.start < r2.start,
                        ~(r1.start < h.from), r2.start # h.to
                 PROVE  XForTime(h, r2.start) - XForTime(h, r1.start) >= BAR_WIDTH
    BY DEF BarsApart
  <1> DEFINE b == h.bucket
  <1>2. PICK q1 \in Int : r1.start = b * q1
    BY <1>1
  <1>3. PICK q2 \in Int : r2.start = b * q2 /\ b * q2 <= h.to
    BY <1>1
  <1> DEFINE slot1 == (b * q1 - h.from) \div b
             slot2 == (b * q2 - h.from) \div b
  <1>4. b \in Nat \ {0} /\ b * q1 \in Int /\ b * q2 \in Int
    OBVIOUS
  <1>5. h.from <= b * q1 /\ b * q1 < b * q2 /\ b * q2 < h.to
    BY <1>1, <1>2, <1>3, <1>4
  <1>6. h.from <= b * q2 /\ b * q1 < h.to
    BY <1>4, <1>5
  <1>7. q1 + 1 <= q2
    <2>1. SUFFICES ASSUME q2 <= q1 PROVE FALSE
      OBVIOUS
    <2>2. b * q2 <= b * q1
      BY <1>4, <2>1, TimesMonotone
    <2> QED BY <1>4, <1>5, <2>2
  <1>8. /\ slot1 \in Int /\ XForTime(h, b * q1) = slot1 * PIXELS_PER_BUCKET
        /\ slot2 \in Int /\ XForTime(h, b * q2) = slot2 * PIXELS_PER_BUCKET
    BY <1>5, <1>6, XIs
  <1>9. slot2 = slot1 + (q2 - q1)
    <2>1. b * q1 - h.from \in Int /\ q2 - q1 \in Int
      BY <1>4
    <2>2. b * q2 - h.from = (b * q1 - h.from) + b * (q2 - q1)
      <3>1. b * (q2 - q1) = b * q2 - b * q1
        BY <1>4
      <3>2. b * (q2 - q1) \in Int
        BY <1>4, <3>1
      <3> QED BY <1>4, <3>1, <3>2
    <2>3. ((b * q1 - h.from) + b * (q2 - q1)) \div b = slot1 + (q2 - q1)
      BY <1>4, <2>1, DivPlus
    <2> QED BY <2>2, <2>3
  <1> HIDE DEF slot1, slot2, b
  <1>10. slot2 * PIXELS_PER_BUCKET - slot1 * PIXELS_PER_BUCKET >= BAR_WIDTH
    BY <1>7, <1>8, <1>9 DEF PIXELS_PER_BUCKET, BAR_WIDTH
  <1> QED BY <1>2, <1>3, <1>8, <1>10

(* Whatever is asked for and stored, a history is faithful. *)
LEMMA HistoryIs ==
  ASSUME NEW mine, \A m \in mine : m.at \in Int, NEW asked \in Asked, NEW date \in Int
  PROVE  LET h == HistoryOf(mine, asked, date) IN InFewRows(h) /\ CountsEach(mine, h) /\ BarsApart(h)
  <1> DEFINE h == HistoryOf(mine, asked, date)
             range == ResolveHistoryRange(asked, date)
             bucket == ResolveBucket(range)
  <1>1. /\ h.rows = Rows(mine, range, bucket) /\ h.from = range.from /\ h.to = range.to
        /\ h.bucket = bucket
    BY DEF HistoryOf
  <1>2. range.from \in Int /\ range.to \in Int /\ range.to - range.from <= MaxSpan
    BY RangeIs
  <1>3. bucket \in Nat \ {0} /\ Fits(bucket, range)
    BY <1>2, BucketFits
  <1>4. CountsEach(mine, h)
    BY EachIsCounted
  <1> HIDE DEF h, range, bucket
  <1>5. InFewRows(h)
    BY <1>1, <1>2, <1>3, FewRows DEF InFewRows
  <1>6. \A row \in h.rows : \E q \in Int : row.start = h.bucket * q /\ h.bucket * q <= h.to
    <2>1. SUFFICES ASSUME NEW row \in Rows(mine, range, bucket)
                   PROVE  \E q \in Int : row.start = bucket * q /\ bucket * q <= range.to
      BY <1>1
    <2>2. PICK q \in Int : row.start = bucket * q /\ bucket * q <= range.to
      BY <1>2, <1>3, StartIs
    <2> QED BY <2>2
  <1>7. BarsApart(h)
    BY <1>1, <1>2, <1>3, <1>6, BarsAreApart
  <1> QED BY <1>4, <1>5, <1>7 DEF h

-----------------------------------------------------------------------------
(* Scans and the associations they ask for *)

LEMMA OutcomeIs ==
  ASSUME NEW o \in Outcome
  PROVE  /\ o.kind = "none" <=> o = None
         /\ o.kind = "success" <=> o \in Success
         /\ o.kind \in {"none", "refused", "unknown", "success"}
  <1>1. CASE o = None
    BY <1>1 DEF None, Success
  <1>2. CASE o = [kind |-> "refused"]
    BY <1>2 DEF None, Success
  <1>3. CASE o = [kind |-> "unknown"]
    BY <1>3 DEF None, Success
  <1>4. CASE o \in Success
    <2>1. o.kind = "success"
      BY <1>4 DEF Success
    <2>2. o # None
      BY <2>1 DEF None
    <2> QED BY <1>4, <2>1, <2>2
  <1> QED BY <1>1, <1>2, <1>3, <1>4 DEF Outcome

LEMMA SuccessIs ==
  ASSUME NEW o \in Success
  PROVE  o.device \in Devices /\ o.overtaken \in BOOLEAN /\ o.kind = "success"
  BY DEF Success

LEMMA ScanIs ==
  ASSUME NEW s \in OpenScan
  PROVE  s # Closed /\ s.room \in RoomIds /\ s.locked \in BOOLEAN /\ s.outcome \in Outcome
  <1>1. s.room \in RoomIds /\ s.locked \in BOOLEAN /\ s.outcome \in Outcome
    BY DEF OpenScan
  <1>2. DOMAIN s = {"room", "locked", "outcome"}
    BY DEF OpenScan
  <1>3. DOMAIN Closed = {"room"}
    BY DEF Closed
  <1>4. s # Closed
    BY <1>2, <1>3
  <1> QED BY <1>1, <1>4

LEMMA CallIs ==
  ASSUME NEW c \in Call
  PROVE  /\ c # Free /\ c.user \in Users /\ c.room \in RoomIds /\ c.code \in Codes
         /\ c.waited \in BOOLEAN /\ c.answer \in {"none", "refused", "done"} /\ c.overtaken \in BOOLEAN
  <1>1. /\ c.user \in Users /\ c.room \in RoomIds /\ c.code \in Codes
        /\ c.waited \in BOOLEAN /\ c.answer \in {"none", "refused", "done"} /\ c.overtaken \in BOOLEAN
    BY DEF Call
  <1>2. "room" \in DOMAIN c
    BY DEF Call
  <1>3. DOMAIN Free = {"user"}
    BY DEF Free
  <1>4. c # Free
    BY <1>2, <1>3
  <1> QED BY <1>1, <1>4

LEMMA ScanTypes ==
  ASSUME ScanTyped
  PROVE  /\ \A u \in Users : IsOpen(u) <=> scan[u] \in OpenScan
         /\ \A i \in Calls : call[i] # Free <=> call[i] \in Call
  BY ScanIs, CallIs DEF ScanTyped, IsOpen

LEMMA OpenedIs ==
  ASSUME NEW r \in RoomIds
  PROVE  Opened(r) \in OpenScan /\ Opened(r).outcome = None /\ Opened(r).room = r
  BY DEF Opened, OpenScan, Outcome

LEMMA GivenUpIs ==
  ASSUME NEW c \in Call
  PROVE  \/ GivenUp(c) = Free
         \/ GivenUp(c) \in Call /\ ~GivenUp(c).waited /\ GivenUp(c).answer = "none"
  <1>1. CASE c.answer = "none" /\ c.code \in Devices
    <2>1. GivenUp(c) = [c EXCEPT !.waited = FALSE]
      BY <1>1 DEF GivenUp
    <2>2. [c EXCEPT !.waited = FALSE] \in Call
      BY DEF Call
    <2>3. [c EXCEPT !.waited = FALSE].waited = FALSE /\ [c EXCEPT !.waited = FALSE].answer = c.answer
      BY DEF Call
    <2> QED BY <1>1, <2>1, <2>2, <2>3
  <1>2. CASE ~(c.answer = "none" /\ c.code \in Devices)
    BY <1>2 DEF GivenUp
  <1> QED BY <1>1, <1>2

LEMMA OvertakenScan ==
  ASSUME NEW s \in OpenScan, s.outcome \in Success,
         NEW t, t = [s EXCEPT !.outcome.overtaken = TRUE]
  PROVE  /\ t \in OpenScan /\ t.room = s.room /\ t.locked = s.locked
         /\ t.outcome \in Success /\ t.outcome.overtaken = TRUE
  <1> DEFINE o == [s.outcome EXCEPT !.overtaken = TRUE]
  <1>1. o \in Success /\ o.overtaken = TRUE
    BY DEF Success
  <1>2. t = [s EXCEPT !.outcome = o]
    OBVIOUS
  <1> HIDE DEF o
  <1>3. o \in Outcome
    BY <1>1 DEF Outcome
  <1>4. t \in OpenScan
    BY <1>2, <1>3 DEF OpenScan
  <1>5. t.room = s.room /\ t.locked = s.locked /\ t.outcome = o
    BY <1>2 DEF OpenScan
  <1> QED BY <1>1, <1>4, <1>5

(* A screen that is not locked, or has an outcome, waits for nothing. *)
LEMMA NobodyWaits ==
  ASSUME ScanInv, NEW u \in Users,
         scan[u] = Closed \/ ~scan[u].locked \/ scan[u].outcome # None,
         NEW i \in Calls, call[i] # Free, call[i].waited
  PROVE  call[i].user # u
  BY DEF ScanInv, Waiting

(* A step that leaves roomOf and the calls alone, and no screen that       *)
(* something waits for, claims what it claimed. *)
LEMMA ScanChange ==
  ASSUME ScanInv, UNCHANGED <<roomOf, call>>, NEW u \in Users, NEW s \in OpenScan \cup {Closed},
         scan' = [scan EXCEPT ![u] = s],
         \A i \in Calls : call[i] # Free /\ call[i].waited => call[i].user # u,
         s # Closed => s.outcome = None
  PROVE  ScanInv'
  <1>1. ScanTyped'
    BY DEF ScanInv, ScanTyped
  <1>2. \A v \in Users : v # u => scan'[v] = scan[v]
    BY DEF ScanInv, ScanTyped
  <1>3. scan'[u] = s
    BY DEF ScanInv, ScanTyped
  <1>4. \A i \in Calls : call'[i] = call[i]
    OBVIOUS
  <1>5. \A i \in Calls : call[i] # Free => call[i].user \in Users
    BY ScanTypes, CallIs DEF ScanInv
  <1>6. Waiting'
    BY <1>2, <1>4, <1>5 DEF ScanInv, Waiting
  <1>7. OneCall' /\ Placed'
    BY DEF ScanInv, OneCall, Placed
  <1>8. Told'
    <2>1. SUFFICES ASSUME NEW v \in Users, scan'[v] # Closed, scan'[v].outcome.kind = "success",
                          ~scan'[v].outcome.overtaken
                   PROVE  roomOf'[scan'[v].outcome.device] = scan'[v].room
      BY DEF Told, IsOpen
    <2>2. v # u
      BY <1>3, <2>1 DEF None
    <2>3. scan'[v] = scan[v] /\ roomOf' = roomOf
      BY <1>2, <2>2
    <2> QED BY <2>1, <2>3 DEF ScanInv, Told, IsOpen
  <1> QED BY <1>1, <1>6, <1>7, <1>8 DEF ScanInv

LEMMA StartScanKeeps ==
  ASSUME ScanInv, NEW u \in Users, NEW r \in RoomIds, StartScan(u, r)
  PROVE  ScanInv'
  <1>1. scan' = [scan EXCEPT ![u] = Opened(r)] /\ UNCHANGED <<roomOf, call>> /\ scan[u] = Closed
    BY DEF StartScan, IsOpen
  <1>2. Opened(r) \in OpenScan /\ Opened(r).outcome = None
    BY OpenedIs
  <1>3. \A i \in Calls : call[i] # Free /\ call[i].waited => call[i].user # u
    BY <1>1, NobodyWaits
  <1> QED BY <1>1, <1>2, <1>3, ScanChange

LEMMA RetryKeeps ==
  ASSUME ScanInv, NEW u \in Users, Retry(u)
  PROVE  ScanInv'
  <1> DEFINE s == Opened(scan[u].room)
  <1>1. scan' = [scan EXCEPT ![u] = s] /\ UNCHANGED <<roomOf, call>>
    BY DEF Retry
  <1>2. scan[u] \in OpenScan /\ scan[u].outcome.kind \in {"refused", "unknown"}
    BY ScanTypes DEF ScanInv, Retry
  <1>3. scan[u].outcome # None
    BY <1>2 DEF None
  <1>4. s \in OpenScan /\ s.outcome = None
    BY <1>2, ScanIs, OpenedIs
  <1>5. \A i \in Calls : call[i] # Free /\ call[i].waited => call[i].user # u
    BY <1>3, NobodyWaits
  <1> HIDE DEF s
  <1> QED BY <1>1, <1>4, <1>5, ScanChange

LEMMA SubmitKeeps ==
  ASSUME ScanInv, NEW u \in Users, NEW code \in Codes, Submit(u, code)
  PROVE  ScanInv'
  <1> DEFINE n == NextCall
             s == [scan[u] EXCEPT !.locked = TRUE]
             c == [user |-> u, room |-> scan[u].room, code |-> code, waited |-> TRUE,
                   answer |-> "none", overtaken |-> FALSE]
  <1>1. /\ scan' = [scan EXCEPT ![u] = s] /\ call' = [call EXCEPT ![n] = c]
        /\ UNCHANGED roomOf
    BY DEF Submit
  <1>2. n \in Calls /\ call[n] = Free
    BY DEF Submit, NextCall
  <1>3. scan[u] \in OpenScan /\ ~scan[u].locked /\ scan[u].outcome = None
    BY ScanTypes DEF ScanInv, Submit
  <1>4. s \in OpenScan /\ s.locked = TRUE /\ s.outcome = None /\ s.room = scan[u].room
    BY <1>3 DEF OpenScan
  <1>5. c \in Call /\ c.user = u /\ c.room = scan[u].room /\ c.waited = TRUE /\ c.answer = "none"
    BY <1>3, ScanIs DEF Call
  <1>6. \A i \in Calls : call[i] # Free /\ call[i].waited => call[i].user # u
    BY <1>3, NobodyWaits
  <1> HIDE DEF n, s, c
  <1>7. ScanTyped'
    BY <1>1, <1>4, <1>5 DEF ScanInv, ScanTyped
  <1>8. scan'[u] = s /\ \A v \in Users : v # u => scan'[v] = scan[v]
    BY <1>1 DEF ScanInv, ScanTyped
  <1>9. call'[n] = c /\ \A i \in Calls : i # n => call'[i] = call[i]
    BY <1>1, <1>2 DEF ScanInv, ScanTyped
  <1>10. \A i \in Calls : call[i] # Free => call[i].user \in Users
    BY ScanTypes, CallIs DEF ScanInv
  <1>11. Waiting'
    <2>1. SUFFICES ASSUME NEW i \in Calls, call'[i] # Free, call'[i].waited
                   PROVE  LET t == scan'[call'[i].user] IN
                          t # Closed /\ t.locked /\ t.outcome = None /\ t.room = call'[i].room
      BY DEF Waiting
    <2>2. CASE i = n
      BY <1>4, <1>5, <1>8, <1>9, <2>2, ScanIs
    <2>3. CASE i # n
      BY <1>6, <1>8, <1>9, <1>10, <2>1, <2>3 DEF ScanInv, Waiting
    <2> QED BY <2>2, <2>3
  <1>12. OneCall'
    <2>1. SUFFICES ASSUME NEW i \in Calls, NEW j \in Calls, call'[i] # Free, call'[i].waited,
                          call'[j] # Free, call'[j].waited, call'[i].user = call'[j].user
                   PROVE  i = j
      BY DEF OneCall
    <2>2. CASE i = n \/ j = n
      BY <1>5, <1>6, <1>9, <2>1, <2>2
    <2>3. CASE i # n /\ j # n
      BY <1>9, <2>1, <2>3 DEF ScanInv, OneCall
    <2> QED BY <2>2, <2>3
  <1>13. Placed'
    BY <1>1, <1>5, <1>9 DEF ScanInv, Placed
  <1>14. Told'
    <2>1. SUFFICES ASSUME NEW v \in Users, scan'[v] # Closed, scan'[v].outcome.kind = "success",
                          ~scan'[v].outcome.overtaken
                   PROVE  roomOf'[scan'[v].outcome.device] = scan'[v].room
      BY DEF Told, IsOpen
    <2>2. v # u
      BY <1>4, <1>8, <2>1 DEF None
    <2> QED BY <1>1, <1>8, <2>1, <2>2 DEF ScanInv, Told, IsOpen
  <1> QED BY <1>7, <1>11, <1>12, <1>13, <1>14 DEF ScanInv

(* A step that leaves roomOf alone, makes some calls of u free or given up *)
(* and leaves none of them waiting, and leaves nothing wrong on the screen *)
(* of u. *)
LEMMA ScanEnds ==
  ASSUME ScanInv, UNCHANGED roomOf, NEW u \in Users, NEW s \in OpenScan \cup {Closed},
         scan' = [scan EXCEPT ![u] = s],
         call' \in [Calls -> Call \cup {Free}],
         \A i \in Calls : \/ call'[i] = call[i] /\ ~(call[i] # Free /\ call[i].waited /\ call[i].user = u)
                          \/ call'[i] = Free
                          \/ call'[i] \in Call /\ ~call'[i].waited /\ call'[i].answer = "none",
         s # Closed /\ s.outcome.kind = "success" /\ ~s.outcome.overtaken =>
           roomOf[s.outcome.device] = s.room
  PROVE  ScanInv'
  <1>1. ScanTyped'
    BY DEF ScanInv, ScanTyped
  <1>2. scan'[u] = s /\ \A v \in Users : v # u => scan'[v] = scan[v]
    BY DEF ScanInv, ScanTyped
  <1>3. \A i \in Calls : call[i] # Free => call[i].user \in Users
    BY ScanTypes, CallIs DEF ScanInv
  <1>4. ASSUME NEW i \in Calls, call'[i] # Free, call'[i].waited
        PROVE  call'[i] = call[i] /\ call[i].user # u
    BY <1>4
  <1>5. Waiting'
    <2>1. SUFFICES ASSUME NEW i \in Calls, call'[i] # Free, call'[i].waited
                   PROVE  LET t == scan'[call'[i].user] IN
                          t # Closed /\ t.locked /\ t.outcome = None /\ t.room = call'[i].room
      BY DEF Waiting
    <2>2. call'[i] = call[i] /\ call[i].user # u /\ call[i].user \in Users
      BY <1>3, <1>4, <2>1
    <2> QED BY <1>2, <2>1, <2>2 DEF ScanInv, Waiting
  <1>6. OneCall'
    BY <1>4 DEF ScanInv, OneCall
  <1>7. Placed'
    <2>1. SUFFICES ASSUME NEW i \in Calls, call'[i] # Free, call'[i].answer = "done"
                   PROVE  /\ call'[i].code \in Devices
                          /\ ~call'[i].overtaken => roomOf'[call'[i].code] = call'[i].room
      BY DEF Placed
    <2>2. call'[i] = call[i]
      BY <2>1
    <2> QED BY <2>1, <2>2 DEF ScanInv, Placed
  <1>8. Told'
    <2>1. SUFFICES ASSUME NEW v \in Users, scan'[v] # Closed, scan'[v].outcome.kind = "success",
                          ~scan'[v].outcome.overtaken
                   PROVE  roomOf'[scan'[v].outcome.device] = scan'[v].room
      BY DEF Told, IsOpen
    <2>2. CASE v = u
      BY <1>2, <2>1, <2>2
    <2>3. CASE v # u
      BY <1>2, <2>1, <2>3 DEF ScanInv, Told, IsOpen
    <2> QED BY <2>2, <2>3
  <1> QED BY <1>1, <1>5, <1>6, <1>7, <1>8 DEF ScanInv

LEMMA StopScanKeeps ==
  ASSUME ScanInv, NEW u \in Users, StopScan(u)
  PROVE  ScanInv'
  <1>1. scan' = [scan EXCEPT ![u] = Closed] /\ UNCHANGED roomOf
    BY DEF StopScan
  <1>2. ASSUME NEW i \in Calls
        PROVE  /\ call'[i] \in Call \cup {Free}
               /\ \/ call'[i] = call[i] /\ ~(call[i] # Free /\ call[i].waited /\ call[i].user = u)
                  \/ call'[i] = Free
                  \/ call'[i] \in Call /\ ~call'[i].waited /\ call'[i].answer = "none"
    <2>1. call'[i] = IF i \in CallsOf(u) THEN GivenUp(call[i]) ELSE call[i]
      BY DEF StopScan
    <2>2. CASE i \in CallsOf(u)
      <3>1. call[i] \in Call
        BY <2>2, ScanTypes DEF CallsOf, ScanInv
      <3>2. call'[i] = GivenUp(call[i])
        BY <2>1, <2>2
      <3> QED BY <3>1, <3>2, GivenUpIs
    <2>3. CASE i \notin CallsOf(u)
      BY <2>1, <2>3 DEF CallsOf, ScanInv, ScanTyped
    <2> QED BY <2>2, <2>3
  <1>3. call' \in [Calls -> Call \cup {Free}]
    BY <1>2 DEF StopScan
  <1> QED BY <1>1, <1>2, <1>3, ScanEnds

(* The screen that a call ends for. *)
LEMMA WaitingScreen ==
  ASSUME ScanInv, NEW i \in Calls, call[i] # Free, call[i].waited
  PROVE  /\ call[i] \in Call /\ call[i].user \in Users
         /\ scan[call[i].user] \in OpenScan /\ scan[call[i].user].room = call[i].room
         /\ \A j \in Calls : call[j] # Free /\ call[j].waited /\ call[j].user = call[i].user => j = i
  <1>1. call[i] \in Call /\ call[i].user \in Users
    BY ScanTypes, CallIs DEF ScanInv
  <1>2. scan[call[i].user] \in OpenScan /\ scan[call[i].user].room = call[i].room
    BY <1>1, ScanTypes DEF ScanInv, Waiting, IsOpen
  <1>3. \A j \in Calls : call[j] # Free /\ call[j].waited /\ call[j].user = call[i].user => j = i
    BY DEF ScanInv, OneCall
  <1> QED BY <1>1, <1>2, <1>3

LEMMA ShowingIs ==
  ASSUME NEW t \in OpenScan, NEW o \in Outcome
  PROVE  LET s == [t EXCEPT !.outcome = o] IN s \in OpenScan /\ s.outcome = o /\ s.room = t.room
  BY DEF OpenScan

LEMMA UnansweredKeeps ==
  ASSUME ScanInv, NEW i \in Calls, Unanswered(i)
  PROVE  ScanInv'
  <1> DEFINE o == [kind |-> "unknown"]
             u == call[i].user
             s == [scan[u] EXCEPT !.outcome = o]
             c == GivenUp(call[i])
  <1>1. /\ call[i] # Free /\ call[i].waited /\ UNCHANGED roomOf
        /\ scan' = [scan EXCEPT ![u] = s] /\ call' = [call EXCEPT ![i] = c]
    BY DEF Unanswered, Showing
  <1>2. o \in Outcome /\ o.kind # "success"
    BY DEF Outcome
  <1>3. /\ call[i] \in Call /\ u \in Users /\ s \in OpenScan /\ s.outcome = o
        /\ \A j \in Calls : call[j] # Free /\ call[j].waited /\ call[j].user = u => j = i
    <2>1. /\ call[i] \in Call /\ u \in Users /\ scan[u] \in OpenScan
          /\ \A j \in Calls : call[j] # Free /\ call[j].waited /\ call[j].user = u => j = i
      BY <1>1, WaitingScreen
    <2> HIDE DEF o, u
    <2>2. s \in OpenScan /\ s.outcome = o
      BY <1>2, <2>1, ShowingIs
    <2> QED BY <2>1, <2>2
  <1>4. c = Free \/ (c \in Call /\ ~c.waited /\ c.answer = "none")
    BY <1>3, GivenUpIs
  <1> HIDE DEF s, o, u, c
  <1>5. call' \in [Calls -> Call \cup {Free}]
    BY <1>1, <1>4 DEF ScanInv, ScanTyped
  <1>6. call'[i] = c /\ \A j \in Calls : j # i => call'[j] = call[j]
    BY <1>1 DEF ScanInv, ScanTyped
  <1>7. \A j \in Calls : \/ call'[j] = call[j] /\ ~(call[j] # Free /\ call[j].waited /\ call[j].user = u)
                         \/ call'[j] = Free
                         \/ call'[j] \in Call /\ ~call'[j].waited /\ call'[j].answer = "none"
    BY <1>3, <1>4, <1>6
  <1> QED BY <1>1, <1>2, <1>3, <1>5, <1>7, ScanEnds

LEMMA AnsweredKeeps ==
  ASSUME ScanInv, NEW i \in Calls, Answered(i)
  PROVE  ScanInv'
  <1> DEFINE o == IF call[i].answer = "refused" THEN [kind |-> "refused"]
                  ELSE [kind |-> "success", device |-> call[i].code, overtaken |-> call[i].overtaken]
             u == call[i].user
             s == [scan[u] EXCEPT !.outcome = o]
  <1>1. /\ call[i] # Free /\ call[i].waited /\ call[i].answer # "none" /\ UNCHANGED roomOf
        /\ scan' = [scan EXCEPT ![u] = s] /\ call' = [call EXCEPT ![i] = Free]
    BY DEF Answered, Showing
  <1>2. call[i] \in Call
    BY <1>1, ScanTypes DEF ScanInv
  <1>3. /\ o \in Outcome
        /\ o.kind = "success" /\ ~o.overtaken => roomOf[o.device] = call[i].room
    <2>1. CASE call[i].answer = "refused"
      BY <2>1 DEF Outcome
    <2>2. CASE call[i].answer # "refused"
      <3>1. call[i].answer = "done"
        BY <1>1, <1>2, <2>2, CallIs
      <3>2. call[i].code \in Devices /\ (~call[i].overtaken => roomOf[call[i].code] = call[i].room)
        BY <1>1, <3>1 DEF ScanInv, Placed
      <3>3. o = [kind |-> "success", device |-> call[i].code, overtaken |-> call[i].overtaken]
        BY <2>2
      <3> HIDE DEF o
      <3>4. o.device = call[i].code /\ o.overtaken = call[i].overtaken
        BY <3>3
      <3>5. o \in Success
        BY <1>2, <3>2, <3>3, CallIs DEF Success
      <3> QED BY <3>2, <3>4, <3>5 DEF Outcome
    <2> QED BY <2>1, <2>2
  <1> HIDE DEF o
  <1>4. /\ u \in Users /\ s \in OpenScan /\ s.outcome = o /\ s.room = call[i].room
        /\ \A j \in Calls : call[j] # Free /\ call[j].waited /\ call[j].user = u => j = i
    <2>1. /\ u \in Users /\ scan[u] \in OpenScan /\ scan[u].room = call[i].room
          /\ \A j \in Calls : call[j] # Free /\ call[j].waited /\ call[j].user = u => j = i
      BY <1>1, WaitingScreen
    <2>2. o \in Outcome
      BY <1>3
    <2> HIDE DEF u
    <2>3. s \in OpenScan /\ s.outcome = o /\ s.room = scan[u].room
      BY <2>1, <2>2, ShowingIs
    <2> QED BY <2>1, <2>3
  <1> HIDE DEF s, u
  <1>5. call' \in [Calls -> Call \cup {Free}]
    BY <1>1 DEF ScanInv, ScanTyped
  <1>6. call'[i] = Free /\ \A j \in Calls : j # i => call'[j] = call[j]
    BY <1>1 DEF ScanInv, ScanTyped
  <1>7. \A j \in Calls : \/ call'[j] = call[j] /\ ~(call[j] # Free /\ call[j].waited /\ call[j].user = u)
                         \/ call'[j] = Free
                         \/ call'[j] \in Call /\ ~call'[j].waited /\ call'[j].answer = "none"
    BY <1>4, <1>6
  <1>8. s.outcome.kind = "success" /\ ~s.outcome.overtaken => roomOf[s.outcome.device] = s.room
    BY <1>3, <1>4
  <1> QED BY <1>1, <1>4, <1>5, <1>7, <1>8, ScanEnds

LEMMA RefuseKeeps ==
  ASSUME ScanInv, NEW i \in Calls, Refuse(i)
  PROVE  ScanInv'
  <1> DEFINE c == [call[i] EXCEPT !.answer = "refused"]
  <1>1. call' = [call EXCEPT ![i] = c] /\ UNCHANGED <<roomOf, scan>> /\ call[i] # Free
    BY DEF Refuse
  <1>2. call[i] \in Call
    BY <1>1, ScanTypes DEF ScanInv
  <1>3. /\ c \in Call /\ c.user = call[i].user /\ c.room = call[i].room /\ c.waited = call[i].waited
        /\ c.answer = "refused"
    BY <1>2 DEF Call
  <1> HIDE DEF c
  <1>4. ScanTyped'
    BY <1>1, <1>3 DEF ScanInv, ScanTyped
  <1>5. call'[i] = c /\ \A j \in Calls : j # i => call'[j] = call[j]
    BY <1>1 DEF ScanInv, ScanTyped
  <1>6. \A j \in Calls : call'[j] # Free /\ call'[j].waited =>
          /\ call[j] # Free /\ call[j].waited
          /\ call'[j].user = call[j].user /\ call'[j].room = call[j].room
    BY <1>1, <1>3, <1>5
  <1>7. Waiting'
    <2>1. SUFFICES ASSUME NEW j \in Calls, call'[j] # Free, call'[j].waited
                   PROVE  LET t == scan[call'[j].user] IN
                          t # Closed /\ t.locked /\ t.outcome = None /\ t.room = call'[j].room
      BY <1>1 DEF Waiting
    <2> QED BY <1>6, <2>1 DEF ScanInv, Waiting
  <1>8. OneCall'
    <2>1. SUFFICES ASSUME NEW j \in Calls, NEW k \in Calls, call'[j] # Free, call'[j].waited,
                          call'[k] # Free, call'[k].waited, call'[j].user = call'[k].user
                   PROVE  j = k
      BY DEF OneCall
    <2> QED BY <1>6, <2>1 DEF ScanInv, OneCall
  <1>9. Placed'
    <2>1. SUFFICES ASSUME NEW j \in Calls, call'[j] # Free, call'[j].answer = "done"
                   PROVE  /\ call'[j].code \in Devices
                          /\ ~call'[j].overtaken => roomOf[call'[j].code] = call'[j].room
      BY <1>1 DEF Placed
    <2>2. j # i
      BY <1>3, <1>5, <2>1
    <2> QED BY <1>5, <2>1, <2>2 DEF ScanInv, Placed
  <1>10. Told'
    BY <1>1 DEF ScanInv, Told, IsOpen
  <1> QED BY <1>4, <1>7, <1>8, <1>9, <1>10 DEF ScanInv

LEMMA LostKeeps ==
  ASSUME ScanInv, NEW i \in Calls, Lost(i)
  PROVE  ScanInv'
  <1>1. call' = [call EXCEPT ![i] = Free] /\ UNCHANGED <<roomOf, scan>>
    BY DEF Lost
  <1>2. ScanTyped'
    BY <1>1 DEF ScanInv, ScanTyped
  <1>3. call'[i] = Free /\ \A j \in Calls : j # i => call'[j] = call[j]
    BY <1>1 DEF ScanInv, ScanTyped
  <1>4. \A j \in Calls : call'[j] # Free => call'[j] = call[j]
    BY <1>3
  <1>5. Waiting'
    BY <1>1, <1>4 DEF ScanInv, Waiting
  <1>6. OneCall'
    BY <1>4 DEF ScanInv, OneCall
  <1>7. Placed'
    BY <1>1, <1>4 DEF ScanInv, Placed
  <1>8. Told'
    BY <1>1 DEF ScanInv, Told, IsOpen
  <1> QED BY <1>2, <1>5, <1>6, <1>7, <1>8 DEF ScanInv

(* What an association leaves of the other calls about its device. *)
LEMMA OvertakenCall ==
  ASSUME NEW c \in Call, NEW o, o = [c EXCEPT !.overtaken = TRUE]
  PROVE  /\ o \in Call /\ o.user = c.user /\ o.room = c.room /\ o.code = c.code
         /\ o.waited = c.waited /\ o.answer = c.answer /\ o.overtaken = TRUE
  <1>1. o \in Call
    BY DEF Call
  <1>2. /\ o.user = c.user /\ o.room = c.room /\ o.code = c.code
        /\ o.waited = c.waited /\ o.answer = c.answer /\ o.overtaken = TRUE
    BY DEF Call
  <1> QED BY <1>1, <1>2

LEMMA AssociatedCalls ==
  ASSUME ScanInv, NEW i \in Calls, Associate(i), NEW j \in Calls, NEW c, c = call'[j]
  PROVE  /\ c \in Call \cup {Free}
         /\ c # Free =>
              /\ call[j] # Free /\ c.user = call[j].user /\ c.room = call[j].room
              /\ c.code = call[j].code /\ c.waited = call[j].waited
              /\ j = i => c.answer = "done"
              /\ j # i => /\ c.answer = call[j].answer
                          /\ ~c.overtaken /\ c.answer = "done" => ~call[j].overtaken /\ c.code # call[i].code
  <1> DEFINE d == call[i].code
  <1>1. call' = [k \in Calls |->
          IF k = i THEN IF call[i].waited THEN [call[i] EXCEPT !.answer = "done"] ELSE Free
          ELSE IF call[k] # Free /\ call[k].code = d /\ call[k].answer = "done"
                 THEN [call[k] EXCEPT !.overtaken = TRUE]
                 ELSE call[k]]
    BY DEF Associate, Overtaken
  <1>2. call[i] \in Call /\ call[j] \in Call \cup {Free}
    BY ScanTypes DEF Associate, ScanInv, ScanTyped
  <1>3. CASE j = i
    <2>1. c = IF call[i].waited THEN [call[i] EXCEPT !.answer = "done"] ELSE Free
      BY <1>1, <1>3
    <2>2. CASE call[i].waited
      <3>1. c = [call[i] EXCEPT !.answer = "done"]
        BY <2>1, <2>2
      <3>2. c \in Call
        BY <1>2, <3>1 DEF Call
      <3>3. /\ c.user = call[i].user /\ c.room = call[i].room /\ c.code = call[i].code
            /\ c.waited = call[i].waited /\ c.answer = "done"
        BY <1>2, <3>1 DEF Call
      <3> QED BY <1>2, <1>3, <3>2, <3>3, CallIs
    <2>3. CASE ~call[i].waited
      BY <2>1, <2>3
    <2> QED BY <2>2, <2>3
  <1>4. CASE j # i
    <2>1. CASE call[j] # Free /\ call[j].code = d /\ call[j].answer = "done"
      <3>1. c = [call[j] EXCEPT !.overtaken = TRUE] /\ call[j] \in Call
        BY <1>1, <1>2, <1>4, <2>1
      <3> QED BY <1>4, <3>1, <2>1, OvertakenCall
    <2>2. CASE ~(call[j] # Free /\ call[j].code = d /\ call[j].answer = "done")
      <3>1. c = call[j]
        BY <1>1, <1>4, <2>2
      <3> QED BY <1>2, <1>4, <3>1, <2>2
    <2> QED BY <2>1, <2>2
  <1> QED BY <1>3, <1>4

LEMMA AssociatedScans ==
  ASSUME ScanInv, NEW i \in Calls, Associate(i), NEW u \in Users, NEW s, s = scan'[u]
  PROVE  /\ s \in OpenScan \cup {Closed}
         /\ scan[u] # Closed =>
              /\ s # Closed /\ s.room = scan[u].room /\ s.locked = scan[u].locked
              /\ scan[u].outcome = None => s.outcome = None
         /\ s # Closed /\ s.outcome.kind = "success" /\ ~s.outcome.overtaken =>
              s = scan[u] /\ s.outcome.device # call[i].code
  <1> DEFINE d == call[i].code
  <1>1. scan' = [v \in Users |->
          IF IsOpen(v) /\ scan[v].outcome.kind = "success" /\ scan[v].outcome.device = d
            THEN [scan[v] EXCEPT !.outcome.overtaken = TRUE]
            ELSE scan[v]]
    BY DEF Associate, Overtaken
  <1>2. CASE IsOpen(u) /\ scan[u].outcome.kind = "success" /\ scan[u].outcome.device = d
    <2>1. s = [scan[u] EXCEPT !.outcome.overtaken = TRUE]
      BY <1>1, <1>2
    <2>2. scan[u] \in OpenScan /\ scan[u].outcome \in Success
      BY <1>2, ScanTypes, ScanIs, OutcomeIs DEF ScanInv
    <2>3. /\ s \in OpenScan /\ s.room = scan[u].room /\ s.locked = scan[u].locked
          /\ s.outcome.overtaken = TRUE
      BY <2>1, <2>2, OvertakenScan
    <2>4. scan[u].outcome # None
      BY <1>2 DEF None
    <2> QED BY <2>3, <2>4, ScanIs
  <1>3. CASE ~(IsOpen(u) /\ scan[u].outcome.kind = "success" /\ scan[u].outcome.device = d)
    <2>1. s = scan[u]
      BY <1>1, <1>3
    <2>2. scan[u] \in OpenScan \cup {Closed}
      BY DEF ScanInv, ScanTyped
    <2> QED BY <1>3, <2>1, <2>2 DEF IsOpen
  <1> QED BY <1>2, <1>3

LEMMA AssociateKeeps ==
  ASSUME ScanInv, NEW i \in Calls, Associate(i)
  PROVE  ScanInv'
  <1> DEFINE d == call[i].code
  <1>1. /\ call[i] \in Call /\ d \in Devices /\ roomOf' = [roomOf EXCEPT ![d] = call[i].room]
    BY ScanTypes DEF Associate, ScanInv
  <1>2. roomOf'[d] = call[i].room /\ \A e \in Devices : e # d => roomOf'[e] = roomOf[e]
    BY <1>1 DEF ScanInv, ScanTyped
  <1>3. ScanTyped'
    <2>1. roomOf' \in [Devices -> RoomIds]
      BY <1>1, CallIs DEF ScanInv, ScanTyped
    <2>2. \A u \in Users : scan'[u] \in OpenScan \cup {Closed}
      BY AssociatedScans
    <2>3. scan' = [u \in Users |-> scan'[u]]
      BY DEF Associate, Overtaken
    <2>4. \A j \in Calls : call'[j] \in Call \cup {Free}
      BY AssociatedCalls
    <2>5. call' = [j \in Calls |-> call'[j]]
      BY DEF Associate, Overtaken
    <2>6. scan' \in [Users -> OpenScan \cup {Closed}]
      BY <2>2, <2>3
    <2>7. call' \in [Calls -> Call \cup {Free}]
      BY <2>4, <2>5
    <2> QED BY <2>1, <2>6, <2>7 DEF ScanTyped
  <1>4. Waiting'
    <2>1. SUFFICES ASSUME NEW j \in Calls, call'[j] # Free, call'[j].waited
                   PROVE  LET t == scan'[call'[j].user] IN
                          t # Closed /\ t.locked /\ t.outcome = None /\ t.room = call'[j].room
      BY DEF Waiting
    <2>2. /\ call[j] # Free /\ call'[j].user = call[j].user /\ call'[j].room = call[j].room
          /\ call[j].waited
      BY <2>1, AssociatedCalls
    <2>3. LET t == scan[call[j].user] IN
          t # Closed /\ t.locked /\ t.outcome = None /\ t.room = call[j].room
      BY <2>2 DEF ScanInv, Waiting
    <2>4. call[j].user \in Users
      BY <2>2, ScanTypes, CallIs DEF ScanInv
    <2>5. LET s == scan[call[j].user]
              t == scan'[call[j].user] IN
          t # Closed /\ t.room = s.room /\ t.locked = s.locked /\ t.outcome = None
      BY <2>3, <2>4, AssociatedScans
    <2> QED BY <2>2, <2>3, <2>5
  <1>5. OneCall'
    <2>1. SUFFICES ASSUME NEW j \in Calls, NEW k \in Calls, call'[j] # Free, call'[j].waited,
                          call'[k] # Free, call'[k].waited, call'[j].user = call'[k].user
                   PROVE  j = k
      BY DEF OneCall
    <2>2. call[j] # Free /\ call[j].waited /\ call'[j].user = call[j].user
      BY <2>1, AssociatedCalls
    <2>3. call[k] # Free /\ call[k].waited /\ call'[k].user = call[k].user
      BY <2>1, AssociatedCalls
    <2> QED BY <2>1, <2>2, <2>3 DEF ScanInv, OneCall
  <1>6. Placed'
    <2>1. SUFFICES ASSUME NEW j \in Calls, call'[j] # Free, call'[j].answer = "done"
                   PROVE  /\ call'[j].code \in Devices
                          /\ ~call'[j].overtaken => roomOf'[call'[j].code] = call'[j].room
      BY DEF Placed
    <2>2. call'[j].code = call[j].code /\ call'[j].room = call[j].room /\ call[j] # Free
      BY <2>1, AssociatedCalls
    <2>3. CASE j = i
      BY <1>1, <1>2, <2>2, <2>3
    <2>4. CASE j # i
      <3>1. /\ call[j].answer = "done"
            /\ ~call'[j].overtaken => ~call[j].overtaken /\ call'[j].code # d
        BY <2>1, <2>4, AssociatedCalls
      <3>2. call[j].code \in Devices /\ (~call[j].overtaken => roomOf[call[j].code] = call[j].room)
        BY <2>2, <3>1 DEF ScanInv, Placed
      <3> QED BY <1>2, <2>2, <3>1, <3>2
    <2> QED BY <2>3, <2>4
  <1>7. Told'
    <2>1. SUFFICES ASSUME NEW u \in Users, scan'[u] # Closed, scan'[u].outcome.kind = "success",
                          ~scan'[u].outcome.overtaken
                   PROVE  roomOf'[scan'[u].outcome.device] = scan'[u].room
      BY DEF Told, IsOpen
    <2>2. scan'[u] = scan[u] /\ scan[u].outcome.device # d
      BY <2>1, AssociatedScans
    <2>3. scan[u] \in OpenScan
      BY <2>1, <2>2, ScanTypes DEF ScanInv, IsOpen
    <2>4. scan[u].outcome.device \in Devices
      BY <2>1, <2>2, <2>3, ScanIs, OutcomeIs, SuccessIs
    <2>5. roomOf[scan[u].outcome.device] = scan[u].room
      BY <2>1, <2>2 DEF ScanInv, Told, IsOpen
    <2> QED BY <1>2, <2>2, <2>4, <2>5
  <1> QED BY <1>3, <1>4, <1>5, <1>6, <1>7 DEF ScanInv

LEMMA ScanInvInductive ==
  ASSUME ScanInv, [Next]_vars
  PROVE  ScanInv'
  <1>1. CASE UNCHANGED <<roomOf, scan, call>>
    BY <1>1 DEF ScanInv, ScanTyped, Waiting, OneCall, Placed, Told, IsOpen
  <1>2. CASE Tick
    BY <1>1, <1>2 DEF Tick
  <1>3. ASSUME NEW metric \in Metrics, NEW at \in Times, Measure(metric, at) PROVE ScanInv'
    BY <1>1, <1>3 DEF Measure
  <1>4. ASSUME NEW u \in Users,
               \/ \E r \in RoomIds : StartScan(u, r)
               \/ \E code \in Codes : Submit(u, code)
               \/ Retry(u) \/ StopScan(u)
        PROVE  ScanInv'
    BY <1>4, StartScanKeeps, SubmitKeeps, RetryKeeps, StopScanKeeps
  <1>5. ASSUME NEW i \in Calls,
               Answered(i) \/ Unanswered(i) \/ Associate(i) \/ Refuse(i) \/ Lost(i)
        PROVE  ScanInv'
    BY <1>5, AnsweredKeeps, UnansweredKeeps, AssociateKeeps, RefuseKeeps, LostKeeps
  <1>6. CASE AskRooms \/ AnswerRooms
    BY <1>1, <1>6 DEF AskRooms, AnswerRooms, OnlyList
  <1>7. ASSUME NEW r \in RoomIds, ReadDevices(r) \/ \E d \in Devices : ReadLatest(r, d)
        PROVE  ScanInv'
    BY <1>1, <1>7 DEF ReadDevices, ReadLatest, OnlyList
  <1>8. CASE UNCHANGED vars
    BY <1>1, <1>8 DEF vars
  <1> QED BY <1>2, <1>3, <1>4, <1>5, <1>6, <1>7, <1>8 DEF Next

-----------------------------------------------------------------------------
(* The list of rooms *)

LEMMA SilentIs == \A d, date : IsSilent(d, date) <=> SilentAmong(stored, d, date)
  BY DEF IsSilent, LatestByType, OfDevice, SilentAmong

LEMMA SilentStays ==
  ASSUME NEW rows \in SUBSET [metric : Metrics, at : Nat], NEW d, NEW t \in Nat, SilentAmong(rows, d, t)
  PROVE  SilentAmong(rows, d, t + 1)
  <1>1. StaleThreshold \in Nat
    BY RoomsAssumption
  <1>2. \A m \in rows : m.at \in Nat
    OBVIOUS
  <1>3. \A m \in rows : ~IsFresh(m.at, t) => ~IsFresh(m.at, t + 1)
    BY <1>1, <1>2 DEF IsFresh
  <1> QED BY <1>3 DEF SilentAmong

LEMMA SilentWhateverOthersMeasure ==
  ASSUME NEW rows, NEW m, NEW d, m.metric[1] # d, NEW t, SilentAmong(rows, d, t)
  PROVE  SilentAmong(rows \cup {m}, d, t)
  BY DEF SilentAmong

LEMMA ListIs ==
  ASSUME ListTyped
  PROVE  /\ list = [stage |-> list.stage, rooms |-> list.rooms, steady |-> list.steady]
         /\ list.stage \in {"idle", "reading", "answered"}
         /\ list.rooms \in [RoomIds -> Room] /\ list.steady \subseteq Devices
         /\ \A d \in list.steady : roomOf[d] \in RoomIds
  BY DEF ListTyped, List

LEMMA RoomIs ==
  ASSUME NEW room \in Room
  PROVE  room.read \in BOOLEAN /\ room.at \in Nat /\ room.devices \subseteq Devices /\ room.silent \in BOOLEAN
  BY DEF Room

LEMMA JudgedIs ==
  ASSUME NEW silent \in BOOLEAN
  PROVE  /\ Judged(silent) \in Room /\ Judged(silent).read = TRUE
         /\ Judged(silent).devices = {} /\ Judged(silent).silent = silent
  BY DEF Judged, Room

LEMMA UnreadIs ==
  UnreadRoom \in Room /\ UnreadRoom.read = FALSE /\ UnreadRoom.devices = {}
  BY DEF UnreadRoom, Room

(* A device less among the steady ones. *)
LEMMA UnsteadyIs ==
  ASSUME ListTyped, NEW d, Unsteady(d)
  PROVE  /\ list' \in List /\ list'.stage = list.stage /\ list'.rooms = list.rooms
         /\ list'.steady = list.steady \ {d}
  <1>1. list' = [list EXCEPT !.steady = list.steady \ {d}] /\ list \in List
    BY DEF Unsteady, ListTyped
  <1>2. list' \in List
    BY <1>1 DEF List
  <1>3. list'.stage = list.stage /\ list'.rooms = list.rooms /\ list'.steady = list.steady \ {d}
    BY <1>1 DEF List
  <1> QED BY <1>2, <1>3

(* One room is read further. *)
LEMMA OneRoomRead ==
  ASSUME ListInv, UNCHANGED <<now, stored, roomOf>>, NEW r \in RoomIds, NEW room \in Room,
         list.stage = "reading",
         list' = [list EXCEPT !.rooms[r] = room],
         room.read,
         \A d \in list.steady : roomOf[d] = r =>
           IF room.devices = {} THEN room.silent
           ELSE d \in room.devices /\ SilentAmong(stored, d, room.at)
  PROVE  ListInv'
  <1> DEFINE rooms == [list.rooms EXCEPT ![r] = room]
  <1>1. list' = [list EXCEPT !.rooms = rooms] /\ list \in List /\ list.rooms \in [RoomIds -> Room]
    BY ListIs DEF ListInv, ListTyped
  <1>2. rooms \in [RoomIds -> Room] /\ rooms[r] = room /\ \A q \in RoomIds : q # r => rooms[q] = list.rooms[q]
    BY <1>1
  <1> HIDE DEF rooms
  <1>3. list' \in List
    BY <1>1, <1>2 DEF List
  <1>4. list'.stage = "reading" /\ list'.rooms = rooms /\ list'.steady = list.steady
    BY <1>1 DEF List
  <1>5. ListTyped'
    BY <1>3 DEF ListInv, ListTyped
  <1>6. ReadInOrder'
    <2>1. SUFFICES ASSUME NEW q \in RoomIds
                   PROVE  ~rooms[q].read => rooms[q].devices = {}
      BY <1>4 DEF ReadInOrder
    <2>2. CASE q = r
      BY <1>2, <2>2
    <2>3. CASE q # r
      BY <1>2, <2>3 DEF ListInv, ReadInOrder
    <2> QED BY <2>2, <2>3
  <1>7. SteadyIsSeen'
    <2>1. SUFFICES ASSUME NEW d \in list.steady
                   PROVE  LET its == rooms[roomOf[d]] IN
                          IF ~its.read THEN SilentAmong(stored, d, now)
                          ELSE IF its.devices = {} THEN its.silent
                          ELSE d \in its.devices /\ SilentAmong(stored, d, its.at)
      BY <1>4 DEF SteadyIsSeen
    <2>2. CASE roomOf[d] = r
      BY <1>2, <2>2
    <2>3. CASE roomOf[d] # r
      <3>1. rooms[roomOf[d]] = list.rooms[roomOf[d]]
        BY <1>2, <2>3, ListIs DEF ListInv
      <3> QED BY <3>1 DEF ListInv, SteadyIsSeen
    <2> QED BY <2>2, <2>3
  <1> QED BY <1>5, <1>6, <1>7 DEF ListInv

LEMMA ReadDevicesKeeps ==
  ASSUME ListInv, NEW r \in RoomIds, ReadDevices(r)
  PROVE  ListInv'
  <1> DEFINE devices == {d \in Devices : roomOf[d] = r}
             room == IF devices = {} THEN Judged(FALSE)
                     ELSE [read |-> TRUE, at |-> now, devices |-> devices, silent |-> FALSE]
  <1>1. /\ list' = [list EXCEPT !.rooms[r] = room] /\ UNCHANGED <<now, stored, roomOf>>
        /\ list.stage = "reading" /\ ~list.rooms[r].read
    BY DEF ReadDevices, OnlyList
  <1>2. ASSUME NEW d \in list.steady, roomOf[d] = r
        PROVE  d \in devices /\ SilentAmong(stored, d, now)
    BY <1>1, <1>2, ListIs DEF ListInv, SteadyIsSeen
  <1>3. devices = {} => room \in Room /\ room.read = TRUE /\ room.devices = devices
    BY JudgedIs
  <1>4. ASSUME devices # {}
        PROVE  room \in Room /\ room.read = TRUE /\ room.devices = devices /\ room.at = now
    <2>1. room = [read |-> TRUE, at |-> now, devices |-> devices, silent |-> FALSE]
      BY <1>4
    <2>2. devices \subseteq Devices /\ now \in Nat
      BY DEF ListInv, ListTyped
    <2> HIDE DEF devices, room
    <2> QED BY <2>1, <2>2 DEF Room
  <1> HIDE DEF devices, room
  <1>5. \A d \in list.steady : roomOf[d] = r =>
          IF room.devices = {} THEN room.silent
          ELSE d \in room.devices /\ SilentAmong(stored, d, room.at)
    BY <1>2, <1>3, <1>4
  <1>6. room \in Room /\ room.read
    BY <1>3, <1>4
  <1> QED BY <1>1, <1>5, <1>6, OneRoomRead

LEMMA ReadLatestKeeps ==
  ASSUME ListInv, NEW r \in RoomIds, NEW d \in Devices, ReadLatest(r, d)
  PROVE  ListInv'
  <1> DEFINE old == list.rooms[r]
             silent == IsSilent(d, old.at)
             room == IF silent \/ old.devices = {d} THEN Judged(silent)
                     ELSE [old EXCEPT !.devices = old.devices \ {d}]
  <1>1. /\ list' = [list EXCEPT !.rooms[r] = room] /\ UNCHANGED <<now, stored, roomOf>>
        /\ list.stage = "reading" /\ d \in old.devices
    BY DEF ReadLatest, OnlyList
  <1>2. old \in Room /\ old.read
    BY <1>1, ListIs, RoomIs DEF ListInv, ReadInOrder
  <1>3. ASSUME NEW e \in list.steady, roomOf[e] = r
        PROVE  e \in old.devices /\ SilentAmong(stored, e, old.at)
    BY <1>1, <1>2, <1>3 DEF ListInv, SteadyIsSeen
  <1>4. silent \in BOOLEAN /\ (silent <=> SilentAmong(stored, d, old.at))
    BY SilentIs DEF IsSilent
  <1>5. ASSUME silent \/ old.devices = {d}
        PROVE  /\ room \in Room /\ room.read = TRUE /\ room.devices = {} /\ room.silent = silent
               /\ silent \/ \A e \in list.steady : roomOf[e] # r
    <2>1. room = Judged(silent)
      BY <1>5
    <2>2. silent \/ \A e \in list.steady : roomOf[e] # r
      BY <1>3, <1>4, <1>5
    <2> HIDE DEF room, silent
    <2> QED BY <1>4, <2>1, <2>2, JudgedIs
  <1>6. ASSUME ~(silent \/ old.devices = {d})
        PROVE  /\ room \in Room /\ room.read = TRUE /\ room.devices = old.devices \ {d}
               /\ room.at = old.at /\ room.devices # {}
               /\ \A e \in list.steady : roomOf[e] = r => e # d
    <2>1. room = [old EXCEPT !.devices = old.devices \ {d}]
      BY <1>6
    <2>2. \A e \in list.steady : roomOf[e] = r => e # d
      BY <1>3, <1>4, <1>6
    <2>3. old.devices \ {d} # {}
      BY <1>1, <1>6
    <2> HIDE DEF room, old, silent
    <2>4. room \in Room
      BY <1>2, <2>1 DEF Room
    <2>5. room.read = old.read /\ room.devices = old.devices \ {d} /\ room.at = old.at
      BY <1>2, <2>1 DEF Room
    <2>6. room.read = TRUE
      BY <1>2, <2>5, RoomIs
    <2> QED BY <2>2, <2>3, <2>4, <2>5, <2>6
  <1> HIDE DEF room, old, silent
  <1>7. \A e \in list.steady : roomOf[e] = r =>
          IF room.devices = {} THEN room.silent
          ELSE e \in room.devices /\ SilentAmong(stored, e, room.at)
    <2>1. CASE silent \/ old.devices = {d}
      BY <1>5, <2>1
    <2>2. CASE ~(silent \/ old.devices = {d})
      BY <1>3, <1>6, <2>2
    <2> QED BY <2>1, <2>2
  <1>8. room \in Room /\ room.read
    BY <1>5, <1>6
  <1> QED BY <1>1, <1>7, <1>8, OneRoomRead

LEMMA AskRoomsKeeps ==
  ASSUME ListInv, AskRooms
  PROVE  ListInv'
  <1> DEFINE rooms == [r \in RoomIds |-> UnreadRoom]
             steady == {d \in Devices : IsSilent(d, now)}
  <1>1. /\ list' = [stage |-> "reading", rooms |-> rooms, steady |-> steady]
        /\ UNCHANGED <<now, stored, roomOf>>
    BY DEF AskRooms, OnlyList
  <1>2. rooms \in [RoomIds -> Room]
    BY UnreadIs
  <1>3. steady \subseteq Devices /\ \A d \in steady : SilentAmong(stored, d, now)
    BY SilentIs
  <1>4. \A r \in RoomIds : rooms[r].read = FALSE /\ rooms[r].devices = {}
    BY UnreadIs
  <1> HIDE DEF rooms, steady
  <1>5. list' \in List /\ list'.stage = "reading" /\ list'.rooms = rooms /\ list'.steady = steady
    BY <1>1, <1>2, <1>3 DEF List
  <1>6. ListTyped'
    BY <1>1, <1>5 DEF ListInv, ListTyped
  <1>7. ReadInOrder'
    BY <1>4, <1>5 DEF ReadInOrder
  <1>8. SteadyIsSeen'
    <2>1. SUFFICES ASSUME NEW d \in steady
                   PROVE  ~rooms[roomOf[d]].read /\ SilentAmong(stored, d, now)
      BY <1>1, <1>5 DEF SteadyIsSeen
    <2>2. roomOf[d] \in RoomIds
      BY <1>3 DEF ListInv, ListTyped
    <2> QED BY <1>3, <1>4, <2>2
  <1> QED BY <1>6, <1>7, <1>8 DEF ListInv

LEMMA AnswerRoomsKeeps ==
  ASSUME ListInv, AnswerRooms
  PROVE  ListInv'
  <1>1. /\ list' = [list EXCEPT !.stage = "answered"] /\ UNCHANGED <<now, stored, roomOf>>
        /\ \A r \in RoomIds : list.rooms[r].read /\ list.rooms[r].devices = {}
    BY DEF AnswerRooms, OnlyList
  <1>2. list \in List
    BY DEF ListInv, ListTyped
  <1>3. list' \in List
    BY <1>1, <1>2 DEF List
  <1>4. list'.rooms = list.rooms /\ list'.steady = list.steady
    BY <1>1, <1>2 DEF List
  <1>5. ListTyped'
    BY <1>1, <1>3 DEF ListInv, ListTyped
  <1>6. ReadInOrder'
    BY <1>1, <1>4 DEF ReadInOrder
  <1>7. SteadyIsSeen'
    BY <1>1, <1>4 DEF ListInv, SteadyIsSeen
  <1> QED BY <1>5, <1>6, <1>7 DEF ListInv

LEMMA TickKeepsList ==
  ASSUME ListInv, Tick
  PROVE  ListInv'
  <1>1. now' = now + 1 /\ UNCHANGED <<roomOf, stored, list>>
    BY DEF Tick
  <1>2. now \in Nat /\ now' \in Nat /\ stored \in SUBSET [metric : Metrics, at : Nat]
    BY <1>1 DEF ListInv, ListTyped
  <1>3. ListTyped'
    BY <1>1, <1>2 DEF ListInv, ListTyped
  <1>4. ReadInOrder'
    BY <1>1 DEF ListInv, ReadInOrder
  <1>5. \A d : SilentAmong(stored, d, now) => SilentAmong(stored, d, now')
    BY <1>1, <1>2, SilentStays
  <1>6. SteadyIsSeen'
    BY <1>1, <1>5 DEF ListInv, SteadyIsSeen
  <1> QED BY <1>3, <1>4, <1>6 DEF ListInv

LEMMA MeasureKeepsList ==
  ASSUME ListInv, NEW metric \in Metrics, NEW at \in Times, Measure(metric, at)
  PROVE  ListInv'
  <1> DEFINE m == [metric |-> metric, at |-> at]
  <1>1. stored' = stored \cup {m} /\ Unsteady(metric[1]) /\ UNCHANGED <<now, roomOf>>
    BY DEF Measure
  <1>2. m \in [metric : Metrics, at : Nat] /\ m.metric = metric
    BY RoomsAssumption DEF Times
  <1> HIDE DEF m
  <1>3. /\ list' \in List /\ list'.stage = list.stage /\ list'.rooms = list.rooms
        /\ list'.steady = list.steady \ {metric[1]}
    BY <1>1, UnsteadyIs DEF ListInv
  <1>4. ListTyped'
    BY <1>1, <1>2, <1>3 DEF ListInv, ListTyped
  <1>5. ReadInOrder'
    BY <1>3 DEF ListInv, ReadInOrder
  <1>6. \A d, t : d # metric[1] /\ SilentAmong(stored, d, t) => SilentAmong(stored', d, t)
    BY <1>1, <1>2, SilentWhateverOthersMeasure
  <1>7. SteadyIsSeen'
    <2>1. SUFFICES ASSUME NEW d \in list.steady, d # metric[1]
                   PROVE  LET room == list.rooms[roomOf[d]] IN
                          IF ~room.read THEN SilentAmong(stored', d, now)
                          ELSE IF room.devices = {} THEN room.silent
                          ELSE d \in room.devices /\ SilentAmong(stored', d, room.at)
      BY <1>1, <1>3 DEF SteadyIsSeen
    <2> QED BY <1>6, <2>1 DEF ListInv, SteadyIsSeen
  <1> QED BY <1>4, <1>5, <1>7 DEF ListInv

LEMMA AssociateKeepsList ==
  ASSUME ScanInv, ListInv, NEW i \in Calls, Associate(i)
  PROVE  ListInv'
  <1> DEFINE d == call[i].code
  <1>1. /\ call[i] \in Call /\ d \in Devices /\ roomOf' = [roomOf EXCEPT ![d] = call[i].room]
        /\ Unsteady(d) /\ UNCHANGED <<now, stored>>
    BY ScanTypes DEF Associate, ScanInv
  <1>2. /\ list' \in List /\ list'.stage = list.stage /\ list'.rooms = list.rooms
        /\ list'.steady = list.steady \ {d}
    BY <1>1, UnsteadyIs DEF ListInv
  <1>3. call[i].room \in RoomIds
    BY <1>1, CallIs
  <1> HIDE DEF d
  <1>4. roomOf' \in [Devices -> RoomIds] /\ \A e \in Devices : e # d => roomOf'[e] = roomOf[e]
    BY <1>1, <1>3 DEF ListInv, ListTyped
  <1>5. ListTyped'
    BY <1>1, <1>2, <1>4 DEF ListInv, ListTyped
  <1>6. ReadInOrder'
    BY <1>2 DEF ListInv, ReadInOrder
  <1>7. SteadyIsSeen'
    <2>1. SUFFICES ASSUME NEW e \in list.steady, e # d
                   PROVE  LET room == list.rooms[roomOf'[e]] IN
                          IF ~room.read THEN SilentAmong(stored, e, now)
                          ELSE IF room.devices = {} THEN room.silent
                          ELSE e \in room.devices /\ SilentAmong(stored, e, room.at)
      BY <1>1, <1>2 DEF SteadyIsSeen
    <2>2. roomOf'[e] = roomOf[e]
      BY <1>4, <2>1, ListIs DEF ListInv
    <2> QED BY <2>2 DEF ListInv, SteadyIsSeen
  <1> QED BY <1>5, <1>6, <1>7 DEF ListInv

LEMMA ListInvInductive ==
  ASSUME RInv, [Next]_vars
  PROVE  ListInv'
  <1>1. ScanInv /\ ListInv
    BY DEF RInv
  <1>2. CASE UNCHANGED <<now, roomOf, stored, list>>
    BY <1>1, <1>2 DEF ListInv, ListTyped, ReadInOrder, SteadyIsSeen
  <1>3. CASE Tick
    BY <1>1, <1>3, TickKeepsList
  <1>4. ASSUME NEW metric \in Metrics, NEW at \in Times, Measure(metric, at) PROVE ListInv'
    BY <1>1, <1>4, MeasureKeepsList
  <1>5. ASSUME NEW u \in Users,
               \/ \E r \in RoomIds : StartScan(u, r)
               \/ \E code \in Codes : Submit(u, code)
               \/ Retry(u) \/ StopScan(u)
        PROVE  ListInv'
    BY <1>2, <1>5 DEF StartScan, Submit, Retry, StopScan
  <1>6. ASSUME NEW i \in Calls, Answered(i) \/ Unanswered(i) \/ Refuse(i) \/ Lost(i)
        PROVE  ListInv'
    BY <1>2, <1>6 DEF Answered, Unanswered, Refuse, Lost
  <1>7. ASSUME NEW i \in Calls, Associate(i) PROVE ListInv'
    BY <1>1, <1>7, AssociateKeepsList
  <1>8. CASE AskRooms \/ AnswerRooms
    BY <1>1, <1>8, AskRoomsKeeps, AnswerRoomsKeeps
  <1>9. ASSUME NEW r \in RoomIds, ReadDevices(r) \/ \E d \in Devices : ReadLatest(r, d)
        PROVE  ListInv'
    BY <1>1, <1>9, ReadDevicesKeeps, ReadLatestKeeps
  <1>10. CASE UNCHANGED vars
    BY <1>2, <1>10 DEF vars
  <1> QED BY <1>3, <1>4, <1>5, <1>6, <1>7, <1>8, <1>9, <1>10 DEF Next

-----------------------------------------------------------------------------
(* The invariant, and what follows from it *)

LEMMA InitInv == Init => RInv
  <1> SUFFICES ASSUME Init PROVE RInv
    OBVIOUS
  <1>1. /\ now = 0 /\ roomOf \in [Devices -> RoomIds] /\ stored = {}
        /\ \A u \in Users : scan[u] = Closed
        /\ \A i \in Calls : call[i] = Free
    BY DEF Init
  <1>2. ScanTyped
    BY DEF Init, ScanTyped
  <1>3. ScanInv
    BY <1>1, <1>2 DEF ScanInv, Waiting, OneCall, Placed, Told, IsOpen
  <1> DEFINE rooms == [r \in RoomIds |-> UnreadRoom]
  <1>4. list = [stage |-> "idle", rooms |-> rooms, steady |-> {}]
    BY DEF Init
  <1>5. rooms \in [RoomIds -> Room] /\ \A r \in RoomIds : rooms[r].devices = {}
    BY UnreadIs
  <1> HIDE DEF rooms
  <1>6. list \in List /\ list.stage = "idle" /\ list.rooms = rooms /\ list.steady = {}
    BY <1>4, <1>5 DEF List
  <1>7. ListInv
    BY <1>1, <1>5, <1>6 DEF ListInv, ListTyped, ReadInOrder, SteadyIsSeen
  <1> QED BY <1>3, <1>7 DEF RInv

(* The scan screens wait for one association at most, of their own room,   *)
(* what was associated is where it was put until it is associated again,   *)
(* and a steady silent device is always still to be read, or signalled.    *)
THEOREM RInvCorrect == Spec => []RInv
  <1>1. Init => RInv
    BY InitInv
  <1>2. RInv /\ [Next]_vars => RInv'
    BY ScanInvInductive, ListInvInductive DEF RInv
  <1> QED BY <1>1, <1>2, PTL DEF Spec

(* What a scan screen claims of a device is true, as long as the device is *)
(* not associated again, and a scan asks for one association at a time:    *)
(* AssociateDeviceToRoom and ScanDeviceScreen. *)
THEOREM AssociatedCorrect == Spec => []AssociatedIsTrue
  <1>1. RInv => AssociatedIsTrue
    <2>1. SUFFICES ASSUME RInv, NEW u \in Users, IsOpen(u)
                   PROVE  /\ Cardinality(CallsOf(u)) <= 1
                          /\ LET outcome == scan[u].outcome IN
                             outcome.kind = "success" /\ ~outcome.overtaken
                               => roomOf[outcome.device] = scan[u].room
      BY DEF AssociatedIsTrue
    <2>2. Cardinality(CallsOf(u)) <= 1
      <3>1. CASE CallsOf(u) = {}
        BY <3>1, FS_EmptySet
      <3>2. ASSUME NEW i \in CallsOf(u) PROVE Cardinality(CallsOf(u)) <= 1
        <4>1. \A j \in CallsOf(u) : j = i
          BY <2>1, <3>2 DEF RInv, ScanInv, OneCall, CallsOf
        <4>2. CallsOf(u) = {i}
          BY <3>2, <4>1
        <4> QED BY <4>2, FS_Singleton
      <3> QED BY <3>1, <3>2
    <2>3. LET outcome == scan[u].outcome IN
          outcome.kind = "success" /\ ~outcome.overtaken => roomOf[outcome.device] = scan[u].room
      BY <2>1 DEF RInv, ScanInv, Told
    <2> QED BY <2>2, <2>3
  <1> QED BY <1>1, RInvCorrect, PTL

(* A device that is silent from the request to the answer is signalled by  *)
(* its room, however the reading of the list is interleaved with moves and *)
(* measurements: roomHasSilentDevice, which GET /rooms calls. *)
THEOREM SilentCorrect == Spec => []SilentIsSignalled
  <1>1. RInv => SilentIsSignalled
    <2>1. SUFFICES ASSUME RInv, list.stage = "answered", NEW d \in list.steady
                   PROVE  list.rooms[roomOf[d]].silent
      BY DEF SilentIsSignalled
    <2>2. roomOf[d] \in RoomIds
      BY <2>1, ListIs DEF RInv, ListInv
    <2>3. list.rooms[roomOf[d]].read /\ list.rooms[roomOf[d]].devices = {}
      BY <2>1, <2>2 DEF RInv, ListInv, ReadInOrder
    <2> QED BY <2>1, <2>3 DEF RInv, ListInv, SteadyIsSeen
  <1> QED BY <1>1, RInvCorrect, PTL

(* Whatever the range that is asked for, the sizes of buckets and the      *)
(* measurements, the history is faithful: ResolveHistoryRange,             *)
(* resolveBucketMs, aggregateByDeviceAndType and the chart. *)
THEOREM HistoryCorrect == Spec => []HistoryIsFaithful
  <1>1. RInv => HistoryIsFaithful
    <2>1. SUFFICES ASSUME RInv, NEW metric \in Metrics, NEW asked \in Queries
                   PROVE  LET mine == {m \in stored : m.metric = metric}
                              h == HistoryOf(mine, asked, now) IN
                          InFewRows(h) /\ CountsEach(mine, h) /\ BarsApart(h)
      BY DEF HistoryIsFaithful
    <2> DEFINE mine == {m \in stored : m.metric = metric}
    <2>2. now \in Int /\ \A m \in mine : m.at \in Int
      BY <2>1 DEF RInv, ListInv, ListTyped
    <2>3. asked \in Asked
      BY RoomsAssumption DEF Asked
    <2> HIDE DEF mine
    <2>4. LET h == HistoryOf(mine, asked, now) IN InFewRows(h) /\ CountsEach(mine, h) /\ BarsApart(h)
      BY <2>2, <2>3, HistoryIs
    <2> QED BY <2>4 DEF mine
  <1> QED BY <1>1, RInvCorrect, PTL

=============================================================================
