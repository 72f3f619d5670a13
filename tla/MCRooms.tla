------------------------------ MODULE MCRooms ------------------------------
(***************************************************************************)
(* A small instance of Rooms: two devices, two rooms, one scan screen and   *)
(* histories of two buckets at most.                                       *)
(***************************************************************************)
EXTENDS Rooms, TLC

CONSTANTS d1, d2, foreign, r1, r2, u1, a, b

OneEach == {<<d1, "co2">>, <<d2, "co2">>}

(* No bound, one or both: aligned on the buckets or not, too long, empty.  *)
SomeQueries ==
  {[from |-> Unset, to |-> Unset], [from |-> 1, to |-> Unset], [from |-> Unset, to |-> 1],
   [from |-> 0, to |-> 1], [from |-> 0, to |-> 2], [from |-> 1, to |-> 3],
   [from |-> -1, to |-> 2], [from |-> -9, to |-> 2], [from |-> 2, to |-> 1]}

RoomSymmetry == Permutations(RoomIds)

(* The constants of history.ts, in seconds, meet the assumption. *)
Code == INSTANCE History WITH
  MaxBuckets <- 500, DefaultSpan <- 86400, MaxSpan <- 604800,
  Sizes <- {1, 5, 10, 30, 60, 120, 300, 600, 900, 1800, 3600, 7200}

ASSUME CodeMeetsSizesAssumption ==
  /\ Code!SizesAssumption
  /\ Code!Fits(1800, [from |-> 0, to |-> 604800])
=============================================================================
