--------------------------- MODULE AlertContract ---------------------------
(***************************************************************************)
(* What ADR 0015 promises of the alerts of each stream (device, type of    *)
(* reading), seen by a reader of the Alert table: at most one is open, it  *)
(* has one reason until it is resolved, and no reading older than the last *)
(* one that counted changes anything.                                      *)
(***************************************************************************)
EXTENDS Integers

CONSTANTS Streams, Reasons, None,
          Dates    \* the dates readings carry

VARIABLES
  current,   \* the reason of the open alert of each stream, or None
  seen       \* the date of the last reading recorded on an alert, -1 before

contractVars == <<current, seen>>

Init ==
  /\ current = [s \in Streams |-> None]
  /\ seen = [s \in Streams |-> -1]

Moves(s, to, at) ==
  /\ current' = [current EXCEPT ![s] = to]
  /\ seen' = [seen EXCEPT ![s] = at]

(* An alert opens on a newer reading, or on the one that just resolved     *)
(* the opposite alert. *)
Open(s, at) ==
  /\ current[s] = None
  /\ at >= seen[s]
  /\ \E reason \in Reasons : Moves(s, reason, at)

Ongoing(s, at) ==
  /\ current[s] # None
  /\ at > seen[s]
  /\ Moves(s, current[s], at)

Resolve(s, at) ==
  /\ current[s] # None
  /\ at > seen[s]
  /\ Moves(s, None, at)

Next == \E s \in Streams, at \in Dates : Open(s, at) \/ Ongoing(s, at) \/ Resolve(s, at)

Spec == Init /\ [][Next]_contractVars
=============================================================================
