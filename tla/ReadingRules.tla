---------------------------- MODULE ReadingRules ----------------------------
(***************************************************************************)
(* The rules a reading goes through on its way to the verified base, as    *)
(* pure operators: plausibility, deduplication and order, and the alert    *)
(* transition of ADR 0015.  A stream is a pair (device, type of reading).  *)
(***************************************************************************)
EXTENDS Integers

CONSTANTS
  None,         \* the absence of a value (null)
  Plausible,    \* type -> [min, max], for the types that have a range
  Bounds,       \* type -> (reason -> threshold), for the types watched
  Hysteresis    \* type -> margin to come back over

Reasons == {"above_max", "below_min"}

ASSUME RulesAssumption ==
  /\ None \notin Reasons /\ None \notin Int
  /\ \A type \in DOMAIN Plausible : Plausible[type] \in [min : Int, max : Int]
  /\ \A type \in DOMAIN Bounds :
       /\ DOMAIN Bounds[type] \subseteq Reasons
       /\ \A reason \in DOMAIN Bounds[type] : Bounds[type][reason] \in Int
       /\ type \in DOMAIN Hysteresis
       /\ Hysteresis[type] \in Nat
       /\ DOMAIN Bounds[type] = Reasons =>
            Bounds[type]["below_min"] < Bounds[type]["above_max"]

(* alertThresholds: no margin is wider than the range it guards, so a value *)
(* beyond one threshold is back over the margin of the other. *)
ASSUME MarginAssumption ==
  \A type \in DOMAIN Bounds :
    DOMAIN Bounds[type] = Reasons =>
      Bounds[type]["below_min"] + Hysteresis[type] <= Bounds[type]["above_max"]

IsPlausibleValue(type, value) ==
  type \in DOMAIN Plausible =>
    value >= Plausible[type].min /\ value <= Plausible[type].max

(* The row findLatestByDevice returns among the rows of a stream: at most  *)
(* one, since no two have the same date. *)
Latest(rows) == {x \in rows : \A y \in rows : y.at <= x.at}

(* Seeded fault: a retransmission is noticed, a late reading is not. *)
DecideMeasurementById(rows, message) ==
  \A latest \in Latest(rows) : message.messageId # latest.messageId

(* decideMeasurement accepts a reading of a message over what is stored. *)
DecideMeasurement(rows, message) ==
  \A latest \in Latest(rows) :
    /\ message.messageId # latest.messageId
    /\ message.observedAt > latest.at

Breaches(type, value, reason) ==
  /\ type \in DOMAIN Bounds
  /\ reason \in DOMAIN Bounds[type]
  /\ IF reason = "above_max" THEN value > Bounds[type][reason] ELSE value < Bounds[type][reason]

BreachOf(type, value) ==
  CASE Breaches(type, value, "above_max") -> "above_max"
    [] Breaches(type, value, "below_min") -> "below_min"
    [] OTHER -> None

(* Seeded fault: the margin is forgotten. *)
HasRecoveredAtOnce(type, value, reason) == BreachOf(type, value) # reason

(* The alert keeps the threshold it was opened with; here both are the     *)
(* constants of one build: thresholds that change between two deployments  *)
(* while an alert is open are not represented. *)
HasRecovered(type, value, reason) ==
  IF reason = "above_max"
  THEN value <= Bounds[type][reason] - Hysteresis[type]
  ELSE value >= Bounds[type][reason] + Hysteresis[type]

(* Seeded fault: any breach keeps the open alert going. *)
DecideAlertTransitionOneSided(open, type, value) ==
  CASE open = None -> IF BreachOf(type, value) = None THEN "none" ELSE "open"
    [] open # None /\ BreachOf(type, value) = None /\ HasRecovered(type, value, open) -> "resolve"
    [] OTHER -> "ongoing"

(* `open` is the reason of the open alert, or None. *)
DecideAlertTransition(open, type, value) ==
  LET breach == BreachOf(type, value) IN
  CASE open = None /\ breach = None -> "none"
    [] open = None /\ breach # None -> "open"
    [] open # None /\ breach \notin {None, open} -> "reopen"
    [] open # None /\ breach = None /\ HasRecovered(type, value, open) -> "resolve"
    [] OTHER -> "ongoing"
=============================================================================
