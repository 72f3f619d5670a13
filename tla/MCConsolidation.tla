-------------------------- MODULE MCConsolidation --------------------------
(***************************************************************************)
(* Small instances of Consolidation.  co2 has an upper threshold only,     *)
(* temperature both; the scale is theirs, shrunk: beyond 5 or under 2 is a *)
(* breach, a margin of 1, and 9 is no temperature.                         *)
(***************************************************************************)
EXTENDS Consolidation, TLC

CONSTANTS d1, d2, a, b, c

Ranges == "temperature" :> [min |-> 0, max |-> 8]
Thresholds ==
  "temperature" :> ("above_max" :> 5 @@ "below_min" :> 2) @@ "co2" :> ("above_max" :> 5)
Margins == "temperature" :> 1 @@ "co2" :> 1

Message(device, id, at, metrics) ==
  [device |-> device, defect |-> None, messageId |-> id, observedAt |-> at, metrics |-> metrics]

Temperature(value) == [type |-> "temperature", value |-> value]
Co2(value) == [type |-> "co2", value |-> value]

(* One sensor in all the orders its readings can take: too hot, in the     *)
(* margin, just back over it, too cold. *)
ThermometerMessages ==
  {Message(d1, id, at, <<Temperature(v)>>) :
     <<id, at>> \in {<<a, 1>>, <<b, 2>>, <<c, 3>>}, v \in {6, 5, 4, 1}}

(* The ways a message ends: two metrics, an implausible one, the same      *)
(* message re-dated, an unregistered device, two unreadable ones. *)
MixedMessages ==
  {Message(d1, a, 1, <<Temperature(6), Co2(6)>>),
   Message(d1, a, 2, <<Temperature(9), Co2(3)>>),
   Message(d2, b, 1, <<Temperature(4)>>),
   [Message(d1, b, 1, <<>>) EXCEPT !.defect = "invalid_json"],
   [Message(None, c, 1, <<>>) EXCEPT !.defect = "invalid_schema"]}
=============================================================================
