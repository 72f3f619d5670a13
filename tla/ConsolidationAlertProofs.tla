---------------------- MODULE ConsolidationAlertProofs ----------------------
(***************************************************************************)
(* Alerts tell the truth: proofs that each is founded on readings, that    *)
(* the open one answers to the last reading evaluated, and that the table  *)
(* of each stream follows ADR 0015, whatever threw after being applied.    *)
(***************************************************************************)
EXTENDS ConsolidationProofs

USE DEF Consolidating, Handling

Evaluating == {"evaluating", "reopening"}

(* One alert of AlertsAreTrue: the readings it was opened and resolved by. *)
Opener(a, x) == x.at = a.openedAt /\ Breaches(a.stream[2], x.value, a.reason)

Resolver(a, x) == x.at = a.resolvedAt /\ HasRecovered(a.stream[2], x.value, a.reason)

IsTrue(a) ==
  /\ \E x \in Stored(a.stream) : Opener(a, x)
  /\ a.resolvedAt # None =>
       a.resolvedAt > a.openedAt /\ \E x \in Stored(a.stream) : Resolver(a, x)

(* Every date an alert shows is the date of a reading, ... *)
Dated ==
  \A a \in alerts :
    a.openedAt <= a.lastSeenAt /\ \E x \in Stored(a.stream) : x.at = a.lastSeenAt

(* ... and one is the last of its stream. *)
HasLastDate ==
  \A s \in Streams : AlertDates(s) # {} =>
    \E at \in AlertDates(s) : \A other \in AlertDates(s) : other <= at

(* The reading whose alert is evaluated is the last of its stream, was not *)
(* evaluated before, and no alert of the stream has seen it yet. *)
EvaluationInOrder ==
  stage \in Evaluating =>
    /\ Reading \notin evaluated
    /\ \A y \in Stored(Reading.stream) : y = Reading \/ y.at < Reading.at
    /\ \A a \in alerts : a.stream = Reading.stream =>
         IF stage = "evaluating" THEN a.lastSeenAt < Reading.at
                                 ELSE a.lastSeenAt <= Reading.at /\ a.openKey # Reading.stream

Truth == (\A a \in alerts : IsTrue(a)) /\ Dated /\ HasLastDate

(* Holds in every state that is reachable, and makes the rest inductive. *)
AInv == Typed /\ OneOpenAlert /\ HasLatest /\ Truth /\ EvaluationInOrder /\ AlertMatchesLatest

-----------------------------------------------------------------------------
(* The rules *)

LEMMA TransitionRules ==
  ASSUME NEW open, NEW type, NEW value
  PROVE  LET breach == BreachOf(type, value)
             transition == DecideAlertTransition(open, type, value)
         IN
         /\ transition \in {"none", "open"} => open = None
         /\ transition \in {"none", "resolve"} => breach = None
         /\ transition \in {"open", "reopen"} => breach # None
         /\ transition \in {"ongoing", "resolve", "reopen"} => open # None
         /\ transition = "resolve" => HasRecovered(type, value, open)
         /\ transition = "reopen" => breach # open
         /\ transition = "ongoing" =>
              breach = open \/ (breach = None /\ ~HasRecovered(type, value, open))
  BY DEF DecideAlertTransition

LEMMA BreachIsOf ==
  ASSUME NEW type, NEW value, BreachOf(type, value) # None
  PROVE  Breaches(type, value, BreachOf(type, value)) /\ BreachOf(type, value) \in Reasons
  BY DEF BreachOf, Reasons

(* A value beyond a threshold is not back over its margin, ... *)
LEMMA BreachNotRecovered ==
  ASSUME NEW type, NEW value \in Int, NEW reason \in Reasons, Breaches(type, value, reason)
  PROVE  ~HasRecovered(type, value, reason)
  <1>1. /\ type \in DOMAIN Bounds /\ reason \in DOMAIN Bounds[type]
        /\ Bounds[type][reason] \in Int /\ Hysteresis[type] \in Nat
    BY RulesAssumption DEF Breaches
  <1> QED BY <1>1 DEF Breaches, HasRecovered, Reasons

(* ... but it is back over the margin of the opposite one. *)
LEMMA OppositeRecovers ==
  ASSUME NEW type, NEW value \in Int, NEW reason \in Reasons,
         type \in DOMAIN Bounds, reason \in DOMAIN Bounds[type],
         BreachOf(type, value) \notin {None, reason}
  PROVE  HasRecovered(type, value, reason)
  <1> DEFINE other == BreachOf(type, value)
  <1>1. other \in Reasons /\ Breaches(type, value, other) /\ other # reason
    BY BreachIsOf
  <1> HIDE DEF other
  <1>2. DOMAIN Bounds[type] = Reasons
    BY <1>1, RulesAssumption DEF Breaches, Reasons
  <1>3. /\ Bounds[type]["below_min"] \in Int /\ Bounds[type]["above_max"] \in Int
        /\ Hysteresis[type] \in Nat
        /\ Bounds[type]["below_min"] + Hysteresis[type] <= Bounds[type]["above_max"]
    BY <1>2, RulesAssumption, MarginAssumption DEF Reasons
  <1>4. CASE reason = "above_max" /\ other = "below_min"
    BY <1>1, <1>3, <1>4 DEF Breaches, HasRecovered
  <1>5. CASE reason = "below_min" /\ other = "above_max"
    BY <1>1, <1>3, <1>5 DEF Breaches, HasRecovered
  <1> QED BY <1>1, <1>4, <1>5 DEF Reasons

-----------------------------------------------------------------------------
(* What the worker knows of the open alert *)

LEMMA OpenReasonIs ==
  ASSUME Typed, OneOpenAlert, NEW s \in Streams
  PROVE  /\ OpenReason(s) = None <=> OpenAlerts(s) = {}
         /\ \A a \in OpenAlerts(s) :
              OpenReason(s) = a.reason /\ a.reason \in Reasons /\ OpenAlerts(s) = {a}
  <1>1. \A a \in OpenAlerts(s) : a.reason \in Reasons /\ a.reason # None
    BY RulesAssumption DEF OpenAlerts, Typed, TypeOK, TablesOK, Alert
  <1>2. \A a \in OpenAlerts(s) : OpenAlerts(s) = {a}
    BY KeyHolder
  <1> QED BY <1>1, <1>2 DEF OpenReason

LEMMA EvaluatedReading ==
  ASSUME Typed, stage \in Evaluating
  PROVE  /\ Reading \in measurements /\ Reading \in Measurement
         /\ Reading.stream \in Streams /\ Reading.value \in Int /\ Reading.at \in Nat
         /\ Reading.stream = Stream /\ Reading.stream[2] = Metric.type /\ Reading.value = Metric.value
         /\ \E m \in Messages : Reading.at = m.observedAt
  <1>1. stage \in Handling /\ stage \in {"evaluating", "reopening"}
    BY DEF Evaluating
  <1> QED BY <1>1, ReadingInHand DEF Measurement

(* Only Store and the evaluations write what the alerts are judged by, and *)
(* no other step begins an evaluation or goes on with one. *)
LEMMA AlertStep ==
  ASSUME [Next]_vars
  PROVE  \/ /\ UNCHANGED <<alerts, measurements, evaluated>>
            /\ (stage' \notin Evaluating \/ UNCHANGED <<stage, current, metric>>)
         \/ Store \/ EvaluateNone \/ OpenAlert \/ RecordOngoing \/ Resolve \/ ResolveToReopen
  <1> USE DEF memoryVars, baseVars, batchVars, alertVars, eventVars, processVars, journalVars, Evaluating
  <1>1. CASE UNCHANGED vars
    BY <1>1 DEF vars
  <1>2. CASE Journal
    BY <1>2 DEF Journal, Tick, HandleMeasurementMessage, Inserted, InsertionLost
  <1>3. CASE StartTick \/ Load \/ Read \/ FinishEvent \/ Salvage \/ Count
    BY <1>3 DEF StartTick, Load, Read, FinishEvent, Salvage, Count, Rearm
  <1>4. CASE StartEvent
    <2>1. stage' \in {"rejecting", "consolidating"}
      BY <1>4 DEF StartEvent
    <2> QED BY <1>4, <2>1 DEF StartEvent
  <1>5. CASE EndBatch \/ Save
    BY <1>5 DEF EndBatch, Save, Continue, Throw, Rearm
  <1>6. CASE Reject \/ RejectUnknownDevice \/ EndMetrics
    BY <1>6 DEF Reject, RejectUnknownDevice, EndMetrics, AtMetric
  <1>7. CASE RecordDeadLetter
    BY <1>7 DEF RecordDeadLetter, Answered, Proceed, Throw, Rearm
  <1>8. CASE Lifecycle
    BY <1>8 DEF Lifecycle, CallFails, Crash, Stop, Exit, Start, Throw, Rearm
  <1> QED BY <1>1, <1>2, <1>3, <1>4, <1>5, <1>6, <1>7, <1>8 DEF Next, Loop, Process

LEMMA TruthIsAlertsAreTrue ==
  ASSUME Typed, \A a \in alerts : IsTrue(a)
  PROVE  AlertsAreTrue
  BY DEF AlertsAreTrue, IsTrue, Opener, Resolver, HasRecovered, Margin

-----------------------------------------------------------------------------
(* What the evaluations write *)

(* The one alert an evaluation leaves in the place of the open one. *)
Writes(n) ==
  LET r == Reading IN
  /\ n \in Alert /\ n.stream = r.stream
  /\ alerts' = (alerts \ OpenAlerts(r.stream)) \cup {n}
  /\ n.lastSeenAt = r.at /\ n.lastValue = r.value /\ n.openedAt <= r.at
  /\ n.openKey = IF IsOpen(n) THEN r.stream ELSE None
  /\ IsTrue(n)
  /\ IsOpen(n) => ~HasRecovered(r.stream[2], r.value, n.reason)

LEMMA OpenWrites ==
  ASSUME AInv, OpenAlert
  PROVE  OpenAlerts(Reading.stream) = {} /\ \E n \in Alert : Writes(n) /\ IsOpen(n)
  <1> DEFINE r == Reading
             n == [stream |-> r.stream, reason |-> BreachOf(r.stream[2], r.value),
                   openedAt |-> r.at, lastValue |-> r.value, lastSeenAt |-> r.at,
                   resolvedAt |-> None, openKey |-> r.stream]
  <1>1. stage \in Evaluating /\ alerts' = Opened(r)
    BY DEF OpenAlert, Evaluating
  <1>2. /\ r \in measurements /\ r \in Measurement /\ r.stream \in Streams
        /\ r.value \in Int /\ r.at \in Nat /\ r.stream = Stream /\ r.stream[2] = Metric.type
        /\ r.value = Metric.value
    BY <1>1, EvaluatedReading DEF AInv
  <1>3. OpenAlerts(r.stream) = {}
    <2>1. CASE stage = "evaluating" /\ Transition = "open"
      <3>1. OpenReason(Stream) = None
        BY <2>1, TransitionRules DEF Transition
      <3>2. OpenReason(r.stream) = None
        BY <1>2, <3>1
      <3> QED BY <1>2, <3>2, OpenReasonIs DEF AInv
    <2>2. CASE stage = "reopening"
      BY <1>1, <1>2, <2>2, KeyHolder DEF AInv, EvaluationInOrder, OpenAlerts
    <2> QED BY <2>1, <2>2 DEF OpenAlert
  <1>4. BreachOf(r.stream[2], r.value) # None
    BY OpeningBreaches DEF AInv
  <1>5. /\ n.stream = r.stream /\ n.reason = BreachOf(r.stream[2], r.value) /\ n.openedAt = r.at
        /\ n.lastValue = r.value /\ n.lastSeenAt = r.at /\ n.resolvedAt = None /\ n.openKey = r.stream
    OBVIOUS
  <1>6. n \in Alert
    BY <1>2, <1>4, BreachIsOf DEF Alert
  <1>7. alerts' = alerts \cup {n}
    BY <1>1, <1>3 DEF Opened
  <1> HIDE DEF n
  <1>8. Breaches(r.stream[2], r.value, n.reason) /\ n.reason \in Reasons
    BY <1>4, <1>5, BreachIsOf
  <1>9. IsTrue(n)
    BY <1>2, <1>5, <1>8 DEF IsTrue, Opener, Stored
  <1>10. ~HasRecovered(r.stream[2], r.value, n.reason)
    BY <1>2, <1>8, BreachNotRecovered
  <1>11. alerts' = (alerts \ OpenAlerts(r.stream)) \cup {n}
    BY <1>3, <1>7
  <1>12. Writes(n) /\ IsOpen(n)
    BY <1>2, <1>5, <1>6, <1>9, <1>10, <1>11 DEF Writes, IsOpen
  <1> QED BY <1>3, <1>6, <1>12

(* The open alert an evaluation finds: opened and seen before the reading. *)
LEMMA FoundOpen ==
  ASSUME AInv, stage = "evaluating", OpenReason(Stream) # None
  PROVE  \E a \in Alert :
           /\ OpenAlerts(Reading.stream) = {a} /\ a \in alerts
           /\ OpenReason(Stream) = a.reason
           /\ a.stream = Reading.stream /\ a.openKey = Reading.stream /\ a.resolvedAt = None
           /\ a.openedAt < Reading.at /\ a.lastSeenAt < Reading.at
           /\ \E x \in Stored(a.stream) : Opener(a, x)
  <1>1. /\ Reading.stream \in Streams /\ Reading.stream = Stream /\ Reading.at \in Nat
    BY EvaluatedReading DEF AInv, Evaluating
  <1>2. PICK a \in OpenAlerts(Reading.stream) : TRUE
    BY <1>1, OpenReasonIs DEF AInv
  <1>3. OpenAlerts(Reading.stream) = {a} /\ OpenReason(Stream) = a.reason
    BY <1>1, <1>2, OpenReasonIs DEF AInv
  <1>4. a \in alerts /\ a.stream = Reading.stream /\ a.resolvedAt = None /\ a.openKey = Reading.stream
    BY <1>1, <1>2, KeyHolder DEF AInv, IsOpen, OpenAlerts
  <1>5. a \in Alert /\ a.openedAt \in Nat /\ a.lastSeenAt \in Nat
    BY <1>4 DEF AInv, Typed, TypeOK, TablesOK, Alert
  <1>6. a.lastSeenAt < Reading.at
    BY <1>4 DEF AInv, EvaluationInOrder, Evaluating
  <1>7. a.openedAt <= a.lastSeenAt /\ \E x \in Stored(a.stream) : Opener(a, x)
    BY <1>4 DEF AInv, Truth, Dated, IsTrue
  <1>8. a.openedAt < Reading.at
    BY <1>1, <1>5, <1>6, <1>7
  <1> QED BY <1>3, <1>4, <1>5, <1>6, <1>7, <1>8

LEMMA OngoingWrites ==
  ASSUME AInv, RecordOngoing
  PROVE  OpenReason(Stream) # None /\ \E n \in Alert : Writes(n) /\ IsOpen(n) /\ n.reason = OpenReason(Stream)
  <1> DEFINE r == Reading
  <1>1. stage = "evaluating" /\ stage \in Evaluating /\ alerts' = Seen(r) /\ Transition = "ongoing"
    BY DEF RecordOngoing, Evaluating
  <1>2. /\ r.stream \in Streams /\ r.value \in Int /\ r.at \in Nat /\ r.stream = Stream
        /\ r.stream[2] = Metric.type /\ r.value = Metric.value
    BY <1>1, EvaluatedReading DEF AInv
  <1>3. OpenReason(Stream) # None
    BY <1>1, TransitionRules DEF Transition
  <1>4. PICK a \in Alert :
          /\ OpenAlerts(r.stream) = {a} /\ a \in alerts
          /\ OpenReason(Stream) = a.reason
          /\ a.stream = r.stream /\ a.openKey = r.stream /\ a.resolvedAt = None
          /\ a.openedAt < r.at /\ a.lastSeenAt < r.at
          /\ \E x \in Stored(a.stream) : Opener(a, x)
    BY <1>1, <1>3, FoundOpen
  <1> DEFINE n == SeenAt(a, r)
  <1>5. /\ n \in Alert /\ n.stream = a.stream /\ n.reason = a.reason /\ n.openedAt = a.openedAt
        /\ n.lastValue = r.value /\ n.lastSeenAt = r.at /\ n.resolvedAt = None /\ n.openKey = a.openKey
    BY <1>2, <1>4 DEF SeenAt, Alert
  <1>6. alerts' = (alerts \ OpenAlerts(r.stream)) \cup {n}
    BY <1>1, <1>4 DEF Seen
  <1> HIDE DEF n
  <1>7. ~HasRecovered(r.stream[2], r.value, n.reason)
    <2>1. CASE BreachOf(Metric.type, Metric.value) = OpenReason(Stream)
      <3>1. Breaches(r.stream[2], r.value, n.reason) /\ n.reason \in Reasons
        BY <1>2, <1>3, <1>4, <1>5, <2>1, BreachIsOf
      <3> QED BY <1>2, <3>1, BreachNotRecovered
    <2>2. CASE ~HasRecovered(Metric.type, Metric.value, OpenReason(Stream))
      BY <1>2, <1>4, <1>5, <2>2
    <2> QED BY <1>1, <2>1, <2>2, TransitionRules DEF Transition
  <1>8. IsTrue(n)
    BY <1>4, <1>5 DEF IsTrue, Opener
  <1>9. a.openedAt \in Nat
    BY DEF Alert
  <1>10. Writes(n) /\ IsOpen(n)
    BY <1>2, <1>4, <1>5, <1>6, <1>7, <1>8, <1>9 DEF Writes, IsOpen
  <1> QED BY <1>3, <1>4, <1>5, <1>10

LEMMA ResolveWrites ==
  ASSUME AInv, Resolve \/ ResolveToReopen
  PROVE  OpenReason(Stream) # None /\ \E n \in Alert : Writes(n) /\ ~IsOpen(n)
  <1> DEFINE r == Reading
  <1>1. /\ stage = "evaluating" /\ stage \in Evaluating /\ alerts' = Resolved(r)
        /\ Transition \in {"resolve", "reopen"}
    BY DEF Resolve, ResolveToReopen, Evaluating
  <1>2. /\ r \in measurements /\ r.stream \in Streams /\ r.value \in Int /\ r.at \in Nat
        /\ r.stream = Stream /\ r.stream[2] = Metric.type /\ r.value = Metric.value
    BY <1>1, EvaluatedReading DEF AInv
  <1>3. OpenReason(Stream) # None
    BY <1>1, TransitionRules DEF Transition
  <1>4. PICK a \in Alert :
          /\ OpenAlerts(r.stream) = {a} /\ a \in alerts
          /\ OpenReason(Stream) = a.reason
          /\ a.stream = r.stream /\ a.openKey = r.stream /\ a.resolvedAt = None
          /\ a.openedAt < r.at /\ a.lastSeenAt < r.at
          /\ \E x \in Stored(a.stream) : Opener(a, x)
    BY <1>1, <1>3, FoundOpen
  <1> DEFINE n == ResolvedBy(a, r)
  <1>5. /\ n \in Alert /\ n.stream = a.stream /\ n.reason = a.reason /\ n.openedAt = a.openedAt
        /\ n.lastValue = r.value /\ n.lastSeenAt = r.at /\ n.resolvedAt = r.at /\ n.openKey = None
    BY <1>2, <1>4 DEF ResolvedBy, Alert
  <1>6. alerts' = (alerts \ OpenAlerts(r.stream)) \cup {n}
    BY <1>1, <1>4 DEF Resolved
  <1> HIDE DEF n
  <1>7. HasRecovered(r.stream[2], r.value, n.reason)
    <2>1. CASE Transition = "resolve"
      BY <1>2, <1>4, <1>5, <2>1, TransitionRules DEF Transition
    <2>2. CASE Transition = "reopen"
      <3>1. BreachOf(r.stream[2], r.value) \notin {None, a.reason}
        BY <1>2, <1>4, <2>2, TransitionRules DEF Transition
      <3>2. /\ a.reason \in Reasons /\ r.stream[2] \in DOMAIN Bounds
            /\ a.reason \in DOMAIN Bounds[r.stream[2]]
        BY <1>4 DEF Opener, Breaches, Alert
      <3> QED BY <1>2, <1>5, <3>1, <3>2, OppositeRecovers
    <2> QED BY <1>1, <2>1, <2>2
  <1>8. IsTrue(n)
    BY <1>2, <1>4, <1>5, <1>7 DEF IsTrue, Opener, Resolver, Stored
  <1>9. n.resolvedAt # None /\ a.openedAt \in Nat
    BY <1>2, <1>5, RulesAssumption DEF Alert
  <1>10. Writes(n) /\ ~IsOpen(n)
    BY <1>2, <1>4, <1>5, <1>6, <1>8, <1>9 DEF Writes, IsOpen
  <1> QED BY <1>3, <1>5, <1>10

-----------------------------------------------------------------------------
(* The invariant, step by step *)

LEMMA LatestInHand ==
  ASSUME AInv, stage \in Evaluating
  PROVE  \A x \in Latest(Stored(Reading.stream)) : x = Reading
  <1>1. Reading \in Stored(Reading.stream) /\ Reading.at \in Nat
    BY EvaluatedReading DEF AInv, Stored
  <1>2. ASSUME NEW x \in Latest(Stored(Reading.stream)), x # Reading
        PROVE  FALSE
    <2>1. x \in Stored(Reading.stream) /\ Reading.at <= x.at
      BY <1>1 DEF Latest
    <2>2. x.at < Reading.at /\ x.at \in Nat
      BY <1>2, <2>1 DEF AInv, EvaluationInOrder, Stored, Typed, TypeOK, TablesOK, Measurement
    <2> QED BY <1>1, <2>1, <2>2
  <1> QED BY <1>2

(* A step that neither stores nor evaluates. *)
LEMMA NothingWritten ==
  ASSUME AInv, UNCHANGED <<alerts, measurements, evaluated>>,
         (stage' \notin Evaluating \/ UNCHANGED <<stage, current, metric>>)
  PROVE  Truth' /\ EvaluationInOrder' /\ AlertMatchesLatest'
  <1>1. \A s : Stored(s)' = Stored(s) /\ AlertDates(s)' = AlertDates(s)
    BY DEF Stored, AlertDates
  <1>2. Truth'
    BY <1>1 DEF AInv, Truth, IsTrue, Dated, HasLastDate
  <1>3. EvaluationInOrder'
    BY <1>1 DEF AInv, EvaluationInOrder, Reading
  <1>4. AlertMatchesLatest'
    BY <1>1 DEF AInv, AlertMatchesLatest, IsOpen
  <1> QED BY <1>2, <1>3, <1>4

(* The reading that Store adds is the last of its stream, so nothing was   *)
(* written of it yet. *)
LEMMA StoreKeeps ==
  ASSUME AInv, Store
  PROVE  Truth' /\ EvaluationInOrder' /\ AlertMatchesLatest'
  <1>1. measurements' = measurements \cup {Reading} /\ UNCHANGED <<alerts, evaluated>>
    BY DEF Store, alertVars
  <1>2. \A y \in Stored(Reading.stream) : y.at < Reading.at
    BY AcceptedIsLatest DEF AInv, Store
  <1>3. Reading \in Measurement /\ Reading.at \in Nat /\ Reading.stream \in Streams
    BY ReadingInHand DEF Store, AtMetric, AInv, Measurement
  <1>4. Reading \notin measurements /\ Reading \notin evaluated
    BY <1>2, <1>3 DEF Stored, AInv, Typed, TypeOK, TablesOK
  <1>5. \A s : /\ Stored(s) \subseteq Stored(s)'
               /\ s # Reading.stream => Stored(s)' = Stored(s)
               /\ s = Reading.stream => Stored(s)' = Stored(s) \cup {Reading}
               /\ AlertDates(s)' = AlertDates(s)
    BY <1>1 DEF Stored, AlertDates
  <1>6. Truth'
    BY <1>1, <1>5 DEF AInv, Truth, IsTrue, Dated, HasLastDate
  <1>7. \A a \in alerts : a.stream = Reading.stream =>
          a.lastSeenAt < Reading.at
    BY <1>2 DEF AInv, Truth, Dated
  <1>8. EvaluationInOrder'
    <2>1. CASE Proceed("evaluating")
      <3>1. Reading' = Reading /\ stage' = "evaluating"
        BY <2>1 DEF Store, Proceed, batchVars, eventVars, Reading
      <3>2. Reading \notin evaluated'
        BY <1>1, <1>4
      <3>3. \A y \in Stored(Reading.stream)' : y = Reading \/ y.at < Reading.at
        BY <1>2, <1>5, <3>1
      <3> QED BY <1>1, <1>7, <3>1, <3>2, <3>3 DEF EvaluationInOrder
    <2>2. CASE Throw
      BY <2>2 DEF Throw, Rearm, EvaluationInOrder, Evaluating
    <2> QED BY <2>1, <2>2 DEF Store, Answered
  <1>9. AlertMatchesLatest'
    <2>1. ASSUME NEW s \in Streams, NEW x \in Latest(Stored(s)'), x \in evaluated
          PROVE  x \in Latest(Stored(s)) /\ Stored(s)' = Stored(s)
      <3>1. CASE s = Reading.stream
        <4>1. x \in Stored(s) /\ x.at \in Nat /\ Reading \in Stored(s)'
          BY <1>4, <1>5, <2>1, <3>1 DEF Latest, AInv, Typed, TypeOK, TablesOK, Measurement
        <4>2. Reading.at <= x.at /\ x.at < Reading.at
          BY <1>2, <2>1, <3>1, <4>1 DEF Latest
        <4> QED BY <1>3, <4>1, <4>2
      <3>2. CASE s # Reading.stream
        BY <1>5, <2>1, <3>2
      <3> QED BY <3>1, <3>2
    <2> QED BY <1>1, <2>1 DEF AInv, AlertMatchesLatest, IsOpen
  <1> QED BY <1>6, <1>8, <1>9

(* What an evaluation leaves of the alerts of each stream. *)
LEMMA WrittenAlerts ==
  ASSUME AInv, stage \in Evaluating, NEW n \in Alert, Writes(n)
  PROVE  /\ n \in alerts'
         /\ \A a \in alerts' :
              \/ a = n
              \/ /\ a \in alerts
                 /\ a.stream = Reading.stream =>
                      a.resolvedAt # None /\ a.openKey # Reading.stream /\ a.lastSeenAt <= Reading.at
         /\ \A a \in alerts : a.stream # Reading.stream => a \in alerts'
         /\ n.stream = Reading.stream /\ n.lastSeenAt = Reading.at
         /\ \A a \in alerts : a.stream = Reading.stream => a.lastSeenAt <= Reading.at
  <1>1. /\ Reading.stream \in Streams /\ Reading.at \in Nat
        /\ alerts' = (alerts \ OpenAlerts(Reading.stream)) \cup {n}
        /\ n.stream = Reading.stream /\ n.lastSeenAt = Reading.at
    BY EvaluatedReading DEF AInv, Writes
  <1>2. \A a \in OpenAlerts(Reading.stream) : a.stream = Reading.stream
    BY <1>1, KeyHolder DEF AInv
  <1>3. \A a \in alerts : a.stream = Reading.stream => a.lastSeenAt <= Reading.at
    <2>1. \A a \in alerts : a.lastSeenAt \in Nat
      BY DEF AInv, Typed, TypeOK, TablesOK, Alert
    <2> QED BY <1>1, <2>1 DEF AInv, EvaluationInOrder, Evaluating
  <1>4. \A a \in alerts \ OpenAlerts(Reading.stream) : a.stream = Reading.stream =>
          a.resolvedAt # None /\ a.openKey # Reading.stream
    BY DEF AInv, OneOpenAlert, IsOpen, OpenAlerts
  <1> QED BY <1>1, <1>2, <1>3, <1>4

LEMMA WrittenKeeps ==
  ASSUME AInv, stage \in Evaluating, measurements' = measurements, NEW n \in Alert, Writes(n),
         \/ evaluated' = evaluated
         \/ /\ evaluated' = evaluated \cup {Reading}
            /\ BreachOf(Reading.stream[2], Reading.value) = None \/ IsOpen(n)
  PROVE  Truth' /\ AlertMatchesLatest'
  <1>1. \A s : Stored(s)' = Stored(s)
    BY DEF Stored
  <1>2. /\ Reading \in measurements /\ Reading.stream \in Streams /\ Reading.at \in Nat
    BY EvaluatedReading DEF AInv
  <1>3. \A a \in alerts' : IsTrue(a)'
    <2>1. \A a \in alerts' : IsTrue(a)
      BY WrittenAlerts DEF AInv, Truth, Writes
    <2> QED BY <1>1, <2>1 DEF IsTrue
  <1>4. Dated'
    <2>1. n.openedAt <= n.lastSeenAt /\ \E x \in Stored(n.stream) : x.at = n.lastSeenAt
      BY <1>2 DEF Writes, Stored
    <2> QED BY <1>1, <2>1, WrittenAlerts DEF AInv, Truth, Dated
  <1>5. HasLastDate'
    <2> SUFFICES ASSUME NEW s \in Streams, AlertDates(s)' # {}
                 PROVE  \E at \in AlertDates(s)' : \A other \in AlertDates(s)' : other <= at
      BY DEF HasLastDate
    <2>1. AlertDates(s)' = {a.lastSeenAt : a \in {b \in alerts' : b.stream = s}}
      BY DEF AlertDates
    <2>2. CASE s = Reading.stream
      <3>1. Reading.at \in AlertDates(s)'
        BY <2>1, <2>2, WrittenAlerts
      <3>2. \A a \in alerts' : a.stream = s => a.lastSeenAt <= Reading.at
        BY <1>2, <2>2, WrittenAlerts
      <3>3. \A other \in AlertDates(s)' : other <= Reading.at
        BY <2>1, <3>2
      <3> QED BY <3>1, <3>3
    <2>3. CASE s # Reading.stream
      <3>1. AlertDates(s)' = AlertDates(s)
        BY <2>1, <2>3, WrittenAlerts DEF AlertDates
      <3> QED BY <3>1 DEF AInv, Truth, HasLastDate
    <2> QED BY <2>2, <2>3
  <1>6. AlertMatchesLatest'
    <2> SUFFICES ASSUME NEW s \in Streams, NEW x \in Latest(Stored(s)), x \in evaluated'
                 PROVE  LET open == {a \in alerts' : a.stream = s /\ a.resolvedAt = None} IN
                        /\ BreachOf(s[2], x.value) # None => open # {}
                        /\ \A a \in open :
                             /\ a.lastSeenAt = x.at /\ a.lastValue = x.value
                             /\ ~HasRecovered(s[2], x.value, a.reason)
      BY <1>1 DEF AlertMatchesLatest, IsOpen
    <2>1. CASE s = Reading.stream
      <3>1. x = Reading /\ x \notin evaluated
        BY <2>1, LatestInHand DEF AInv, EvaluationInOrder
      <3>2. BreachOf(Reading.stream[2], Reading.value) = None \/ n.resolvedAt = None
        BY <3>1 DEF IsOpen
      <3>3. \A a \in alerts' : a.stream = s /\ a.resolvedAt = None => a = n
        BY <2>1, WrittenAlerts
      <3>4. /\ n.lastSeenAt = x.at /\ n.lastValue = x.value
            /\ n.resolvedAt = None => ~HasRecovered(s[2], x.value, n.reason)
        BY <2>1, <3>1 DEF Writes, IsOpen
      <3>5. n \in alerts' /\ n.stream = s
        BY <2>1, WrittenAlerts
      <3> QED BY <2>1, <3>1, <3>2, <3>3, <3>4, <3>5
    <2>2. CASE s # Reading.stream
      <3>1. x \in evaluated
        BY <2>2 DEF Latest, Stored
      <3>2. {a \in alerts' : a.stream = s /\ a.resolvedAt = None}
              = {a \in alerts : a.stream = s /\ a.resolvedAt = None}
        BY <2>2, WrittenAlerts
      <3> QED BY <3>1, <3>2 DEF AInv, AlertMatchesLatest, IsOpen
    <2> QED BY <2>1, <2>2
  <1> QED BY <1>3, <1>4, <1>5, <1>6 DEF Truth

LEMMA EvaluationOver ==
  ASSUME EvaluationEnds
  PROVE  /\ measurements' = measurements /\ evaluated' = evaluated \cup {Reading}
         /\ stage' \notin Evaluating
  BY DEF EvaluationEnds, Proceed, Throw, Rearm, Evaluating

LEMMA AInvNext ==
  ASSUME AInv, [Next]_vars
  PROVE  AInv'
  <1>1. Typed' /\ OneOpenAlert' /\ HasLatest'
    BY TypedNext, OneOpenAlertNext, HasLatestNext DEF AInv
  <1>2. CASE OpenAlert \/ RecordOngoing \/ Resolve
    <2>1. EvaluationEnds /\ stage \in Evaluating
      BY <1>2 DEF OpenAlert, RecordOngoing, Resolve, Evaluating
    <2>2. PICK n \in Alert :
            Writes(n) /\ (IsOpen(n) \/ BreachOf(Reading.stream[2], Reading.value) = None)
      <3>1. CASE OpenAlert \/ RecordOngoing
        BY <3>1, OpenWrites, OngoingWrites
      <3>2. CASE Resolve
        <4>1. BreachOf(Metric.type, Metric.value) = None
          BY <3>2, TransitionRules DEF Resolve, Transition
        <4>2. BreachOf(Reading.stream[2], Reading.value) = None
          BY <2>1, <4>1, EvaluatedReading DEF AInv
        <4> QED BY <3>2, <4>2, ResolveWrites
      <3> QED BY <1>2, <3>1, <3>2
    <2>3. Truth' /\ AlertMatchesLatest'
      BY <2>1, <2>2, EvaluationOver, WrittenKeeps
    <2>4. EvaluationInOrder'
      BY <2>1, EvaluationOver DEF EvaluationInOrder
    <2> QED BY <1>1, <2>3, <2>4 DEF AInv
  <1>3. CASE ResolveToReopen
    <2>1. /\ UNCHANGED <<measurements, evaluated>> /\ stage \in Evaluating
      BY <1>3 DEF ResolveToReopen, Evaluating
    <2>2. PICK n \in Alert : Writes(n) /\ ~IsOpen(n)
      BY <1>3, ResolveWrites
    <2>3. Truth' /\ AlertMatchesLatest'
      BY <2>1, <2>2, WrittenKeeps
    <2>4. EvaluationInOrder'
      <3>1. CASE Proceed("reopening")
        <4>1. Reading' = Reading /\ stage' = "reopening"
          BY <1>3, <3>1 DEF ResolveToReopen, Proceed, batchVars, eventVars, Reading
        <4>2. n.openKey # Reading.stream
          BY <2>1, <2>2, EvaluatedReading, NoneAssumption DEF Writes, AInv
        <4>3. \A a \in alerts' : a.stream = Reading.stream =>
                a.lastSeenAt <= Reading.at /\ a.openKey # Reading.stream
          <5>1. Reading.at \in Nat
            BY <2>1, EvaluatedReading DEF AInv
          <5> QED BY <2>1, <2>2, <4>2, <5>1, WrittenAlerts
        <4>4. \A y \in Stored(Reading.stream)' : y = Reading \/ y.at < Reading.at
          BY <2>1, <4>1 DEF AInv, EvaluationInOrder, Stored
        <4>5. Reading \notin evaluated'
          BY <2>1 DEF AInv, EvaluationInOrder
        <4> QED BY <4>1, <4>3, <4>4, <4>5 DEF EvaluationInOrder
      <3>2. CASE Throw
        BY <3>2 DEF Throw, Rearm, EvaluationInOrder, Evaluating
      <3> QED BY <1>3, <3>1, <3>2 DEF ResolveToReopen, Answered
    <2> QED BY <1>1, <2>3, <2>4 DEF AInv
  <1>4. CASE EvaluateNone
    <2>1. /\ UNCHANGED <<measurements, alerts>> /\ stage \in Evaluating /\ stage' \notin Evaluating
          /\ evaluated' = evaluated \cup {Reading}
      BY <1>4 DEF EvaluateNone, Evaluating
    <2>2. \A s : Stored(s)' = Stored(s) /\ AlertDates(s)' = AlertDates(s)
      BY <2>1 DEF Stored, AlertDates
    <2>3. Truth'
      BY <2>1, <2>2 DEF AInv, Truth, IsTrue, Dated, HasLastDate
    <2>4. OpenReason(Stream) = None /\ BreachOf(Metric.type, Metric.value) = None
      BY <1>4, TransitionRules DEF EvaluateNone, Transition
    <2>5. /\ Reading.stream = Stream /\ Reading.stream \in Streams
          /\ BreachOf(Reading.stream[2], Reading.value) = None
      BY <2>1, <2>4, EvaluatedReading DEF AInv
    <2>6. OpenAlerts(Reading.stream) = {}
      BY <2>4, <2>5, OpenReasonIs DEF AInv
    <2>7. \A a \in alerts : a.stream = Reading.stream => a.resolvedAt # None
      BY <2>6 DEF AInv, OneOpenAlert, IsOpen, OpenAlerts
    <2>8. AlertMatchesLatest'
      <3> SUFFICES ASSUME NEW s \in Streams, NEW x \in Latest(Stored(s)), x \in evaluated'
                   PROVE  LET open == {a \in alerts : a.stream = s /\ a.resolvedAt = None} IN
                          /\ BreachOf(s[2], x.value) # None => open # {}
                          /\ \A a \in open :
                               /\ a.lastSeenAt = x.at /\ a.lastValue = x.value
                               /\ ~HasRecovered(s[2], x.value, a.reason)
        BY <2>1, <2>2 DEF AlertMatchesLatest, IsOpen
      <3>1. CASE x = Reading
        <4>1. s = Reading.stream
          BY <3>1 DEF Latest, Stored
        <4> QED BY <2>5, <2>7, <3>1, <4>1
      <3>2. CASE x # Reading
        BY <2>1, <3>2 DEF AInv, AlertMatchesLatest, IsOpen
      <3> QED BY <3>1, <3>2
    <2>9. EvaluationInOrder'
      BY <2>1 DEF EvaluationInOrder
    <2> QED BY <1>1, <2>3, <2>8, <2>9 DEF AInv
  <1> QED BY <1>1, <1>2, <1>3, <1>4, AlertStep, StoreKeeps, NothingWritten DEF AInv

LEMMA AInvInit == Init => AInv
  <1> SUFFICES ASSUME Init PROVE AInv
    OBVIOUS
  <1>1. OneOpenAlert /\ HasLatest /\ Truth /\ AlertMatchesLatest
    BY DEF Init, OneOpenAlert, HasLatest, Stored, Truth, Dated, HasLastDate, AlertDates, AlertMatchesLatest,
           Latest
  <1>2. EvaluationInOrder
    BY DEF Init, EvaluationInOrder, Evaluating
  <1> QED BY <1>1, <1>2, TypedInit DEF AInv

THEOREM AInvCorrect == Spec => []AInv
  BY AInvInit, AInvNext, PTL DEF Spec

(* An alert tells of readings that are in the table: one beyond its        *)
(* threshold opened it, a later one back over the margin resolved it.  It  *)
(* holds whichever write of an evaluation throws after being applied. *)
THEOREM AlertsAreTrueCorrect == Spec => []AlertsAreTrue
  <1>1. AInv => AlertsAreTrue
    BY TruthIsAlertsAreTrue DEF AInv, Truth
  <1> QED BY <1>1, AInvCorrect, PTL

(* Self-repair: whatever evaluations failed before, the evaluation of the  *)
(* last reading of a stream leaves the open alert that reading asks for.   *)
THEOREM AlertMatchesLatestCorrect == Spec => []AlertMatchesLatest
  <1>1. AInv => AlertMatchesLatest
    BY DEF AInv
  <1> QED BY <1>1, AInvCorrect, PTL

-----------------------------------------------------------------------------
(* ADR 0015: the alerts of each stream, seen by a reader of the table *)

(* The date the refinement mapping shows for a stream. *)
LastDate(s) ==
  IF AlertDates(s) = {} THEN -1
  ELSE CHOOSE at \in AlertDates(s) : \A other \in AlertDates(s) : other <= at

LEMMA LastDateBefore ==
  ASSUME AInv, stage \in Evaluating
  PROVE  /\ LastDate(Reading.stream) <= Reading.at
         /\ stage = "evaluating" => LastDate(Reading.stream) < Reading.at
  <1> DEFINE s == Reading.stream
  <1>1. s \in Streams /\ Reading.at \in Nat
    BY EvaluatedReading DEF AInv
  <1>2. CASE AlertDates(s) = {}
    BY <1>1, <1>2 DEF LastDate
  <1>3. CASE AlertDates(s) # {}
    <2>1. LastDate(s) \in AlertDates(s)
      BY <1>1, <1>3 DEF LastDate, AInv, Truth, HasLastDate
    <2>2. PICK a \in alerts : a.stream = s /\ a.lastSeenAt = LastDate(s)
      BY <2>1 DEF AlertDates
    <2>3. a.lastSeenAt \in Nat
      BY DEF AInv, Typed, TypeOK, TablesOK, Alert
    <2> QED BY <1>1, <2>2, <2>3 DEF AInv, EvaluationInOrder, Evaluating
  <1> QED BY <1>2, <1>3

(* An evaluation moves its stream, to the reason of the alert it leaves    *)
(* open and the date of the reading, and no other stream. *)
LEMMA ContractMoves ==
  ASSUME AInv, AInv', stage \in Evaluating, NEW n \in Alert, Writes(n),
         NEW stream \in Streams, stream = Reading.stream, NEW to,
         to = IF IsOpen(n) THEN n.reason ELSE None, NEW date, date = Reading.at
  PROVE  Contract!Moves(stream, to, date)
  <1>1. Reading.at \in Nat
    BY EvaluatedReading DEF AInv
  <1>2. ASSUME NEW o \in Streams, o # stream
        PROVE  OpenReason(o)' = OpenReason(o) /\ LastDate(o)' = LastDate(o)
    <2>1. OpenAlerts(o)' = OpenAlerts(o)
      <3>1. n.openKey # o
        BY <1>2, NoneAssumption DEF Writes
      <3>2. \A a \in OpenAlerts(stream) : a.openKey # o
        BY <1>2 DEF OpenAlerts
      <3> QED BY <3>1, <3>2 DEF Writes, OpenAlerts
    <2>2. AlertDates(o)' = AlertDates(o)
      BY <1>2, WrittenAlerts DEF AlertDates
    <2> QED BY <2>1, <2>2 DEF OpenReason, LastDate
  <1>3. OpenReason(stream)' = to
    <2>1. CASE n.resolvedAt = None
      <3>1. n \in OpenAlerts(stream)'
        BY <2>1, WrittenAlerts DEF OpenAlerts, Writes, IsOpen
      <3>2. OpenReason(stream)' = n.reason
        <4>1. \A a \in OpenAlerts(stream)' : OpenReason(stream)' = a.reason
          <5>1. Typed' /\ OneOpenAlert'
            BY DEF AInv
          <5>2. \A a \in OpenAlerts(stream)' : OpenAlerts(stream)' = {a}
            BY <5>1, NoneAssumption DEF OneOpenAlert, OpenAlerts, IsOpen
          <5> QED BY <5>2 DEF OpenReason
        <4> QED BY <3>1, <4>1
      <3> QED BY <2>1, <3>2 DEF IsOpen
    <2>2. CASE n.resolvedAt # None
      <3>1. OpenAlerts(stream)' = {}
        BY <2>2, WrittenAlerts, NoneAssumption DEF OpenAlerts, Writes, IsOpen
      <3> QED BY <2>2, <3>1 DEF OpenReason, IsOpen
    <2> QED BY <2>1, <2>2
  <1>4. LastDate(stream)' = Reading.at
    <2>1. AlertDates(stream)' = {a.lastSeenAt : a \in {b \in alerts' : b.stream = stream}}
      BY DEF AlertDates
    <2>2. Reading.at \in AlertDates(stream)'
      BY <2>1, WrittenAlerts
    <2>3. \A a \in alerts' : a.stream = stream => a.lastSeenAt <= Reading.at /\ a.lastSeenAt \in Nat
      <3>1. \A a \in alerts' : a.lastSeenAt \in Nat
        BY DEF AInv, Typed, TypeOK, TablesOK, Alert
      <3> QED BY <1>1, <3>1, WrittenAlerts
    <2>4. \A other \in AlertDates(stream)' : other <= Reading.at /\ other \in Nat
      BY <2>1, <2>3
    <2>5. \A at \in AlertDates(stream)' :
            (\A other \in AlertDates(stream)' : other <= at) => at = Reading.at
      BY <1>1, <2>2, <2>4
    <2>6. LastDate(stream)' = CHOOSE at \in AlertDates(stream)' :
                                \A other \in AlertDates(stream)' : other <= at
      BY <2>2 DEF LastDate
    <2> QED BY <2>2, <2>4, <2>5, <2>6
  <1> DEFINE reasons == [s \in Streams |-> OpenReason(s)]
             dates == [s \in Streams |-> LastDate(s)]
             reasons2 == [s \in Streams |-> OpenReason(s)']
             dates2 == [s \in Streams |-> LastDate(s)']
  <1>5. reasons2 = [reasons EXCEPT ![stream] = to]
    BY <1>2, <1>3
  <1>6. dates2 = [dates EXCEPT ![stream] = date]
    BY <1>2, <1>4
  <1> QED BY <1>5, <1>6 DEF Contract!Moves, LastDate

LEMMA ContractStep ==
  ASSUME AInv, AInv', [Next]_vars
  PROVE  [Contract!Next]_(Contract!contractVars)
  <1>1. CASE alerts' = alerts
    <2>1. \A s \in Streams : OpenReason(s)' = OpenReason(s) /\ LastDate(s)' = LastDate(s)
      BY <1>1 DEF OpenReason, OpenAlerts, LastDate, AlertDates
    <2> QED BY <2>1 DEF Contract!contractVars, LastDate
  <1>2. ASSUME stage \in Evaluating
        PROVE  \E stream \in Streams, at \in {m.observedAt : m \in Messages} :
                 stream = Reading.stream /\ at = Reading.at
    BY <1>2, EvaluatedReading DEF AInv
  <1>3. ASSUME OpenAlert PROVE Contract!Next
    <2>1. stage \in Evaluating
      BY <1>3 DEF OpenAlert, Evaluating
    <2>2. PICK n \in Alert : Writes(n) /\ IsOpen(n)
      BY <1>3, OpenWrites
    <2>3. PICK stream \in Streams, at \in {m.observedAt : m \in Messages} :
            stream = Reading.stream /\ at = Reading.at
      BY <1>2, <2>1
    <2>4. OpenReason(stream) = None /\ LastDate(stream) <= at
      BY <1>3, <2>1, <2>3, OpenWrites, OpenReasonIs, LastDateBefore DEF AInv
    <2>5. Contract!Moves(stream, n.reason, at) /\ n.reason \in Reasons
      BY <2>1, <2>2, <2>3, ContractMoves DEF Alert
    <2>6. Contract!Open(stream, at)
      BY <2>4, <2>5 DEF Contract!Open, LastDate
    <2> QED BY <2>6 DEF Contract!Next
  <1>4. ASSUME RecordOngoing PROVE Contract!Next
    <2>1. stage \in Evaluating /\ stage = "evaluating"
      BY <1>4 DEF RecordOngoing, Evaluating
    <2>2. PICK n \in Alert : Writes(n) /\ IsOpen(n) /\ n.reason = OpenReason(Stream)
      BY <1>4, OngoingWrites
    <2>3. PICK stream \in Streams, at \in {m.observedAt : m \in Messages} :
            stream = Reading.stream /\ at = Reading.at
      BY <1>2, <2>1
    <2>4. OpenReason(stream) # None /\ OpenReason(stream) = n.reason /\ LastDate(stream) < at
      BY <1>4, <2>1, <2>2, <2>3, OngoingWrites, EvaluatedReading, LastDateBefore DEF AInv
    <2>5. Contract!Moves(stream, n.reason, at)
      BY <2>1, <2>2, <2>3, ContractMoves
    <2>6. Contract!Ongoing(stream, at)
      BY <2>4, <2>5 DEF Contract!Ongoing, Contract!Moves, LastDate
    <2> QED BY <2>6 DEF Contract!Next
  <1>5. ASSUME Resolve \/ ResolveToReopen PROVE Contract!Next
    <2>1. stage \in Evaluating /\ stage = "evaluating"
      BY <1>5 DEF Resolve, ResolveToReopen, Evaluating
    <2>2. PICK n \in Alert : Writes(n) /\ ~IsOpen(n)
      BY <1>5, ResolveWrites
    <2>3. PICK stream \in Streams, at \in {m.observedAt : m \in Messages} :
            stream = Reading.stream /\ at = Reading.at
      BY <1>2, <2>1
    <2>4. OpenReason(stream) # None /\ LastDate(stream) < at
      BY <1>5, <2>1, <2>3, ResolveWrites, EvaluatedReading, LastDateBefore DEF AInv
    <2>5. Contract!Moves(stream, None, at)
      BY <2>1, <2>2, <2>3, ContractMoves
    <2>6. Contract!Resolve(stream, at)
      BY <2>4, <2>5 DEF Contract!Resolve, LastDate
    <2> QED BY <2>6 DEF Contract!Next
  <1>6. Store \/ EvaluateNone => alerts' = alerts
    BY DEF Store, EvaluateNone, alertVars
  <1> QED BY <1>1, <1>3, <1>4, <1>5, <1>6, AlertStep

LEMMA ContractInit == Init => Contract!Init
  BY DEF Init, Contract!Init, OpenReason, OpenAlerts, AlertDates

(* The Alert table implements the abstract life of an alert of ADR 0015:   *)
(* one at a time, one reason until it is resolved, readings ever later. *)
THEOREM AlertContractCorrect == Spec => FollowsAlertContract
  BY AInvCorrect, ContractInit, ContractStep, PTL DEF Spec, FollowsAlertContract, Contract!Spec
=============================================================================
