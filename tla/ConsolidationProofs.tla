------------------------ MODULE ConsolidationProofs ------------------------
(***************************************************************************)
(* Proofs about Consolidation, for any messages, devices, thresholds,      *)
(* delays, batch size and number of failures.                              *)
(***************************************************************************)
EXTENDS Consolidation, FiniteSetTheorems, TLAPS

USE DEF Consolidating, Handling

-----------------------------------------------------------------------------
(* Types *)

Typed == TypeOK /\ ReadingInOrder

LEMMA BreachType ==
  ASSUME NEW type, NEW value, BreachOf(type, value) # None
  PROVE  BreachOf(type, value) \in Reasons
  BY DEF BreachOf, Reasons

(* What ReadingOf yields for a readable event of a registered device. *)
LEMMA ReadingType ==
  ASSUME NEW e \in Event, NEW i \in DOMAIN e.message.metrics, e.message.device \in Devices
  PROVE  /\ ReadingOf(e, i) \in Measurement
         /\ ReadingOf(e, i).stream[2] = e.message.metrics[i].type
  <1>1. e.message \in Messages
    BY DEF Event
  <1>2. e.message.metrics \in Seq([type : Types, value : Int]) /\ e.message.observedAt \in Nat
    BY <1>1, MessagesAssumption
  <1>3. e.message.metrics[i] \in [type : Types, value : Int]
    <2> DEFINE M == e.message.metrics  S == [type : Types, value : Int]
    <2>1. M \in Seq(S) /\ i \in DOMAIN M
      BY <1>2
    <2> HIDE DEF M, S
    <2>2. M[i] \in S
      BY <2>1
    <2> QED BY <2>2 DEF M, S
  <1> QED BY <1>1, <1>2, <1>3 DEF ReadingOf, Measurement, Streams

LEMMA PositionType ==
  ASSUME NEW e \in Event
  PROVE  PositionOf(e) \in Cursor /\ PositionOf(e) # None
  BY NoneAssumption DEF PositionOf, Event, Cursor

(* A throw leaves the worker with nothing in hand. *)
LEMMA ThrowTyped ==
  ASSUME TypeOK, Throw, metric' \in Nat \ {0}
  PROVE  WorkOK' /\ ReadingInOrder'
  <1>1. lastDone # None => PositionOf(lastDone) \in Cursor
    BY PositionType DEF TypeOK, TablesOK, WorkOK
  <1>2. cursor' \in Cursor \cup {None} /\ stage' \in {"waiting", "stopped", "salvaging"}
    BY <1>1 DEF TypeOK, WorkOK, Throw, Rearm
  <1>3. batch' = {} /\ current' = None /\ lastDone' = None /\ faults' \in Nat
    BY DEF TypeOK, WorkOK, Throw, Faulty
  <1>4. stage' \in Stages /\ stage' \notin Handling
    BY <1>2 DEF Stages
  <1> QED BY <1>2, <1>3, <1>4 DEF WorkOK, ReadingInOrder

LEMMA ProceedTyped ==
  ASSUME TypeOK, NEW next \in Stages, Proceed(next), journal' = journal, metric' \in Nat \ {0}
  PROVE  WorkOK'
  BY DEF Proceed, batchVars, TypeOK, WorkOK

LEMMA SameReading ==
  ASSUME Typed, UNCHANGED <<stage, current, metric>>, measurements \subseteq measurements'
  PROVE  ReadingInOrder'
  BY DEF Typed, ReadingInOrder, Reading, Metric

LEMMA NoReading ==
  ASSUME current' = None, stage' \notin Handling
  PROVE  ReadingInOrder'
  BY DEF ReadingInOrder

LEMMA NotEvaluating ==
  ASSUME current' # None, stage' \in {"consolidating", "rejecting", "finishing"}
  PROVE  ReadingInOrder'
  BY DEF ReadingInOrder

LEMMA TypedInit == Init => Typed
  <1> SUFFICES ASSUME Init PROVE Typed
    OBVIOUS
  <1>1. TablesOK
    BY DEF Init, TablesOK
  <1>2. FlagsOK
    BY DEF Init, FlagsOK
  <1>3. WorkOK
    BY DEF Init, WorkOK, Stages
  <1>4. ReadingInOrder
    BY DEF Init, ReadingInOrder
  <1> QED BY <1>1, <1>2, <1>3, <1>4 DEF Typed, TypeOK

LEMMA TypedJournal ==
  ASSUME Typed, Journal
  PROVE  Typed'
  <1> USE DEF memoryVars, baseVars, batchVars, alertVars, eventVars, processVars, journalVars
  <1>1. TablesOK'
    <2>1. CASE Tick
      BY <2>1 DEF Tick, Typed, TypeOK, TablesOK
    <2>2. ASSUME NEW m \in Messages, NEW id \in Ids, HandleMeasurementMessage(m, id)
          PROVE  TablesOK'
      <3>1. [at |-> clock, id |-> id, message |-> m] \in Event
        BY DEF Event, Typed, TypeOK, TablesOK
      <3> QED BY <2>2, <3>1 DEF HandleMeasurementMessage, Typed, TypeOK, TablesOK
    <2>3. ASSUME NEW e \in inserting, Inserted(e) \/ InsertionLost(e)
          PROVE  TablesOK'
      BY <2>3 DEF Inserted, InsertionLost, Typed, TypeOK, TablesOK
    <2> QED BY <2>1, <2>2, <2>3 DEF Journal
  <1>2. /\ UNCHANGED <<stage, memoryVars, measurements>>
        /\ journal \subseteq journal' /\ faults' \in Nat
    BY DEF Journal, Tick, HandleMeasurementMessage, Inserted, InsertionLost, Faulty, Typed, TypeOK, WorkOK
  <1>3. FlagsOK'
    BY <1>2 DEF Typed, TypeOK, FlagsOK
  <1>4. WorkOK'
    BY <1>2 DEF Typed, TypeOK, WorkOK
  <1>5. ReadingInOrder'
    BY <1>2, SameReading
  <1> QED BY <1>1, <1>3, <1>4, <1>5 DEF Typed, TypeOK

LEMMA TypedLoop ==
  ASSUME Typed, Loop
  PROVE  Typed'
  <1> USE DEF memoryVars, baseVars, batchVars, alertVars, eventVars, processVars, journalVars
  <1>1. UNCHANGED <<journalVars, baseVars>> /\ (checkpoint' = checkpoint \/ checkpoint' = cursor)
    BY DEF Loop, StartTick, Load, Read, StartEvent, FinishEvent, EndBatch, Save, Salvage, Count
  <1>2. TablesOK'
    BY <1>1 DEF Typed, TypeOK, TablesOK, WorkOK
  <1>3. FlagsOK'
    <2>1. CASE StartTick \/ FinishEvent \/ EndBatch \/ Save \/ Salvage \/ Count
      BY <2>1 DEF StartTick, FinishEvent, EndBatch, Save, Salvage, Count, Typed, TypeOK, FlagsOK
    <2>2. CASE Load
      BY <2>2 DEF Load, Typed, TypeOK, FlagsOK
    <2>3. CASE Read
      BY <2>3 DEF Read, Typed, TypeOK, FlagsOK
    <2>4. CASE StartEvent
      BY <2>4 DEF StartEvent, Typed, TypeOK, FlagsOK
    <2> QED BY <2>1, <2>2, <2>3, <2>4 DEF Loop
  <1>4. WorkOK' /\ ReadingInOrder'
    <2>1. CASE StartTick
      BY <2>1, NoReading DEF StartTick, Typed, TypeOK, WorkOK, ReadingInOrder, Stages
    <2>2. CASE Load
      BY <2>2, NoReading DEF Load, Typed, TypeOK, TablesOK, WorkOK, ReadingInOrder, Stages
    <2>3. CASE Read
      BY <2>3, NoReading DEF Read, FindAfter, AfterCursor, Typed, TypeOK, WorkOK, ReadingInOrder, Stages
    <2>4. CASE StartEvent
      <3>1. PICK e \in batch :
              /\ current' = e
              /\ stage' \in {"rejecting", "consolidating"}
        BY <2>4 DEF StartEvent
      <3>2. e # None
        BY NoneAssumption DEF Typed, TypeOK, TablesOK, WorkOK
      <3> QED BY <2>4, <3>1, <3>2, NotEvaluating DEF StartEvent, Typed, TypeOK, WorkOK, Stages
    <2>5. CASE FinishEvent
      <3>1. current \in journal
        BY <2>5 DEF FinishEvent, Typed, TypeOK, WorkOK, ReadingInOrder
      <3> QED BY <2>5, <3>1, NoReading DEF FinishEvent, Typed, TypeOK, WorkOK, Stages
    <2>6. CASE EndBatch
      <3>1. lastDone # None => PositionOf(lastDone) \in Cursor
        BY PositionType DEF Typed, TypeOK, TablesOK, WorkOK
      <3>2. cursor' \in Cursor \cup {None} /\ stage' \in {"reading", "counting", "saving"}
        BY <2>6, <3>1 DEF EndBatch, Continue, Typed, TypeOK, WorkOK
      <3>3. current = None
        BY <2>6 DEF EndBatch, Typed, ReadingInOrder
      <3> QED BY <2>6, <3>2, <3>3, NoReading DEF EndBatch, Typed, TypeOK, WorkOK, Stages
    <2>7. CASE Save
      <3>1. CASE Throw
        BY <2>7, <3>1, ThrowTyped DEF Save, Typed, TypeOK, WorkOK
      <3>2. CASE Continue /\ UNCHANGED <<batchVars, faults>>
        BY <2>7, <3>2, NoReading DEF Save, Continue, Typed, TypeOK, WorkOK, ReadingInOrder, Stages
      <3> QED BY <2>7, <3>1, <3>2 DEF Save
    <2>8. CASE Salvage
      BY <2>8, NoReading DEF Salvage, Rearm, Faulty, Typed, TypeOK, WorkOK, ReadingInOrder, Stages
    <2>9. CASE Count
      BY <2>9, NoReading DEF Count, Rearm, Typed, TypeOK, WorkOK, ReadingInOrder, Stages
    <2> QED BY <2>1, <2>2, <2>3, <2>4, <2>5, <2>6, <2>7, <2>8, <2>9 DEF Loop
  <1> QED BY <1>2, <1>3, <1>4 DEF Typed, TypeOK

LEMMA TypedLifecycle ==
  ASSUME Typed, Lifecycle
  PROVE  Typed'
  <1> USE DEF memoryVars, baseVars, batchVars, alertVars, eventVars, processVars, journalVars
  <1>1. UNCHANGED <<journalVars, baseVars, checkpoint>>
    BY DEF Lifecycle, CallFails, Crash, Stop, Exit, Start
  <1>2. TablesOK'
    BY <1>1 DEF Typed, TypeOK, TablesOK
  <1>3. FlagsOK'
    <2>1. CASE CallFails \/ Start
      BY <2>1 DEF CallFails, Start, Typed, TypeOK, FlagsOK
    <2>2. CASE Crash \/ Exit
      BY <2>2 DEF Crash, Exit, Forget, Typed, TypeOK, FlagsOK
    <2>3. CASE Stop
      BY <2>3 DEF Stop, Typed, TypeOK, FlagsOK
    <2> QED BY <2>1, <2>2, <2>3 DEF Lifecycle
  <1>4. WorkOK' /\ ReadingInOrder'
    <2>1. CASE CallFails
      BY <2>1, ThrowTyped DEF CallFails, Typed, TypeOK, WorkOK
    <2>2. CASE Crash \/ Exit
      BY <2>2, NoReading DEF Crash, Exit, Forget, Faulty, Typed, TypeOK, WorkOK, Stages
    <2>3. CASE Stop /\ stage = "waiting"
      BY <2>3, NoReading DEF Stop, Faulty, Typed, TypeOK, WorkOK, ReadingInOrder, Stages
    <2>4. CASE Stop /\ stage # "waiting"
      BY <2>4, SameReading DEF Stop, Faulty, Typed, TypeOK, WorkOK
    <2>5. CASE Start
      BY <2>5, NoReading DEF Start, Typed, TypeOK, WorkOK, ReadingInOrder, Stages
    <2> QED BY <2>1, <2>2, <2>3, <2>4, <2>5 DEF Lifecycle
  <1> QED BY <1>2, <1>3, <1>4 DEF Typed, TypeOK
LEMMA AlertTypes ==
  ASSUME alerts \subseteq Alert, NEW r \in Measurement
  PROVE  /\ BreachOf(r.stream[2], r.value) # None => Opened(r) \subseteq Alert
         /\ Seen(r) \subseteq Alert
         /\ Resolved(r) \subseteq Alert
  <1>1. r.stream \in Streams /\ r.value \in Int /\ r.at \in Nat
    BY DEF Measurement
  <1>2. ASSUME BreachOf(r.stream[2], r.value) # None
        PROVE  Opened(r) \subseteq Alert
    <2>1. BreachOf(r.stream[2], r.value) \in Reasons
      BY <1>2, BreachType
    <2> QED BY <1>1, <2>1 DEF Opened, Alert
  <1>3. ASSUME NEW a \in Alert PROVE SeenAt(a, r) \in Alert
    BY <1>1 DEF SeenAt, Alert
  <1>4. ASSUME NEW a \in Alert PROVE ResolvedBy(a, r) \in Alert
    BY <1>1 DEF ResolvedBy, Alert
  <1>5. Seen(r) \subseteq Alert
    BY <1>3 DEF Seen, OpenAlerts
  <1>6. Resolved(r) \subseteq Alert
    BY <1>4 DEF Resolved, OpenAlerts
  <1> QED BY <1>2, <1>5, <1>6

(* The reading in hand: what Store writes, what the evaluations are of. *)
LEMMA ReadingInHand ==
  ASSUME Typed, stage \in Handling
  PROVE  /\ current \in journal /\ current \in batch /\ current \in Event
         /\ current.message \in Messages
         /\ current.message.metrics \in Seq([type : Types, value : Int])
         /\ current.message.observedAt \in Nat
         /\ AtMetric => metric \in DOMAIN current.message.metrics
         /\ AtMetric /\ Registered => Reading \in Measurement
         /\ stage \in {"evaluating", "reopening"} => Reading \in measurements /\ Reading \in Measurement
         /\ Reading.stream = Stream /\ Reading.stream[2] = Metric.type /\ Reading.value = Metric.value
         /\ Reading.at = current.message.observedAt
         /\ Reading.messageId = current.message.messageId
  <1>1. current \in batch /\ current \in journal /\ current \in Event
    BY DEF Typed, TypeOK, TablesOK, WorkOK, ReadingInOrder
  <1>2. current.message \in Messages
    BY <1>1 DEF Event
  <1>3. /\ current.message.metrics \in Seq([type : Types, value : Int])
        /\ current.message.observedAt \in Nat
    BY <1>2, MessagesAssumption
  <1>4. AtMetric => metric \in DOMAIN current.message.metrics
    BY <1>3 DEF AtMetric, Typed, TypeOK, WorkOK
  <1>5. AtMetric /\ Registered => Reading \in Measurement
    BY <1>1, <1>4, ReadingType DEF Registered, Reading
  <1>6. stage \in {"evaluating", "reopening"} => Reading \in measurements /\ Reading \in Measurement
    BY DEF Typed, TypeOK, TablesOK, ReadingInOrder
  <1>7. /\ Reading.stream = Stream /\ Reading.stream[2] = Metric.type /\ Reading.value = Metric.value
        /\ Reading.at = current.message.observedAt
        /\ Reading.messageId = current.message.messageId
    BY DEF Reading, ReadingOf, Metric, Stream
  <1> QED BY <1>1, <1>2, <1>3, <1>4, <1>5, <1>6, <1>7

LEMMA OpeningBreaches ==
  ASSUME Typed, OpenAlert
  PROVE  BreachOf(Reading.stream[2], Reading.value) # None
  <1>1. CASE stage = "evaluating" /\ Transition = "open"
    <2>1. BreachOf(Metric.type, Metric.value) # None
      BY <1>1 DEF Transition, DecideAlertTransition
    <2> QED BY <1>1, <2>1, ReadingInHand
  <1>2. CASE stage = "reopening"
    <2>1. BreachOf(Metric.type, Reading.value) # None
      BY <1>2 DEF Typed, ReadingInOrder
    <2> QED BY <1>2, <2>1, ReadingInHand
  <1> QED BY <1>1, <1>2 DEF OpenAlert

LEMMA TypedProcess ==
  ASSUME Typed, Process
  PROVE  Typed'
  <1> USE DEF memoryVars, baseVars, batchVars, alertVars, eventVars, processVars, journalVars
  <1>a. stage \in Handling
    BY DEF Process, Reject, RejectUnknownDevice, Store, EndMetrics, RecordDeadLetter, EvaluateNone,
           OpenAlert, RecordOngoing, Resolve, ResolveToReopen, AtMetric
  <1>b. /\ UNCHANGED journalVars /\ checkpoint' = checkpoint
        /\ UNCHANGED processVars /\ failed' \in BOOLEAN
    BY DEF Process, Reject, RejectUnknownDevice, Store, EndMetrics, RecordDeadLetter, EvaluateNone,
           OpenAlert, RecordOngoing, Resolve, ResolveToReopen, EvaluationEnds, Typed, TypeOK, FlagsOK
  <1>c. current \in journal /\ current \in Event /\ current # None /\ metric + 1 \in Nat \ {0}
    BY <1>a, ReadingInHand DEF Typed, TypeOK, WorkOK, ReadingInOrder
  <1>1. FlagsOK'
    BY <1>b DEF Typed, TypeOK, FlagsOK
  <1>2. CASE Reject \/ RejectUnknownDevice
    <2>1. TablesOK' /\ WorkOK'
      BY <1>2, <1>b, <1>c DEF Reject, RejectUnknownDevice, Typed, TypeOK, TablesOK, WorkOK
    <2>2. ReadingInOrder'
      BY <1>2, <1>c, NotEvaluating DEF Reject, RejectUnknownDevice, AtMetric
    <2> QED BY <1>1, <2>1, <2>2 DEF Typed, TypeOK
  <1>3. CASE Store
    <2>1. Reading \in Measurement
      BY <1>3, <1>a, ReadingInHand DEF Store
    <2>2. TablesOK'
      BY <1>3, <1>b, <2>1 DEF Store, Typed, TypeOK, TablesOK
    <2>3. CASE Proceed("evaluating")
      <3>1. WorkOK'
        BY <1>3, <2>3, ProceedTyped DEF Store, Typed, TypeOK, WorkOK, Stages
      <3>2. ReadingInOrder'
        BY <1>3, <2>3, <1>a, <1>c, ReadingInHand DEF Store, Proceed, ReadingInOrder, Reading, Metric
      <3> QED BY <1>1, <2>2, <3>1, <3>2 DEF Typed, TypeOK
    <2>4. CASE Throw
      BY <1>3, <2>4, <1>1, <2>2, ThrowTyped DEF Store, Typed, TypeOK, WorkOK
    <2> QED BY <1>3, <2>3, <2>4 DEF Store, Answered
  <1>4. CASE EndMetrics
    <2>1. TablesOK' /\ WorkOK'
      BY <1>4 DEF EndMetrics, Typed, TypeOK, TablesOK, WorkOK, Stages
    <2>2. ReadingInOrder'
      BY <1>4, <1>c, NotEvaluating DEF EndMetrics
    <2> QED BY <1>1, <2>1, <2>2 DEF Typed, TypeOK
  <1>5. CASE RecordDeadLetter
    <2>1. ReasonOf(current) \in DeadLetterReasons
      <3>1. current.message.defect \in Defects \cup {None}
        BY <1>a, ReadingInHand, MessagesAssumption
      <3> QED BY <3>1 DEF ReasonOf, DeadLetterReasons
    <2>2. TablesOK'
      BY <1>5, <1>b, <1>c, <2>1 DEF RecordDeadLetter, DeadLetter, Typed, TypeOK, TablesOK
    <2>3. CASE Proceed("finishing")
      <3>1. WorkOK'
        BY <1>5, <2>3, ProceedTyped DEF RecordDeadLetter, Typed, TypeOK, WorkOK, Stages
      <3>2. ReadingInOrder'
        BY <2>3, <1>c, NotEvaluating DEF Proceed
      <3> QED BY <1>1, <2>2, <3>1, <3>2 DEF Typed, TypeOK
    <2>4. CASE Throw
      BY <1>5, <2>4, <1>1, <2>2, ThrowTyped DEF RecordDeadLetter, Typed, TypeOK, WorkOK
    <2> QED BY <1>5, <2>3, <2>4 DEF RecordDeadLetter, Answered
  <1>6. CASE EvaluateNone
    <2>1. Reading \in measurements
      BY <1>6, <1>a, ReadingInHand DEF EvaluateNone
    <2>2. TablesOK' /\ WorkOK'
      BY <1>6, <2>1, <1>c DEF EvaluateNone, Typed, TypeOK, TablesOK, WorkOK, Stages
    <2>3. ReadingInOrder'
      BY <1>6, <1>c, NotEvaluating DEF EvaluateNone
    <2> QED BY <1>1, <2>2, <2>3 DEF Typed, TypeOK
  <1>7. CASE OpenAlert \/ RecordOngoing \/ Resolve
    <2>1. Reading \in measurements /\ Reading \in Measurement
      BY <1>7, <1>a, ReadingInHand DEF OpenAlert, RecordOngoing, Resolve
    <2>2. alerts' \subseteq Alert
      BY <1>7, <2>1, AlertTypes, OpeningBreaches DEF OpenAlert, RecordOngoing, Resolve, Typed, TypeOK, TablesOK
    <2>3. EvaluationEnds
      BY <1>7 DEF OpenAlert, RecordOngoing, Resolve
    <2>4. TablesOK'
      BY <2>1, <2>2, <2>3 DEF EvaluationEnds, Typed, TypeOK, TablesOK
    <2>5. CASE Proceed("consolidating") /\ metric' = metric + 1
      <3>1. WorkOK'
        BY <2>5, <1>b, <1>c, ProceedTyped DEF Typed, Stages
      <3>2. ReadingInOrder'
        BY <2>5, <1>c, NotEvaluating DEF Proceed
      <3> QED BY <1>1, <2>4, <3>1, <3>2 DEF Typed, TypeOK
    <2>6. CASE Throw /\ metric' = metric
      BY <2>6, <1>1, <2>4, ThrowTyped DEF Typed, TypeOK, WorkOK
    <2> QED BY <2>3, <2>5, <2>6 DEF EvaluationEnds
  <1>8. CASE ResolveToReopen
    <2>1. Reading \in measurements /\ Reading \in Measurement
      BY <1>8, <1>a, ReadingInHand DEF ResolveToReopen
    <2>2. TablesOK'
      BY <1>8, <2>1, AlertTypes DEF ResolveToReopen, Typed, TypeOK, TablesOK
    <2>3. BreachOf(Metric.type, Reading.value) # None
      <3>1. BreachOf(Metric.type, Metric.value) # None
        BY <1>8 DEF ResolveToReopen, Transition, DecideAlertTransition
      <3> QED BY <3>1, <1>a, ReadingInHand
    <2>4. CASE Proceed("reopening")
      <3>1. WorkOK'
        BY <1>8, <2>4, ProceedTyped DEF ResolveToReopen, Typed, TypeOK, WorkOK, Stages
      <3>2. ReadingInOrder'
        BY <1>8, <2>1, <2>3, <2>4, <1>c DEF ResolveToReopen, Proceed, Typed, ReadingInOrder, Reading, Metric
      <3> QED BY <1>1, <2>2, <3>1, <3>2 DEF Typed, TypeOK
    <2>5. CASE Throw
      BY <1>8, <2>5, <1>1, <2>2, ThrowTyped DEF ResolveToReopen, Typed, TypeOK, WorkOK
    <2> QED BY <1>8, <2>4, <2>5 DEF ResolveToReopen, Answered
  <1> QED BY <1>2, <1>3, <1>4, <1>5, <1>6, <1>7, <1>8 DEF Process

LEMMA TypedNext ==
  ASSUME Typed, [Next]_vars
  PROVE  Typed'
  <1>1. CASE UNCHANGED vars
    BY <1>1 DEF vars, memoryVars, baseVars, batchVars, alertVars, eventVars, processVars, journalVars,
                Typed, TypeOK, TablesOK, FlagsOK, WorkOK, ReadingInOrder, Reading, Metric
  <1> QED BY <1>1, TypedJournal, TypedLoop, TypedProcess, TypedLifecycle DEF Next

(* Every state the worker and its tables go through is one the code's      *)
(* types allow: no alert without a reason, no reading of an unregistered   *)
(* device, no reading evaluated before it is stored. *)
THEOREM TypeCorrect == Spec => []TypeOK
  <1>1. Spec => []Typed
    BY TypedInit, TypedNext, PTL DEF Spec
  <1>2. Typed => TypeOK
    BY DEF Typed
  <1> QED BY <1>1, <1>2, PTL
-----------------------------------------------------------------------------
(* The alerts *)

(* The key of a stream is held by one alert, which is open. *)
LEMMA KeyHolder ==
  ASSUME OneOpenAlert, NEW s \in Streams, NEW a \in OpenAlerts(s)
  PROVE  /\ a \in alerts /\ a.stream = s /\ IsOpen(a)
         /\ \A b \in alerts : b.stream = s /\ IsOpen(b) => b = a
  <1>1. s # None
    BY NoneAssumption
  <1> QED BY <1>1 DEF OneOpenAlert, OpenAlerts

(* Putting one alert of the stream, at most, in the place of the open one, *)
(* with the key if it is open and without if it is not. *)
LEMMA Replacing ==
  ASSUME OneOpenAlert, NEW s \in Streams, NEW new,
         alerts' = (alerts \ OpenAlerts(s)) \cup new,
         \A x, y \in new : x = y,
         \A x \in new : x.stream = s /\ x.openKey = IF IsOpen(x) THEN s ELSE None
  PROVE  OneOpenAlert'
  <1>1. ASSUME NEW a \in alerts'
        PROVE  a.openKey = IF a.resolvedAt = None THEN a.stream ELSE None
    BY <1>1 DEF OneOpenAlert, IsOpen
  <1>2. \A a \in alerts \ OpenAlerts(s) : a.resolvedAt = None => a.stream # s
    BY DEF OneOpenAlert, IsOpen, OpenAlerts
  <1>3. ASSUME NEW a \in alerts', NEW b \in alerts', a.resolvedAt = None, b.resolvedAt = None,
               a.stream = b.stream
        PROVE  a = b
    <2>1. CASE a \in new /\ b \in new
      BY <2>1
    <2>2. CASE a \in alerts \ OpenAlerts(s) /\ b \in alerts \ OpenAlerts(s)
      BY <1>3, <2>2 DEF OneOpenAlert, IsOpen
    <2>3. CASE a \in alerts \ OpenAlerts(s) /\ b \in new
      BY <1>2, <1>3, <2>3
    <2>4. CASE a \in new /\ b \in alerts \ OpenAlerts(s)
      BY <1>2, <1>3, <2>4
    <2> QED BY <2>1, <2>2, <2>3, <2>4
  <1> QED BY <1>1, <1>3 DEF OneOpenAlert, IsOpen

LEMMA OneOpenAlertNext ==
  ASSUME Typed, OneOpenAlert, [Next]_vars
  PROVE  OneOpenAlert'
  <1> USE DEF memoryVars, baseVars, batchVars, alertVars, eventVars, processVars, journalVars
  <1>1. CASE alerts' = alerts
    BY <1>1 DEF OneOpenAlert, IsOpen
  <1>2. CASE stage \in {"evaluating", "reopening"} /\ alerts' = Opened(Reading)
    <2>1. Reading.stream \in Streams
      BY <1>2, ReadingInHand DEF Measurement
    <2>2. CASE OpenAlerts(Reading.stream) # {}
      BY <1>1, <1>2, <2>2 DEF Opened
    <2>3. CASE OpenAlerts(Reading.stream) = {}
      <3> DEFINE new == [stream |-> Reading.stream,
                         reason |-> BreachOf(Reading.stream[2], Reading.value),
                         openedAt |-> Reading.at, lastValue |-> Reading.value, lastSeenAt |-> Reading.at,
                         resolvedAt |-> None, openKey |-> Reading.stream]
      <3>1. alerts' = alerts \cup {new}
        BY <1>2, <2>3 DEF Opened
      <3>2. new.stream = Reading.stream /\ new.openKey = Reading.stream /\ new.resolvedAt = None
        OBVIOUS
      <3>3. \A a \in alerts : a.resolvedAt = None => a.stream # Reading.stream
        BY <2>3 DEF OpenAlerts, OneOpenAlert, IsOpen
      <3> HIDE DEF new
      <3> QED BY <3>1, <3>2, <3>3 DEF OneOpenAlert, IsOpen
    <2> QED BY <2>2, <2>3
  <1>3. CASE stage = "evaluating" /\ alerts' = Seen(Reading)
    <2> DEFINE s == Reading.stream  new == {SeenAt(a, Reading) : a \in OpenAlerts(s)}
    <2>1. s \in Streams
      BY <1>3, ReadingInHand DEF Measurement
    <2>2. \A x, y \in new : x = y
      BY <2>1, KeyHolder
    <2>3. ASSUME NEW a \in OpenAlerts(s)
          PROVE  /\ SeenAt(a, Reading).stream = s
                 /\ SeenAt(a, Reading).openKey = IF IsOpen(SeenAt(a, Reading)) THEN s ELSE None
      <3>1. a \in Alert /\ a.stream = s /\ a.openKey = s /\ a.resolvedAt = None
        BY <2>1, KeyHolder DEF OpenAlerts, IsOpen, Typed, TypeOK, TablesOK
      <3> QED BY <3>1 DEF SeenAt, Alert, IsOpen
    <2>4. alerts' = (alerts \ OpenAlerts(s)) \cup new
      BY <1>3 DEF Seen
    <2>5. \A x \in new : x.stream = s /\ x.openKey = IF IsOpen(x) THEN s ELSE None
      BY <2>3
    <2> HIDE DEF s, new
    <2> QED BY <2>1, <2>2, <2>4, <2>5, Replacing
  <1>4. CASE stage = "evaluating" /\ alerts' = Resolved(Reading)
    <2> DEFINE s == Reading.stream  new == {ResolvedBy(a, Reading) : a \in OpenAlerts(s)}
    <2>1. s \in Streams /\ Reading.at # None
      BY <1>4, ReadingInHand, RulesAssumption DEF Measurement
    <2>2. \A x, y \in new : x = y
      BY <2>1, KeyHolder
    <2>3. ASSUME NEW a \in OpenAlerts(s)
          PROVE  /\ ResolvedBy(a, Reading).stream = s
                 /\ ResolvedBy(a, Reading).openKey = IF IsOpen(ResolvedBy(a, Reading)) THEN s ELSE None
      <3>1. a \in Alert /\ a.stream = s
        BY <2>1, KeyHolder DEF Typed, TypeOK, TablesOK
      <3> QED BY <2>1, <3>1 DEF ResolvedBy, Alert, IsOpen
    <2>4. alerts' = (alerts \ OpenAlerts(s)) \cup new
      BY <1>4 DEF Resolved
    <2>5. \A x \in new : x.stream = s /\ x.openKey = IF IsOpen(x) THEN s ELSE None
      BY <2>3
    <2> HIDE DEF s, new
    <2> QED BY <2>1, <2>2, <2>4, <2>5, Replacing
  <1>5. CASE UNCHANGED vars
    BY <1>1, <1>5 DEF vars
  <1>6. CASE Journal
    BY <1>1, <1>6 DEF Journal, Tick, HandleMeasurementMessage, Inserted, InsertionLost
  <1>7. CASE Loop
    BY <1>1, <1>7 DEF Loop, StartTick, Load, Read, StartEvent, FinishEvent, EndBatch, Save, Salvage, Count
  <1>8. CASE Process
    BY <1>1, <1>2, <1>3, <1>4, <1>8
      DEF Process, Reject, RejectUnknownDevice, Store, EndMetrics, RecordDeadLetter, EvaluateNone,
          OpenAlert, RecordOngoing, Resolve, ResolveToReopen
  <1>9. CASE Lifecycle
    BY <1>1, <1>9 DEF Lifecycle, CallFails, Crash, Stop, Exit, Start
  <1> QED BY <1>5, <1>6, <1>7, <1>8, <1>9 DEF Next
(* At most one alert is open per device and type of reading, and the       *)
(* unique key belongs to it, whatever write threw after it was applied. *)
THEOREM OneOpenAlertCorrect == Spec => []OneOpenAlert
  <1>1. Init => OneOpenAlert
    BY DEF Init, OneOpenAlert
  <1>2. Spec => [](Typed /\ OneOpenAlert)
    BY <1>1, TypedInit, TypedNext, OneOpenAlertNext, PTL DEF Spec
  <1> QED BY <1>2, PTL

-----------------------------------------------------------------------------
(* The order of a stream *)

(* A stream that holds readings has a latest one.  (That a finite set of   *)
(* dates has a maximum is known here from the way the table is filled.) *)
HasLatest == \A s \in Streams : Stored(s) # {} => Latest(Stored(s)) # {}

(* What decideMeasurement accepts is later than all the stream holds. *)
LEMMA AcceptedIsLatest ==
  ASSUME Typed, HasLatest, AtMetric, Accepted, Registered
  PROVE  \A y \in Stored(Reading.stream) :
           /\ y.at < Reading.at
           /\ y \in Latest(Stored(Reading.stream)) => y.messageId # Reading.messageId
  <1>1. /\ Reading \in Measurement /\ Reading.stream = Stream
        /\ Reading.at = current.message.observedAt
        /\ Reading.messageId = current.message.messageId
    BY ReadingInHand DEF AtMetric
  <1>2. \A y \in Latest(Stored(Stream)) :
          y.messageId # Reading.messageId /\ y.at < Reading.at
    BY <1>1 DEF Accepted, DecideMeasurement
  <1>3. ASSUME NEW y \in Stored(Stream)
        PROVE  y.at < Reading.at
    <2>1. PICK z \in Latest(Stored(Stream)) : TRUE
      BY <1>1, <1>3 DEF HasLatest, Measurement
    <2>2. y.at <= z.at /\ z.at < Reading.at
      BY <1>2, <2>1 DEF Latest
    <2>3. y \in Measurement /\ z \in Measurement
      BY <2>1 DEF Latest, Stored, Typed, TypeOK, TablesOK
    <2> QED BY <1>1, <2>2, <2>3 DEF Measurement
  <1> QED BY <1>1, <1>2, <1>3

LEMMA MeasurementsStep ==
  ASSUME [Next]_vars
  PROVE  measurements' = measurements \/ Store
  <1> USE DEF memoryVars, baseVars, batchVars, alertVars, eventVars, processVars, journalVars
  <1>1. CASE UNCHANGED vars
    BY <1>1 DEF vars
  <1>2. CASE Journal
    BY <1>2 DEF Journal, Tick, HandleMeasurementMessage, Inserted, InsertionLost
  <1>3. CASE Loop
    BY <1>3 DEF Loop, StartTick, Load, Read, StartEvent, FinishEvent, EndBatch, Save, Salvage, Count
  <1>4. CASE Process
    BY <1>4 DEF Process, Reject, RejectUnknownDevice, EndMetrics, RecordDeadLetter, EvaluateNone,
                OpenAlert, RecordOngoing, Resolve, ResolveToReopen, EvaluationEnds
  <1>5. CASE Lifecycle
    BY <1>5 DEF Lifecycle, CallFails, Crash, Stop, Exit, Start
  <1> QED BY <1>1, <1>2, <1>3, <1>4, <1>5 DEF Next

LEMMA HasLatestNext ==
  ASSUME Typed, HasLatest, [Next]_vars
  PROVE  HasLatest'
  <1>1. CASE measurements' = measurements
    BY <1>1 DEF HasLatest, Stored
  <1>2. CASE Store
    <2>1. measurements' = measurements \cup {Reading}
      BY <1>2 DEF Store
    <2>2. \A y \in Stored(Reading.stream) : y.at < Reading.at
      BY <1>2, AcceptedIsLatest DEF Store
    <2>3. Reading.at \in Int /\ measurements \subseteq Measurement
      BY <1>2, ReadingInHand DEF Store, AtMetric, Measurement, Typed, TypeOK, TablesOK
    <2>4. ASSUME NEW s \in Streams, {x \in measurements' : x.stream = s} # {}
          PROVE  Latest({x \in measurements' : x.stream = s}) # {}
      <3>1. CASE s = Reading.stream
        <4>1. Reading \in Latest({x \in measurements' : x.stream = s})
          BY <2>1, <2>2, <2>3, <3>1 DEF Latest, Stored, Measurement
        <4> QED BY <4>1
      <3>2. CASE s # Reading.stream
        <4>1. {x \in measurements' : x.stream = s} = Stored(s)
          BY <2>1, <3>2 DEF Stored
        <4> QED BY <2>4, <4>1 DEF HasLatest
      <3> QED BY <3>1, <3>2
    <2> QED BY <2>4 DEF HasLatest, Stored
  <1> QED BY <1>1, <1>2, MeasurementsStep

(* What comes late, twice or in disorder through the journal never gets    *)
(* behind, nor on top of, what its stream holds. *)
THEOREM StoredInOrderCorrect == Spec => StoredInOrder
  <1>1. Init => HasLatest
    BY DEF Init, HasLatest, Stored
  <1>2. Spec => [](Typed /\ HasLatest)
    BY <1>1, TypedInit, TypedNext, HasLatestNext, PTL DEF Spec
  <1>3. ASSUME Typed, HasLatest, [Next]_vars
        PROVE  \A x \in measurements' \ measurements : \A y \in Stored(x.stream) :
                 y.at < x.at /\ (y \in Latest(Stored(x.stream)) => y.messageId # x.messageId)
    <2>1. CASE measurements' = measurements
      BY <2>1
    <2>2. CASE Store
      <3>1. \A x \in measurements' \ measurements : x = Reading
        BY <2>2 DEF Store
      <3>2. \A y \in Stored(Reading.stream) :
              /\ y.at < Reading.at
              /\ y \in Latest(Stored(Reading.stream)) => y.messageId # Reading.messageId
        BY <1>3, <2>2, AcceptedIsLatest DEF Store
      <3> QED BY <3>1, <3>2
    <2> QED BY <1>3, <2>1, <2>2, MeasurementsStep
  <1> QED BY <1>2, <1>3, PTL DEF Spec, StoredInOrder
=============================================================================
