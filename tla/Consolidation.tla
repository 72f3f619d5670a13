--------------------------- MODULE Consolidation ---------------------------
(***************************************************************************)
(* Readings, from the broker to the verified base.  The ingesters append   *)
(* every MQTT message to a journal; the one worker reads it in the order   *)
(* (receivedAt, id) from a cursor it saves after each batch, stores the    *)
(* readings it accepts, evaluates the alert of each, and sets aside what   *)
(* it can never store.                                                     *)
(*                                                                         *)
(* One action of the worker is one of its writes with the reads that       *)
(* decide it: nobody else writes these tables, so only a failure or a      *)
(* crash can fall between the two.  A write may be applied although its    *)
(* call throws (the reply is lost).  Time is one clock: the code supposes  *)
(* the ingesters and the worker synchronised.                              *)
(*                                                                         *)
(* Left out: the TTL of the journal (weeks against a settle delay of one   *)
(* second), units, logs, the texts of errors and failedAt.                 *)
(***************************************************************************)
EXTENDS ReadingRules, FiniteSets, Sequences

CONSTANTS
  Messages,     \* what the broker may deliver
  Devices,      \* the devices of the Device table
  Types,        \* the types of readings that Messages hold
  Settle,       \* CONSOLIDATION_SETTLE_MS
  InsertDelay,  \* the longest time from receivedAt to a visible insertion
  BatchSize,
  \* Bounds of the model, not of the code:
  Ids, LastArrival, MaxTime, MaxFaults

Defects == {"invalid_json", "invalid_schema"}
DeadLetterReasons == Defects \cup {"unrecognized_topic", "permanent_failure"}
Streams == Devices \X Types

ASSUME MessagesAssumption ==
  \A m \in Messages :
    /\ m.defect \in Defects \cup {None}
    /\ m.observedAt \in Nat
    /\ m.metrics \in Seq([type : Types, value : Int])

ASSUME WorkerAssumption ==
  /\ Ids \subseteq Nat
  /\ Settle \in Nat /\ InsertDelay \in Nat
  /\ BatchSize \in Nat \ {0}
  /\ LastArrival \in Nat /\ MaxTime \in Nat /\ MaxFaults \in Nat

(* ADR 0013: an insertion slower than the settle delay would be skipped. *)
ASSUME SettleAssumption == InsertDelay <= Settle

Event == [at : Nat, id : Ids, message : Messages]
Cursor == [at : Nat, id : Ids]
Measurement == [stream : Streams, value : Int, at : Nat, messageId : {m.messageId : m \in Messages}]
DeadLetter == [event : Event, reason : DeadLetterReasons]
Alert == [stream : Streams, reason : Reasons, openedAt : Nat, lastValue : Int, lastSeenAt : Nat,
          resolvedAt : Nat \cup {None}, openKey : Streams \cup {None}]

ASSUME NoneAssumption ==
  None \notin Devices \cup Defects \cup Streams \cup Event \cup Cursor

Stages == {"waiting", "loading", "reading", "processing", "consolidating", "evaluating",
           "reopening", "rejecting", "finishing", "saving", "salvaging", "counting",
           "stopped", "down"}

VARIABLES
  clock,
  inserting,     \* events an ingester is inserting, not visible yet
  journal,       \* the collection raw_events
  measurements,  \* the table Measurement
  alerts,        \* the table Alert
  deadLetters,   \* the collection dead_letters, by event
  checkpoint     \* the document of the consumer in consolidation_checkpoints

(* The worker's memory. *)
VARIABLES
  stage,         \* where it stands between two awaits
  stopping,      \* `stopped`, set by SIGTERM
  cursor, loaded,
  batch, full,   \* the events read and not done yet; was the batch full
  current,       \* the event it is at, and
  metric,        \* the metric of that event
  lastDone,      \* the last event of the batch that is done
  failed         \* permanentFailure

(* Observed, never read by a guard of the code. *)
VARIABLES
  faults,        \* failures and crashes so far (bounded by MaxFaults)
  evaluated      \* measurements whose alert was evaluated to the end

journalVars == <<clock, inserting, journal>>
batchVars == <<cursor, batch, current, lastDone>>
eventVars == <<metric, failed>>
processVars == <<stopping, loaded, full>>
memoryVars == <<batchVars, eventVars, processVars>>
alertVars == <<alerts, evaluated>>
baseVars == <<measurements, alertVars, deadLetters>>
vars == <<journalVars, baseVars, checkpoint, stage, memoryVars, faults>>

Init ==
  /\ clock = 0 /\ inserting = {} /\ journal = {}
  /\ measurements = {} /\ alerts = {} /\ deadLetters = {} /\ checkpoint = None
  /\ stage = "waiting" /\ stopping = FALSE
  /\ cursor = None /\ loaded = FALSE
  /\ batch = {} /\ full = FALSE /\ lastDone = None
  /\ current = None /\ metric = 1 /\ failed = FALSE
  /\ faults = 0 /\ evaluated = {}

Faulty ==
  /\ faults < MaxFaults
  /\ faults' = faults + 1

-----------------------------------------------------------------------------
(* The journal *)

Tick ==
  /\ clock < MaxTime
  /\ \A e \in inserting : clock < e.at + InsertDelay
  /\ clock' = clock + 1
  /\ UNCHANGED <<inserting, journal, baseVars, checkpoint, stage, memoryVars, faults>>

(* The handler of one message: it dates the event, then inserts it.  The   *)
(* ids that two ingesters draw in one millisecond have any order. *)
HandleMeasurementMessage(m, id) ==
  /\ clock <= LastArrival
  /\ \A e \in inserting \cup journal : e.id # id
  /\ inserting' = inserting \cup {[at |-> clock, id |-> id, message |-> m]}
  /\ UNCHANGED <<clock, journal, baseVars, checkpoint, stage, memoryVars, faults>>

Inserted(e) ==
  /\ e \in inserting
  /\ inserting' = inserting \ {e}
  /\ journal' = journal \cup {e}
  /\ UNCHANGED <<clock, baseVars, checkpoint, stage, memoryVars, faults>>

(* MongoDB refuses the insertion, or the ingester dies: the message, which *)
(* mqtt.js has acknowledged already, is lost before the journal. *)
InsertionLost(e) ==
  /\ e \in inserting
  /\ Faulty
  /\ inserting' = inserting \ {e}
  /\ UNCHANGED <<clock, journal, baseVars, checkpoint, stage, memoryVars>>

Precedes(p, q) == p.at < q.at \/ (p.at = q.at /\ p.id < q.id)

AfterCursor(c) == IF c = None THEN journal ELSE {e \in journal : Precedes(c, e)}

(* findAfter: the first `limit` events after the cursor among those        *)
(* received before `horizon`. *)
FindAfter(c, limit, horizon) ==
  LET candidates == {e \in AfterCursor(c) : e.at < horizon}
  IN {e \in candidates : Cardinality({f \in candidates : Precedes(f, e)}) < limit}

(* Seeded fault: no time is left for insertions to become visible. *)
HorizonWithoutSettle == clock + 1

Horizon == clock - Settle

-----------------------------------------------------------------------------
(* The worker: its loop *)

(* The finally of tick: the timer is re-armed unless the worker stops. *)
Rearm == stage' = IF stopping THEN "stopped" ELSE "waiting"

PositionOf(e) == [at |-> e.at, id |-> e.id]

(* A call throws something that is no DomainError.  The work done in this  *)
(* batch is saved, the tick ends. *)
Throw ==
  /\ Faulty
  /\ lastDone' = None /\ batch' = {} /\ current' = None
  /\ IF lastDone = None
     THEN cursor' = cursor /\ Rearm
     ELSE cursor' = PositionOf(lastDone) /\ stage' = "salvaging"

Proceed(next) ==
  /\ stage' = next
  /\ UNCHANGED <<batchVars, faults>>

(* The end of a call that writes: it answers, or its reply is lost. *)
Answered(next) == Proceed(next) \/ Throw

StartTick ==
  /\ stage = "waiting"
  /\ stage' = IF loaded THEN "reading" ELSE "loading"
  /\ UNCHANGED <<journalVars, baseVars, checkpoint, memoryVars, faults>>

(* Seeded fault: the saved cursor is not used. *)
LoadNothing ==
  /\ stage = "loading"
  /\ stage' = IF stopping THEN "counting" ELSE "reading"
  /\ loaded' = TRUE
  /\ cursor' = None
  /\ UNCHANGED <<journalVars, baseVars, checkpoint, batch, current, lastDone, eventVars, stopping, full, faults>>

Load ==
  /\ stage = "loading"
  /\ stage' = IF stopping THEN "counting" ELSE "reading"
  /\ loaded' = TRUE
  /\ cursor' = checkpoint
  /\ UNCHANGED <<journalVars, baseVars, checkpoint, batch, current, lastDone, eventVars, stopping, full, faults>>

Read ==
  /\ stage = "reading"
  /\ batch' = FindAfter(cursor, BatchSize, Horizon)
  /\ full' = (Cardinality(batch') >= BatchSize)
  /\ stage' = "processing"
  /\ UNCHANGED <<journalVars, baseVars, checkpoint, cursor, current, lastDone, eventVars, stopping, loaded, faults>>

(* Seeded fault: the journal is read without its sort. *)
StartAnyEvent ==
  /\ stage = "processing" /\ ~stopping
  /\ current' \in batch
  /\ stage' = IF current'.message.device = None \/ current'.message.defect # None
              THEN "rejecting" ELSE "consolidating"
  /\ metric' = 1 /\ failed' = FALSE
  /\ UNCHANGED <<journalVars, baseVars, checkpoint, cursor, batch, lastDone, processVars, faults>>

(* The for loop takes the next event: readable ones are consolidated,      *)
(* metric by metric, the others rejected. *)
StartEvent ==
  /\ stage = "processing" /\ ~stopping
  /\ \E e \in batch :
       /\ \A f \in batch \ {e} : Precedes(e, f)
       /\ current' = e
       /\ stage' = IF e.message.device = None \/ e.message.defect # None
                   THEN "rejecting" ELSE "consolidating"
  /\ metric' = 1 /\ failed' = FALSE
  /\ UNCHANGED <<journalVars, baseVars, checkpoint, cursor, batch, lastDone, processVars, faults>>

FinishEvent ==
  /\ stage = "finishing"
  /\ stage' = "processing"
  /\ lastDone' = current /\ current' = None
  /\ batch' = batch \ {current}
  /\ UNCHANGED <<journalVars, baseVars, checkpoint, cursor, eventVars, processVars, faults>>

Continue == stage' = IF full /\ ~stopping THEN "reading" ELSE "counting"

(* The for loop ends, with the batch or with `stopped`. *)
EndBatch ==
  /\ stage = "processing"
  /\ stopping \/ batch = {}
  /\ batch' = {} /\ lastDone' = None
  /\ IF lastDone = None
     THEN cursor' = cursor /\ Continue
     ELSE cursor' = PositionOf(lastDone) /\ stage' = "saving"
  /\ UNCHANGED <<journalVars, baseVars, checkpoint, current, eventVars, processVars, faults>>

Save ==
  /\ stage = "saving"
  /\ checkpoint' = cursor
  /\ \/ Continue /\ UNCHANGED <<batchVars, faults>>
     \/ Throw
  /\ UNCHANGED <<journalVars, baseVars, eventVars, processVars>>

(* The save of the finally when an event threw; whether it throws or not,  *)
(* the tick ends. *)
Salvage ==
  /\ stage = "salvaging"
  /\ \/ checkpoint' = cursor /\ faults' = faults
     \/ checkpoint' = checkpoint /\ Faulty
  /\ Rearm
  /\ UNCHANGED <<journalVars, baseVars, batchVars, eventVars, processVars>>

(* countAfter only logs; the tick ends even if it throws. *)
Count ==
  /\ stage = "counting"
  /\ Rearm
  /\ UNCHANGED <<journalVars, baseVars, checkpoint, memoryVars, faults>>

-----------------------------------------------------------------------------
(* The worker: one event *)

Metric == current.message.metrics[metric]
Stream == <<current.message.device, Metric.type>>
Stored(s) == {x \in measurements : x.stream = s}

ReadingOf(e, i) ==
  [stream |-> <<e.message.device, e.message.metrics[i].type>>,
   value |-> e.message.metrics[i].value,
   at |-> e.message.observedAt,
   messageId |-> e.message.messageId]

Reading == ReadingOf(current, metric)

AtMetric == stage = "consolidating" /\ metric <= Len(current.message.metrics)

Accepted ==
  /\ IsPlausibleValue(Metric.type, Metric.value)
  /\ DecideMeasurement(Stored(Stream), current.message)

(* Seeded fault: no foreign key from Measurement to Device. *)
RegisteredUnchecked == TRUE

Registered == current.message.device \in Devices

(* consolidate returns: implausible, duplicate or late. *)
Reject ==
  /\ AtMetric /\ ~Accepted
  /\ metric' = metric + 1
  /\ UNCHANGED <<journalVars, baseVars, checkpoint, stage, batchVars, failed, processVars, faults>>

(* Seeded fault: the refusal of the foreign key is retried. *)
RetryUnknownDevice ==
  /\ AtMetric /\ Accepted /\ ~Registered
  /\ stage' = "waiting" /\ batch' = {} /\ current' = None /\ lastDone' = None
  /\ UNCHANGED <<journalVars, baseVars, checkpoint, cursor, eventVars, processVars, faults>>

(* The foreign key refuses a device that is not registered: NotFoundError. *)
RejectUnknownDevice ==
  /\ AtMetric /\ Accepted /\ ~Registered
  /\ metric' = metric + 1 /\ failed' = TRUE
  /\ UNCHANGED <<journalVars, baseVars, checkpoint, stage, batchVars, processVars, faults>>

Store ==
  /\ AtMetric /\ Accepted /\ Registered
  /\ measurements' = measurements \cup {Reading}
  /\ Answered("evaluating")
  /\ UNCHANGED <<journalVars, alertVars, deadLetters, checkpoint, eventVars, processVars>>

EndMetrics ==
  /\ stage = "consolidating" /\ metric > Len(current.message.metrics)
  /\ stage' = IF failed THEN "rejecting" ELSE "finishing"
  /\ UNCHANGED <<journalVars, baseVars, checkpoint, memoryVars, faults>>

ReasonOf(e) ==
  IF e.message.device = None THEN "unrecognized_topic"
  ELSE IF e.message.defect # None THEN e.message.defect ELSE "permanent_failure"

RecordDeadLetter ==
  /\ stage = "rejecting"
  /\ deadLetters' = deadLetters \cup {[event |-> current, reason |-> ReasonOf(current)]}
  /\ Answered("finishing")
  /\ UNCHANGED <<journalVars, measurements, alertVars, checkpoint, eventVars, processVars>>

-----------------------------------------------------------------------------
(* The worker: the alert of a stored reading *)

(* The alert findOpen returns, by its unique openKey: at most one. *)
OpenAlerts(s) == {a \in alerts : a.openKey = s}

OpenReason(s) == IF OpenAlerts(s) = {} THEN None ELSE (CHOOSE a \in OpenAlerts(s) : TRUE).reason

Transition == DecideAlertTransition(OpenReason(Stream), Metric.type, Metric.value)

(* The insertion of an alert; when the key is taken, the existing alert is *)
(* the answer. *)
Opened(r) ==
  IF OpenAlerts(r.stream) # {} THEN alerts
  ELSE alerts \cup {[stream |-> r.stream, reason |-> BreachOf(r.stream[2], r.value),
                     openedAt |-> r.at, lastValue |-> r.value, lastSeenAt |-> r.at,
                     resolvedAt |-> None, openKey |-> r.stream]}

SeenAt(a, r) == [a EXCEPT !.lastValue = r.value, !.lastSeenAt = r.at]

(* Seeded fault: the key of a resolved alert is not released. *)
ResolvedWithKey(a, r) == [a EXCEPT !.lastValue = r.value, !.lastSeenAt = r.at, !.resolvedAt = r.at]

ResolvedBy(a, r) ==
  [a EXCEPT !.lastValue = r.value, !.lastSeenAt = r.at, !.resolvedAt = r.at, !.openKey = None]

Seen(r) ==
  (alerts \ OpenAlerts(r.stream)) \cup {SeenAt(a, r) : a \in OpenAlerts(r.stream)}

Resolved(r) ==
  (alerts \ OpenAlerts(r.stream)) \cup {ResolvedBy(a, r) : a \in OpenAlerts(r.stream)}

(* The evaluation is over: the next metric. *)
EvaluationEnds ==
  /\ evaluated' = evaluated \cup {Reading}
  /\ \/ Proceed("consolidating") /\ metric' = metric + 1
     \/ Throw /\ metric' = metric
  /\ UNCHANGED <<journalVars, measurements, deadLetters, checkpoint, failed, processVars>>

EvaluateNone ==
  /\ stage = "evaluating" /\ Transition = "none"
  /\ alerts' = alerts
  /\ evaluated' = evaluated \cup {Reading}
  /\ stage' = "consolidating" /\ metric' = metric + 1
  /\ UNCHANGED <<journalVars, measurements, deadLetters, checkpoint, batchVars, failed, processVars, faults>>

OpenAlert ==
  /\ \/ stage = "evaluating" /\ Transition = "open"
     \/ stage = "reopening"
  /\ alerts' = Opened(Reading)
  /\ EvaluationEnds

RecordOngoing ==
  /\ stage = "evaluating" /\ Transition = "ongoing"
  /\ alerts' = Seen(Reading)
  /\ EvaluationEnds

Resolve ==
  /\ stage = "evaluating" /\ Transition = "resolve"
  /\ alerts' = Resolved(Reading)
  /\ EvaluationEnds

(* The value jumped over both thresholds: one alert is resolved, then      *)
(* another one opened. *)
ResolveToReopen ==
  /\ stage = "evaluating" /\ Transition = "reopen"
  /\ alerts' = Resolved(Reading)
  /\ Answered("reopening")
  /\ UNCHANGED <<journalVars, measurements, evaluated, deadLetters, checkpoint, eventVars, processVars>>

-----------------------------------------------------------------------------
(* The process *)

(* A call throws and wrote nothing. *)
CallFails ==
  /\ \/ stage \in {"loading", "reading", "evaluating", "reopening", "rejecting", "saving"}
     \/ AtMetric /\ IsPlausibleValue(Metric.type, Metric.value)
  /\ Throw
  /\ UNCHANGED <<journalVars, baseVars, checkpoint, eventVars, processVars>>

Forget ==
  /\ stopping' = FALSE
  /\ cursor' = None /\ loaded' = FALSE
  /\ batch' = {} /\ full' = FALSE /\ lastDone' = None
  /\ current' = None /\ metric' = 1 /\ failed' = FALSE

Crash ==
  /\ stage # "down"
  /\ Faulty
  /\ stage' = "down"
  /\ Forget
  /\ UNCHANGED <<journalVars, baseVars, checkpoint>>

(* SIGTERM: the timer is cleared, the loops end at their next test. *)
Stop ==
  /\ stage \notin {"stopped", "down"} /\ ~stopping
  /\ Faulty
  /\ stopping' = TRUE
  /\ stage' = IF stage = "waiting" THEN "stopped" ELSE stage
  /\ UNCHANGED <<journalVars, baseVars, checkpoint, batchVars, eventVars, loaded, full>>

(* The process exits when its connections are closed, whether the tick is  *)
(* over or not. *)
Exit ==
  /\ stopping
  /\ stage' = "down"
  /\ Forget
  /\ UNCHANGED <<journalVars, baseVars, checkpoint, faults>>

Start ==
  /\ stage = "down"
  /\ stage' = "waiting"
  /\ UNCHANGED <<journalVars, baseVars, checkpoint, memoryVars, faults>>

-----------------------------------------------------------------------------

Journal ==
  \/ Tick
  \/ \E m \in Messages, id \in Ids : HandleMeasurementMessage(m, id)
  \/ \E e \in inserting : Inserted(e) \/ InsertionLost(e)

Loop ==
  \/ StartTick \/ Load \/ Read \/ StartEvent \/ FinishEvent \/ EndBatch \/ Save \/ Salvage \/ Count

Process ==
  \/ Reject \/ RejectUnknownDevice \/ Store \/ EndMetrics \/ RecordDeadLetter
  \/ EvaluateNone \/ OpenAlert \/ RecordOngoing \/ Resolve \/ ResolveToReopen

Lifecycle == CallFails \/ Crash \/ Stop \/ Exit \/ Start

Next == Journal \/ Loop \/ Process \/ Lifecycle

Spec == Init /\ [][Next]_vars

(* Time passes, an insertion ends, the worker goes on and the orchestrator *)
(* starts it again; failures are finitely many (MaxFaults). *)
FairSpec ==
  /\ Spec
  /\ WF_vars(Tick)
  /\ WF_vars(\E e \in inserting : Inserted(e))
  /\ WF_vars(Loop \/ Process)
  /\ WF_vars(Exit)
  /\ WF_vars(Start)

-----------------------------------------------------------------------------
(* Properties *)

TablesOK ==
  /\ clock \in Nat
  /\ inserting \subseteq Event /\ journal \subseteq Event
  /\ measurements \subseteq Measurement /\ evaluated \subseteq measurements
  /\ alerts \subseteq Alert /\ deadLetters \subseteq DeadLetter
  /\ checkpoint \in Cursor \cup {None}

FlagsOK == stopping \in BOOLEAN /\ loaded \in BOOLEAN /\ full \in BOOLEAN /\ failed \in BOOLEAN

WorkOK ==
  /\ stage \in Stages
  /\ cursor \in Cursor \cup {None}
  /\ batch \subseteq journal
  /\ current \in batch \cup {None} /\ lastDone \in journal \cup {None}
  /\ metric \in Nat \ {0}
  /\ faults \in Nat

(* Types; no reading is evaluated that is not stored, and the worker holds *)
(* nothing that is not in the journal. *)
TypeOK == TablesOK /\ FlagsOK /\ WorkOK

Behind(e, c) == c # None /\ ~Precedes(c, e)

(* What ends the way of a reading: it could never be stored, or its stream *)
(* holds it or something that is at least as recent. *)
Absorbed(e, i) ==
  LET r == ReadingOf(e, i) IN
  \/ ~IsPlausibleValue(r.stream[2], r.value)
  \/ \E x \in measurements : x.stream = r.stream /\ (x.at >= r.at \/ x.messageId = r.messageId)

Settled(e) ==
  \/ \E d \in deadLetters : d.event = e
  \/ /\ ReasonOf(e) = "permanent_failure"
     /\ \A i \in DOMAIN e.message.metrics : Absorbed(e, i)

(* What the events up to a position have become. *)
Passed(c) == \A e \in journal : Behind(e, c) => Settled(e)

(* "What is in the journal is never lost" (ADR 0013): whatever crashed,    *)
(* threw or was inserted late, every event up to the saved cursor had all  *)
(* its readings stored or superseded, or is a dead letter.  What an        *)
(* unreadable event or one of an unknown device needs is the dead letter.  *)
NothingSkipped == Passed(checkpoint)

Consolidating == {"consolidating", "evaluating", "reopening"}
Handling == Consolidating \cup {"rejecting", "finishing"}

(* Positions: of the worker's work in hand, and all those it knows. *)
InHand == {lastDone} \cup batch
Known == {checkpoint, cursor} \cup InHand

(* What waits for its insertion is too recent for any read: no position    *)
(* the worker knows is as recent. *)
Timely ==
  /\ IsFiniteSet(journal)
  /\ \A e, f \in inserting \cup journal : e.id = f.id => e = f
  /\ \A e \in inserting : clock <= e.at + InsertDelay
  /\ \A p \in Known : p # None => p.at < Horizon

(* The cursor in memory is never behind the saved one, and the batch lies  *)
(* beyond both. *)
CursorInOrder ==
  /\ loaded /\ checkpoint # None => cursor # None /\ ~Precedes(cursor, checkpoint)
  /\ ~loaded => stage \in {"waiting", "loading", "stopped", "down"} /\ cursor = None
  /\ stage \in {"saving", "salvaging"} => cursor # None
  /\ stage \notin Handling \cup {"processing"} => batch = {} /\ lastDone = None
  /\ cursor # None => \A p \in InHand : p # None => Precedes(cursor, p)
  /\ lastDone # None => \A e \in batch : Precedes(lastDone, e)

(* Nothing lies unsettled between the cursor and the events in hand. *)
BatchInOrder ==
  /\ Passed(checkpoint) /\ Passed(cursor)
  /\ \A p \in InHand : p # None =>
       \A e \in journal : ~Precedes(p, e) => e \in batch \/ Settled(e)

(* An alert is evaluated for a reading that is stored. *)
ReadingInOrder ==
  /\ current # None <=> stage \in Handling
  /\ stage \in {"evaluating", "reopening"} =>
       metric \in DOMAIN current.message.metrics /\ Reading \in measurements
  /\ stage = "reopening" => BreachOf(Metric.type, Reading.value) # None

(* The event in hand is the first of the batch, and what was done of it is *)
(* in the tables. *)
EventInOrder ==
  /\ current # None => \A e \in batch \ {current} : Precedes(current, e)
  /\ stage \in Consolidating =>
       /\ ReasonOf(current) = "permanent_failure"
       /\ \A i \in DOMAIN current.message.metrics : i < metric => failed \/ Absorbed(current, i)
  /\ stage = "finishing" => Settled(current)

(* Events are taken in the order of the journal and each is settled before *)
(* the next, whatever stops or fails: the inductive strengthening of       *)
(* NothingSkipped and CheckpointMovesForward. *)
WorkInOrder == Timely /\ CursorInOrder /\ BatchInOrder /\ ReadingInOrder /\ EventInOrder

(* The saved cursor never moves back: a restart does not replay what an    *)
(* earlier worker had saved. *)
CheckpointMovesForward ==
  [][checkpoint # None =>
       checkpoint' # None /\ (checkpoint' = checkpoint \/ Precedes(checkpoint, checkpoint'))]_vars

(* Replays, retransmissions and readings out of order add nothing: a       *)
(* reading that is stored is newer than all its stream holds, and is no    *)
(* retransmission of the last one. *)
StoredInOrder ==
  [][\A x \in measurements' \ measurements : \A y \in Stored(x.stream) :
       y.at < x.at /\ (y \in Latest(Stored(x.stream)) => y.messageId # x.messageId)]_vars

IsOpen(a) == a.resolvedAt = None

(* At most one open alert per device and type (ADR 0015), and the key that *)
(* guarantees it is held by the open alerts and by no other. *)
OneOpenAlert ==
  /\ \A a \in alerts : a.openKey = IF IsOpen(a) THEN a.stream ELSE None
  /\ \A a, b \in alerts : IsOpen(a) /\ IsOpen(b) /\ a.stream = b.stream => a = b

Margin(a) == Hysteresis[a.stream[2]]

(* An alert tells of readings that exist: one beyond the threshold opened  *)
(* it, and a later one back over the margin, or beyond the opposite        *)
(* threshold, resolved it. *)
AlertsAreTrue ==
  \A a \in alerts :
    LET bound == Bounds[a.stream[2]][a.reason] IN
    /\ \E x \in Stored(a.stream) : x.at = a.openedAt /\ Breaches(a.stream[2], x.value, a.reason)
    /\ a.resolvedAt # None =>
         /\ a.resolvedAt > a.openedAt
         /\ \E x \in Stored(a.stream) :
              /\ x.at = a.resolvedAt
              /\ IF a.reason = "above_max" THEN x.value <= bound - Margin(a)
                                           ELSE x.value >= bound + Margin(a)

(* Self-repair (ADR 0015): once the last reading of a stream is evaluated, *)
(* the open alert is the one that reading asks for, whatever evaluations   *)
(* failed before it. *)
AlertMatchesLatest ==
  \A s \in Streams : \A x \in Latest(Stored(s)) : x \in evaluated =>
    LET open == {a \in alerts : a.stream = s /\ IsOpen(a)} IN
    /\ BreachOf(s[2], x.value) # None => open # {}
    /\ \A a \in open :
         /\ a.lastSeenAt = x.at /\ a.lastValue = x.value
         /\ ~HasRecovered(s[2], x.value, a.reason)

(* "At worst the exact date of the opening is lost" (ADR 0015) when an     *)
(* alert is not written after its reading: once a later reading of the     *)
(* stream is evaluated, some alert tells of the breach. *)
OnlyTheDateIsLost ==
  \A x \in measurements :
    LET reason == BreachOf(x.stream[2], x.value) IN
    /\ reason # None
    /\ \E y \in evaluated : y.stream = x.stream /\ y.at > x.at
    => \E a \in alerts :
         /\ a.stream = x.stream /\ a.reason = reason
         /\ a.resolvedAt = None \/ a.resolvedAt > x.at

AlertDates(s) == {a.lastSeenAt : a \in {b \in alerts : b.stream = s}}

Contract == INSTANCE AlertContract WITH
  Dates <- {m.observedAt : m \in Messages},
  current <- [s \in Streams |-> OpenReason(s)],
  seen <- [s \in Streams |->
             IF AlertDates(s) = {} THEN -1
             ELSE CHOOSE at \in AlertDates(s) : \A other \in AlertDates(s) : other <= at]

(* The Alert table of each stream follows ADR 0015: opened, kept going and *)
(* resolved in turn, by readings ever more recent. *)
FollowsAlertContract == Contract!Spec

(* Every event that reaches the journal is consolidated or set aside and   *)
(* the worker goes past it: none blocks those behind it.  (The saved       *)
(* cursor may stay behind: a save that throws is not tried again before    *)
(* another event is done.) *)
EventuallySettled ==
  \A id \in Ids :
    (\E e \in journal : e.id = id)
      ~> (\E e \in journal : e.id = id /\ Behind(e, cursor) /\ Settled(e))
=============================================================================
