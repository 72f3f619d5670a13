-------------------------- MODULE CommandLifecycle --------------------------
(***************************************************************************)
(* The command pipeline: a request to POST /devices/:id/commands becomes a *)
(* row of the Command table, a QoS 1 publication, an execution on the      *)
(* device, an ACK, and the worker's timeout sweep when no ACK came.        *)
(*                                                                         *)
(* Four processes move at their own pace and share only the row and the    *)
(* broker: the API (dispatch), the ingester (acknowledge), the worker      *)
(* (expireOverdue) and the device (handle).  One action is one step        *)
(* between two awaits of the code.                                         *)
(*                                                                         *)
(* A command is identified by the request that created its row: the UUID   *)
(* is drawn by that insertion.  QoS 1 traffic is a set of messages that    *)
(* only grows: a message may be delivered again at any time, late, out of  *)
(* order, or never, which is a lost one.  Time is one discrete clock: the  *)
(* code supposes device and backend synchronised by NTP.                   *)
(***************************************************************************)
EXTENDS Naturals, FiniteSets

CONSTANTS
  Requests,      \* HTTP requests, each handled once
  Keys,          \* idempotency keys: pairs (requestedBy, Idempotency-Key)
  Devices,
  Params,        \* what is asked: a type with its parameters
  KeyOf, DeviceOf, ParamsOf,  \* the content of each request
  Catalog,       \* the Params that validateCommand accepts
  Registered,    \* the Devices present in the Device table
  Modes,         \* the modes a device may boot in
  StrayAcks,     \* ACKs devices may publish for a command that is not theirs
  AckTimeout, Grace, MemoryMargin, BatchSize,
  \* Bounds of the model, not of the code:
  MaxTime, LastSubmit, MaxFaults, MaxConcurrentAcks

AckStatuses == {"executed", "rejected", "expired"}
NoAnswer == [status |-> "none", at |-> 0]
Answer == {NoAnswer} \cup [status : AckStatuses, at : Nat]
Ack == [cmd : Requests, from : Devices, status : AckStatuses, at : Nat]

ASSUME RequestsAssumption ==
  /\ KeyOf \in [Requests -> Keys]
  /\ DeviceOf \in [Requests -> Devices]
  /\ ParamsOf \in [Requests -> Params]
  /\ Catalog \subseteq Params
  /\ Registered \subseteq Devices

ASSUME DeviceAssumption ==
  /\ Modes \subseteq {"normal", "silent", "reject"}
  /\ Modes # {}
  /\ StrayAcks \subseteq Ack
  /\ \A m \in StrayAcks : m.from # DeviceOf[m.cmd]

ASSUME TimingAssumption ==
  /\ AckTimeout \in Nat /\ Grace \in Nat /\ MemoryMargin \in Nat
  /\ BatchSize \in Nat \ {0}
  /\ MaxTime \in Nat /\ LastSubmit \in Nat /\ MaxFaults \in Nat
  /\ MaxConcurrentAcks \in Nat

OPEN_COMMAND_STATUSES == {"PENDING", "SENT"}
Terminal == {"ACKNOWLEDGED", "FAILED", "TIMEOUT"}
Statuses == {"ABSENT"} \cup OPEN_COMMAND_STATUSES \cup Terminal

Outcomes == {"confirmed", "not_sent", "unconfirmed"}
InFlight == {"creating", "publishing", "awaiting", "settled"} \cup Outcomes
Replies == {"accepted", "replayed", "conflict", "bad_request", "not_found", "error"}
Stages == {"idle"} \cup InFlight \cup Replies

(* `ack` is the answer that concluded the command (ackedAt and status),    *)
(* `late` the one recorded after a timeout (lateAckStatus, lateAckAt).     *)
Row == [status : Statuses, expiresAt : Nat, ack : Answer, late : Answer]
NoRow == [status |-> "ABSENT", expiresAt |-> 0, ack |-> NoAnswer, late |-> NoAnswer]

Activation == [stage : {"transition", "recheck"}, ack : Ack]

VARIABLES
  clock,
  row,        \* the Command table
  stage,      \* where the handler of each request stands, then its reply
  deadline,   \* the expiresAt that handler computed before the insertion
  connected,  \* the MQTT client of the API sees its connection up
  outgoing,   \* publications that client holds until their PUBACK
  broker,     \* commands the broker received, for their device
  mode,       \* the mode each device booted in
  processed,  \* the device's memory of each command: the ACK it answered
  acks,       \* ACKs the devices published
  handling,   \* ACK handlers of the ingester between two awaits
  batch       \* what the current sweep of the worker still has to expire

(* Observed, never read by a guard of the code. *)
VARIABLES
  faults,     \* failures and crashes so far (bounded by MaxFaults)
  boots,      \* restarts of each device
  execs,      \* executions of each command: which boot, and when
  published,  \* requests whose handler called client.publish
  heard       \* commands whose owner's ACK reached the ingester in time

dispatchVars == <<stage, deadline, published>>
clientVars == <<connected, outgoing>>
deviceVars == <<mode, processed, boots, execs>>
ingesterVars == <<handling, heard>>
vars == <<clock, row, dispatchVars, clientVars, broker, deviceVars, acks, ingesterVars,
          batch, faults>>

(* What each process leaves alone. *)
OnlyApi == UNCHANGED <<clock, broker, deviceVars, acks, ingesterVars, batch>>
OnlyDevice == UNCHANGED <<clock, row, dispatchVars, clientVars, broker, ingesterVars, batch>>
OnlyIngester == UNCHANGED <<clock, dispatchVars, clientVars, broker, deviceVars, batch>>
OnlyWorker == UNCHANGED <<clock, dispatchVars, clientVars, broker, deviceVars, acks, ingesterVars>>

Init ==
  /\ clock = 0
  /\ row = [r \in Requests |-> NoRow]
  /\ stage = [r \in Requests |-> "idle"]
  /\ deadline = [r \in Requests |-> 0]
  /\ connected = TRUE
  /\ outgoing = {} /\ broker = {}
  /\ mode \in [Devices -> Modes]
  /\ processed = [r \in Requests |-> NoAnswer]
  /\ acks = {} /\ handling = {} /\ batch = {}
  /\ faults = 0
  /\ boots = [d \in Devices |-> 0]
  /\ execs = [r \in Requests |-> {}]
  /\ published = {} /\ heard = {}

Tick ==
  /\ clock < MaxTime
  /\ clock' = clock + 1
  /\ UNCHANGED <<row, dispatchVars, clientVars, broker, deviceVars, acks,
                 ingesterVars, batch, faults>>

(* One more failure: a process dies, or a call to the database or to the   *)
(* broker throws. *)
Fault ==
  /\ faults < MaxFaults
  /\ faults' = faults + 1

-----------------------------------------------------------------------------
(* The Command table *)

(* Seeded fault: the UPDATE without its WHERE on the status. *)
TransitionBlindly(c, from, to) == row' = [row EXCEPT ![c] = to]

(* One UPDATE ... WHERE id AND status IN (from): test and write together.  *)
Transition(c, from, to) ==
  row' = IF row[c].status \in from THEN [row EXCEPT ![c] = to] ELSE row

(* Seeded fault: no unique constraint. *)
ExistingUnconstrained(r) == {}

(* The row, if any, that holds the unique pair (requestedBy, key) of r.    *)
Existing(r) == {c \in Requests : row[c].status # "ABSENT" /\ KeyOf[c] = KeyOf[r]}

(* Seeded fault: the parameters are not compared. *)
SameTarget(c, r) == DeviceOf[c] = DeviceOf[r]

SameCommand(c, r) == DeviceOf[c] = DeviceOf[r] /\ ParamsOf[c] = ParamsOf[r]

-----------------------------------------------------------------------------
(* The API: CommandService.dispatch *)

Goto(r, s) == stage' = [stage EXCEPT ![r] = s]

(* validateCommand, then findById on the device, then the deadline, taken  *)
(* before the insertion. *)
Submit(r) ==
  /\ stage[r] = "idle"
  /\ clock <= LastSubmit
  /\ \/ /\ ParamsOf[r] \notin Catalog
        /\ Goto(r, "bad_request")
        /\ UNCHANGED deadline
     \/ /\ ParamsOf[r] \in Catalog
        /\ DeviceOf[r] \notin Registered
        /\ Goto(r, "not_found")
        /\ UNCHANGED deadline
     \/ /\ ParamsOf[r] \in Catalog
        /\ DeviceOf[r] \in Registered
        /\ Goto(r, "creating")
        /\ deadline' = [deadline EXCEPT ![r] = clock + AckTimeout]
  /\ OnlyApi /\ UNCHANGED <<row, published, clientVars, faults>>

(* createIfAbsent: the unique constraint lets one insertion through; the   *)
(* others read the winner back and answer from it. *)
CreateIfAbsent(r) ==
  /\ stage[r] = "creating"
  /\ \/ /\ Existing(r) = {}
        /\ row' = [row EXCEPT ![r] = [NoRow EXCEPT !.status = "PENDING",
                                                   !.expiresAt = deadline[r]]]
        /\ Goto(r, "publishing")
     \/ \E c \in Existing(r) :
          /\ Goto(r, IF SameCommand(c, r) THEN "replayed" ELSE "conflict")
          /\ UNCHANGED row
  /\ OnlyApi /\ UNCHANGED <<deadline, published, clientVars, faults>>

(* Seeded fault: without its test of `connected`, publishCommand lets       *)
(* mqtt.js queue the packet and still reports not_sent. *)
PublishQueued(r) ==
  /\ stage[r] = "publishing"
  /\ Goto(r, IF connected THEN "awaiting" ELSE "not_sent")
  /\ outgoing' = outgoing \cup {r}
  /\ published' = published \cup {r}
  /\ OnlyApi /\ UNCHANGED <<row, deadline, connected, faults>>

(* publishCommand: nothing leaves a client that knows it is disconnected;  *)
(* otherwise the packet stays in its QoS 1 store until the PUBACK. *)
PublishCommand(r) ==
  /\ stage[r] = "publishing"
  /\ \/ /\ ~connected
        /\ Goto(r, "not_sent")
        /\ UNCHANGED <<published, outgoing>>
     \/ /\ connected
        /\ Goto(r, "awaiting")
        /\ outgoing' = outgoing \cup {r}
        /\ published' = published \cup {r}
  /\ OnlyApi /\ UNCHANGED <<row, deadline, connected, faults>>

(* The broker's PUBACK empties the store, and settles the promise unless   *)
(* the timer or an error did.  One lost with the connection comes again    *)
(* after the packet is sent again. *)
PubackArrives(c) ==
  /\ connected
  /\ c \in outgoing \cap broker
  /\ outgoing' = outgoing \ {c}
  /\ stage' = IF stage[c] = "awaiting" THEN [stage EXCEPT ![c] = "confirmed"] ELSE stage
  /\ OnlyApi /\ UNCHANGED <<row, deadline, published, connected, faults>>

(* Seeded fault: no timer guards the wait for the PUBACK. *)
PublishUnguarded(r) == FALSE

(* confirmTimeoutMs elapses, or mqtt.js reports an error: the promise is    *)
(* settled without knowing whether the command left. *)
PublishUnconfirmed(r) ==
  /\ stage[r] = "awaiting"
  /\ Goto(r, "unconfirmed")
  /\ OnlyApi /\ UNCHANGED <<row, deadline, published, clientVars, faults>>

(* What the outcome of the publication changes in the row. *)
Settle(r) ==
  /\ \/ /\ stage[r] = "confirmed"
        /\ Transition(r, {"PENDING"}, [row[r] EXCEPT !.status = "SENT"])
     \/ /\ stage[r] = "not_sent"
        /\ Transition(r, {"PENDING"}, [row[r] EXCEPT !.status = "FAILED"])
  /\ Goto(r, "settled")
  /\ OnlyApi /\ UNCHANGED <<deadline, published, clientVars, faults>>

(* The row is read back for the reply. *)
ReadBack(r) ==
  /\ stage[r] \in {"settled", "unconfirmed"}
  /\ Goto(r, "accepted")
  /\ OnlyApi /\ UNCHANGED <<row, deadline, published, clientVars, faults>>

(* A database call of the handler throws: the caller gets a 500, whatever  *)
(* was written or published before stays. *)
DispatchFails(r) ==
  /\ stage[r] \in InFlight \ {"awaiting"}
  /\ Fault
  /\ Goto(r, "error")
  /\ OnlyApi /\ UNCHANGED <<row, deadline, published, clientVars>>

(* The API process dies and restarts: handlers and the memory of its MQTT  *)
(* client are gone. *)
ApiCrash ==
  /\ Fault
  /\ stage' = [r \in Requests |-> IF stage[r] \in InFlight THEN "error" ELSE stage[r]]
  /\ outgoing' = {}
  /\ connected' = FALSE
  /\ OnlyApi /\ UNCHANGED <<row, deadline, published>>

-----------------------------------------------------------------------------
(* The connection of the API to the broker *)

Disconnect ==
  /\ connected
  /\ Fault
  /\ connected' = FALSE
  /\ OnlyApi /\ UNCHANGED <<row, dispatchVars, outgoing>>

Reconnect ==
  /\ ~connected
  /\ connected' = TRUE
  /\ OnlyApi /\ UNCHANGED <<row, dispatchVars, outgoing, faults>>

(* The broker receives a publication, again if its PUBACK was lost. *)
BrokerAccepts(c) ==
  /\ connected
  /\ c \in outgoing
  /\ broker' = broker \cup {c}
  /\ UNCHANGED <<clock, row, dispatchVars, clientVars, deviceVars, acks,
                 ingesterVars, batch, faults>>

-----------------------------------------------------------------------------
(* The device: DeviceCommandHandler.handle, then sendAck *)

(* Seeded fault: forgetExpired forgets as soon as the device is idle. *)
MemoryWithoutMargin(d) ==
  [c \in Requests |-> IF DeviceOf[c] = d THEN NoAnswer ELSE processed[c]]

(* forgetExpired, run on every message: what is still remembered. *)
Memory(d) ==
  [c \in Requests |->
     IF DeviceOf[c] = d /\ row[c].expiresAt + MemoryMargin < clock
     THEN NoAnswer ELSE processed[c]]

(* sendAck. *)
Answered(c, answer) ==
  acks' = acks \cup {[cmd |-> c, from |-> DeviceOf[c],
                      status |-> answer.status, at |-> answer.at]}

(* First sight of c in this boot, by a device that answers: remember the   *)
(* answer and send it. *)
Concluded(c, status) ==
  LET answer == [status |-> status, at |-> clock] IN
  /\ processed' = [Memory(DeviceOf[c]) EXCEPT ![c] = answer]
  /\ Answered(c, answer)

Fresh(c) == Memory(DeviceOf[c])[c] = NoAnswer

(* Seeded fault: looked up before forgetExpired, answered from what is left. *)
DeviceRepeatsForgotten(c) ==
  /\ c \in broker
  /\ processed[c] # NoAnswer
  /\ processed' = Memory(DeviceOf[c])
  /\ Answered(c, Memory(DeviceOf[c])[c])
  /\ OnlyDevice /\ UNCHANGED <<mode, boots, execs, faults>>

(* Already processed: the same ACK again, no second execution. *)
DeviceRepeats(c) ==
  /\ c \in broker
  /\ ~Fresh(c)
  /\ processed' = Memory(DeviceOf[c])
  /\ Answered(c, processed[c])
  /\ OnlyDevice /\ UNCHANGED <<mode, boots, execs, faults>>

DeviceIgnores(c) ==
  /\ c \in broker
  /\ Fresh(c)
  /\ mode[DeviceOf[c]] = "silent"
  /\ processed' = Memory(DeviceOf[c])
  /\ OnlyDevice /\ UNCHANGED <<mode, boots, execs, acks, faults>>

DeviceExpires(c) ==
  /\ c \in broker
  /\ Fresh(c)
  /\ mode[DeviceOf[c]] # "silent"
  /\ clock > row[c].expiresAt
  /\ Concluded(c, "expired")
  /\ OnlyDevice /\ UNCHANGED <<mode, boots, execs, faults>>

DeviceRejects(c) ==
  /\ c \in broker
  /\ Fresh(c)
  /\ mode[DeviceOf[c]] = "reject"
  /\ clock <= row[c].expiresAt
  /\ Concluded(c, "rejected")
  /\ OnlyDevice /\ UNCHANGED <<mode, boots, execs, faults>>

(* Seeded fault: the device does not look at expires_at. *)
DeviceExecutesLate(c) ==
  /\ c \in broker
  /\ Fresh(c)
  /\ mode[DeviceOf[c]] = "normal"
  /\ execs' = [execs EXCEPT ![c] = @ \cup {[boot |-> boots[DeviceOf[c]], at |-> clock]}]
  /\ Concluded(c, "executed")
  /\ OnlyDevice /\ UNCHANGED <<mode, boots, faults>>

DeviceExecutes(c) ==
  /\ c \in broker
  /\ Fresh(c)
  /\ mode[DeviceOf[c]] = "normal"
  /\ clock <= row[c].expiresAt
  /\ execs' = [execs EXCEPT ![c] = @ \cup {[boot |-> boots[DeviceOf[c]], at |-> clock]}]
  /\ Concluded(c, "executed")
  /\ OnlyDevice /\ UNCHANGED <<mode, boots, faults>>

(* The firmware restarts: its memory of processed commands is lost. *)
DeviceRestarts(d) ==
  /\ Fault
  /\ boots' = [boots EXCEPT ![d] = @ + 1]
  /\ \E m \in Modes : mode' = [mode EXCEPT ![d] = m]
  /\ processed' = [c \in Requests |-> IF DeviceOf[c] = d THEN NoAnswer ELSE processed[c]]
  /\ OnlyDevice /\ UNCHANGED <<execs, acks>>

-----------------------------------------------------------------------------
(* The ingester: handleCommandAck and CommandService.acknowledge *)

(* Seeded fault: the command_id alone is trusted, not the topic. *)
FromAnyDevice(m) == row[m.cmd].status # "ABSENT"

(* The ACK names a command of the device whose topic it came on. *)
FromOwner(m) == row[m.cmd].status # "ABSENT" /\ m.from = DeviceOf[m.cmd]

(* findById on the command, then the owner check: an ACK for an unknown    *)
(* command, or one that a device publishes on its own topic for a command  *)
(* of another device, goes no further. *)
AckReceived(m) ==
  /\ m \in acks \cup StrayAcks
  /\ FromOwner(m)
  /\ Cardinality(handling) < MaxConcurrentAcks
  /\ handling' = handling \cup {[stage |-> "transition", ack |-> m]}
  /\ heard' = IF clock <= row[m.cmd].expiresAt + Grace
              THEN heard \cup {m.cmd} ELSE heard
  /\ OnlyIngester /\ UNCHANGED <<row, acks, faults>>

(* What the row keeps of an ACK. *)
Received(m) == [status |-> m.status, at |-> m.at]

ConcludedBy(m) ==
  [row[m.cmd] EXCEPT !.status = IF m.status = "executed" THEN "ACKNOWLEDGED" ELSE "FAILED",
                     !.ack = Received(m)]

(* The conditional UPDATE to ACKNOWLEDGED or FAILED. *)
AckTransition(a) ==
  LET c == a.ack.cmd IN
  /\ a \in handling
  /\ a.stage = "transition"
  /\ Transition(c, OPEN_COMMAND_STATUSES, ConcludedBy(a.ack))
  /\ handling' = (handling \ {a}) \cup
       (IF row[c].status \in OPEN_COMMAND_STATUSES THEN {}
        ELSE {[stage |-> "recheck", ack |-> a.ack]})
  /\ OnlyIngester /\ UNCHANGED <<acks, heard, faults>>

(* The command was no longer open: recordLateAck if it is in TIMEOUT and   *)
(* holds no late ACK yet, otherwise a duplicate without effect. *)
AckRecheck(a) ==
  LET c == a.ack.cmd IN
  /\ a \in handling
  /\ a.stage = "recheck"
  /\ row' = IF row[c].status = "TIMEOUT" /\ row[c].late = NoAnswer
            THEN [row EXCEPT ![c].late = Received(a.ack)] ELSE row
  /\ handling' = handling \ {a}
  /\ OnlyIngester /\ UNCHANGED <<acks, heard, faults>>

(* A database error is logged and the ACK forgotten: mqtt.js has already   *)
(* sent the PUBACK.  A crash of the ingester has the same effect. *)
AckAbandoned(a) ==
  /\ a \in handling
  /\ Fault
  /\ handling' = handling \ {a}
  /\ OnlyIngester /\ UNCHANGED <<row, acks, heard>>

-----------------------------------------------------------------------------
(* The worker: CommandTimeoutService.expireOverdue, polled *)

(* Seeded fault: the sweep overlooks what was never confirmed as sent. *)
OverdueSent == {c \in Requests : /\ row[c].status = "SENT"
                                 /\ row[c].expiresAt + Grace < clock}

Overdue == {c \in Requests : /\ row[c].status \in OPEN_COMMAND_STATUSES
                             /\ row[c].expiresAt + Grace < clock}

(* findOpenExpiredBefore: the BatchSize oldest deadlines. *)
SweepReads ==
  /\ batch = {}
  /\ Overdue # {}
  /\ batch' \in SUBSET Overdue
  /\ \/ batch' = Overdue /\ Cardinality(Overdue) <= BatchSize
     \/ Cardinality(batch') = BatchSize
  /\ \A c \in batch', o \in Overdue \ batch' : row[c].expiresAt <= row[o].expiresAt
  /\ OnlyWorker /\ UNCHANGED <<row, faults>>

(* The next command of the batch, which may have been concluded since. *)
SweepExpires(c) ==
  /\ c \in batch
  /\ \A o \in batch : row[c].expiresAt <= row[o].expiresAt
  /\ Transition(c, OPEN_COMMAND_STATUSES, [row[c] EXCEPT !.status = "TIMEOUT"])
  /\ batch' = batch \ {c}
  /\ OnlyWorker /\ UNCHANGED faults

(* The sweep fails half-way, or the worker restarts; the next sweep reads  *)
(* the table again. *)
SweepFails ==
  /\ batch # {}
  /\ Fault
  /\ batch' = {}
  /\ OnlyWorker /\ UNCHANGED row

-----------------------------------------------------------------------------

Api(r) == Submit(r) \/ CreateIfAbsent(r) \/ PublishCommand(r) \/ PubackArrives(r)
            \/ PublishUnconfirmed(r) \/ Settle(r) \/ ReadBack(r) \/ DispatchFails(r)

Device(c) == DeviceRepeats(c) \/ DeviceIgnores(c) \/ DeviceExpires(c)
               \/ DeviceRejects(c) \/ DeviceExecutes(c)

Ingester ==
  \/ \E m \in acks \cup StrayAcks : AckReceived(m)
  \/ \E a \in handling : AckTransition(a) \/ AckRecheck(a) \/ AckAbandoned(a)

Worker == SweepReads \/ (\E c \in batch : SweepExpires(c)) \/ SweepFails

Next ==
  \/ Tick \/ ApiCrash \/ Disconnect \/ Reconnect
  \/ \E c \in Requests : Api(c) \/ BrokerAccepts(c) \/ Device(c)
  \/ \E d \in Devices : DeviceRestarts(d)
  \/ Ingester
  \/ Worker

Spec == Init /\ [][Next]_vars

(* Time passes, the sweep timer keeps firing and its loop runs on, a       *)
(* handler that holds no failing call runs to its reply.  Nothing is asked *)
(* of the network, of the devices or of the ingester. *)
Fairness ==
  /\ WF_vars(Tick)
  /\ WF_vars(SweepReads)
  /\ WF_vars(\E c \in batch : SweepExpires(c))
  /\ \A r \in Requests :
       WF_vars(\/ CreateIfAbsent(r) \/ PublishCommand(r) \/ PublishUnconfirmed(r)
               \/ Settle(r) \/ ReadBack(r))

FairSpec == Spec /\ Fairness

-----------------------------------------------------------------------------
(* Properties *)

TypeOK ==
  /\ clock \in Nat
  /\ row \in [Requests -> Row]
  /\ stage \in [Requests -> Stages]
  /\ deadline \in [Requests -> Nat]
  /\ connected \in BOOLEAN
  /\ outgoing \subseteq Requests /\ broker \subseteq Requests
  /\ mode \in [Devices -> Modes]
  /\ processed \in [Requests -> Answer]
  /\ acks \subseteq Ack
  /\ handling \subseteq Activation
  /\ batch \subseteq Requests
  /\ faults \in Nat
  /\ boots \in [Devices -> Nat]
  /\ execs \in [Requests -> SUBSET [boot : Nat, at : Nat]]
  /\ published \subseteq Requests /\ heard \subseteq Requests

Exists(c) == row[c].status # "ABSENT"

(* The device did give `answer` to c by executing it, in time.              *)
Witnessed(c, answer) ==
  answer.status = "executed" =>
    \E e \in execs[c] : e.at = answer.at /\ e.at <= row[c].expiresAt

(* When the backend says "executed" - ACKNOWLEDGED, or the late ACK of a    *)
(* TIMEOUT - the command's own device did execute it, at the acked_at that  *)
(* is kept, and not after expires_at (ADR 0014). *)
ExecutedIsTrue ==
  \A c \in Requests : Witnessed(c, row[c].ack) /\ Witnessed(c, row[c].late)

MemoryIsTrue == \A c \in Requests : Witnessed(c, processed[c])
AcksAreTrue == \A m \in acks : m.from = DeviceOf[m.cmd] /\ Witnessed(m.cmd, m)
HandledIsTrue == \A a \in handling : Witnessed(a.ack.cmd, a.ack)
RowComesFirst ==
  \A c \in Requests :
    /\ ~Exists(c) => c \notin outgoing \cup broker /\ execs[c] = {}
    /\ stage[c] \in {"publishing", "awaiting"} \cup Outcomes => Exists(c)

(* Why it is: the word "executed" is witnessed at every place it passes     *)
(* through, from the device's memory to the ACK handlers of the ingester,   *)
(* and nothing moves on behalf of a command before its row exists.          *)
WordOfTheDevice ==
  ExecutedIsTrue /\ MemoryIsTrue /\ AcksAreTrue /\ HandledIsTrue /\ RowComesFirst

(* ACKNOWLEDGED is only ever the device's own word: no other process and    *)
(* no other kind of answer leads there. *)
AnswerMatchesStatus ==
  \A c \in Requests :
    /\ row[c].status = "ACKNOWLEDGED" <=> row[c].ack.status = "executed"
    /\ row[c].late # NoAnswer => row[c].status = "TIMEOUT"

(* broker_unavailable is a certainty: such a command never left and never   *)
(* will, whatever the broker connection and the retries do afterwards.      *)
UnsentNeverRuns ==
  \A c \in Requests :
    row[c].status = "FAILED" /\ row[c].ack = NoAnswer =>
      c \notin outgoing \cup broker /\ execs[c] = {}

(* One intention of a user, however often the request is replayed and by    *)
(* however many concurrent handlers: one command, published at most once.   *)
OneCommandPerIntention ==
  /\ \A c1, c2 \in Requests :
       Exists(c1) /\ Exists(c2) /\ KeyOf[c1] = KeyOf[c2] => c1 = c2
  /\ \A c \in published : Exists(c)

(* What a caller was told stays true of the table: a replay stands for the  *)
(* very command it asked for, and a refusal left neither row nor message.   *)
ReplyIsTrue ==
  \A r \in Requests :
    /\ stage[r] = "replayed" =>
         \E c \in Requests :
           /\ Exists(c)
           /\ KeyOf[c] = KeyOf[r] /\ DeviceOf[c] = DeviceOf[r] /\ ParamsOf[c] = ParamsOf[r]
    /\ stage[r] \in {"replayed", "conflict", "bad_request", "not_found"} =>
         ~Exists(r) /\ r \notin outgoing \cup broker

(* The device's memory makes redeliveries harmless for as long as it lives. *)
OneExecutionPerBoot ==
  \A c \in Requests : \A e1, e2 \in execs[c] : e1.boot = e2.boot => e1 = e2

(* FAILED on the word of the device means "not executed" as long as that    *)
(* device has not restarted and answered within its memory of the command. *)
FailureIsTrueWithinMemory ==
  \A c \in Requests :
    /\ row[c].status = "FAILED" /\ row[c].ack # NoAnswer
    /\ boots[DeviceOf[c]] = 0
    /\ row[c].ack.at <= row[c].expiresAt + MemoryMargin
    => execs[c] = {}

(* A terminal status, the answer that led to it and a recorded late ACK     *)
(* never change, whichever of the three processes comes afterwards. *)
TerminalIsFinal ==
  [][\A c \in Requests :
       /\ row[c].status \in Terminal =>
            row'[c].status = row[c].status /\ row'[c].ack = row[c].ack
       /\ row[c].late # NoAnswer => row'[c].late = row[c].late
       /\ Exists(c) => Exists(c)' /\ row'[c].expiresAt = row[c].expiresAt]_row

(* Once the sweep has given a command up, no device carries it out any      *)
(* more: what was asked and abandoned does not happen afterwards (ADR 0014, *)
(* "une commande perimee pourrait etre executee en retard").                *)
TimeoutNeverRunsLater ==
  [][\A c \in Requests : row[c].status = "TIMEOUT" => execs'[c] = execs[c]]_vars

(* No command stays open for ever: an ACK or the sweep concludes it, also   *)
(* when the handler that created it died before publishing. *)
EventuallyConcluded ==
  \A c \in Requests :
    row[c].status \in OPEN_COMMAND_STATUSES ~> row[c].status \in Terminal

(* Every accepted request gets its reply, also when no PUBACK ever comes.   *)
EventuallyAnswered ==
  \A r \in Requests : stage[r] \in InFlight ~> stage[r] \in Replies

(* The answer a reader of the row sees. *)
Kept(c) == IF row[c].late # NoAnswer THEN row[c].late ELSE row[c].ack

(* The pipeline implements the life cycle of ADR 0014: every step of every  *)
(* process is a step of the contract on what a reader of the row sees. *)
Contract == INSTANCE CommandContract WITH
  Commands <- Requests,
  status <- [c \in Requests |-> row[c].status],
  answer <- [c \in Requests |-> Kept(c).status],
  timely <- [c \in Requests |-> Kept(c).at <= row[c].expiresAt + MemoryMargin],
  ran <- [c \in Requests |-> execs[c] # {}],
  restarted <- [c \in Requests |-> boots[DeviceOf[c]] > 0]

FollowsContract == Contract!Spec

(* Command.ts, on FAILED: "non executee, avec certitude". *)
FailedMeansNotExecuted ==
  \A c \in Requests : row[c].status = "FAILED" => execs[c] = {}

(* Command.ts, on TIMEOUT: "aucun ACK dans le delai".  Leaving aside an ACK *)
(* still being handled or recorded as late, none had come in time. *)
TimeoutMeansNoAck ==
  \A c \in Requests :
    /\ row[c].status = "TIMEOUT" /\ row[c].late = NoAnswer
    /\ \A a \in handling : a.ack.cmd # c
    => c \notin heard
=============================================================================
