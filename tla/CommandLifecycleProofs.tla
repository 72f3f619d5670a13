----------------------- MODULE CommandLifecycleProofs -----------------------
(***************************************************************************)
(* What holds of CommandLifecycle for any requests, devices, delays and    *)
(* number of failures.                                                     *)
(***************************************************************************)
EXTENDS CommandLifecycle, TLAPS

(* Every variable keeps its type. *)
LEMMA TypeInit == Init => TypeOK
  BY TimingAssumption DEF Init, TypeOK, Row, NoRow, Answer, NoAnswer, Statuses, Stages

LEMMA TypeApi ==
  ASSUME TypeOK, NEW r \in Requests, Api(r)
  PROVE  TypeOK'
<1> USE DEF TypeOK, OnlyApi, Goto
<1>1. CASE Submit(r)
  BY <1>1, TimingAssumption DEF Submit, Stages, InFlight, Replies, ingesterVars, deviceVars, clientVars
<1>2. CASE CreateIfAbsent(r)
  <2>1. [NoRow EXCEPT !.status = "PENDING", !.expiresAt = deadline[r]] \in Row
    BY DEF Row, NoRow, Answer, NoAnswer, Statuses, OPEN_COMMAND_STATUSES
  <2>2. row' \in [Requests -> Row]
    BY <1>2, <2>1 DEF CreateIfAbsent
  <2>3. stage' \in [Requests -> Stages]
    BY <1>2 DEF CreateIfAbsent, Stages, InFlight, Replies
  <2>4. QED
    BY <1>2, <2>2, <2>3 DEF CreateIfAbsent, ingesterVars, deviceVars, clientVars
<1>3. CASE PublishCommand(r)
  BY <1>3 DEF PublishCommand, Stages, InFlight, Outcomes, ingesterVars, deviceVars
<1>4. CASE PubackArrives(r)
  BY <1>4 DEF PubackArrives, Stages, InFlight, Outcomes, ingesterVars, deviceVars
<1>5. CASE PublishUnconfirmed(r)
  BY <1>5 DEF PublishUnconfirmed, Stages, InFlight, Outcomes, ingesterVars, deviceVars, clientVars
<1>6. CASE Settle(r)
  <2>1. ASSUME NEW s \in Statuses
        PROVE  [row[r] EXCEPT !.status = s] \in Row
    BY DEF Row
  <2>2. row' \in [Requests -> Row]
    BY <1>6, <2>1 DEF Settle, Transition, Statuses, OPEN_COMMAND_STATUSES, Terminal
  <2>3. stage' \in [Requests -> Stages]
    BY <1>6 DEF Settle, Stages, InFlight
  <2>4. QED
    BY <1>6, <2>2, <2>3 DEF Settle, ingesterVars, deviceVars, clientVars
<1>7. CASE ReadBack(r)
  BY <1>7 DEF ReadBack, Stages, Replies, ingesterVars, deviceVars, clientVars
<1>8. CASE DispatchFails(r)
  BY <1>8 DEF DispatchFails, Fault, Stages, Replies, ingesterVars, deviceVars, clientVars
<1>9. QED
  BY <1>1, <1>2, <1>3, <1>4, <1>5, <1>6, <1>7, <1>8 DEF Api

LEMMA TypeDevice ==
  ASSUME TypeOK, NEW c \in Requests, Device(c)
  PROVE  TypeOK'
<1> USE DEF TypeOK, OnlyDevice
<1>1. DeviceOf[c] \in Devices
  BY RequestsAssumption
<1>2. Memory(DeviceOf[c]) \in [Requests -> Answer]
  BY DEF Memory, Answer, NoAnswer
<1>3. ASSUME NEW s \in AckStatuses, Concluded(c, s)
      PROVE  processed' \in [Requests -> Answer] /\ acks' \subseteq Ack
  BY <1>1, <1>2, <1>3 DEF Concluded, Answered, Ack, Answer, AckStatuses
<1>4. CASE DeviceRepeats(c)
  <2>1. processed[c].status \in AckStatuses /\ processed[c].at \in Nat
    BY <1>4 DEF DeviceRepeats, Fresh, Memory, Answer, NoAnswer, AckStatuses
  <2>2. acks' \subseteq Ack
    BY <1>1, <1>4, <2>1 DEF DeviceRepeats, Answered, Ack
  <2>3. QED
    BY <1>2, <1>4, <2>2 DEF DeviceRepeats, ingesterVars, clientVars, dispatchVars
<1>5. CASE DeviceIgnores(c)
  BY <1>2, <1>5 DEF DeviceIgnores, ingesterVars, clientVars, dispatchVars
<1>6. CASE DeviceExpires(c)
  BY <1>3, <1>6 DEF DeviceExpires, AckStatuses, ingesterVars, clientVars, dispatchVars
<1>7. CASE DeviceRejects(c)
  BY <1>3, <1>7 DEF DeviceRejects, AckStatuses, ingesterVars, clientVars, dispatchVars
<1>8. CASE DeviceExecutes(c)
  BY <1>1, <1>3, <1>8 DEF DeviceExecutes, AckStatuses, ingesterVars, clientVars, dispatchVars
<1>9. QED
  BY <1>4, <1>5, <1>6, <1>7, <1>8 DEF Device

LEMMA ConcludedByType ==
  ASSUME TypeOK, NEW m \in Ack
  PROVE  /\ ConcludedBy(m) \in Row
         /\ ConcludedBy(m).expiresAt = row[m.cmd].expiresAt
         /\ ConcludedBy(m).late = row[m.cmd].late
         /\ ConcludedBy(m).ack = Received(m)
         /\ ConcludedBy(m).status = IF m.status = "executed" THEN "ACKNOWLEDGED" ELSE "FAILED"
<1> DEFINE to == IF m.status = "executed" THEN "ACKNOWLEDGED" ELSE "FAILED"
<1>1. row[m.cmd] \in Row
  BY DEF TypeOK, Ack
<1>2. Received(m) \in Answer /\ to \in Statuses
  BY DEF Received, Ack, Answer, Statuses, Terminal
<1> HIDE DEF to
<1>3. ConcludedBy(m) = [row[m.cmd] EXCEPT !.status = to, !.ack = Received(m)]
  BY DEF ConcludedBy, to
<1>4. /\ ConcludedBy(m) \in Row
      /\ ConcludedBy(m).expiresAt = row[m.cmd].expiresAt
      /\ ConcludedBy(m).late = row[m.cmd].late
      /\ ConcludedBy(m).ack = Received(m)
      /\ ConcludedBy(m).status = to
  BY <1>1, <1>2, <1>3 DEF Row
<1>5. QED
  BY <1>4 DEF to

LEMMA TypeIngester ==
  ASSUME TypeOK, Ingester
  PROVE  TypeOK'
<1> USE DEF TypeOK, OnlyIngester, deviceVars, clientVars, dispatchVars
<1>1. ASSUME NEW m \in acks \cup StrayAcks, AckReceived(m)
      PROVE  TypeOK'
  <2>1. m \in Ack
    BY DeviceAssumption
  <2>2. handling' \subseteq Activation /\ heard' \subseteq Requests
    BY <1>1, <2>1 DEF AckReceived, Activation, Ack
  <2>3. QED
    BY <1>1, <2>2 DEF AckReceived
<1>2. ASSUME NEW a \in handling, AckTransition(a)
      PROVE  TypeOK'
  <2>1. a.ack \in Ack /\ ConcludedBy(a.ack) \in Row
    BY ConcludedByType DEF Activation
  <2>2. row' \in [Requests -> Row]
    BY <1>2, <2>1 DEF AckTransition, Transition, Ack
  <2>3. handling' \subseteq Activation
    BY <1>2, <2>1 DEF AckTransition, Activation
  <2>4. QED
    BY <1>2, <2>2, <2>3 DEF AckTransition
<1>3. ASSUME NEW a \in handling, AckRecheck(a)
      PROVE  TypeOK'
  <2>1. a.ack \in Ack /\ Received(a.ack) \in Answer
    BY DEF Activation, Ack, Received, Answer
  <2>2. row' \in [Requests -> Row]
    BY <1>3, <2>1 DEF AckRecheck, Ack, Row
  <2>3. QED
    BY <1>3, <2>2 DEF AckRecheck
<1>4. ASSUME NEW a \in handling, AckAbandoned(a)
      PROVE  TypeOK'
  BY <1>4 DEF AckAbandoned, Fault
<1>5. QED
  BY <1>1, <1>2, <1>3, <1>4 DEF Ingester

LEMMA TypeWorker ==
  ASSUME TypeOK, Worker
  PROVE  TypeOK'
<1> USE DEF TypeOK, OnlyWorker, deviceVars, clientVars, dispatchVars, ingesterVars
<1>1. CASE SweepReads
  BY <1>1 DEF SweepReads, Overdue
<1>2. ASSUME NEW c \in batch, SweepExpires(c)
      PROVE  TypeOK'
  BY <1>2 DEF SweepExpires, Transition, Row, Statuses, Terminal
<1>3. CASE SweepFails
  BY <1>3 DEF SweepFails, Fault
<1>4. QED
  BY <1>1, <1>2, <1>3 DEF Worker

LEMMA TypeStep == TypeOK /\ [Next]_vars => TypeOK'
<1> SUFFICES ASSUME TypeOK, [Next]_vars PROVE TypeOK'
  OBVIOUS
<1> USE DEF ingesterVars, deviceVars, clientVars, dispatchVars
<1>1. CASE Tick
  BY <1>1 DEF Tick, TypeOK
<1>2. CASE ApiCrash
  <2>1. connected' \in BOOLEAN
    BY <1>2 DEF ApiCrash
  <2>2. stage' \in [Requests -> Stages]
    BY <1>2 DEF ApiCrash, TypeOK, Stages, Replies
  <2>3. QED
    BY <1>2, <2>1, <2>2 DEF ApiCrash, Fault, OnlyApi, TypeOK
<1>3. CASE Disconnect \/ Reconnect
  <2>1. connected' \in BOOLEAN
    BY <1>3 DEF Disconnect, Reconnect
  <2>2. faults' \in Nat
    BY <1>3 DEF Disconnect, Reconnect, Fault, TypeOK
  <2>3. QED
    BY <1>3, <2>1, <2>2 DEF Disconnect, Reconnect, OnlyApi, TypeOK
<1>4. ASSUME NEW c \in Requests, BrokerAccepts(c)
      PROVE  TypeOK'
  BY <1>4 DEF BrokerAccepts, TypeOK
<1>5. ASSUME NEW d \in Devices, DeviceRestarts(d)
      PROVE  TypeOK'
  BY <1>5 DEF DeviceRestarts, Fault, OnlyDevice, TypeOK, Answer, NoAnswer
<1>6. CASE UNCHANGED vars
  BY <1>6 DEF vars, TypeOK
<1>7. QED
  BY <1>1, <1>2, <1>3, <1>4, <1>5, <1>6, TypeApi, TypeDevice, TypeIngester, TypeWorker DEF Next

(* Every variable of the pipeline keeps its type, for any instance.        *)
THEOREM TypeCorrect == Spec => []TypeOK
  BY TypeInit, TypeStep, PTL DEF Spec

-----------------------------------------------------------------------------
(* What a step may do to a row, whichever process takes it: everything      *)
(* about the life cycle follows from these four changes.                    *)
Created(c) ==
  /\ CreateIfAbsent(c)
  /\ Existing(c) = {}
  /\ ~Exists(c)
  /\ row'[c].status = "PENDING" /\ row'[c].ack = NoAnswer /\ row'[c].late = NoAnswer
  /\ \A o \in Requests \ {c} : row'[o] = row[o]

Moved(c) ==
  /\ row[c].status \in OPEN_COMMAND_STATUSES
  /\ row'[c].status \in {"SENT", "FAILED", "TIMEOUT"}
  /\ row'[c].expiresAt = row[c].expiresAt
  /\ row'[c].ack = row[c].ack /\ row'[c].late = row[c].late

ConcludedByAck(c) ==
  /\ row[c].status \in OPEN_COMMAND_STATUSES
  /\ row'[c].expiresAt = row[c].expiresAt /\ row'[c].late = row[c].late
  /\ row'[c].ack.status \in AckStatuses
  /\ row'[c].status =
       IF row'[c].ack.status = "executed" THEN "ACKNOWLEDGED" ELSE "FAILED"

CompletedLate(c) ==
  /\ row[c].status = "TIMEOUT" /\ row[c].late = NoAnswer
  /\ row'[c].status = row[c].status /\ row'[c].expiresAt = row[c].expiresAt
  /\ row'[c].ack = row[c].ack

LEMMA RowStep ==
  ASSUME TypeOK, [Next]_vars, NEW c \in Requests
  PROVE  row'[c] = row[c] \/ Created(c) \/ Moved(c) \/ ConcludedByAck(c) \/ CompletedLate(c)
<1> USE DEF TypeOK
<1>1. ASSUME NEW r \in Requests, CreateIfAbsent(r)
      PROVE  row'[c] = row[c] \/ Created(c)
  <2>1. CASE UNCHANGED row
    BY <2>1
  <2>2. CASE Existing(r) = {} /\ c # r
    BY <1>1, <2>2 DEF CreateIfAbsent
  <2>3. CASE Existing(r) = {} /\ c = r
    <3>1. ~Exists(c)
      BY <2>3, RequestsAssumption DEF Existing, Exists
    <3>2. /\ row'[c].status = "PENDING" /\ row'[c].ack = NoAnswer /\ row'[c].late = NoAnswer
          /\ \A o \in Requests \ {c} : row'[o] = row[o]
      BY <1>1, <2>3 DEF CreateIfAbsent, NoRow
    <3>3. QED
      BY <1>1, <2>3, <3>1, <3>2 DEF Created
  <2>4. QED
    BY <1>1, <2>1, <2>2, <2>3 DEF CreateIfAbsent
<1>2. ASSUME NEW r \in Requests, NEW s \in {"SENT", "FAILED", "TIMEOUT"},
             NEW from \in SUBSET OPEN_COMMAND_STATUSES,
             Transition(r, from, [row[r] EXCEPT !.status = s])
      PROVE  row'[c] = row[c] \/ Moved(c)
  <2> DEFINE v == [row[r] EXCEPT !.status = s]
  <2>1. v.status = s /\ v.expiresAt = row[r].expiresAt /\ v.ack = row[r].ack /\ v.late = row[r].late
    BY DEF Row
  <2> HIDE DEF v
  <2>2. row' = row \/ (row[r].status \in OPEN_COMMAND_STATUSES /\ row' = [row EXCEPT ![r] = v])
    BY <1>2 DEF Transition, v
  <2>3. QED
    BY <2>1, <2>2 DEF Moved
<1>3. ASSUME NEW r \in Requests, Settle(r)
      PROVE  row'[c] = row[c] \/ Moved(c)
  <2>1. \/ Transition(r, {"PENDING"}, [row[r] EXCEPT !.status = "SENT"])
        \/ Transition(r, {"PENDING"}, [row[r] EXCEPT !.status = "FAILED"])
    BY <1>3, Zenon DEF Settle
  <2>2. {"PENDING"} \in SUBSET OPEN_COMMAND_STATUSES
    BY DEF OPEN_COMMAND_STATUSES
  <2>3. QED
    BY <1>2, <2>1, <2>2
<1>4. ASSUME NEW r \in batch, SweepExpires(r)
      PROVE  row'[c] = row[c] \/ Moved(c)
  BY <1>2, <1>4 DEF SweepExpires
<1>5. ASSUME NEW a \in handling, AckTransition(a)
      PROVE  row'[c] = row[c] \/ ConcludedByAck(c)
  <2>1. a.ack \in Ack /\ a.ack.cmd \in Requests
    BY DEF Activation, Ack
  <2>2. \/ row' = row
        \/ /\ row[a.ack.cmd].status \in OPEN_COMMAND_STATUSES
           /\ row' = [row EXCEPT ![a.ack.cmd] = ConcludedBy(a.ack)]
    BY <1>5 DEF AckTransition, Transition
  <2>3. Received(a.ack).status = a.ack.status /\ a.ack.status \in AckStatuses
    BY <2>1 DEF Received, Ack
  <2>4. ConcludedBy(a.ack).status = IF a.ack.status = "executed" THEN "ACKNOWLEDGED" ELSE "FAILED"
    BY <2>1, ConcludedByType
  <2>5. CASE c = a.ack.cmd
    BY <2>1, <2>2, <2>3, <2>4, <2>5, ConcludedByType DEF ConcludedByAck
  <2>6. CASE c # a.ack.cmd
    BY <2>1, <2>2, <2>6
  <2>7. QED
    BY <2>5, <2>6
<1>6. ASSUME NEW a \in handling, AckRecheck(a)
      PROVE  row'[c] = row[c] \/ CompletedLate(c)
  BY <1>6 DEF AckRecheck, CompletedLate, Activation, Ack, Row
<1>7. ASSUME NEW r \in Requests,
             Submit(r) \/ PublishCommand(r) \/ PubackArrives(r) \/ PublishUnconfirmed(r)
               \/ ReadBack(r) \/ DispatchFails(r)
      PROVE  UNCHANGED row
  BY <1>7 DEF Submit, PublishCommand, PubackArrives, PublishUnconfirmed, ReadBack, DispatchFails
<1>8. ASSUME NEW r \in Requests, Device(r)
      PROVE  UNCHANGED row
  BY <1>8 DEF Device, DeviceRepeats, DeviceIgnores, DeviceExpires, DeviceRejects,
              DeviceExecutes, OnlyDevice
<1>9. CASE \/ Tick \/ ApiCrash \/ Disconnect \/ Reconnect \/ SweepReads \/ SweepFails
           \/ UNCHANGED vars
  BY <1>9 DEF Tick, ApiCrash, Disconnect, Reconnect, SweepReads, SweepFails, OnlyWorker, vars
<1>10. ASSUME NEW r \in Requests, BrokerAccepts(r)
       PROVE  UNCHANGED row
  BY <1>10 DEF BrokerAccepts
<1>11. ASSUME NEW d \in Devices, DeviceRestarts(d)
       PROVE  UNCHANGED row
  BY <1>11 DEF DeviceRestarts, OnlyDevice
<1>12. ASSUME NEW x, AckReceived(x) \/ AckAbandoned(x)
       PROVE  UNCHANGED row
  BY <1>12 DEF AckReceived, AckAbandoned
<1>13. QED
  BY <1>1, <1>3, <1>4, <1>5, <1>6, <1>7, <1>8, <1>9, <1>10, <1>11, <1>12
  DEF Next, Api, Ingester, Worker

-----------------------------------------------------------------------------
(* "Executed" is true: WordOfTheDevice is inductive. *)

(* Executions are only added, to commands whose row exists, and a row keeps *)
(* the deadline it was created with.                                        *)
LEMMA HistoryStep ==
  ASSUME TypeOK, RowComesFirst, [Next]_vars, NEW c \in Requests
  PROVE  /\ execs[c] \subseteq execs'[c]
         /\ Exists(c) => Exists(c)' /\ row'[c].expiresAt = row[c].expiresAt
         /\ execs[c] # {} => row'[c].expiresAt = row[c].expiresAt
<1>1. execs[c] # {} => Exists(c)
  BY DEF RowComesFirst
<1>2. Exists(c) => Exists(c)' /\ row'[c].expiresAt = row[c].expiresAt
  BY RowStep DEF Exists, Created, Moved, ConcludedByAck, CompletedLate, OPEN_COMMAND_STATUSES
<1>3. ASSUME NEW r \in Requests, DeviceExecutes(r)
      PROVE  execs[c] \subseteq execs'[c]
  BY <1>3 DEF DeviceExecutes, TypeOK
<1>4. ASSUME NEW r \in Requests, Api(r) \/ BrokerAccepts(r)
      PROVE  UNCHANGED execs
  BY <1>4 DEF Api, Submit, CreateIfAbsent, PublishCommand, PubackArrives, PublishUnconfirmed,
              Settle, ReadBack, DispatchFails, OnlyApi, BrokerAccepts, deviceVars
<1>5. ASSUME NEW r \in Requests,
             DeviceRepeats(r) \/ DeviceIgnores(r) \/ DeviceExpires(r) \/ DeviceRejects(r)
      PROVE  UNCHANGED execs
  BY <1>5 DEF DeviceRepeats, DeviceIgnores, DeviceExpires, DeviceRejects
<1>6. ASSUME Tick \/ ApiCrash \/ Disconnect \/ Reconnect \/ Ingester \/ Worker \/ UNCHANGED vars
      PROVE  UNCHANGED execs
  <2> USE DEF deviceVars
  <2>1. CASE Ingester
    BY <2>1 DEF Ingester, AckReceived, AckTransition, AckRecheck, AckAbandoned, OnlyIngester
  <2>2. CASE Worker
    BY <2>2 DEF Worker, SweepReads, SweepExpires, SweepFails, OnlyWorker
  <2>3. CASE Tick \/ ApiCrash \/ Disconnect \/ Reconnect \/ UNCHANGED vars
    BY <2>3 DEF Tick, ApiCrash, Disconnect, Reconnect, OnlyApi, vars
  <2>4. QED
    BY <1>6, <2>1, <2>2, <2>3
<1>7. ASSUME NEW d \in Devices, DeviceRestarts(d)
      PROVE  UNCHANGED execs
  BY <1>7 DEF DeviceRestarts
<1>8. QED
  BY <1>1, <1>2, <1>3, <1>4, <1>5, <1>6, <1>7 DEF Next, Device

(* What was witnessed stays so. *)
LEMMA WitnessStep ==
  ASSUME TypeOK, WordOfTheDevice, [Next]_vars, NEW c \in Requests, NEW answer,
         Witnessed(c, answer)
  PROVE  Witnessed(c, answer)'
<1>1. CASE answer.status = "executed"
  <2>1. PICK e \in execs[c] : e.at = answer.at /\ e.at <= row[c].expiresAt
    BY <1>1 DEF Witnessed
  <2>2. e \in execs'[c] /\ row'[c].expiresAt = row[c].expiresAt
    BY <2>1, HistoryStep DEF WordOfTheDevice
  <2>3. QED
    BY <2>1, <2>2 DEF Witnessed
<1>2. CASE answer.status # "executed"
  BY <1>2 DEF Witnessed
<1>3. QED
  BY <1>1, <1>2

(* The parts of WordOfTheDevice that a step leaves alone. *)
LEMMA WordFrame ==
  ASSUME TypeOK, WordOfTheDevice, [Next]_vars
  PROVE  /\ UNCHANGED row => ExecutedIsTrue'
         /\ UNCHANGED processed => MemoryIsTrue'
         /\ UNCHANGED acks => AcksAreTrue'
         /\ handling' \subseteq handling => HandledIsTrue'
         /\ UNCHANGED <<outgoing, broker, execs, stage>> => RowComesFirst'
<1> USE WitnessStep DEF WordOfTheDevice
<1>1. ASSUME UNCHANGED row PROVE ExecutedIsTrue'
  BY <1>1 DEF ExecutedIsTrue
<1>2. ASSUME UNCHANGED processed PROVE MemoryIsTrue'
  BY <1>2 DEF MemoryIsTrue
<1>3. ASSUME UNCHANGED acks PROVE AcksAreTrue'
  BY <1>3 DEF AcksAreTrue, TypeOK, Ack
<1>4. ASSUME handling' \subseteq handling PROVE HandledIsTrue'
  BY <1>4 DEF HandledIsTrue, TypeOK, Activation, Ack
<1>5. ASSUME UNCHANGED <<outgoing, broker, execs, stage>> PROVE RowComesFirst'
  BY <1>5, HistoryStep DEF RowComesFirst
<1>6. QED
  BY <1>1, <1>2, <1>3, <1>4, <1>5

LEMMA WordInit == Init => WordOfTheDevice
  BY DEF Init, WordOfTheDevice, ExecutedIsTrue, MemoryIsTrue, AcksAreTrue, HandledIsTrue,
         RowComesFirst, Witnessed, NoRow, NoAnswer, Exists, Outcomes

(* Next is assumed because the frame lemma speaks of whole steps.          *)
LEMMA WordApi ==
  ASSUME TypeOK, WordOfTheDevice, [Next]_vars, NEW r \in Requests, Api(r)
  PROVE  WordOfTheDevice'
<1>1. MemoryIsTrue' /\ AcksAreTrue' /\ HandledIsTrue'
  <2>1. OnlyApi
    BY DEF Api, Submit, CreateIfAbsent, PublishCommand, PubackArrives, PublishUnconfirmed,
           Settle, ReadBack, DispatchFails
  <2>2. QED
    BY <2>1, WordFrame DEF OnlyApi, deviceVars, ingesterVars
<1>2. ExecutedIsTrue'
  <2>1. CASE UNCHANGED row
    BY <2>1, WordFrame
  <2>2. CASE CreateIfAbsent(r) /\ Existing(r) = {}
    <3>1. ~Exists(r)
      BY <2>2, RequestsAssumption DEF Existing, Exists
    <3>2. row'[r].ack = NoAnswer /\ row'[r].late = NoAnswer
      BY <2>2 DEF CreateIfAbsent, TypeOK, NoRow, Existing
    <3>3. \A c \in Requests \ {r} : row'[c] = row[c]
      BY <2>2 DEF CreateIfAbsent, TypeOK
    <3>4. Witnessed(r, NoAnswer)
      BY DEF Witnessed, NoAnswer
    <3>5. QED
      BY <3>2, <3>3, <3>4, WitnessStep DEF WordOfTheDevice, ExecutedIsTrue
  <2>3. CASE Settle(r)
    <3>1. \A c \in Requests : row'[c].ack = row[c].ack /\ row'[c].late = row[c].late
      BY <2>3 DEF Settle, Transition, TypeOK, Row
    <3>2. QED
      BY <3>1, WitnessStep DEF WordOfTheDevice, ExecutedIsTrue
  <2>4. QED
    BY <2>1, <2>2, <2>3 DEF Api, Submit, CreateIfAbsent, PublishCommand, PubackArrives,
                            PublishUnconfirmed, ReadBack, DispatchFails
<1>3. RowComesFirst'
  <2>1. execs' = execs /\ broker' = broker /\ RowComesFirst
    BY DEF Api, Submit, CreateIfAbsent, PublishCommand, PubackArrives, PublishUnconfirmed,
           Settle, ReadBack, DispatchFails, OnlyApi, deviceVars, WordOfTheDevice
  <2>2. \A c \in Requests : Exists(c) => Exists(c)'
    BY HistoryStep DEF WordOfTheDevice
  <2>3. CASE Submit(r)
    BY <2>1, <2>2, <2>3 DEF Submit, Goto, RowComesFirst, Outcomes, TypeOK, clientVars
  <2>4. CASE CreateIfAbsent(r)
    <3>1. stage'[r] \in {"replayed", "conflict"} \/ Exists(r)'
      BY <2>4 DEF CreateIfAbsent, Goto, Exists, TypeOK, NoRow
    <3>2. \A c \in Requests \ {r} : stage'[c] = stage[c]
      BY <2>4 DEF CreateIfAbsent, Goto, TypeOK
    <3>3. outgoing' = outgoing
      BY <2>4 DEF CreateIfAbsent, clientVars
    <3>4. QED
      BY <2>1, <2>2, <3>1, <3>2, <3>3 DEF RowComesFirst, Outcomes
  <2>5. CASE PublishCommand(r)
    <3>1. Exists(r) /\ outgoing' \subseteq outgoing \cup {r}
      BY <2>1, <2>5 DEF PublishCommand, RowComesFirst
    <3>2. \A c \in Requests \ {r} : stage'[c] = stage[c]
      BY <2>5 DEF PublishCommand, Goto, TypeOK
    <3>3. QED
      BY <2>1, <2>2, <3>1, <3>2 DEF RowComesFirst
  <2>6. CASE PubackArrives(r)
    <3>1. outgoing' \subseteq outgoing
      BY <2>6 DEF PubackArrives
    <3>2. \A c \in Requests : stage'[c] = stage[c] \/ (c = r /\ stage[c] = "awaiting")
      BY <2>6 DEF PubackArrives, TypeOK
    <3>3. QED
      BY <2>1, <2>2, <3>1, <3>2 DEF RowComesFirst
  <2>7. CASE PublishUnconfirmed(r) \/ Settle(r) \/ ReadBack(r) \/ DispatchFails(r)
    <3>1. outgoing' = outgoing
      BY <2>7 DEF PublishUnconfirmed, Settle, ReadBack, DispatchFails, clientVars
    <3>2. \A c \in Requests : \/ stage'[c] = stage[c]
                              \/ c = r /\ stage[c] = "awaiting"
                              \/ stage'[c] \in {"settled", "accepted", "error"}
      BY <2>7 DEF PublishUnconfirmed, Settle, ReadBack, DispatchFails, Goto, TypeOK
    <3>3. QED
      BY <2>1, <2>2, <3>1, <3>2 DEF RowComesFirst, Outcomes
  <2>8. QED
    BY <2>3, <2>4, <2>5, <2>6, <2>7 DEF Api
<1>4. QED
  BY <1>1, <1>2, <1>3 DEF WordOfTheDevice

LEMMA WordDevice ==
  ASSUME TypeOK, WordOfTheDevice, [Next]_vars, NEW c \in Requests, Device(c)
  PROVE  WordOfTheDevice'
<1>1. /\ OnlyDevice /\ c \in broker
      /\ \/ processed' = Memory(DeviceOf[c]) /\ acks' = acks
         \/ processed' = Memory(DeviceOf[c]) /\ Answered(c, processed[c])
         \/ \E status \in {"expired", "rejected"} : Concluded(c, status)
         \/ Concluded(c, "executed") /\ DeviceExecutes(c)
  BY DEF Device, DeviceRepeats, DeviceIgnores, DeviceExpires, DeviceRejects, DeviceExecutes
<1>2. ExecutedIsTrue' /\ HandledIsTrue'
  BY <1>1, WordFrame DEF OnlyDevice, ingesterVars
<1>3. RowComesFirst'
  <2>1. Exists(c)
    BY <1>1 DEF WordOfTheDevice, RowComesFirst
  <2>2. UNCHANGED <<row, stage, outgoing, broker>>
    BY <1>1 DEF OnlyDevice, dispatchVars, clientVars
  <2>3. \A o \in Requests \ {c} : execs'[o] = execs[o]
    BY DEF Device, DeviceRepeats, DeviceIgnores, DeviceExpires, DeviceRejects, DeviceExecutes,
           TypeOK
  <2>4. QED
    BY <2>1, <2>2, <2>3 DEF WordOfTheDevice, RowComesFirst, Exists
<1>4. ASSUME NEW o \in Requests, NEW answer, answer = Memory(DeviceOf[c])[o]
      PROVE  Witnessed(o, answer)'
  <2>1. answer \in {processed[o], NoAnswer}
    BY <1>4 DEF Memory
  <2>2. Witnessed(o, processed[o]) /\ Witnessed(o, NoAnswer)
    BY DEF WordOfTheDevice, MemoryIsTrue, Witnessed, NoAnswer
  <2>3. QED
    BY <2>1, <2>2, WitnessStep
<1>5. ASSUME NEW answer, Witnessed(c, answer)', Answered(c, answer)
      PROVE  AcksAreTrue'
  <2> DEFINE sent == [cmd |-> c, from |-> DeviceOf[c], status |-> answer.status,
                      at |-> answer.at]
  <2>1. ASSUME NEW m \in acks
        PROVE  m.from = DeviceOf[m.cmd] /\ Witnessed(m.cmd, m)'
    BY WitnessStep DEF WordOfTheDevice, AcksAreTrue, TypeOK, Ack
  <2>2. Witnessed(c, sent)'
    BY <1>5 DEF Witnessed
  <2>3. acks' = acks \cup {sent}
    BY <1>5 DEF Answered
  <2>4. QED
    BY <2>1, <2>2, <2>3 DEF AcksAreTrue
<1>6. ASSUME processed' = Memory(DeviceOf[c])
      PROVE  MemoryIsTrue'
  BY <1>4, <1>6 DEF MemoryIsTrue
<1>7. ASSUME NEW s, NEW answer, answer = [status |-> s, at |-> clock], Concluded(c, s),
             Witnessed(c, answer)'
      PROVE  MemoryIsTrue' /\ AcksAreTrue'
  <2>1. processed' = [Memory(DeviceOf[c]) EXCEPT ![c] = answer] /\ Answered(c, answer)
    BY <1>7 DEF Concluded
  <2>2. Memory(DeviceOf[c]) \in [Requests -> Answer]
    BY DEF Memory, TypeOK, Answer
  <2>3. ASSUME NEW o \in Requests
        PROVE  Witnessed(o, processed[o])'
    <3>1. CASE o = c
      BY <1>7, <2>1, <2>2, <3>1
    <3>2. CASE o # c
      <4>1. processed'[o] = Memory(DeviceOf[c])[o]
        BY <2>1, <2>2, <3>2
      <4>2. QED
        BY <1>4, <4>1
    <3>3. QED
      BY <3>1, <3>2
  <2>4. AcksAreTrue'
    BY <1>5, <1>7, <2>1
  <2>5. QED
    BY <2>3, <2>4 DEF MemoryIsTrue
<1>8. CASE processed' = Memory(DeviceOf[c]) /\ acks' = acks
  BY <1>2, <1>3, <1>6, <1>8, WordFrame DEF WordOfTheDevice
<1>9. CASE processed' = Memory(DeviceOf[c]) /\ Answered(c, processed[c])
  <2>1. ASSUME NEW answer, answer = processed[c]
        PROVE  Witnessed(c, answer)'
    BY <2>1, WitnessStep DEF WordOfTheDevice, MemoryIsTrue
  <2>2. AcksAreTrue'
    BY <1>5, <1>9, <2>1
  <2>3. QED
    BY <1>2, <1>3, <1>6, <1>9, <2>2 DEF WordOfTheDevice
<1>10. CASE \E s \in {"expired", "rejected"} : Concluded(c, s)
  <2>1. ASSUME NEW s \in {"expired", "rejected"}, NEW answer,
               answer = [status |-> s, at |-> clock]
        PROVE  Witnessed(c, answer)'
    BY <2>1 DEF Witnessed
  <2>2. QED
    BY <1>2, <1>3, <1>7, <1>10, <2>1 DEF WordOfTheDevice
<1>11. CASE Concluded(c, "executed") /\ DeviceExecutes(c)
  <2> DEFINE e == [boot |-> boots[DeviceOf[c]], at |-> clock]
  <2>1. e \in execs'[c] /\ e.at = clock /\ clock <= row[c].expiresAt
    BY <1>11 DEF DeviceExecutes, TypeOK
  <2>2. ASSUME NEW answer, answer = [status |-> "executed", at |-> clock]
        PROVE  Witnessed(c, answer)'
    BY <1>1, <2>1, <2>2 DEF Witnessed, OnlyDevice
  <2>3. QED
    BY <1>2, <1>3, <1>7, <1>11, <2>2 DEF WordOfTheDevice
<1>12. QED
  BY <1>1, <1>8, <1>9, <1>10, <1>11

LEMMA WordIngester ==
  ASSUME TypeOK, WordOfTheDevice, [Next]_vars, Ingester
  PROVE  WordOfTheDevice'
<1>1. UNCHANGED acks /\ OnlyIngester
  BY DEF Ingester, AckReceived, AckTransition, AckRecheck, AckAbandoned
<1>2. MemoryIsTrue' /\ AcksAreTrue' /\ RowComesFirst'
  BY <1>1, WordFrame DEF OnlyIngester, deviceVars, dispatchVars, clientVars
<1>3. ASSUME NEW m \in acks \cup StrayAcks, AckReceived(m)
      PROVE  WordOfTheDevice'
  <2>1. UNCHANGED row /\ handling' = handling \cup {[stage |-> "transition", ack |-> m]}
    BY <1>3 DEF AckReceived
  <2>2. m \in acks
    BY <1>3, DeviceAssumption DEF AckReceived, FromOwner
  <2>3. Witnessed(m.cmd, m)'
    BY <2>2, WitnessStep DEF WordOfTheDevice, AcksAreTrue, TypeOK, Ack
  <2>4. ASSUME NEW a \in handling
        PROVE  Witnessed(a.ack.cmd, a.ack)'
    BY WitnessStep DEF WordOfTheDevice, HandledIsTrue, TypeOK, Activation, Ack
  <2>5. HandledIsTrue'
    BY <2>1, <2>3, <2>4 DEF HandledIsTrue
  <2>6. QED
    BY <1>2, <2>1, <2>5, WordFrame DEF WordOfTheDevice
<1>4. ASSUME NEW a \in handling, AckTransition(a) \/ AckRecheck(a)
      PROVE  WordOfTheDevice'
  <2>1. a.ack \in Ack /\ a.ack.cmd \in Requests
    BY DEF TypeOK, Activation, Ack
  <2>2. Witnessed(a.ack.cmd, a.ack)'
    BY <2>1, WitnessStep DEF WordOfTheDevice, HandledIsTrue
  <2>3. Witnessed(a.ack.cmd, Received(a.ack))'
    BY <2>2 DEF Witnessed, Received
  <2>4. \A c \in Requests :
          /\ row'[c].ack = row[c].ack \/ (c = a.ack.cmd /\ row'[c].ack = Received(a.ack))
          /\ row'[c].late = row[c].late \/ (c = a.ack.cmd /\ row'[c].late = Received(a.ack))
    <3>1. CASE AckTransition(a)
      BY <2>1, <3>1, ConcludedByType DEF AckTransition, Transition, TypeOK
    <3>2. CASE AckRecheck(a)
      BY <2>1, <3>2 DEF AckRecheck, TypeOK, Row
    <3>3. QED
      BY <1>4, <3>1, <3>2
  <2>5. ExecutedIsTrue'
    BY <2>3, <2>4, WitnessStep DEF WordOfTheDevice, ExecutedIsTrue
  <2>6. \A h \in handling' : h \in handling \/ h.ack = a.ack
    BY <1>4 DEF AckTransition, AckRecheck
  <2>7. ASSUME NEW h \in handling
        PROVE  Witnessed(h.ack.cmd, h.ack)'
    BY WitnessStep DEF WordOfTheDevice, HandledIsTrue, TypeOK, Activation, Ack
  <2>8. HandledIsTrue'
    BY <2>2, <2>6, <2>7 DEF HandledIsTrue
  <2>9. QED
    BY <1>2, <2>5, <2>8 DEF WordOfTheDevice
<1>5. ASSUME NEW a \in handling, AckAbandoned(a)
      PROVE  WordOfTheDevice'
  <2>1. UNCHANGED row /\ handling' \subseteq handling
    BY <1>5 DEF AckAbandoned
  <2>2. QED
    BY <1>2, <2>1, WordFrame DEF WordOfTheDevice
<1>6. QED
  BY <1>3, <1>4, <1>5 DEF Ingester

LEMMA WordStep == TypeOK /\ WordOfTheDevice /\ [Next]_vars => WordOfTheDevice'
<1> SUFFICES ASSUME TypeOK, WordOfTheDevice, [Next]_vars PROVE WordOfTheDevice'
  OBVIOUS
<1> USE DEF dispatchVars, clientVars, deviceVars, ingesterVars
<1>1. CASE Tick \/ Worker \/ UNCHANGED vars
  <2>1. UNCHANGED <<processed, acks, handling, outgoing, broker, execs, stage>>
    BY <1>1 DEF Tick, Worker, SweepReads, SweepExpires, SweepFails, OnlyWorker, vars
  <2>2. \A c \in Requests : row'[c].ack = row[c].ack /\ row'[c].late = row[c].late
    BY <1>1 DEF Tick, Worker, SweepReads, SweepExpires, SweepFails, Transition, vars, TypeOK, Row
  <2>3. ExecutedIsTrue'
    BY <2>2, WitnessStep DEF WordOfTheDevice, ExecutedIsTrue
  <2>4. QED
    BY <2>1, <2>3, WordFrame DEF WordOfTheDevice
<1>2. CASE ApiCrash
  <2>1. UNCHANGED <<row, processed, acks, handling, broker, execs>> /\ outgoing' = {}
    BY <1>2 DEF ApiCrash, OnlyApi
  <2>2. \A c \in Requests : stage'[c] = stage[c] \/ stage'[c] = "error"
    BY <1>2 DEF ApiCrash
  <2>3. RowComesFirst'
    BY <2>1, <2>2 DEF WordOfTheDevice, RowComesFirst, Exists, Outcomes
  <2>4. QED
    BY <2>1, <2>3, WordFrame DEF WordOfTheDevice
<1>3. CASE Disconnect \/ Reconnect
  BY <1>3, WordFrame DEF Disconnect, Reconnect, OnlyApi, WordOfTheDevice
<1>4. ASSUME NEW c \in Requests, BrokerAccepts(c)
      PROVE  WordOfTheDevice'
  <2>1. UNCHANGED <<row, processed, acks, handling, outgoing, execs, stage>>
    BY <1>4 DEF BrokerAccepts
  <2>2. broker' = broker \cup {c} /\ c \in outgoing
    BY <1>4 DEF BrokerAccepts
  <2>3. RowComesFirst'
    BY <2>1, <2>2 DEF WordOfTheDevice, RowComesFirst, Exists
  <2>4. QED
    BY <2>1, <2>3, WordFrame DEF WordOfTheDevice
<1>5. ASSUME NEW d \in Devices, DeviceRestarts(d)
      PROVE  WordOfTheDevice'
  <2>1. UNCHANGED <<row, acks, handling, outgoing, broker, execs, stage>>
    BY <1>5 DEF DeviceRestarts, OnlyDevice
  <2>2. \A c \in Requests : processed'[c] = processed[c] \/ processed'[c] = NoAnswer
    BY <1>5 DEF DeviceRestarts
  <2>3. \A c \in Requests : Witnessed(c, NoAnswer)
    BY DEF Witnessed, NoAnswer
  <2>4. MemoryIsTrue'
    BY <2>2, <2>3, WitnessStep DEF WordOfTheDevice, MemoryIsTrue
  <2>5. QED
    BY <2>1, <2>4, WordFrame DEF WordOfTheDevice
<1>6. QED
  BY <1>1, <1>2, <1>3, <1>4, <1>5, WordApi, WordDevice, WordIngester DEF Next

(* When the backend says "executed", the command's own device executed it,  *)
(* in time and at the moment recorded: whatever the requests, the ACKs that *)
(* other devices forge, the delays, the crashes and the redeliveries.       *)
THEOREM ExecutedCorrect == Spec => []ExecutedIsTrue
<1>1. Init => TypeOK /\ WordOfTheDevice
  BY TypeInit, WordInit
<1>2. TypeOK /\ WordOfTheDevice /\ [Next]_vars => (TypeOK /\ WordOfTheDevice)'
  BY TypeStep, WordStep
<1>3. WordOfTheDevice => ExecutedIsTrue
  BY DEF WordOfTheDevice
<1>4. QED
  BY <1>1, <1>2, <1>3, PTL DEF Spec

-----------------------------------------------------------------------------
(* One command per intention. *)

LEMMA OneCommandStep ==
  ASSUME TypeOK, RowComesFirst, OneCommandPerIntention, [Next]_vars
  PROVE  OneCommandPerIntention'
<1>1. ASSUME NEW c1 \in Requests, NEW c2 \in Requests, KeyOf[c1] = KeyOf[c2],
             Exists(c1)', Exists(c2)', ~Exists(c1)
      PROVE  c1 = c2
  <2>1. Created(c1)
    BY <1>1, RowStep DEF Exists, Moved, ConcludedByAck, CompletedLate, OPEN_COMMAND_STATUSES
  <2>2. ~Exists(c2)
    BY <1>1, <2>1 DEF Created, Existing, Exists
  <2>3. QED
    BY <1>1, <2>1, <2>2 DEF Created, Exists
<1>2. ASSUME NEW c1 \in Requests, NEW c2 \in Requests, KeyOf[c1] = KeyOf[c2],
             Exists(c1)', Exists(c2)'
      PROVE  c1 = c2
  <2>1. CASE Exists(c1) /\ Exists(c2)
    BY <1>2, <2>1 DEF OneCommandPerIntention
  <2>2. CASE ~Exists(c1)
    BY <1>1, <1>2, <2>2
  <2>3. CASE ~Exists(c2)
    BY <1>1, <1>2, <2>3
  <2>4. QED
    BY <2>1, <2>2, <2>3
<1>3. \A c \in published' : c \in published \/ (c \in Requests /\ Exists(c))
  <2>1. ASSUME NEW r \in Requests, PublishCommand(r)
        PROVE  Exists(r) /\ published' \subseteq published \cup {r}
    BY <2>1 DEF PublishCommand, RowComesFirst
  <2>2. ASSUME NEW r \in Requests,
               Submit(r) \/ CreateIfAbsent(r) \/ PubackArrives(r) \/ PublishUnconfirmed(r)
                 \/ Settle(r) \/ ReadBack(r) \/ DispatchFails(r)
        PROVE  UNCHANGED published
    BY <2>2 DEF Submit, CreateIfAbsent, PubackArrives, PublishUnconfirmed, Settle, ReadBack,
                DispatchFails
  <2>3. ASSUME NEW r \in Requests, Device(r) \/ BrokerAccepts(r)
        PROVE  UNCHANGED published
    BY <2>3 DEF Device, DeviceRepeats, DeviceIgnores, DeviceExpires, DeviceRejects,
                DeviceExecutes, OnlyDevice, BrokerAccepts, dispatchVars
  <2>4. ASSUME NEW d \in Devices, DeviceRestarts(d)
        PROVE  UNCHANGED published
    BY <2>4 DEF DeviceRestarts, OnlyDevice, dispatchVars
  <2>5. ASSUME Ingester \/ Worker
        PROVE  UNCHANGED published
    BY <2>5 DEF Ingester, AckReceived, AckTransition, AckRecheck, AckAbandoned, OnlyIngester,
                Worker, SweepReads, SweepExpires, SweepFails, OnlyWorker, dispatchVars
  <2>6. ASSUME Tick \/ ApiCrash \/ Disconnect \/ Reconnect \/ UNCHANGED vars
        PROVE  UNCHANGED published
    BY <2>6 DEF Tick, ApiCrash, Disconnect, Reconnect, vars, dispatchVars
  <2>7. QED
    BY <2>1, <2>2, <2>3, <2>4, <2>5, <2>6 DEF Next, Api
<1>4. ASSUME NEW c \in published'
      PROVE  Exists(c)'
  <2>1. c \in Requests /\ Exists(c)
    BY <1>3, <1>4 DEF OneCommandPerIntention, TypeOK
  <2>2. QED
    BY <2>1, HistoryStep
<1>5. QED
  BY <1>2, <1>4 DEF OneCommandPerIntention

(* A key never stands for two commands, however many handlers race for it,  *)
(* and nothing is published that has no row.                                *)
THEOREM OneCommandCorrect == Spec => []OneCommandPerIntention
<1>1. Init => TypeOK /\ WordOfTheDevice /\ OneCommandPerIntention
  BY TypeInit, WordInit DEF Init, OneCommandPerIntention, Exists, NoRow
<1>2. TypeOK /\ WordOfTheDevice /\ OneCommandPerIntention /\ [Next]_vars
        => (TypeOK /\ WordOfTheDevice /\ OneCommandPerIntention)'
  BY TypeStep, WordStep, OneCommandStep DEF WordOfTheDevice
<1>3. QED
  BY <1>1, <1>2, PTL DEF Spec

-----------------------------------------------------------------------------
(* A conclusion is final. *)

LEMMA AnswerStep ==
  ASSUME TypeOK, AnswerMatchesStatus, [Next]_vars
  PROVE  AnswerMatchesStatus'
<1> SUFFICES ASSUME NEW c \in Requests
             PROVE  /\ row'[c].status = "ACKNOWLEDGED" <=> row'[c].ack.status = "executed"
                    /\ row'[c].late # NoAnswer => row'[c].status = "TIMEOUT"
  BY DEF AnswerMatchesStatus
<1>1. /\ row[c].status = "ACKNOWLEDGED" <=> row[c].ack.status = "executed"
      /\ row[c].late # NoAnswer => row[c].status = "TIMEOUT"
  BY DEF AnswerMatchesStatus
<1>2. CASE Created(c)
  BY <1>2 DEF Created, NoAnswer
<1>3. CASE Moved(c)
  BY <1>1, <1>3 DEF Moved, OPEN_COMMAND_STATUSES
<1>4. CASE ConcludedByAck(c)
  BY <1>1, <1>4 DEF ConcludedByAck, OPEN_COMMAND_STATUSES
<1>5. CASE CompletedLate(c) \/ row'[c] = row[c]
  BY <1>1, <1>5 DEF CompletedLate
<1>6. QED
  BY <1>2, <1>3, <1>4, <1>5, RowStep

(* ACKNOWLEDGED and the kind of answer agree, in every reachable state.    *)
THEOREM AnswerCorrect == Spec => []AnswerMatchesStatus
<1>1. Init => TypeOK /\ AnswerMatchesStatus
  BY TypeInit DEF Init, AnswerMatchesStatus, NoRow, NoAnswer
<1>2. TypeOK /\ AnswerMatchesStatus /\ [Next]_vars => (TypeOK /\ AnswerMatchesStatus)'
  BY TypeStep, AnswerStep
<1>3. QED
  BY <1>1, <1>2, PTL DEF Spec

LEMMA FinalStep ==
  ASSUME TypeOK, AnswerMatchesStatus, [Next]_vars, NEW c \in Requests
  PROVE  /\ row[c].status \in Terminal =>
              row'[c].status = row[c].status /\ row'[c].ack = row[c].ack
         /\ row[c].late # NoAnswer => row'[c].late = row[c].late
         /\ Exists(c) => Exists(c)' /\ row'[c].expiresAt = row[c].expiresAt
<1>1. row[c].late # NoAnswer => row[c].status = "TIMEOUT"
  BY DEF AnswerMatchesStatus
<1>2. QED
  BY <1>1, RowStep DEF Created, Moved, ConcludedByAck, CompletedLate, Exists, Terminal,
                       OPEN_COMMAND_STATUSES

(* No step of any process changes a terminal status, the answer that led to *)
(* it, a recorded late ACK or the deadline of a row.                        *)
THEOREM TerminalCorrect == Spec => TerminalIsFinal
<1>1. TypeOK /\ AnswerMatchesStatus /\ [Next]_vars
        => [\A c \in Requests :
              /\ row[c].status \in Terminal =>
                   row'[c].status = row[c].status /\ row'[c].ack = row[c].ack
              /\ row[c].late # NoAnswer => row'[c].late = row[c].late
              /\ Exists(c) => Exists(c)' /\ row'[c].expiresAt = row[c].expiresAt]_row
  BY FinalStep
<1>2. QED
  BY <1>1, TypeCorrect, AnswerCorrect, PTL DEF Spec, TerminalIsFinal
=============================================================================
