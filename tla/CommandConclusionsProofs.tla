---------------------- MODULE CommandConclusionsProofs ----------------------
(***************************************************************************)
(* What the conclusions of CommandLifecycle mean, for any requests,        *)
(* devices, delays and number of failures: a reply, a FAILED and a TIMEOUT *)
(* are true, and the pipeline implements CommandContract.                  *)
(***************************************************************************)
EXTENDS CommandLifecycleProofs

Refused == {"replayed", "conflict", "bad_request", "not_found"}
Settled == {"settled", "accepted", "error"}
Refusals == {"rejected", "expired"}

(* A publication leaves a trace at each place it passes through, and the   *)
(* stage of its handler says how far it went. *)
Ledger ==
  \A c \in Requests :
    /\ c \in outgoing \cup broker => c \in published
    /\ execs[c] # {} => c \in broker
    /\ stage[c] \in {"idle", "creating", "publishing", "not_sent"} \cup Refused
         => c \notin published
    /\ stage[c] \in {"idle", "creating"} \cup Refused => ~Exists(c)
    /\ row[c].status = "FAILED" /\ row[c].ack = NoAnswer
         => stage[c] \in Settled /\ c \notin published
    /\ row[c].status \in {"ABSENT", "PENDING", "SENT", "TIMEOUT"} => row[c].ack = NoAnswer

(* The worker only gives up what no device runs any more. *)
GivenUp ==
  \A c \in Requests :
    c \in batch \/ row[c].status = "TIMEOUT" => Exists(c) /\ row[c].expiresAt + Grace < clock

Forgotten(c) == row[c].expiresAt + MemoryMargin < clock

(* The device remembers what it ran in this boot, long enough. *)
Remembered ==
  \A c \in Requests : \A e \in execs[c] :
    /\ e.boot <= boots[DeviceOf[c]]
    /\ e.boot = boots[DeviceOf[c]] => processed[c] # NoAnswer \/ Forgotten(c)

(* A refusal of c that its device gave within its memory of c, and before  *)
(* any restart: c was not run, and will not be. *)
Untouched(c, answer) ==
  answer.status \in Refusals =>
    /\ Exists(c)
    /\ answer.at \in Nat /\ answer.at <= clock
    /\ boots[DeviceOf[c]] = 0 /\ answer.at <= row[c].expiresAt + MemoryMargin =>
         execs[c] = {} /\ (processed[c] # NoAnswer \/ Forgotten(c))

(* At every place a refusal passes through. *)
RefusalsHold ==
  /\ \A c \in Requests :
       Untouched(c, processed[c]) /\ Untouched(c, row[c].ack) /\ Untouched(c, row[c].late)
  /\ \A m \in acks : Untouched(m.cmd, m)
  /\ \A a \in handling : Untouched(a.ack.cmd, a.ack)

CInv ==
  /\ TypeOK /\ WordOfTheDevice /\ AnswerMatchesStatus
  /\ Ledger /\ ReplyIsTrue /\ GivenUp
  /\ Remembered /\ OneExecutionPerBoot /\ RefusalsHold

-----------------------------------------------------------------------------
(* What a step does to each variable *)

(* Each variable belongs to one process. *)
LEMMA Ownership ==
  ASSUME [Next]_vars
  PROVE  /\ UNCHANGED clock \/ Tick
         /\ UNCHANGED <<stage, published, outgoing>> \/ (\E r \in Requests : Api(r)) \/ ApiCrash
         /\ UNCHANGED broker \/ \E c \in Requests : BrokerAccepts(c)
         /\ UNCHANGED <<processed, boots, execs, acks>>
              \/ (\E c \in Requests : Device(c)) \/ \E d \in Devices : DeviceRestarts(d)
         /\ UNCHANGED handling \/ Ingester
         /\ UNCHANGED batch \/ Worker
<1> USE DEF dispatchVars, clientVars, deviceVars, ingesterVars
<1>1. ASSUME NEW r \in Requests, Api(r)
      PROVE  UNCHANGED <<clock, broker, deviceVars, acks, ingesterVars, batch>>
  BY <1>1 DEF Api, Submit, CreateIfAbsent, PublishCommand, PubackArrives, PublishUnconfirmed,
              Settle, ReadBack, DispatchFails, OnlyApi
<1>2. ASSUME NEW c \in Requests, Device(c)
      PROVE  UNCHANGED <<clock, dispatchVars, clientVars, broker, ingesterVars, batch>>
  BY <1>2 DEF Device, DeviceRepeats, DeviceIgnores, DeviceExpires, DeviceRejects,
              DeviceExecutes, OnlyDevice
<1>3. ASSUME Ingester
      PROVE  UNCHANGED <<clock, dispatchVars, clientVars, broker, deviceVars, acks, batch>>
  BY <1>3 DEF Ingester, AckReceived, AckTransition, AckRecheck, AckAbandoned, OnlyIngester
<1>4. ASSUME Worker
      PROVE  UNCHANGED <<clock, dispatchVars, clientVars, broker, deviceVars, acks, ingesterVars>>
  BY <1>4 DEF Worker, SweepReads, SweepExpires, SweepFails, OnlyWorker
<1>5. ASSUME NEW d \in Devices, DeviceRestarts(d)
      PROVE  UNCHANGED <<clock, dispatchVars, clientVars, broker, ingesterVars, batch>>
  BY <1>5 DEF DeviceRestarts, OnlyDevice
<1>6. ASSUME NEW c \in Requests, BrokerAccepts(c)
      PROVE  UNCHANGED <<clock, dispatchVars, clientVars, deviceVars, acks, ingesterVars, batch>>
  BY <1>6 DEF BrokerAccepts
<1>7. CASE Tick \/ UNCHANGED vars
  BY <1>7 DEF Tick, vars
<1>8. CASE ApiCrash \/ Disconnect \/ Reconnect
  BY <1>8 DEF ApiCrash, Disconnect, Reconnect, OnlyApi
<1> QED
  BY <1>1, <1>2, <1>3, <1>4, <1>5, <1>6, <1>7, <1>8 DEF Next

LEMMA ClockStep ==
  ASSUME TypeOK, [Next]_vars
  PROVE  clock \in Nat /\ clock' \in Nat /\ clock <= clock'
<1>1. clock \in Nat
  BY DEF TypeOK
<1>2. clock' = clock \/ clock' = clock + 1
  BY Ownership DEF Tick
<1> QED
  BY <1>1, <1>2

LEMMA FreshMeans ==
  ASSUME NEW c \in Requests
  PROVE  Fresh(c) <=> processed[c] = NoAnswer \/ Forgotten(c)
  BY DEF Fresh, Memory, Forgotten

(* The rows and the deadlines that a device looks at. *)
LEMMA DeadlineStep ==
  ASSUME TypeOK, WordOfTheDevice, [Next]_vars, NEW c \in Requests, Exists(c)
  PROVE  /\ Exists(c)' /\ row'[c].expiresAt = row[c].expiresAt
         /\ row[c].expiresAt \in Nat
         /\ Forgotten(c) => Forgotten(c)'
         /\ row[c].expiresAt + Grace < clock => row'[c].expiresAt + Grace < clock'
<1>1. Exists(c)' /\ row'[c].expiresAt = row[c].expiresAt
  BY HistoryStep DEF WordOfTheDevice
<1>2. row[c].expiresAt \in Nat
  BY DEF TypeOK, Row
<1> QED
  BY <1>1, <1>2, ClockStep, TimingAssumption DEF Forgotten

LEMMA ExecsStep ==
  ASSUME TypeOK, [Next]_vars, NEW c \in Requests
  PROVE  execs'[c] = execs[c] \/ DeviceExecutes(c)
<1>1. ASSUME NEW o \in Requests, Device(o), ~DeviceExecutes(o)
      PROVE  UNCHANGED execs
  BY <1>1 DEF Device, DeviceRepeats, DeviceIgnores, DeviceExpires, DeviceRejects
<1>2. ASSUME NEW o \in Requests, DeviceExecutes(o)
      PROVE  execs'[c] = execs[c] \/ c = o
  BY <1>2 DEF DeviceExecutes, TypeOK
<1>3. ASSUME NEW d \in Devices, DeviceRestarts(d)
      PROVE  UNCHANGED execs
  BY <1>3 DEF DeviceRestarts
<1> QED
  BY <1>1, <1>2, <1>3, Ownership

(* The boot of a device, and what it loses by restarting. *)
LEMMA BootStep ==
  ASSUME TypeOK, [Next]_vars, NEW c \in Requests
  PROVE  /\ boots[DeviceOf[c]] \in Nat
         /\ \/ boots'[DeviceOf[c]] = boots[DeviceOf[c]]
            \/ boots'[DeviceOf[c]] = boots[DeviceOf[c]] + 1 /\ execs'[c] = execs[c]
<1>1. DeviceOf[c] \in Devices
  BY RequestsAssumption
<1>2. ASSUME NEW o \in Requests, Device(o)
      PROVE  UNCHANGED boots
  BY <1>2 DEF Device, DeviceRepeats, DeviceIgnores, DeviceExpires, DeviceRejects, DeviceExecutes
<1>3. ASSUME NEW d \in Devices, DeviceRestarts(d)
      PROVE  boots' = [boots EXCEPT ![d] = @ + 1] /\ execs' = execs
  BY <1>3 DEF DeviceRestarts
<1> QED
  BY <1>1, <1>2, <1>3, Ownership DEF TypeOK

(* The device's memory of c: kept, forgotten in time, lost with the boot,  *)
(* or written by a first answer. *)
FirstAnswer(c) ==
  /\ c \in broker /\ Fresh(c)
  /\ processed'[c].status \in AckStatuses /\ processed'[c].at = clock
  /\ processed'[c].status = "executed" \/ execs'[c] = execs[c]

LEMMA MemoryStep ==
  ASSUME TypeOK, [Next]_vars, NEW c \in Requests
  PROVE  \/ processed'[c] = processed[c]
         \/ processed'[c] = NoAnswer /\ Forgotten(c)
         \/ boots'[DeviceOf[c]] = boots[DeviceOf[c]] + 1 /\ processed'[c] = NoAnswer
         \/ FirstAnswer(c)
<1>1. ASSUME NEW d \in Devices
      PROVE  Memory(d)[c] = processed[c] \/ (Memory(d)[c] = NoAnswer /\ Forgotten(c))
  BY DEF Memory, Forgotten
<1>2. ASSUME NEW o \in Requests, DeviceRepeats(o) \/ DeviceIgnores(o)
      PROVE  processed'[c] = processed[c] \/ (processed'[c] = NoAnswer /\ Forgotten(c))
  BY <1>1, <1>2, RequestsAssumption DEF DeviceRepeats, DeviceIgnores
<1>3. ASSUME NEW o \in Requests, NEW s \in AckStatuses, Concluded(o, s), o \in broker, Fresh(o),
             s = "executed" \/ execs' = execs
      PROVE  \/ processed'[c] = processed[c]
             \/ processed'[c] = NoAnswer /\ Forgotten(c)
             \/ FirstAnswer(c)
  <2>1. processed' = [Memory(DeviceOf[o]) EXCEPT ![o] = [status |-> s, at |-> clock]]
    BY <1>3 DEF Concluded
  <2>2. Memory(DeviceOf[o]) = [x \in Requests |-> Memory(DeviceOf[o])[x]]
    BY DEF Memory
  <2>3. CASE c = o
    <3>1. processed'[c] = [status |-> s, at |-> clock]
      BY <2>1, <2>2, <2>3
    <3> QED
      BY <1>3, <2>3, <3>1 DEF FirstAnswer
  <2>4. CASE c # o
    BY <1>1, <2>1, <2>2, <2>4, RequestsAssumption
  <2> QED  BY <2>3, <2>4
<1>4. ASSUME NEW o \in Requests, DeviceExpires(o) \/ DeviceRejects(o) \/ DeviceExecutes(o)
      PROVE  \/ processed'[c] = processed[c]
             \/ processed'[c] = NoAnswer /\ Forgotten(c)
             \/ FirstAnswer(c)
  BY <1>3, <1>4 DEF DeviceExpires, DeviceRejects, DeviceExecutes, AckStatuses
<1>5. ASSUME NEW d \in Devices, DeviceRestarts(d)
      PROVE  \/ processed'[c] = processed[c]
             \/ boots'[DeviceOf[c]] = boots[DeviceOf[c]] + 1 /\ processed'[c] = NoAnswer
  BY <1>5, RequestsAssumption DEF DeviceRestarts, TypeOK
<1> QED
  BY <1>2, <1>4, <1>5, Ownership DEF Device

(* An ACK says what its device remembers when it sends it. *)
LEMMA AcksStep ==
  ASSUME TypeOK, [Next]_vars, NEW m \in acks'
  PROVE  \/ m \in acks
         \/ /\ m.cmd \in Requests
            /\ m.status = processed'[m.cmd].status /\ m.at = processed'[m.cmd].at
<1>1. ASSUME NEW o \in Requests, DeviceRepeats(o)
      PROVE  m \in acks \/ (m.cmd = o /\ m.status = processed'[o].status
                                      /\ m.at = processed'[o].at)
  <2>1. processed'[o] = processed[o]
    BY <1>1 DEF DeviceRepeats, Fresh, Memory
  <2> QED
    BY <1>1, <2>1 DEF DeviceRepeats, Answered
<1>2. ASSUME NEW o \in Requests, NEW s, Concluded(o, s)
      PROVE  m \in acks \/ (m.cmd = o /\ m.status = processed'[o].status
                                      /\ m.at = processed'[o].at)
  <2>1. processed'[o] = [status |-> s, at |-> clock]
    BY <1>2 DEF Concluded, Memory
  <2> QED
    BY <1>2, <2>1 DEF Concluded, Answered
<1>3. ASSUME NEW o \in Requests, DeviceIgnores(o)
      PROVE  UNCHANGED acks
  BY <1>3 DEF DeviceIgnores
<1>4. ASSUME NEW d \in Devices, DeviceRestarts(d)
      PROVE  UNCHANGED acks
  BY <1>4 DEF DeviceRestarts
<1> QED
  BY <1>1, <1>2, <1>3, <1>4, Ownership DEF Device, DeviceExpires, DeviceRejects, DeviceExecutes

(* The ingester handles the ACKs it received, and a row keeps one of them. *)
LEMMA HandlingStep ==
  ASSUME TypeOK, [Next]_vars, NEW a \in handling'
  PROVE  a.ack \in acks \/ \E h \in handling : h.ack = a.ack
<1>1. ASSUME NEW m \in acks \cup StrayAcks, AckReceived(m)
      PROVE  a \in handling \/ (a.ack = m /\ m \in acks)
  BY <1>1, DeviceAssumption DEF AckReceived, FromOwner
<1>2. ASSUME NEW h \in handling, AckTransition(h) \/ AckRecheck(h) \/ AckAbandoned(h)
      PROVE  a \in handling \/ a.ack = h.ack
  BY <1>2 DEF AckTransition, AckRecheck, AckAbandoned
<1> QED
  BY <1>1, <1>2, Ownership DEF Ingester

-----------------------------------------------------------------------------
(* What a step does to the table: RowStep again, with who takes the step   *)
(* and that it touches one row. *)

Keeps(c) == row'[c].expiresAt = row[c].expiresAt /\ row'[c].late = row[c].late
IsOpen(c) == row[c].status \in OPEN_COMMAND_STATUSES

Sends(c) ==
  /\ Settle(c) /\ stage[c] = "confirmed"
  /\ row[c].status = "PENDING" /\ row'[c].status = "SENT"
  /\ Keeps(c) /\ row'[c].ack = row[c].ack
Withdraws(c) ==
  /\ Settle(c) /\ stage[c] = "not_sent"
  /\ row[c].status = "PENDING" /\ row'[c].status = "FAILED"
  /\ Keeps(c) /\ row'[c].ack = row[c].ack
TimesOut(c) ==
  /\ c \in batch
  /\ IsOpen(c) /\ row'[c].status = "TIMEOUT"
  /\ Keeps(c) /\ row'[c].ack = row[c].ack
Concludes(c) == \E h \in handling :
  /\ h.ack \in Ack /\ h.ack.cmd = c
  /\ IsOpen(c)
  /\ row'[c].status = IF h.ack.status = "executed" THEN "ACKNOWLEDGED" ELSE "FAILED"
  /\ Keeps(c) /\ row'[c].ack = Received(h.ack)
Completes(c) == \E h \in handling :
  /\ h.ack \in Ack /\ h.ack.cmd = c
  /\ row[c].status = "TIMEOUT" /\ row[c].late = NoAnswer
  /\ row'[c].status = row[c].status /\ row'[c].ack = row[c].ack
  /\ row'[c].expiresAt = row[c].expiresAt /\ row'[c].late = Received(h.ack)

RowChange(c) ==
  /\ \A o \in Requests \ {c} : row'[o] = row[o]
  /\ Created(c) \/ Sends(c) \/ Withdraws(c) \/ TimesOut(c) \/ Concludes(c) \/ Completes(c)

(* The conditional UPDATE of one row, from an open status. *)
LEMMA TransitionStep ==
  ASSUME TypeOK, NEW c \in Requests, NEW from, NEW to, Transition(c, from, to)
  PROVE  \/ UNCHANGED row
         \/ /\ row[c].status \in from /\ row'[c] = to
            /\ \A o \in Requests \ {c} : row'[o] = row[o]
  BY DEF Transition, TypeOK

LEMMA StatusStep ==
  ASSUME TypeOK, NEW c \in Requests, NEW from, NEW s,
         Transition(c, from, [row[c] EXCEPT !.status = s])
  PROVE  \/ UNCHANGED row
         \/ /\ row[c].status \in from /\ row'[c].status = s
            /\ Keeps(c) /\ row'[c].ack = row[c].ack
            /\ \A o \in Requests \ {c} : row'[o] = row[o]
<1> DEFINE to == [row[c] EXCEPT !.status = s]
<1>1. to.status = s /\ to.ack = row[c].ack /\ to.late = row[c].late
      /\ to.expiresAt = row[c].expiresAt
  BY DEF TypeOK, Row
<1> HIDE DEF to
<1>2. Transition(c, from, to)
  BY DEF to
<1> QED
  BY <1>1, <1>2, TransitionStep DEF Keeps

LEMMA RowChanges ==
  ASSUME TypeOK, [Next]_vars
  PROVE  \/ UNCHANGED row
         \/ UNCHANGED <<execs, boots>> /\ \E c \in Requests : RowChange(c)
<1>1. ASSUME NEW c \in Requests, CreateIfAbsent(c)
      PROVE  UNCHANGED row \/ RowChange(c)
  <2>1. CASE Existing(c) = {}
    <3>1. ~Exists(c)
      BY <2>1, RequestsAssumption DEF Existing, Exists
    <3>2. /\ row'[c].status = "PENDING" /\ row'[c].ack = NoAnswer /\ row'[c].late = NoAnswer
          /\ \A o \in Requests \ {c} : row'[o] = row[o]
      BY <1>1, <2>1 DEF CreateIfAbsent, NoRow, TypeOK
    <3> QED
      BY <1>1, <2>1, <3>1, <3>2 DEF Created, RowChange
  <2> QED
    BY <1>1, <2>1 DEF CreateIfAbsent
<1>2. ASSUME NEW c \in Requests, Settle(c)
      PROVE  UNCHANGED row \/ RowChange(c)
  <2>1. CASE stage[c] = "confirmed" /\ Transition(c, {"PENDING"}, [row[c] EXCEPT !.status = "SENT"])
    BY <1>2, <2>1, StatusStep DEF RowChange, Sends
  <2>2. CASE stage[c] = "not_sent" /\ Transition(c, {"PENDING"}, [row[c] EXCEPT !.status = "FAILED"])
    <3>1. \/ UNCHANGED row
          \/ /\ row[c].status = "PENDING" /\ row'[c].status = "FAILED"
             /\ Keeps(c) /\ row'[c].ack = row[c].ack
             /\ \A o \in Requests \ {c} : row'[o] = row[o]
      BY <2>2, StatusStep
    <3> QED
      BY <1>2, <2>2, <3>1 DEF RowChange, Withdraws
  <2> QED
    BY <1>2, <2>1, <2>2 DEF Settle
<1>3. ASSUME NEW c \in batch, SweepExpires(c)
      PROVE  UNCHANGED row \/ RowChange(c)
  <2>1. c \in Requests /\ Transition(c, OPEN_COMMAND_STATUSES, [row[c] EXCEPT !.status = "TIMEOUT"])
    BY <1>3 DEF SweepExpires, TypeOK
  <2> QED
    BY <2>1, <1>3, StatusStep DEF RowChange, TimesOut, IsOpen
<1>4. ASSUME NEW h \in handling, AckTransition(h)
      PROVE  UNCHANGED row \/ RowChange(h.ack.cmd)
  <2>1. h.ack \in Ack /\ h.ack.cmd \in Requests
    BY DEF TypeOK, Activation, Ack
  <2>2. Transition(h.ack.cmd, OPEN_COMMAND_STATUSES, ConcludedBy(h.ack))
    BY <1>4 DEF AckTransition
  <2>3. \/ UNCHANGED row
        \/ /\ IsOpen(h.ack.cmd) /\ row'[h.ack.cmd] = ConcludedBy(h.ack)
           /\ \A o \in Requests \ {h.ack.cmd} : row'[o] = row[o]
    BY <2>1, <2>2, TransitionStep DEF IsOpen
  <2> QED
    BY <2>1, <2>3, ConcludedByType DEF RowChange, Concludes, Keeps
<1>5. ASSUME NEW h \in handling, AckRecheck(h)
      PROVE  UNCHANGED row \/ RowChange(h.ack.cmd)
  <2>1. h.ack \in Ack /\ h.ack.cmd \in Requests
    BY DEF TypeOK, Activation, Ack
  <2>2. CASE /\ row[h.ack.cmd].status = "TIMEOUT" /\ row[h.ack.cmd].late = NoAnswer
             /\ row' = [row EXCEPT ![h.ack.cmd].late = Received(h.ack)]
    <3>1. \A o \in Requests \ {h.ack.cmd} : row'[o] = row[o]
      BY <2>1, <2>2 DEF TypeOK
    <3>2. row'[h.ack.cmd] = [row[h.ack.cmd] EXCEPT !.late = Received(h.ack)]
      BY <2>1, <2>2 DEF TypeOK
    <3>3. row[h.ack.cmd] \in Row
      BY <2>1 DEF TypeOK
    <3>4. /\ row'[h.ack.cmd].status = row[h.ack.cmd].status
          /\ row'[h.ack.cmd].ack = row[h.ack.cmd].ack
          /\ row'[h.ack.cmd].expiresAt = row[h.ack.cmd].expiresAt
          /\ row'[h.ack.cmd].late = Received(h.ack)
      BY <3>2, <3>3 DEF Row
    <3> QED
      BY <2>1, <2>2, <3>1, <3>4 DEF RowChange, Completes
  <2> QED
    BY <1>5, <2>2 DEF AckRecheck
<1>6. ASSUME NEW c \in Requests, Device(c)
      PROVE  UNCHANGED row
  BY <1>6 DEF Device, DeviceRepeats, DeviceIgnores, DeviceExpires, DeviceRejects, DeviceExecutes,
              OnlyDevice
<1>7. ASSUME NEW d \in Devices, DeviceRestarts(d)
      PROVE  UNCHANGED row
  BY <1>7 DEF DeviceRestarts, OnlyDevice
<1>8. UNCHANGED row \/ UNCHANGED <<execs, boots>>
  BY <1>6, <1>7, Ownership
<1>9. ASSUME NEW c \in Requests, Api(c)
      PROVE  UNCHANGED row \/ RowChange(c)
  BY <1>1, <1>2, <1>9 DEF Api, Submit, PublishCommand, PubackArrives, PublishUnconfirmed,
                          ReadBack, DispatchFails
<1>10. CASE Ingester
  <2>1. ASSUME NEW x, AckReceived(x) \/ AckAbandoned(x)
        PROVE  UNCHANGED row
    BY <2>1 DEF AckReceived, AckAbandoned
  <2>2. \A h \in handling : h.ack.cmd \in Requests
    BY DEF TypeOK, Activation, Ack
  <2> QED
    BY <1>4, <1>5, <1>8, <1>10, <2>1, <2>2 DEF Ingester
<1>11. CASE Worker
  <2>1. ASSUME SweepReads \/ SweepFails
        PROVE  UNCHANGED row
    BY <2>1 DEF SweepReads, SweepFails
  <2> QED
    BY <1>3, <1>8, <1>11, <2>1 DEF Worker, TypeOK
<1>12. CASE Tick \/ ApiCrash \/ Disconnect \/ Reconnect \/ UNCHANGED vars
  BY <1>12 DEF Tick, ApiCrash, Disconnect, Reconnect, vars
<1>13. ASSUME NEW c \in Requests, BrokerAccepts(c)
       PROVE  UNCHANGED row
  BY <1>13 DEF BrokerAccepts
<1> QED
  BY <1>6, <1>7, <1>8, <1>9, <1>10, <1>11, <1>12, <1>13 DEF Next

-----------------------------------------------------------------------------
(* What each process knows of a publication *)

Follows ==
  ({"idle"} \X {"creating", "bad_request", "not_found"})
    \cup ({"creating"} \X {"publishing", "replayed", "conflict"})
    \cup ({"publishing"} \X {"awaiting", "not_sent"})
    \cup ({"awaiting"} \X {"confirmed", "unconfirmed"})
    \cup ({"confirmed", "not_sent"} \X {"settled"})
    \cup (InFlight \X {"accepted", "error"})

(* The stages of a handler follow each other, and a command is published   *)
(* when its own handler starts to wait. *)
LEMMA StageStep ==
  ASSUME TypeOK, [Next]_vars, NEW c \in Requests
  PROVE  /\ stage'[c] = stage[c] \/ <<stage[c], stage'[c]>> \in Follows
         /\ published \subseteq published' /\ outgoing' \subseteq outgoing \cup published'
         /\ c \in published' \ published => stage[c] = "publishing" /\ stage'[c] = "awaiting"
<1> USE DEF TypeOK, Goto
<1>1. ASSUME NEW r \in Requests, Submit(r) \/ CreateIfAbsent(r)
      PROVE  /\ UNCHANGED <<published, outgoing>>
             /\ stage'[c] = stage[c] \/ <<stage[c], stage'[c]>> \in Follows
  BY <1>1 DEF Submit, CreateIfAbsent, clientVars, Follows
<1>2. ASSUME NEW r \in Requests, PublishCommand(r)
      PROVE  /\ published \subseteq published' /\ outgoing' \subseteq outgoing \cup published'
             /\ stage'[c] = stage[c] \/ <<stage[c], stage'[c]>> \in Follows
             /\ c \in published' \ published => stage[c] = "publishing" /\ stage'[c] = "awaiting"
  BY <1>2 DEF PublishCommand, Follows
<1>3. ASSUME NEW r \in Requests, PubackArrives(r) \/ PublishUnconfirmed(r)
      PROVE  /\ UNCHANGED published /\ outgoing' \subseteq outgoing
             /\ stage'[c] = stage[c] \/ <<stage[c], stage'[c]>> \in Follows
  BY <1>3 DEF PubackArrives, PublishUnconfirmed, clientVars, Follows
<1>4. ASSUME NEW r \in Requests, Settle(r) \/ ReadBack(r) \/ DispatchFails(r)
      PROVE  /\ UNCHANGED <<published, outgoing>>
             /\ stage'[c] = stage[c] \/ <<stage[c], stage'[c]>> \in Follows
  BY <1>4 DEF Settle, ReadBack, DispatchFails, clientVars, Follows, InFlight, Outcomes
<1>5. CASE ApiCrash
  BY <1>5 DEF ApiCrash, Follows
<1>6. CASE \E r \in Requests : Api(r)
  BY <1>1, <1>2, <1>3, <1>4, <1>6 DEF Api
<1> QED
  BY <1>5, <1>6, Ownership

LEMMA LedgerStep ==
  ASSUME TypeOK, WordOfTheDevice, AnswerMatchesStatus, Ledger, [Next]_vars
  PROVE  Ledger'
<1> SUFFICES ASSUME NEW c \in Requests
    PROVE  /\ c \in outgoing' \cup broker' => c \in published'
           /\ execs'[c] # {} => c \in broker'
           /\ stage'[c] \in {"idle", "creating", "publishing", "not_sent"} \cup Refused
                => c \notin published'
           /\ stage'[c] \in {"idle", "creating"} \cup Refused => ~Exists(c)'
           /\ row'[c].status = "FAILED" /\ row'[c].ack = NoAnswer
                => stage'[c] \in Settled /\ c \notin published'
           /\ row'[c].status \in {"ABSENT", "PENDING", "SENT", "TIMEOUT"}
                => row'[c].ack = NoAnswer
  BY DEF Ledger
<1> DEFINE Unpublished == {"idle", "creating", "publishing", "not_sent"} \cup Refused
           Unborn == {"idle", "creating"} \cup Refused
<1>1. /\ c \in outgoing \cup broker => c \in published
      /\ execs[c] # {} => c \in broker
      /\ stage[c] \in Unpublished => c \notin published
      /\ stage[c] \in Unborn => ~Exists(c)
      /\ row[c].status = "FAILED" /\ row[c].ack = NoAnswer
           => stage[c] \in Settled /\ c \notin published
      /\ row[c].status \in {"ABSENT", "PENDING", "SENT", "TIMEOUT"} => row[c].ack = NoAnswer
  BY DEF Ledger
<1>2. /\ stage'[c] = stage[c] \/ <<stage[c], stage'[c]>> \in Follows
      /\ published \subseteq published' /\ outgoing' \subseteq outgoing \cup published'
      /\ c \in published' \ published => stage[c] = "publishing" /\ stage'[c] = "awaiting"
  BY StageStep
<1>3. broker \subseteq broker' /\ broker' \subseteq broker \cup outgoing
  BY Ownership DEF BrokerAccepts
<1>4. c \in outgoing' \cup broker' => c \in published'
  BY <1>1, <1>2, <1>3
<1>5. execs'[c] # {} => c \in broker'
  BY <1>1, <1>3, ExecsStep DEF DeviceExecutes
<1>6. stage'[c] \in Unpublished => stage[c] \in Unpublished
  BY <1>2 DEF Follows, Refused, InFlight, Outcomes
<1>7. stage'[c] \in Unpublished => c \notin published'
  BY <1>1, <1>2, <1>6 DEF Refused
<1>8. stage'[c] \in Unborn => ~Exists(c)'
  <2>1. stage'[c] \in Unborn => stage[c] \in Unborn
    BY <1>2 DEF Follows, Refused, InFlight, Outcomes
  <2>2. ASSUME Created(c) PROVE stage'[c] = "publishing"
    BY <2>2 DEF Created, CreateIfAbsent, Goto, TypeOK
  <2>3. ASSUME ~Exists(c), Exists(c)' PROVE Created(c)
    BY <2>3, RowStep DEF Exists, Moved, ConcludedByAck, CompletedLate, OPEN_COMMAND_STATUSES
  <2> QED
    BY <1>1, <2>1, <2>2, <2>3 DEF Refused
<1>9. CASE row'[c] = row[c]
  <2>1. stage[c] \in Settled => stage'[c] \in Settled /\ ~(c \in published' \ published)
    BY <1>2 DEF Follows, InFlight, Outcomes, Settled
  <2> QED
    BY <1>1, <1>2, <1>4, <1>5, <1>7, <1>8, <1>9, <2>1
<1>10. CASE RowChange(c)
  <2>1. ASSUME NEW m \in Ack PROVE Received(m) # NoAnswer
    BY DEF Received, NoAnswer, Ack, AckStatuses
  <2>2. CASE Created(c)
    BY <1>4, <1>5, <1>7, <1>8, <2>2 DEF Created
  <2>3. CASE Sends(c) \/ TimesOut(c) \/ Completes(c)
    BY <1>1, <1>4, <1>5, <1>7, <1>8, <2>3 DEF Sends, TimesOut, Completes, IsOpen,
       OPEN_COMMAND_STATUSES
  <2>4. CASE Withdraws(c)
    <3>1. stage[c] = "not_sent" /\ stage'[c] = "settled" /\ published' = published
      BY <2>4 DEF Withdraws, Settle, Goto, TypeOK
    <3> QED
      BY <1>1, <1>4, <1>5, <1>7, <1>8, <2>4, <3>1 DEF Withdraws, Settled
  <2>5. CASE Concludes(c)
    BY <1>4, <1>5, <1>7, <1>8, <2>1, <2>5 DEF Concludes
  <2> QED
    BY <1>10, <2>2, <2>3, <2>4, <2>5 DEF RowChange
<1> QED
  BY <1>9, <1>10, RowChanges DEF RowChange

(* A replay answers from a row that stays, and a refusal creates none. *)
LEMMA ReplyStep ==
  ASSUME TypeOK, WordOfTheDevice, ReplyIsTrue, Ledger', [Next]_vars
  PROVE  ReplyIsTrue'
<1> DEFINE Same(c, r) == KeyOf[c] = KeyOf[r] /\ DeviceOf[c] = DeviceOf[r]
                           /\ ParamsOf[c] = ParamsOf[r]
<1>1. ASSUME NEW r \in Requests, stage'[r] = "replayed"
      PROVE  \E c \in Requests : Exists(c)' /\ Same(c, r)
  <2>1. CASE stage[r] = "replayed"
    <3>1. PICK c \in Requests : Exists(c) /\ Same(c, r)
      BY <2>1 DEF ReplyIsTrue
    <3> QED
      BY <3>1, DeadlineStep
  <2>2. CASE stage[r] # "replayed"
    <3>1. PICK o \in Requests : CreateIfAbsent(o) /\ stage'[o] # stage[o] /\ o = r
      BY <1>1, <2>2, Ownership DEF Api, Submit, CreateIfAbsent, PublishCommand, PubackArrives,
         PublishUnconfirmed, Settle, ReadBack, DispatchFails, ApiCrash, Goto, TypeOK
    <3>2. PICK c \in Existing(r) : SameCommand(c, r)
      BY <1>1, <3>1 DEF CreateIfAbsent, Goto, TypeOK
    <3>3. c \in Requests /\ Exists(c) /\ Same(c, r)
      BY <3>2 DEF Existing, Exists, SameCommand
    <3> QED
      BY <3>3, DeadlineStep
  <2> QED  BY <2>1, <2>2
<1>2. ASSUME NEW r \in Requests, stage'[r] \in Refused
      PROVE  ~Exists(r)' /\ r \notin outgoing' \cup broker'
  BY <1>2 DEF Ledger
<1> QED
  BY <1>1, <1>2 DEF ReplyIsTrue, Refused

-----------------------------------------------------------------------------
(* What a conclusion means to the device *)

LEMMA GivenUpStep ==
  ASSUME TypeOK, WordOfTheDevice, GivenUp, [Next]_vars
  PROVE  GivenUp'
<1> SUFFICES ASSUME NEW c \in Requests, c \in batch' \/ row'[c].status = "TIMEOUT"
             PROVE  Exists(c)' /\ row'[c].expiresAt + Grace < clock'
  BY DEF GivenUp
<1>1. ASSUME Exists(c), row[c].expiresAt + Grace < clock
      PROVE  Exists(c)' /\ row'[c].expiresAt + Grace < clock'
  BY <1>1, DeadlineStep
<1>2. CASE c \in batch'
  <2>1. c \in batch \/ c \in Overdue
    BY <1>2, Ownership DEF Worker, SweepReads, SweepExpires, SweepFails
  <2> QED
    BY <1>1, <2>1 DEF GivenUp, Overdue, Exists, OPEN_COMMAND_STATUSES
<1>3. CASE row'[c].status = "TIMEOUT"
  <2>1. row[c].status = "TIMEOUT" \/ c \in batch
    BY <1>3, RowChanges DEF RowChange, Created, Sends, Withdraws, TimesOut, Concludes, Completes
  <2> QED
    BY <1>1, <2>1 DEF GivenUp
<1> QED
  BY <1>2, <1>3

LEMMA RememberedStep ==
  ASSUME TypeOK, WordOfTheDevice, Remembered, OneExecutionPerBoot, [Next]_vars
  PROVE  Remembered' /\ OneExecutionPerBoot'
<1> SUFFICES ASSUME NEW c \in Requests
    PROVE  /\ \A e \in execs'[c] :
                /\ e.boot <= boots'[DeviceOf[c]]
                /\ e.boot = boots'[DeviceOf[c]] => processed'[c] # NoAnswer \/ Forgotten(c)'
           /\ \A e1, e2 \in execs'[c] : e1.boot = e2.boot => e1 = e2
  BY DEF Remembered, OneExecutionPerBoot
<1>1. \A e \in execs[c] :
        /\ e.boot \in Nat /\ e.boot <= boots[DeviceOf[c]]
        /\ e.boot = boots[DeviceOf[c]] => processed[c] # NoAnswer \/ Forgotten(c)
  BY DEF Remembered, TypeOK
<1>2. \A e1, e2 \in execs[c] : e1.boot = e2.boot => e1 = e2
  BY DEF OneExecutionPerBoot
<1>3. /\ boots[DeviceOf[c]] \in Nat
      /\ \/ boots'[DeviceOf[c]] = boots[DeviceOf[c]]
         \/ boots'[DeviceOf[c]] = boots[DeviceOf[c]] + 1 /\ execs'[c] = execs[c]
  BY BootStep
<1>4. execs[c] # {} => Exists(c)
  BY DEF WordOfTheDevice, RowComesFirst
<1>5. CASE execs'[c] = execs[c]
  <2>1. ASSUME NEW e \in execs[c], e.boot = boots'[DeviceOf[c]]
        PROVE  processed'[c] # NoAnswer \/ Forgotten(c)'
    <3>1. boots'[DeviceOf[c]] = boots[DeviceOf[c]] /\ (processed[c] # NoAnswer \/ Forgotten(c))
      BY <1>1, <1>3, <2>1
    <3>2. Forgotten(c) => Forgotten(c)'
      BY <1>4, <2>1, DeadlineStep
    <3>3. FirstAnswer(c) => processed'[c] # NoAnswer
      BY DEF FirstAnswer, NoAnswer, AckStatuses
    <3> QED
      BY <1>3, <3>1, <3>2, <3>3, MemoryStep
  <2> QED
    BY <1>1, <1>2, <1>3, <1>5, <2>1
<1>6. CASE DeviceExecutes(c)
  <2> DEFINE new == [boot |-> boots[DeviceOf[c]], at |-> clock]
  <2>1. execs'[c] = execs[c] \cup {new} /\ boots' = boots
    BY <1>6 DEF DeviceExecutes, TypeOK
  <2>2. new.boot = boots[DeviceOf[c]]
    OBVIOUS
  <2> HIDE DEF new
  <2>3. processed'[c] # NoAnswer
    BY <1>6 DEF DeviceExecutes, Concluded, Memory, NoAnswer
  <2>4. processed[c] = NoAnswer \/ Forgotten(c)
    BY <1>6, FreshMeans DEF DeviceExecutes
  <2>5. ~Forgotten(c)
    <3>1. clock <= row[c].expiresAt /\ clock \in Nat /\ row[c].expiresAt \in Nat
      BY <1>6 DEF DeviceExecutes, TypeOK, Row
    <3> QED
      BY <3>1, TimingAssumption DEF Forgotten
  <2>6. \A e \in execs[c] : e.boot # boots[DeviceOf[c]]
    BY <1>1, <2>4, <2>5
  <2> QED
    BY <1>1, <1>2, <1>3, <2>1, <2>2, <2>3, <2>6
<1> QED
  BY <1>5, <1>6, ExecsStep

(* A refusal that holds goes on holding. *)
LEMMA UntouchedStep ==
  ASSUME TypeOK, WordOfTheDevice, [Next]_vars, NEW c \in Requests, NEW answer, Untouched(c, answer)
  PROVE  Untouched(c, answer)'
<1> SUFFICES ASSUME answer.status \in Refusals
    PROVE  /\ Exists(c)'
           /\ answer.at \in Nat /\ answer.at <= clock'
           /\ boots'[DeviceOf[c]] = 0 /\ answer.at <= row'[c].expiresAt + MemoryMargin =>
                execs'[c] = {} /\ (processed'[c] # NoAnswer \/ Forgotten(c)')
  BY DEF Untouched
<1>1. /\ Exists(c)
      /\ answer.at \in Nat /\ answer.at <= clock
      /\ boots[DeviceOf[c]] = 0 /\ answer.at <= row[c].expiresAt + MemoryMargin =>
           execs[c] = {} /\ (processed[c] # NoAnswer \/ Forgotten(c))
  BY DEF Untouched
<1>2. /\ Exists(c)' /\ row'[c].expiresAt = row[c].expiresAt
      /\ row[c].expiresAt \in Nat /\ (Forgotten(c) => Forgotten(c)')
  BY <1>1, DeadlineStep
<1>3. ASSUME boots'[DeviceOf[c]] = 0, answer.at <= row[c].expiresAt + MemoryMargin
      PROVE  execs'[c] = {} /\ (processed'[c] # NoAnswer \/ Forgotten(c)')
  <2>1. boots[DeviceOf[c]] = 0 /\ boots'[DeviceOf[c]] # boots[DeviceOf[c]] + 1
    BY <1>3, BootStep
  <2>2. execs[c] = {} /\ (processed[c] # NoAnswer \/ Forgotten(c))
    BY <1>1, <1>3, <2>1
  <2>3. ~DeviceExecutes(c)
    <3>1. DeviceExecutes(c) => Fresh(c) /\ clock <= row[c].expiresAt
      BY DEF DeviceExecutes
    <3>2. clock \in Nat
      BY DEF TypeOK
    <3> QED
      BY <1>2, <2>2, <3>1, <3>2, FreshMeans, TimingAssumption DEF Forgotten
  <2>4. FirstAnswer(c) => processed'[c] # NoAnswer
    BY DEF FirstAnswer, NoAnswer, AckStatuses
  <2> QED
    BY <1>2, <2>1, <2>2, <2>3, <2>4, ExecsStep, MemoryStep
<1>4. answer.at <= clock'
  BY <1>1, ClockStep
<1> QED
  BY <1>1, <1>2, <1>3, <1>4

(* A device that refuses c for the first time in its first boot, within    *)
(* its memory of c, has not run it. *)
LEMMA FirstRefusal ==
  ASSUME TypeOK, WordOfTheDevice, Remembered, Ledger, [Next]_vars, NEW c \in Requests,
         FirstAnswer(c)
  PROVE  Untouched(c, processed[c])'
<1> SUFFICES ASSUME processed'[c].status \in Refusals
    PROVE  /\ Exists(c)'
           /\ processed'[c].at \in Nat /\ processed'[c].at <= clock'
           /\ boots'[DeviceOf[c]] = 0
                /\ processed'[c].at <= row'[c].expiresAt + MemoryMargin =>
                execs'[c] = {} /\ (processed'[c] # NoAnswer \/ Forgotten(c)')
  BY DEF Untouched
<1>1. Exists(c) /\ execs'[c] = execs[c] /\ processed'[c] # NoAnswer /\ processed'[c].at = clock
  BY DEF FirstAnswer, WordOfTheDevice, RowComesFirst, Refusals, NoAnswer
<1>2. Exists(c)' /\ row'[c].expiresAt = row[c].expiresAt /\ row[c].expiresAt \in Nat
  BY <1>1, DeadlineStep
<1>3. ASSUME boots'[DeviceOf[c]] = 0, clock <= row[c].expiresAt + MemoryMargin
      PROVE  execs[c] = {}
  <2>1. ~Forgotten(c) /\ processed[c] = NoAnswer
    <3>1. clock \in Nat
      BY DEF TypeOK
    <3>2. ~Forgotten(c)
      BY <1>2, <1>3, <3>1, TimingAssumption DEF Forgotten
    <3> QED
      BY <3>2, FreshMeans DEF FirstAnswer
  <2>2. boots[DeviceOf[c]] = 0
    BY <1>3, BootStep
  <2>3. ASSUME NEW e \in execs[c] PROVE FALSE
    <3>1. e.boot \in Nat /\ e.boot <= 0
      BY <2>2, <2>3 DEF Remembered, TypeOK
    <3>2. e.boot = boots[DeviceOf[c]]
      BY <2>2, <3>1
    <3> QED
      BY <2>1, <3>2 DEF Remembered
  <2> QED  BY <2>3
<1> QED
  BY <1>1, <1>2, <1>3, ClockStep

LEMMA RefusalsStep ==
  ASSUME TypeOK, WordOfTheDevice, Remembered, Ledger, RefusalsHold, [Next]_vars
  PROVE  RefusalsHold'
<1>1. \A c \in Requests : Untouched(c, NoAnswer)'
  BY DEF Untouched, NoAnswer, Refusals
<1>2. ASSUME NEW c \in Requests PROVE Untouched(c, processed[c])'
  <2>1. ASSUME processed'[c] = processed[c] PROVE Untouched(c, processed[c])'
    <3>1. PICK answer : answer = processed[c]
      OBVIOUS
    <3>2. Untouched(c, answer)'
      BY <3>1, UntouchedStep DEF RefusalsHold
    <3> QED
      BY <2>1, <3>1, <3>2
  <2>2. ASSUME processed'[c] = NoAnswer PROVE Untouched(c, processed[c])'
    BY <1>1, <2>2
  <2> QED
    BY <2>1, <2>2, MemoryStep, FirstRefusal
<1>3. ASSUME NEW m \in acks' PROVE Untouched(m.cmd, m)'
  <2>1. CASE m \in acks
    <3>1. m.cmd \in Requests
      BY <2>1 DEF TypeOK, Ack
    <3> QED
      BY <2>1, <3>1, UntouchedStep DEF RefusalsHold
  <2>2. CASE m.cmd \in Requests /\ m.status = processed'[m.cmd].status
                                /\ m.at = processed'[m.cmd].at
    BY <1>2, <2>2 DEF Untouched
  <2> QED
    BY <2>1, <2>2, AcksStep
<1>4. ASSUME NEW m, m \in acks \/ \E h \in handling : h.ack = m
      PROVE  Untouched(m.cmd, m)'
  <2>1. m.cmd \in Requests
    BY <1>4 DEF TypeOK, Activation, Ack
  <2>2. Untouched(m.cmd, m)
    BY <1>4 DEF RefusalsHold
  <2> QED
    BY <2>1, <2>2, UntouchedStep
<1>5. ASSUME NEW a \in handling' PROVE Untouched(a.ack.cmd, a.ack)'
  BY <1>4, HandlingStep
<1>6. ASSUME NEW c \in Requests PROVE Untouched(c, row[c].ack)'
  <2>1. ASSUME row'[c].ack = row[c].ack PROVE Untouched(c, row[c].ack)'
    <3>1. PICK answer : answer = row[c].ack
      OBVIOUS
    <3>2. Untouched(c, answer)'
      BY <3>1, UntouchedStep DEF RefusalsHold
    <3> QED
      BY <2>1, <3>1, <3>2
  <2>2. ASSUME Concludes(c) PROVE Untouched(c, row[c].ack)'
    <3>1. PICK h \in handling : h.ack.cmd = c /\ row'[c].ack = Received(h.ack)
      BY <2>2 DEF Concludes
    <3>2. Untouched(c, h.ack)'
      BY <1>4, <3>1
    <3> QED
      BY <3>1, <3>2 DEF Untouched, Received
  <2>3. row'[c].ack \in {row[c].ack, NoAnswer} \/ Concludes(c)
    BY RowChanges DEF RowChange, Created, Sends, Withdraws, TimesOut, Completes
  <2> QED
    BY <1>1, <2>1, <2>2, <2>3
<1>7. ASSUME NEW c \in Requests PROVE Untouched(c, row[c].late)'
  <2>1. ASSUME row'[c].late = row[c].late PROVE Untouched(c, row[c].late)'
    <3>1. PICK answer : answer = row[c].late
      OBVIOUS
    <3>2. Untouched(c, answer)'
      BY <3>1, UntouchedStep DEF RefusalsHold
    <3> QED
      BY <2>1, <3>1, <3>2
  <2>2. ASSUME Completes(c) PROVE Untouched(c, row[c].late)'
    <3>1. PICK h \in handling : h.ack.cmd = c /\ row'[c].late = Received(h.ack)
      BY <2>2 DEF Completes
    <3>2. Untouched(c, h.ack)'
      BY <1>4, <3>1
    <3> QED
      BY <3>1, <3>2 DEF Untouched, Received
  <2>3. row'[c].late \in {row[c].late, NoAnswer} \/ Completes(c)
    BY RowChanges DEF RowChange, Created, Sends, Withdraws, TimesOut, Concludes, Keeps
  <2> QED
    BY <1>1, <2>1, <2>2, <2>3
<1> QED
  BY <1>2, <1>3, <1>5, <1>6, <1>7 DEF RefusalsHold

-----------------------------------------------------------------------------
(* The invariant *)

LEMMA ConclusionsInit == Init => CInv
<1> SUFFICES ASSUME Init PROVE CInv
  OBVIOUS
<1>1. TypeOK /\ WordOfTheDevice /\ AnswerMatchesStatus
  BY TypeInit, WordInit DEF Init, AnswerMatchesStatus, NoRow, NoAnswer
<1>2. Ledger /\ ReplyIsTrue
  BY DEF Init, Ledger, ReplyIsTrue, Exists, NoRow, NoAnswer
<1>3. GivenUp /\ Remembered /\ OneExecutionPerBoot
  BY DEF Init, GivenUp, Remembered, OneExecutionPerBoot, NoRow
<1>4. RefusalsHold
  BY DEF Init, RefusalsHold, Untouched, NoRow, NoAnswer, Refusals
<1> QED
  BY <1>1, <1>2, <1>3, <1>4 DEF CInv

LEMMA ConclusionsStep == CInv /\ [Next]_vars => CInv'
  BY TypeStep, WordStep, AnswerStep, LedgerStep, ReplyStep, GivenUpStep, RememberedStep,
     RefusalsStep
  DEF CInv

(* The conclusions of every process agree with what the device did and     *)
(* with what was published. *)
THEOREM Conclusions == Spec => []CInv
  BY ConclusionsInit, ConclusionsStep, PTL DEF Spec

(* Wherever the word "executed" stands, from the memory of the device to   *)
(* the row, an execution in time witnesses it. *)
THEOREM WordCorrect == Spec => []WordOfTheDevice
<1>1. CInv => WordOfTheDevice
  BY DEF CInv
<1> QED
  BY <1>1, Conclusions, PTL

(* What a caller was told stays true: a replay is of a command that exists *)
(* and is the one it asked for, a refusal left no row and no message. *)
THEOREM ReplyCorrect == Spec => []ReplyIsTrue
<1>1. CInv => ReplyIsTrue
  BY DEF CInv
<1> QED
  BY <1>1, Conclusions, PTL

(* A command that failed without an answer was never handed to the MQTT    *)
(* client, nor will be: no reconnection sends it. *)
THEOREM UnsentCorrect == Spec => []UnsentNeverRuns
<1>1. CInv => UnsentNeverRuns
  BY DEF CInv, Ledger, UnsentNeverRuns
<1> QED
  BY <1>1, Conclusions, PTL

(* As long as a device lives, a redelivery never makes it run a command    *)
(* twice: it forgets a command only when its deadline is over. *)
THEOREM OneExecutionCorrect == Spec => []OneExecutionPerBoot
<1>1. CInv => OneExecutionPerBoot
  BY DEF CInv
<1> QED
  BY <1>1, Conclusions, PTL

(* The refusal of a device that has not restarted, given within its memory *)
(* of the command, means that the command was not run. *)
THEOREM FailureCorrect == Spec => []FailureIsTrueWithinMemory
<1>1. ASSUME CInv, NEW c \in Requests, row[c].status = "FAILED", row[c].ack # NoAnswer,
             boots[DeviceOf[c]] = 0, row[c].ack.at <= row[c].expiresAt + MemoryMargin
      PROVE  execs[c] = {}
  <2>1. row[c].ack.status \in Refusals
    <3>1. row[c].ack \in Answer /\ row[c].ack.status # "executed"
      BY <1>1 DEF CInv, TypeOK, Row, AnswerMatchesStatus
    <3> QED
      BY <1>1, <3>1 DEF Answer, AckStatuses, Refusals
  <2>2. Untouched(c, row[c].ack)
    BY <1>1 DEF CInv, RefusalsHold
  <2> QED
    BY <1>1, <2>1, <2>2 DEF Untouched
<1>2. CInv => FailureIsTrueWithinMemory
  BY <1>1 DEF FailureIsTrueWithinMemory
<1> QED
  BY <1>2, Conclusions, PTL

(* No device runs a command that the worker has given up. *)
THEOREM TimeoutCorrect == Spec => TimeoutNeverRunsLater
<1>1. ASSUME CInv, [Next]_vars, NEW c \in Requests, row[c].status = "TIMEOUT"
      PROVE  execs'[c] = execs[c]
  <2>1. ~DeviceExecutes(c)
    <3>1. row[c].expiresAt + Grace < clock /\ clock \in Nat /\ row[c].expiresAt \in Nat
      BY <1>1 DEF CInv, GivenUp, TypeOK, Row
    <3> QED
      BY <3>1, TimingAssumption DEF DeviceExecutes
  <2> QED
    BY <1>1, <2>1, ExecsStep DEF CInv
<1>2. CInv /\ [Next]_vars =>
        [\A c \in Requests : row[c].status = "TIMEOUT" => execs'[c] = execs[c]]_vars
  BY <1>1
<1> QED
  BY <1>2, Conclusions, PTL DEF Spec, TimeoutNeverRunsLater

-----------------------------------------------------------------------------
(* The pipeline implements CommandContract *)

(* What the contract sees of c. *)
InTime(c) == Kept(c).at <= row[c].expiresAt + MemoryMargin
Restarted(c) == boots[DeviceOf[c]] > 0

LEMMA AnswerStatuses ==
  ASSUME NEW a \in Answer
  PROVE  /\ a.status \in AckStatuses \cup {"none"} /\ a.at \in Nat
         /\ a.status = "none" <=> a = NoAnswer
  BY DEF Answer, NoAnswer, AckStatuses

(* A row that keeps no answer is within the memory of its device. *)
LEMMA NoAnswerInTime ==
  ASSUME TypeOK, NEW c \in Requests, Kept(c) = NoAnswer
  PROVE  InTime(c) = TRUE
<1>1. row[c].expiresAt \in Nat
  BY DEF TypeOK, Row
<1> QED
  BY <1>1, TimingAssumption DEF InTime, NoAnswer

LEMMA ContractInit == Init => Contract!Init
<1> SUFFICES ASSUME Init PROVE Contract!Init
  OBVIOUS
<1>1. ASSUME NEW c \in Requests
      PROVE  /\ row[c].status = "ABSENT" /\ Kept(c) = NoAnswer /\ Kept(c).status = "none"
             /\ execs[c] = {} /\ ~(boots[DeviceOf[c]] > 0)
  BY RequestsAssumption DEF Init, NoRow, NoAnswer, Kept
<1>2. ASSUME NEW c \in Requests
      PROVE  (Kept(c).at <= row[c].expiresAt + MemoryMargin) = TRUE
  BY <1>1, TypeInit, NoAnswerInTime DEF InTime
<1>3. ASSUME NEW c \in Requests
      PROVE  (execs[c] # {}) = FALSE /\ (boots[DeviceOf[c]] > 0) = FALSE
  BY <1>1
<1>4. /\ [c \in Requests |-> row[c].status] = [c \in Requests |-> "ABSENT"]
      /\ [c \in Requests |-> Kept(c).status] = [c \in Requests |-> "none"]
  BY <1>1
<1>5. /\ [c \in Requests |-> execs[c] # {}] = [c \in Requests |-> FALSE]
      /\ [c \in Requests |-> boots[DeviceOf[c]] > 0] = [c \in Requests |-> FALSE]
  BY <1>3, Zenon
<1>6. [c \in Requests |-> Kept(c).at <= row[c].expiresAt + MemoryMargin]
        = [c \in Requests |-> TRUE]
  BY <1>2, Zenon
<1> QED
  BY <1>4, <1>5, <1>6, Zenon DEF Contract!Init

(* What a step that touches the row of c alone is, seen from the contract. *)
LEMMA RowSeen ==
  ASSUME TypeOK, NEW c \in Requests, \A o \in Requests \ {c} : row'[o] = row[o],
         UNCHANGED <<execs, boots>>
  PROVE  /\ [o \in Requests |-> row[o].status]'
              = [[o \in Requests |-> row[o].status] EXCEPT ![c] = row'[c].status]
         /\ [o \in Requests |-> Kept(o).status]'
              = [[o \in Requests |-> Kept(o).status] EXCEPT ![c] = Kept(c)'.status]
         /\ [o \in Requests |-> InTime(o)]'
              = [[o \in Requests |-> InTime(o)] EXCEPT ![c] = InTime(c)']
         /\ UNCHANGED [o \in Requests |-> execs[o] # {}]
         /\ UNCHANGED [o \in Requests |-> Restarted(o)]
  BY DEF Kept, InTime, Restarted

LEMMA ContractRow ==
  ASSUME CInv, [Next]_vars, UNCHANGED <<execs, boots>>, NEW c \in Requests, RowChange(c)
  PROVE  Contract!Next
<1> DEFINE statuses == [o \in Requests |-> row[o].status]
           answers == [o \in Requests |-> Kept(o).status]
           inTimes == [o \in Requests |-> InTime(o)]
           runs == [o \in Requests |-> execs[o] # {}]
           restarts == [o \in Requests |-> Restarted(o)]
<1>1. /\ statuses' = [statuses EXCEPT ![c] = row'[c].status]
      /\ answers' = [answers EXCEPT ![c] = Kept(c)'.status]
      /\ inTimes' = [inTimes EXCEPT ![c] = InTime(c)']
      /\ runs' = runs /\ restarts' = restarts
  BY RowSeen DEF RowChange, CInv
<1>2. /\ row[c].ack \in Answer /\ row[c].late \in Answer
      /\ row[c].status = "ACKNOWLEDGED" <=> row[c].ack.status = "executed"
      /\ row[c].late # NoAnswer => row[c].status = "TIMEOUT"
      /\ row[c].status \in {"ABSENT", "PENDING", "SENT", "TIMEOUT"} => row[c].ack = NoAnswer
      /\ stage[c] = "not_sent" => execs[c] = {}
      /\ TypeOK /\ TypeOK'
  BY TypeStep DEF CInv, TypeOK, Row, AnswerMatchesStatus, Ledger
<1>3. statuses[c] = row[c].status /\ answers[c] = Kept(c).status /\ inTimes[c] = InTime(c)
      /\ runs[c] = (execs[c] # {}) /\ restarts[c] = Restarted(c)
  OBVIOUS
<1>4. ASSUME Kept(c)' = Kept(c), InTime(c)' = InTime(c)
      PROVE  answers' = answers /\ inTimes' = inTimes
  BY <1>1, <1>4
<1>5. ASSUME Keeps(c), row'[c].ack = row[c].ack
      PROVE  answers' = answers /\ inTimes' = inTimes
  BY <1>4, <1>5 DEF Keeps, Kept, InTime
<1>6. ASSUME NEW h \in handling, h.ack \in Ack, h.ack.cmd = c, Kept(c) = NoAnswer,
             Kept(c)' = Received(h.ack), row'[c].expiresAt = row[c].expiresAt
      PROVE  /\ h.ack.status = "executed" =>
                  /\ runs[c] /\ answers' = [answers EXCEPT ![c] = "executed"]
                  /\ inTimes' = inTimes
             /\ h.ack.status # "executed" =>
                  \E a \in {"rejected", "expired"}, inTime \in BOOLEAN :
                    /\ inTime /\ ~restarts[c] => ~runs[c]
                    /\ answers' = [answers EXCEPT ![c] = a]
                    /\ inTimes' = [inTimes EXCEPT ![c] = inTime]
  <2>1. /\ h.ack.status \in AckStatuses /\ h.ack.at \in Nat
        /\ Kept(c)'.status = h.ack.status /\ Kept(c)'.at = h.ack.at
    BY <1>6 DEF Ack, Received
  <2>2. /\ InTime(c) = TRUE
        /\ InTime(c)' <=> h.ack.at <= row[c].expiresAt + MemoryMargin
        /\ InTime(c)' \in BOOLEAN
        /\ row[c].expiresAt \in Nat
    <3>1. row[c].expiresAt \in Nat
      BY <1>2 DEF TypeOK, Row
    <3>2. InTime(c) = TRUE
      BY <1>2, <1>6, NoAnswerInTime
    <3>3. InTime(c)' <=> h.ack.at <= row[c].expiresAt + MemoryMargin
      BY <1>6, <2>1 DEF InTime
    <3>4. InTime(c)' \in BOOLEAN
      <4>1. InTime(c)' = (h.ack.at <= row[c].expiresAt + MemoryMargin)
        BY <1>6, <2>1, Zenon DEF InTime
      <4>2. (h.ack.at <= row[c].expiresAt + MemoryMargin) \in BOOLEAN
        BY <2>1, <3>1, TimingAssumption
      <4> QED
        BY <4>1, <4>2, Zenon
    <3> QED
      BY <3>1, <3>2, <3>3, <3>4
  <2>3. CASE h.ack.status = "executed"
    <3>1. PICK e \in execs[c] : e.at = h.ack.at /\ e.at <= row[c].expiresAt
      BY <1>6, <2>3 DEF CInv, WordOfTheDevice, HandledIsTrue, Witnessed
    <3>2. InTime(c)' = TRUE
      BY <2>1, <2>2, <3>1, TimingAssumption
    <3> QED
      BY <1>1, <1>3, <2>1, <2>2, <2>3, <3>1, <3>2
  <2>4. CASE h.ack.status # "executed"
    <3>1. h.ack.status \in {"rejected", "expired"}
      BY <2>1, <2>4 DEF AckStatuses
    <3>2. boots[DeviceOf[c]] \in Nat
      BY <1>2, BootStep
    <3>3. InTime(c)' /\ ~Restarted(c) => execs[c] = {}
      <4>1. Untouched(c, h.ack)
        BY <1>6 DEF CInv, RefusalsHold
      <4> QED
        BY <2>2, <3>1, <3>2, <4>1 DEF Untouched, Refusals, Restarted
    <3> QED
      BY <1>1, <1>3, <2>1, <2>2, <2>4, <3>1, <3>3
  <2> QED  BY <2>3, <2>4
<1>7. CASE Created(c)
  <2>1. /\ row[c].status = "ABSENT" /\ row'[c].status = "PENDING"
        /\ Kept(c) = NoAnswer /\ Kept(c)' = NoAnswer
    BY <1>2, <1>7 DEF Created, Exists, Kept
  <2>2. InTime(c)' = TRUE /\ InTime(c) = TRUE
    <3>1. row[c].expiresAt \in Nat /\ row'[c].expiresAt \in Nat
      BY <1>2 DEF TypeOK, Row
    <3> QED
      BY <2>1, <3>1, TimingAssumption DEF InTime, NoAnswer
  <2>3. Contract!Accept(c)
    BY <1>1, <1>3, <1>4, <2>1, <2>2 DEF Contract!Accept, Contract!Becomes, InTime, Restarted
  <2> QED  BY <2>3 DEF Contract!Next
<1>8. CASE Sends(c)
  <2>1. Contract!Send(c)
    BY <1>1, <1>3, <1>5, <1>8 DEF Sends, Contract!Send, Contract!Becomes, InTime, Restarted
  <2> QED  BY <2>1 DEF Contract!Next
<1>9. CASE Withdraws(c)
  <2>1. execs[c] = {}
    BY <1>2, <1>9 DEF Withdraws
  <2>2. Contract!Withdraw(c)
    BY <1>1, <1>3, <1>5, <1>9, <2>1
    DEF Withdraws, Contract!Withdraw, Contract!Becomes, InTime, Restarted
  <2> QED  BY <2>2 DEF Contract!Next
<1>10. CASE TimesOut(c)
  <2>1. Contract!TimeOut(c)
    BY <1>1, <1>3, <1>5, <1>10 DEF TimesOut, IsOpen, OPEN_COMMAND_STATUSES, Contract!TimeOut,
       Contract!Open, Contract!Becomes, InTime, Restarted
  <2> QED  BY <2>1 DEF Contract!Next
<1>11. CASE Concludes(c)
  <2>1. PICK h \in handling :
          /\ h.ack \in Ack /\ h.ack.cmd = c /\ IsOpen(c)
          /\ row'[c].status = IF h.ack.status = "executed" THEN "ACKNOWLEDGED" ELSE "FAILED"
          /\ Keeps(c) /\ row'[c].ack = Received(h.ack)
    BY <1>11 DEF Concludes
  <2>2. Kept(c) = NoAnswer /\ Kept(c)' = Received(h.ack) /\ row'[c].expiresAt = row[c].expiresAt
    BY <1>2, <2>1 DEF IsOpen, OPEN_COMMAND_STATUSES, Keeps, Kept
  <2>3. CASE h.ack.status = "executed"
    <3>1. Contract!AnsweredExecuted(c)
      BY <1>6, <2>1, <2>2, <2>3 DEF Contract!AnsweredExecuted, InTime
    <3>2. Contract!Acknowledge(c)
      BY <1>1, <1>3, <2>1, <2>3, <3>1 DEF Contract!Acknowledge, Contract!Becomes, Contract!Open,
         IsOpen, OPEN_COMMAND_STATUSES, Restarted
    <3> QED  BY <3>2 DEF Contract!Next
  <2>4. CASE h.ack.status # "executed"
    <3>1. Contract!AnsweredRefused(c)
      BY <1>6, <2>1, <2>2, <2>4 DEF Contract!AnsweredRefused, Contract!Refusals, InTime, Restarted
    <3>2. Contract!Refuse(c)
      BY <1>1, <1>3, <2>1, <2>4, <3>1 DEF Contract!Refuse, Contract!Becomes, Contract!Open,
         IsOpen, OPEN_COMMAND_STATUSES, Restarted
    <3> QED  BY <3>2 DEF Contract!Next
  <2> QED  BY <2>3, <2>4
<1>12. CASE Completes(c)
  <2>1. PICK h \in handling :
          /\ h.ack \in Ack /\ h.ack.cmd = c
          /\ row[c].status = "TIMEOUT" /\ row[c].late = NoAnswer
          /\ row'[c].status = row[c].status /\ row'[c].expiresAt = row[c].expiresAt
          /\ row'[c].late = Received(h.ack)
    BY <1>12 DEF Completes
  <2>2. Kept(c) = NoAnswer /\ Kept(c).status = "none" /\ Kept(c)' = Received(h.ack)
    BY <1>2, <2>1 DEF Kept, Received, NoAnswer, Ack, AckStatuses
  <2>3. statuses' = statuses
    BY <1>1, <2>1
  <2>4. statuses[c] = "TIMEOUT" /\ answers[c] = "none"
    BY <1>3, <2>1, <2>2
  <2>5. Contract!AnsweredExecuted(c) \/ Contract!AnsweredRefused(c)
    BY <1>6, <2>1, <2>2 DEF Contract!AnsweredExecuted, Contract!AnsweredRefused,
       Contract!Refusals, InTime, Restarted
  <2>6. Contract!AnswerLate(c)
    BY <1>1, <2>3, <2>4, <2>5 DEF Contract!AnswerLate, Restarted
  <2> QED  BY <2>6 DEF Contract!Next
<1> QED
  BY <1>7, <1>8, <1>9, <1>10, <1>11, <1>12 DEF RowChange

(* A device that has not restarted runs nothing that it ran or refused     *)
(* before: it still remembers it. *)
LEMMA RunsFirst ==
  ASSUME CInv, NEW c \in Requests, DeviceExecutes(c), boots[DeviceOf[c]] = 0
  PROVE  execs[c] = {} /\ Kept(c).status \notin Refusals
<1>1. /\ clock \in Nat /\ row[c].expiresAt \in Nat /\ clock <= row[c].expiresAt
  BY DEF CInv, TypeOK, Row, DeviceExecutes
<1>2. ~Forgotten(c) /\ processed[c] = NoAnswer
  BY <1>1, FreshMeans, TimingAssumption DEF DeviceExecutes, Forgotten
<1>3. ASSUME NEW e \in execs[c] PROVE FALSE
  <2>1. e.boot \in Nat /\ e.boot <= 0
    BY <1>3 DEF CInv, Remembered, TypeOK
  <2>2. e.boot = boots[DeviceOf[c]]
    BY <2>1
  <2> QED
    BY <1>2, <2>2 DEF CInv, Remembered
<1>4. ASSUME Kept(c).status \in Refusals PROVE FALSE
  <2>1. Untouched(c, Kept(c))
    BY DEF CInv, RefusalsHold, Kept
  <2>2. Kept(c).at \in Nat /\ Kept(c).at <= clock
    BY <1>4, <2>1 DEF Untouched
  <2>3. Kept(c).at <= row[c].expiresAt + MemoryMargin
    BY <1>1, <2>2, TimingAssumption
  <2> QED
    BY <1>2, <1>4, <2>1, <2>3 DEF Untouched
<1> QED
  BY <1>3, <1>4

LEMMA ContractRun ==
  ASSUME CInv, UNCHANGED row, NEW c \in Requests, DeviceExecutes(c)
  PROVE  Contract!Next
<1>1. Exists(c) /\ c \in published
  BY DEF DeviceExecutes, CInv, WordOfTheDevice, RowComesFirst, Ledger
<1>2. row[c].status # "TIMEOUT"
  <2>1. clock \in Nat /\ row[c].expiresAt \in Nat /\ clock <= row[c].expiresAt
    BY DEF CInv, TypeOK, Row, DeviceExecutes
  <2> QED
    BY <2>1, TimingAssumption DEF CInv, GivenUp
<1>3. ~(row[c].status = "FAILED" /\ Kept(c).status = "none")
  <2>1. /\ row[c].ack \in Answer /\ row[c].late \in Answer
        /\ row[c].late # NoAnswer => row[c].status = "TIMEOUT"
        /\ ~(row[c].status = "FAILED" /\ row[c].ack = NoAnswer)
    BY <1>1 DEF CInv, TypeOK, Row, AnswerMatchesStatus, Ledger
  <2> QED
    BY <2>1, AnswerStatuses DEF Kept
<1>4. /\ \A o \in Requests \ {c} : execs'[o] = execs[o]
      /\ execs'[c] # {}
      /\ boots' = boots
  BY DEF DeviceExecutes, CInv, TypeOK
<1>5. [o \in Requests |-> execs'[o] # {}]
        = [[o \in Requests |-> execs[o] # {}] EXCEPT ![c] = TRUE]
  BY <1>4
<1>6. execs[c] # {} \/ Kept(c).status \in Refusals => boots[DeviceOf[c]] > 0
  <2>1. boots[DeviceOf[c]] \in Nat
    BY RequestsAssumption DEF CInv, TypeOK
  <2> QED
    BY <2>1, RunsFirst
<1>7. /\ UNCHANGED [o \in Requests |-> row[o].status]
      /\ UNCHANGED [o \in Requests |-> Kept(o).status]
      /\ UNCHANGED [o \in Requests |-> Kept(o).at <= row[o].expiresAt + MemoryMargin]
      /\ UNCHANGED [o \in Requests |-> boots[DeviceOf[o]] > 0]
  BY <1>4 DEF Kept
<1>8. Contract!Run(c)
  BY <1>1, <1>2, <1>3, <1>5, <1>6, <1>7
  DEF Contract!Run, Contract!Withdrawn, Contract!Refusals, Refusals, Exists
<1> QED
  BY <1>8 DEF Contract!Next

(* The commands of a device are forgotten together. *)
LEMMA ContractRestart ==
  ASSUME TypeOK, NEW d \in Devices, DeviceRestarts(d)
  PROVE  Contract!Next
<1> DEFINE C == {c \in Requests : DeviceOf[c] = d}
<1>1. row' = row /\ execs' = execs
  BY DEF DeviceRestarts, OnlyDevice
<1>2. ASSUME NEW c \in Requests
      PROVE  (boots'[DeviceOf[c]] > 0) = ((boots[DeviceOf[c]] > 0) \/ c \in C)
  <2>1. DeviceOf[c] \in Devices /\ boots[DeviceOf[c]] \in Nat /\ boots[d] \in Nat
    BY RequestsAssumption DEF TypeOK
  <2>2. boots' = [boots EXCEPT ![d] = boots[d] + 1]
    BY DEF DeviceRestarts
  <2>3. boots'[DeviceOf[c]] = IF DeviceOf[c] = d THEN boots[d] + 1 ELSE boots[DeviceOf[c]]
    BY <2>1, <2>2 DEF TypeOK
  <2> QED
    BY <2>1, <2>3
<1> HIDE DEF C
<1>3. [c \in Requests |-> boots'[DeviceOf[c]] > 0]
        = [c \in Requests |-> [o \in Requests |-> boots[DeviceOf[o]] > 0][c] \/ c \in C]
  BY <1>2
<1>4. Contract!Restart(C)
  BY <1>1, <1>3 DEF Contract!Restart, Kept
<1>5. C \in SUBSET Requests
  BY DEF C
<1> QED
  BY <1>4, <1>5 DEF Contract!Next

LEMMA ContractStep ==
  ASSUME CInv, [Next]_vars
  PROVE  [Contract!Next]_(Contract!vars)
<1>1. TypeOK
  BY DEF CInv
<1>2. CASE \E d \in Devices : DeviceRestarts(d)
  BY <1>1, <1>2, ContractRestart
<1>3. CASE UNCHANGED <<row, boots>> /\ \A c \in Requests : execs'[c] = execs[c]
  BY <1>3 DEF Contract!vars, Kept
<1>4. CASE UNCHANGED row /\ \E c \in Requests : execs'[c] # execs[c]
  BY <1>1, <1>4, ExecsStep, ContractRun
<1>5. CASE UNCHANGED <<execs, boots>> /\ \E c \in Requests : RowChange(c)
  BY <1>5, ContractRow
<1>6. UNCHANGED boots \/ \E d \in Devices : DeviceRestarts(d)
  <2>1. ASSUME NEW c \in Requests, Device(c) PROVE UNCHANGED boots
    BY <2>1 DEF Device, DeviceRepeats, DeviceIgnores, DeviceExpires, DeviceRejects, DeviceExecutes
  <2> QED
    BY <2>1, Ownership
<1> QED
  BY <1>1, <1>2, <1>3, <1>4, <1>5, <1>6, RowChanges

(* Whoever reads the rows sees the life cycle of ADR 0014, tied to what    *)
(* the devices run and forget: every step of every process is a step of    *)
(* the contract. *)
THEOREM ContractCorrect == Spec => FollowsContract
<1>1. CInv /\ [Next]_vars => [Contract!Next]_(Contract!vars)
  BY ContractStep
<1> QED
  BY <1>1, ContractInit, Conclusions, PTL DEF Spec, FollowsContract, Contract!Spec
=============================================================================
