---------------------- MODULE ConsolidationOrderProofs ----------------------
(***************************************************************************)
(* Nothing of the journal is skipped, and the saved cursor never moves     *)
(* back: proofs, by the inductive invariant WorkInOrder, for any messages, *)
(* delays that respect SettleAssumption, batch size and number of          *)
(* failures.                                                               *)
(***************************************************************************)
EXTENDS ConsolidationProofs

USE DEF Consolidating, Handling

Ordered == Typed /\ WorkInOrder

-----------------------------------------------------------------------------
(* The order of the journal *)

LEMMA KnownType ==
  ASSUME Typed
  PROVE  /\ \A p \in Known : p # None => p.at \in Nat /\ p.id \in Nat
         /\ \A e \in journal \cup inserting : e # None /\ e.at \in Nat /\ e.id \in Nat
         /\ batch \subseteq journal /\ None \notin batch
  <1>1. \A e \in Event : e # None /\ e.at \in Nat /\ e.id \in Nat
    BY NoneAssumption, WorkerAssumption DEF Event
  <1>2. \A p \in Cursor : p.at \in Nat /\ p.id \in Nat
    BY WorkerAssumption DEF Cursor
  <1> QED BY <1>1, <1>2 DEF Known, InHand, Typed, TypeOK, TablesOK, WorkOK

LEMMA PrecedesOrder ==
  ASSUME NEW p, NEW q, NEW r,
         p.at \in Nat, q.at \in Nat, r.at \in Nat, p.id \in Nat, q.id \in Nat, r.id \in Nat
  PROVE  /\ ~Precedes(p, p)
         /\ Precedes(p, q) => ~Precedes(q, p)
         /\ Precedes(p, q) /\ Precedes(q, r) => Precedes(p, r)
         /\ Precedes(p, q) /\ ~Precedes(r, q) => Precedes(p, r)
         /\ ~Precedes(p, q) /\ Precedes(r, q) => Precedes(r, p)
         /\ ~Precedes(p, q) => q.at <= p.at
         /\ ~Precedes(p, q) /\ ~Precedes(q, p) => p.id = q.id
  BY DEF Precedes

LEMMA PositionPrecedes ==
  ASSUME NEW e, NEW p
  PROVE  /\ Precedes(PositionOf(e), p) = Precedes(e, p)
         /\ Precedes(p, PositionOf(e)) = Precedes(p, e)
         /\ PositionOf(e).at = e.at
  BY DEF Precedes, PositionOf

-----------------------------------------------------------------------------
(* What each step does to the positions *)

(* Among the steps that process an event, only a throw moves the worker. *)
LEMMA ProcessStep ==
  ASSUME Process
  PROVE  /\ UNCHANGED journalVars /\ checkpoint' = checkpoint /\ UNCHANGED processVars
         /\ stage \in Handling
         /\ Throw \/ (UNCHANGED batchVars /\ stage' \in Handling)
  <1> USE DEF batchVars, journalVars, processVars, memoryVars
  <1>1. CASE Reject \/ RejectUnknownDevice \/ EndMetrics \/ EvaluateNone
    BY <1>1 DEF Reject, RejectUnknownDevice, EndMetrics, EvaluateNone, AtMetric
  <1>2. CASE Store \/ RecordDeadLetter \/ ResolveToReopen
    BY <1>2 DEF Store, RecordDeadLetter, ResolveToReopen, AtMetric, Answered, Proceed
  <1>3. CASE OpenAlert \/ RecordOngoing \/ Resolve
    BY <1>3 DEF OpenAlert, RecordOngoing, Resolve, EvaluationEnds, Proceed
  <1> QED BY <1>1, <1>2, <1>3 DEF Process

LEMMA LifecycleStep ==
  ASSUME Lifecycle
  PROVE  /\ UNCHANGED journalVars /\ UNCHANGED baseVars /\ checkpoint' = checkpoint
         /\ \/ CallFails /\ Throw
            \/ (Crash \/ Exit) /\ stage' = "down" /\ Forget
            \/ Stop /\ UNCHANGED batchVars /\ UNCHANGED eventVars /\ loaded' = loaded
            \/ Start /\ UNCHANGED memoryVars
  BY DEF Lifecycle, CallFails, Crash, Stop, Exit, Start, journalVars, baseVars, batchVars, eventVars, memoryVars

LEMMA LoopStep ==
  ASSUME Loop
  PROVE  /\ UNCHANGED journalVars /\ UNCHANGED baseVars
         /\ Save \/ Salvage \/ checkpoint' = checkpoint
  BY DEF Loop, StartTick, Load, Read, StartEvent, FinishEvent, EndBatch, Count, Save, Salvage,
         journalVars, baseVars

(* A position the worker comes to know is one it knew, or lies before the  *)
(* horizon of its read. *)
LEMMA KnownStep ==
  ASSUME Ordered, Loop \/ Process \/ Lifecycle
  PROVE  \A p \in Known' : p # None =>
           p.at < Horizon \/ \E q \in Known : q # None /\ q.at = p.at
  <1> USE DEF batchVars, memoryVars
  <1>1. CASE checkpoint' = checkpoint /\ UNCHANGED batchVars
    BY <1>1 DEF Known, InHand
  <1>2. CASE /\ checkpoint' \in {checkpoint, cursor}
             /\ batch' = {} /\ lastDone' = None
             /\ cursor' = cursor \/ (lastDone # None /\ cursor' = PositionOf(lastDone))
    <2>1. PositionOf(lastDone).at = lastDone.at
      BY DEF PositionOf
    <2>2. \A p \in Known' : p \in {checkpoint, cursor, cursor', None}
      BY <1>2 DEF Known, InHand
    <2> QED BY <1>2, <2>1, <2>2 DEF Known, InHand
  <1>3. CASE Process
    BY <1>1, <1>2, <1>3, ProcessStep DEF Throw
  <1>4. CASE Lifecycle
    <2>1. CASE checkpoint' = checkpoint /\ Forget
      BY <2>1 DEF Forget, Known, InHand
    <2> QED BY <1>1, <1>2, <1>4, <2>1, LifecycleStep DEF Throw
  <1>5. CASE Load
    BY <1>5 DEF Load, Known, InHand
  <1>6. CASE Read
    BY <1>6 DEF Read, FindAfter, Known, InHand
  <1>7. CASE StartEvent
    BY <1>7 DEF StartEvent, Known, InHand
  <1>8. CASE FinishEvent
    BY <1>8 DEF FinishEvent, Known, InHand, Ordered, Typed, TypeOK, WorkOK
  <1>9. CASE EndBatch
    BY <1>2, <1>9 DEF EndBatch
  <1>10. CASE Save
    <2>1. CASE Throw
      BY <1>2, <1>10, <2>1 DEF Save, Throw
    <2>2. CASE UNCHANGED batchVars
      BY <1>10, <2>2 DEF Save, Known, InHand
    <2> QED BY <1>10, <2>1, <2>2 DEF Save
  <1>11. CASE Salvage
    BY <1>11 DEF Salvage, Known, InHand
  <1>12. CASE StartTick \/ Count
    BY <1>1, <1>12 DEF StartTick, Count
  <1> QED BY <1>3, <1>4, <1>5, <1>6, <1>7, <1>8, <1>9, <1>10, <1>11, <1>12 DEF Loop
-----------------------------------------------------------------------------
(* Timely *)

LEMMA TimelyWorker ==
  ASSUME Ordered, Loop \/ Process \/ Lifecycle
  PROVE  Timely'
  <1>1. UNCHANGED journalVars
    BY LoopStep, ProcessStep, LifecycleStep
  <1>2. \A p \in Known' : p # None => p.at < Horizon
    BY KnownStep DEF Ordered, WorkInOrder, Timely
  <1>3. Horizon' = Horizon
    BY <1>1 DEF Horizon, journalVars
  <1> QED BY <1>1, <1>2, <1>3 DEF Ordered, WorkInOrder, Timely, journalVars

LEMMA TimelyJournal ==
  ASSUME Ordered, Journal
  PROVE  Timely'
  <1> USE DEF Ordered, WorkInOrder, Timely, memoryVars, batchVars
  <1>1. Known' = Known
    BY DEF Journal, Tick, HandleMeasurementMessage, Inserted, InsertionLost, Known, InHand
  <1>2. clock \in Nat /\ Settle \in Nat /\ InsertDelay \in Nat
    BY WorkerAssumption DEF Typed, TypeOK, TablesOK
  <1>3. \A e \in inserting \cup journal : e.at \in Nat
    BY KnownType
  <1>4. \A p \in Known : p # None => p.at \in Nat
    BY KnownType
  <1>5. CASE Tick
    <2>1. clock' = clock + 1 /\ UNCHANGED <<inserting, journal>>
          /\ \A e \in inserting : clock < e.at + InsertDelay
      BY <1>5 DEF Tick
    <2>2. \A p \in Known' : p # None => p.at < Horizon'
      BY <1>1, <1>2, <1>4, <2>1 DEF Horizon
    <2>3. \A e \in inserting' : clock' <= e.at + InsertDelay
      BY <1>2, <1>3, <2>1
    <2> QED BY <2>1, <2>2, <2>3
  <1>6. ASSUME NEW m \in Messages, NEW id \in Ids, HandleMeasurementMessage(m, id)
        PROVE  Timely'
    <2> DEFINE new == [at |-> clock, id |-> id, message |-> m]
    <2>1. inserting' = inserting \cup {new} /\ UNCHANGED <<clock, journal>>
          /\ \A e \in inserting \cup journal : e.id # id
      BY <1>6 DEF HandleMeasurementMessage
    <2>2. new.at = clock /\ new.id = id
      OBVIOUS
    <2> HIDE DEF new
    <2>3. \A e \in inserting' : clock' <= e.at + InsertDelay
      BY <1>2, <2>1, <2>2
    <2>4. \A e, f \in inserting' \cup journal' : e.id = f.id => e = f
      BY <2>1, <2>2
    <2>5. Horizon' = Horizon
      BY <2>1 DEF Horizon
    <2> QED BY <1>1, <2>1, <2>3, <2>4, <2>5
  <1>7. ASSUME NEW e \in inserting, Inserted(e) \/ InsertionLost(e)
        PROVE  Timely'
    <2>1. /\ inserting' \subseteq inserting /\ clock' = clock
          /\ inserting' \cup journal' \subseteq inserting \cup journal
          /\ journal' = journal \/ journal' = journal \cup {e}
      BY <1>7 DEF Inserted, InsertionLost
    <2>2. IsFiniteSet(journal')
      BY <2>1, FS_AddElement
    <2>3. Horizon' = Horizon
      BY <2>1 DEF Horizon
    <2> QED BY <1>1, <2>1, <2>2, <2>3
  <1> QED BY <1>5, <1>6, <1>7 DEF Journal

-----------------------------------------------------------------------------
(* CursorInOrder *)

(* The end of a batch, or its throw, with the cursor after the last event  *)
(* done. *)
LEMMA CursorAfterLastDone ==
  ASSUME Ordered, lastDone # None, cursor' = PositionOf(lastDone), checkpoint' = checkpoint, loaded' = loaded,
         batch' = {}, lastDone' = None, stage' \in {"saving", "salvaging"}, stage \notin {"waiting", "stopped", "down"}
  PROVE  CursorInOrder'
  <1> USE DEF Ordered, WorkInOrder, CursorInOrder
  <1>1. PositionOf(lastDone) # None
    BY PositionType DEF Typed, TypeOK, TablesOK, WorkOK
  <1>2. loaded
    OBVIOUS
  <1>3. ASSUME checkpoint # None
        PROVE  ~Precedes(lastDone, checkpoint)
    <2>1. cursor # None /\ ~Precedes(cursor, checkpoint) /\ Precedes(cursor, lastDone)
      BY <1>2, <1>3 DEF InHand
    <2> QED BY <1>3, <2>1, KnownType, PrecedesOrder DEF Known, InHand
  <1>4. checkpoint' # None => ~Precedes(cursor', checkpoint')
    BY <1>3, PositionPrecedes
  <1> QED BY <1>1, <1>2, <1>4 DEF InHand

LEMMA CursorThrow ==
  ASSUME Ordered, Throw, checkpoint' = checkpoint, loaded' = loaded, stage \notin {"waiting", "stopped", "down"}
  PROVE  CursorInOrder'
  <1>1. batch' = {} /\ lastDone' = None
    BY DEF Throw
  <1>2. CASE lastDone = None
    <2>1. cursor' = cursor /\ stage' \in {"waiting", "stopped"}
      BY <1>2 DEF Throw, Rearm
    <2> QED BY <1>1, <2>1 DEF InHand, Ordered, WorkInOrder, CursorInOrder
  <1>3. CASE lastDone # None
    BY <1>1, <1>3, CursorAfterLastDone DEF Throw
  <1> QED BY <1>2, <1>3

(* The cursor is saved. *)
LEMMA CursorSaved ==
  ASSUME Ordered, stage \in {"saving", "salvaging"}, checkpoint' \in {checkpoint, cursor}, loaded' = loaded,
         UNCHANGED <<cursor, batch, lastDone>>, stage' \in {"waiting", "stopped", "reading", "counting"}
  PROVE  CursorInOrder'
  <1>1. cursor # None /\ ~Precedes(cursor, cursor)
    BY KnownType, PrecedesOrder DEF Known, Ordered, WorkInOrder, CursorInOrder
  <1> QED BY <1>1 DEF InHand, Ordered, WorkInOrder, CursorInOrder

LEMMA CursorNext ==
  ASSUME Ordered, [Next]_vars
  PROVE  CursorInOrder'
  <1> USE DEF Ordered, WorkInOrder, CursorInOrder, InHand, batchVars, memoryVars, processVars
  <1>1. CASE /\ checkpoint' = checkpoint /\ loaded' = loaded /\ UNCHANGED <<cursor, batch, lastDone>>
             /\ \/ stage' = stage
                \/ stage \in {"processing"} \cup Handling /\ stage' \in {"processing"} \cup Handling
    BY <1>1
  <1>2. CASE UNCHANGED vars
    BY <1>1, <1>2 DEF vars
  <1>3. CASE Journal
    BY <1>1, <1>3 DEF Journal, Tick, HandleMeasurementMessage, Inserted, InsertionLost
  <1>4. CASE Process
    <2>1. checkpoint' = checkpoint /\ loaded' = loaded /\ stage \in Handling
      BY <1>4, ProcessStep
    <2>2. CASE Throw
      BY <2>1, <2>2, CursorThrow
    <2>3. CASE UNCHANGED batchVars /\ stage' \in Handling
      BY <1>1, <2>1, <2>3
    <2> QED BY <1>4, <2>2, <2>3, ProcessStep
  <1>5. CASE Lifecycle
    <2>1. CASE CallFails /\ Throw
      <3>1. loaded' = loaded /\ stage \notin {"waiting", "stopped", "down"}
        BY <2>1 DEF CallFails, AtMetric
      <3> QED BY <1>5, <2>1, <3>1, CursorThrow, LifecycleStep
    <2>2. CASE stage' = "down" /\ Forget
      BY <2>2 DEF Forget
    <2>3. CASE Stop
      BY <2>3 DEF Stop
    <2>4. CASE Start
      BY <2>4 DEF Start
    <2> QED BY <1>5, <2>1, <2>2, <2>3, <2>4, LifecycleStep
  <1>6. CASE StartTick \/ Count
    BY <1>6 DEF StartTick, Count, Rearm
  <1>7. CASE Load
    <2>1. checkpoint # None => ~Precedes(checkpoint, checkpoint)
      BY KnownType, PrecedesOrder DEF Known
    <2> QED BY <1>7, <2>1 DEF Load
  <1>8. CASE Read
    <2>1. cursor # None => \A e \in batch' : Precedes(cursor, e)
      BY <1>8 DEF Read, FindAfter, AfterCursor
    <2>2. /\ UNCHANGED <<checkpoint, loaded, cursor, lastDone>> /\ lastDone = None
          /\ stage' = "processing" /\ stage = "reading"
      BY <1>8 DEF Read
    <2> QED BY <2>1, <2>2
  <1>9. CASE StartEvent
    BY <1>1, <1>9 DEF StartEvent
  <1>10. CASE FinishEvent
    <2>1. /\ stage = "finishing" /\ stage' = "processing" /\ lastDone' = current
          /\ batch' = batch \ {current} /\ UNCHANGED <<checkpoint, loaded, cursor>>
      BY <1>10 DEF FinishEvent
    <2>2. current \in batch
      BY <2>1, ReadingInHand
    <2>3. \A e \in batch' : Precedes(current, e)
      BY <2>1, <2>2, KnownType DEF EventInOrder
    <2> QED BY <2>1, <2>2, <2>3
  <1>11. CASE EndBatch
    <2>1. CASE lastDone = None
      BY <1>11, <2>1 DEF EndBatch, Continue
    <2>2. CASE lastDone # None
      BY <1>11, <2>2, CursorAfterLastDone DEF EndBatch
    <2> QED BY <2>1, <2>2
  <1>12. CASE Save
    <2>1. stage = "saving" /\ lastDone = None /\ batch = {} /\ checkpoint' = cursor /\ loaded' = loaded
      BY <1>12 DEF Save
    <2>2. /\ UNCHANGED <<cursor, batch, lastDone>>
          /\ stage' \in {"waiting", "stopped", "reading", "counting"}
      BY <1>12, <2>1 DEF Save, Throw, Continue, Rearm
    <2> QED BY <2>1, <2>2, CursorSaved
  <1>13. CASE Salvage
    BY <1>13, CursorSaved DEF Salvage, Rearm
  <1> QED BY <1>2, <1>3, <1>4, <1>5, <1>6, <1>7, <1>8, <1>9, <1>10, <1>11, <1>12, <1>13 DEF Next, Loop
-----------------------------------------------------------------------------
(* BatchInOrder *)

(* Readings and dead letters are never taken back, so what is settled      *)
(* stays settled. *)
LEMMA TablesGrow ==
  ASSUME [Next]_vars
  PROVE  measurements \subseteq measurements' /\ deadLetters \subseteq deadLetters'
  <1> USE DEF baseVars
  <1>1. CASE UNCHANGED vars
    BY <1>1 DEF vars
  <1>2. CASE Journal
    BY <1>2 DEF Journal, Tick, HandleMeasurementMessage, Inserted, InsertionLost
  <1>3. CASE Loop \/ Lifecycle
    BY <1>3, LoopStep, LifecycleStep
  <1>4. CASE Process
    BY <1>4 DEF Process, Reject, RejectUnknownDevice, Store, EndMetrics, RecordDeadLetter, EvaluateNone,
                OpenAlert, RecordOngoing, Resolve, ResolveToReopen, EvaluationEnds
  <1> QED BY <1>1, <1>2, <1>3, <1>4 DEF Next

LEMMA StaysAbsorbed ==
  ASSUME [Next]_vars, NEW e, NEW i, Absorbed(e, i)
  PROVE  Absorbed(e, i)'
  BY TablesGrow DEF Absorbed, ReadingOf

LEMMA StaysSettled ==
  ASSUME [Next]_vars, NEW e, Settled(e)
  PROVE  Settled(e)'
  BY TablesGrow, StaysAbsorbed DEF Settled, ReasonOf

(* Journal and positions as they were, or fewer. *)
LEMMA BatchKept ==
  ASSUME Ordered, [Next]_vars, journal' = journal,
         checkpoint' \in {checkpoint, cursor, None}, cursor' \in {checkpoint, cursor, None},
         UNCHANGED <<batch, lastDone>> \/ (batch' = {} /\ lastDone' = None)
  PROVE  BatchInOrder'
  <1>1. \A e \in journal : Settled(e) => Settled(e)'
    BY StaysSettled
  <1>2. \A c \in {checkpoint, cursor, None} : \A e \in journal : Behind(e, c) => Settled(e)'
    BY <1>1 DEF Ordered, WorkInOrder, BatchInOrder, Passed, Behind
  <1>3. Passed(checkpoint)' /\ Passed(cursor)'
    BY <1>2 DEF Passed, Behind
  <1>4. \A p \in InHand' : p # None => \A e \in journal : ~Precedes(p, e) => e \in batch' \/ Settled(e)'
    BY <1>1 DEF Ordered, WorkInOrder, BatchInOrder, InHand
  <1> QED BY <1>3, <1>4 DEF BatchInOrder
(* The cursor goes after the last event that is done: what lies before it  *)
(* and is not in the batch is settled, and the batch lies beyond. *)
LEMMA BatchAfterLastDone ==
  ASSUME Ordered, [Next]_vars, journal' = journal, checkpoint' = checkpoint,
         lastDone # None, cursor' = PositionOf(lastDone), batch' = {}, lastDone' = None
  PROVE  BatchInOrder'
  <1>1. ASSUME NEW e \in journal, ~Precedes(lastDone, e)
        PROVE  Settled(e)'
    <2>1. e \in batch \/ Settled(e)
      BY <1>1 DEF Ordered, WorkInOrder, BatchInOrder, InHand
    <2>2. e \notin batch
      BY <1>1 DEF Ordered, WorkInOrder, CursorInOrder
    <2> QED BY <2>1, <2>2, StaysSettled
  <1>2. \A e \in journal : Behind(e, cursor') => Settled(e)'
    BY <1>1, PositionPrecedes DEF Behind
  <1>3. \A e \in journal : Behind(e, checkpoint) => Settled(e)'
    BY StaysSettled DEF Ordered, WorkInOrder, BatchInOrder, Passed
  <1> QED BY <1>2, <1>3 DEF BatchInOrder, Passed, InHand, Behind

LEMMA BatchThrow ==
  ASSUME Ordered, [Next]_vars, journal' = journal, checkpoint' = checkpoint, Throw
  PROVE  BatchInOrder'
  <1>1. CASE lastDone = None
    BY <1>1, BatchKept DEF Throw
  <1>2. CASE lastDone # None
    BY <1>2, BatchAfterLastDone DEF Throw
  <1> QED BY <1>1, <1>2

(* An event becomes visible beyond every position the worker knows: this   *)
(* is what the settle delay is for. *)
LEMMA BatchInserted ==
  ASSUME Ordered, [Next]_vars, NEW e \in inserting, Inserted(e)
  PROVE  BatchInOrder'
  <1>1. /\ journal' = journal \cup {e}
        /\ UNCHANGED <<checkpoint, cursor, batch, lastDone>>
    BY DEF Inserted, memoryVars, batchVars
  <1>2. ASSUME NEW p \in Known, p # None
        PROVE  Precedes(p, e)
    <2>1. clock <= e.at + InsertDelay /\ p.at < Horizon
      BY <1>2 DEF Ordered, WorkInOrder, Timely
    <2>2. clock \in Nat /\ e.at \in Nat /\ p.at \in Nat
      BY <1>2, KnownType DEF Ordered, Typed, TypeOK, TablesOK
    <2>3. p.at < e.at
      BY <2>1, <2>2, SettleAssumption, WorkerAssumption DEF Horizon
    <2> QED BY <2>3 DEF Precedes
  <1>3. \A f \in journal : Settled(f) => Settled(f)'
    BY StaysSettled
  <1>4. \A c \in {checkpoint, cursor} : \A f \in journal' : Behind(f, c) => Settled(f)'
    BY <1>1, <1>2, <1>3 DEF Ordered, WorkInOrder, BatchInOrder, Passed, Behind, Known
  <1>5. Passed(checkpoint)' /\ Passed(cursor)'
    BY <1>1, <1>4 DEF Passed, Behind
  <1>6. \A p \in InHand : p # None => \A f \in journal' : ~Precedes(p, f) => f \in batch \/ Settled(f)'
    BY <1>1, <1>2, <1>3 DEF Ordered, WorkInOrder, BatchInOrder, Known
  <1> QED BY <1>1, <1>5, <1>6 DEF BatchInOrder, InHand

(* A read leaves out nothing that comes before one of the events it takes: *)
(* an earlier one has no more predecessors among the candidates. *)
LEMMA BatchRead ==
  ASSUME Ordered, [Next]_vars, Read
  PROVE  BatchInOrder'
  <1> DEFINE candidates == {e \in AfterCursor(cursor) : e.at < Horizon}
             before(e) == {f \in candidates : Precedes(f, e)}
  <1>1. /\ UNCHANGED <<journal, checkpoint, cursor, lastDone>> /\ lastDone = None
        /\ batch' = {e \in candidates : Cardinality(before(e)) < BatchSize}
    BY DEF Read, FindAfter, journalVars, Ordered, WorkInOrder, CursorInOrder
  <1>2. candidates \subseteq journal /\ IsFiniteSet(candidates)
    BY FS_Subset DEF AfterCursor, Ordered, WorkInOrder, Timely
  <1>3. clock \in Nat /\ Horizon \in Int
    BY WorkerAssumption DEF Horizon, Ordered, Typed, TypeOK, TablesOK
  <1>4. ASSUME NEW p \in batch', NEW e \in journal, ~Precedes(p, e), ~Settled(e)
        PROVE  e \in batch'
    <2>1. p \in candidates /\ p \in journal /\ Cardinality(before(p)) < BatchSize
      BY <1>1, <1>2, <1>4
    <2>2. \A f \in journal : f.at \in Nat /\ f.id \in Nat
      BY KnownType DEF Ordered
    <2>3. e.at <= p.at
      BY <1>4, <2>1, <2>2, PrecedesOrder
    <2>4. ~Behind(e, cursor)
      BY <1>4 DEF Ordered, WorkInOrder, BatchInOrder, Passed
    <2>5. e \in AfterCursor(cursor)
      BY <2>4 DEF AfterCursor, Behind
    <2>6. e \in candidates
      BY <1>3, <2>1, <2>2, <2>3, <2>5
    <2>7. before(e) \subseteq before(p) /\ IsFiniteSet(before(p)) /\ IsFiniteSet(before(e))
      <3>1. \A f \in candidates : Precedes(f, e) => Precedes(f, p)
        BY <1>2, <1>4, <2>1, <2>2, PrecedesOrder
      <3> QED BY <1>2, <3>1, FS_Subset
    <2>8. Cardinality(before(e)) <= Cardinality(before(p))
      BY <2>7, FS_Subset
    <2>9. Cardinality(before(e)) \in Nat /\ Cardinality(before(p)) \in Nat
      BY <2>7, FS_CardinalityType
    <2>10. Cardinality(before(e)) < BatchSize
      BY <2>1, <2>8, <2>9, WorkerAssumption
    <2> HIDE DEF candidates, before
    <2> QED BY <1>1, <2>6, <2>10
  <1>5. \A e \in journal : Settled(e) => Settled(e)'
    BY StaysSettled
  <1>6. Passed(checkpoint)' /\ Passed(cursor)'
    BY <1>1, <1>5 DEF Passed, Behind, Ordered, WorkInOrder, BatchInOrder
  <1> HIDE DEF candidates, before
  <1>7. \A p \in batch' : \A e \in journal' : ~Precedes(p, e) => e \in batch' \/ Settled(e)'
    BY <1>1, <1>4, <1>5
  <1> QED BY <1>1, <1>6, <1>7 DEF BatchInOrder, InHand

LEMMA BatchFinish ==
  ASSUME Ordered, [Next]_vars, FinishEvent
  PROVE  BatchInOrder'
  <1>1. /\ UNCHANGED <<journal, checkpoint, cursor>> /\ stage = "finishing"
        /\ lastDone' = current /\ batch' = batch \ {current}
    BY DEF FinishEvent, journalVars
  <1>2. current \in batch /\ Settled(current)
    BY <1>1, ReadingInHand DEF Ordered, WorkInOrder, EventInOrder
  <1>3. \A e \in journal : Settled(e) => Settled(e)'
    BY StaysSettled
  <1>4. Passed(checkpoint)' /\ Passed(cursor)'
    BY <1>1, <1>3 DEF Passed, Behind, Ordered, WorkInOrder, BatchInOrder
  <1>5. \A p \in batch : \A e \in journal : ~Precedes(p, e) => e \in batch \ {current} \/ Settled(e)
    BY <1>2, KnownType DEF Ordered, WorkInOrder, BatchInOrder, InHand
  <1>6. \A p \in InHand' : p \in batch
    BY <1>1, <1>2 DEF InHand
  <1> QED BY <1>1, <1>3, <1>4, <1>5, <1>6 DEF BatchInOrder

LEMMA BatchNext ==
  ASSUME Ordered, [Next]_vars
  PROVE  BatchInOrder'
  <1> USE DEF batchVars, memoryVars, processVars, journalVars
  <1>1. CASE UNCHANGED <<journal, checkpoint, cursor, batch, lastDone>>
    BY <1>1, BatchKept
  <1>2. CASE UNCHANGED vars
    BY <1>1, <1>2 DEF vars
  <1>3. CASE Journal
    <2>1. ASSUME NEW e \in inserting, Inserted(e) PROVE BatchInOrder'
      BY <2>1, BatchInserted
    <2> QED BY <1>1, <1>3, <2>1 DEF Journal, Tick, HandleMeasurementMessage, InsertionLost
  <1>4. CASE Process
    BY <1>1, <1>4, ProcessStep, BatchThrow
  <1>5. CASE Lifecycle
    <2>1. CASE Throw
      BY <1>5, <2>1, LifecycleStep, BatchThrow
    <2>2. CASE Forget
      BY <1>5, <2>2, LifecycleStep, BatchKept DEF Forget
    <2>3. CASE UNCHANGED batchVars
      BY <1>1, <1>5, <2>3, LifecycleStep
    <2> QED BY <1>5, <2>1, <2>2, <2>3, LifecycleStep
  <1>6. CASE StartTick \/ Count \/ StartEvent
    BY <1>1, <1>6 DEF StartTick, Count, StartEvent
  <1>7. CASE Load
    BY <1>7, BatchKept DEF Load
  <1>8. CASE EndBatch
    <2>1. CASE lastDone = None
      BY <1>8, <2>1, BatchKept DEF EndBatch
    <2>2. CASE lastDone # None
      BY <1>8, <2>2, BatchAfterLastDone DEF EndBatch
    <2> QED BY <2>1, <2>2
  <1>9. CASE Save
    <2>1. lastDone = None /\ checkpoint' = cursor /\ journal' = journal
      BY <1>9 DEF Save, Ordered, WorkInOrder, CursorInOrder
    <2>2. cursor' = cursor /\ (UNCHANGED <<batch, lastDone>> \/ (batch' = {} /\ lastDone' = None))
      BY <1>9, <2>1 DEF Save, Throw
    <2> QED BY <2>1, <2>2, BatchKept
  <1>10. CASE Salvage
    BY <1>10, BatchKept DEF Salvage
  <1> QED BY <1>2, <1>3, <1>4, <1>5, <1>6, <1>7, <1>8, <1>9, <1>10, BatchRead, BatchFinish DEF Next, Loop
-----------------------------------------------------------------------------
(* EventInOrder *)

(* No event in hand, or the same with what was done of it. *)
LEMMA EventIdle ==
  ASSUME stage' \notin Handling, current' = None
  PROVE  EventInOrder'
  BY DEF EventInOrder

LEMMA EventKept ==
  ASSUME Ordered, [Next]_vars, UNCHANGED <<stage, current, batch, metric, failed>>
  PROVE  EventInOrder'
  <1>1. stage \in Consolidating =>
          \A i \in DOMAIN current.message.metrics : i < metric => failed \/ Absorbed(current, i)'
    BY StaysAbsorbed DEF Ordered, WorkInOrder, EventInOrder
  <1>2. stage = "finishing" => Settled(current)'
    BY StaysSettled DEF Ordered, WorkInOrder, EventInOrder
  <1>3. stage \in Consolidating => ReasonOf(current)' = "permanent_failure"
    BY DEF Ordered, WorkInOrder, EventInOrder, ReasonOf
  <1>4. current' # None => \A e \in batch' \ {current'} : Precedes(current', e)
    BY DEF Ordered, WorkInOrder, EventInOrder
  <1> QED BY <1>1, <1>2, <1>3, <1>4 DEF EventInOrder

(* One more metric of the event is over, or the same one goes on. *)
LEMMA EventGoesOn ==
  ASSUME Ordered, [Next]_vars, stage \in Consolidating, stage' \in Consolidating,
         UNCHANGED <<current, batch>>,
         \/ metric' = metric /\ failed' = failed
         \/ metric' = metric + 1 /\ failed' = TRUE
         \/ /\ metric' = metric + 1 /\ failed' = failed
            /\ \A i \in DOMAIN current.message.metrics : i = metric => Absorbed(current, i)'
  PROVE  EventInOrder'
  <1>1. current.message.metrics \in Seq([type : Types, value : Int]) /\ metric \in Nat
    BY ReadingInHand DEF Ordered, Typed, TypeOK, WorkOK
  <1>2. ASSUME NEW i \in DOMAIN current.message.metrics, i < metric'
        PROVE  failed' \/ Absorbed(current, i)'
    <2>1. i \in Nat
      BY <1>1
    <2>2. i < metric => failed \/ Absorbed(current, i)'
      BY StaysAbsorbed DEF Ordered, WorkInOrder, EventInOrder
    <2>3. CASE i < metric
      BY <2>2, <2>3
    <2>4. CASE i = metric
      BY <1>1, <1>2, <2>4
    <2> QED BY <1>1, <1>2, <2>1, <2>3, <2>4
  <1>3. ReasonOf(current)' = "permanent_failure"
    BY DEF Ordered, WorkInOrder, EventInOrder, ReasonOf
  <1>4. current' # None => \A e \in batch' \ {current'} : Precedes(current', e)
    BY DEF Ordered, WorkInOrder, EventInOrder
  <1> QED BY <1>2, <1>3, <1>4 DEF EventInOrder

(* A reading that is refused because of its value or its date is absorbed: *)
(* consolidate would refuse it again. *)
LEMMA RefusedIsAbsorbed ==
  ASSUME Ordered, AtMetric, ~Accepted
  PROVE  Absorbed(current, metric)
  <1>1. /\ Reading.stream = Stream /\ Stream[2] = Metric.type /\ Reading.value = Metric.value
        /\ Reading.at = current.message.observedAt /\ Reading.at \in Nat
        /\ Reading.messageId = current.message.messageId
    BY ReadingInHand DEF Ordered, AtMetric
  <1>2. CASE ~IsPlausibleValue(Metric.type, Metric.value)
    BY <1>1, <1>2 DEF Absorbed, Reading
  <1>3. CASE ~DecideMeasurement(Stored(Stream), current.message)
    <2>1. PICK x \in Latest(Stored(Stream)) : x.messageId = Reading.messageId \/ ~(Reading.at > x.at)
      BY <1>1, <1>3 DEF DecideMeasurement
    <2>2. x \in measurements /\ x.stream = Stream
      BY <2>1 DEF Latest, Stored
    <2>3. x.at \in Nat
      BY <2>2 DEF Measurement, Ordered, Typed, TypeOK, TablesOK
    <2>4. x.at >= Reading.at \/ x.messageId = Reading.messageId
      BY <1>1, <2>1, <2>3
    <2> QED BY <1>1, <2>2, <2>4 DEF Absorbed, Reading
  <1> QED BY <1>2, <1>3 DEF Accepted

LEMMA EventNext ==
  ASSUME Ordered, [Next]_vars
  PROVE  EventInOrder'
  <1> USE DEF batchVars, memoryVars, processVars, eventVars, journalVars
  <1>1. Typed'
    BY TypedNext DEF Ordered
  <1>2. CASE UNCHANGED vars
    BY <1>2, EventKept DEF vars
  <1>3. CASE Journal
    BY <1>3, EventKept DEF Journal, Tick, HandleMeasurementMessage, Inserted, InsertionLost
  <1>4. CASE Throw
    BY <1>4, EventIdle DEF Throw, Rearm
  <1>5. CASE stage' \notin Handling
    BY <1>1, <1>5, EventIdle DEF Typed, ReadingInOrder
  <1>6. CASE Loop
    <2>1. CASE StartEvent
      <3>1. PICK e \in batch :
              /\ current' = e /\ batch' = batch
              /\ \A f \in batch \ {e} : Precedes(e, f)
              /\ \/ stage' = "rejecting"
                 \/ stage' = "consolidating" /\ e.message.device # None /\ e.message.defect = None
        BY <2>1 DEF StartEvent
      <3>2. metric' = 1 /\ e \in Event
        BY <2>1 DEF StartEvent, Ordered, Typed, TypeOK, TablesOK, WorkOK
      <3>3. e.message.metrics \in Seq([type : Types, value : Int])
        BY <3>2, MessagesAssumption DEF Event
      <3>4. \A i \in DOMAIN e.message.metrics : ~(i < 1)
        BY <3>3
      <3>5. stage' = "consolidating" => ReasonOf(e) = "permanent_failure"
        BY <3>1 DEF ReasonOf
      <3> QED BY <3>1, <3>2, <3>4, <3>5 DEF EventInOrder, ReasonOf
    <2>2. CASE StartTick \/ Load \/ Read \/ FinishEvent \/ EndBatch
      BY <1>5, <2>2 DEF StartTick, Load, Read, FinishEvent, EndBatch, Continue
    <2>3. CASE Save
      BY <1>4, <1>5, <2>3 DEF Save, Continue
    <2>4. CASE Salvage \/ Count
      BY <1>5, <2>4 DEF Salvage, Count, Rearm
    <2> QED BY <1>6, <2>1, <2>2, <2>3, <2>4 DEF Loop
  <1>7. CASE Lifecycle
    <2>1. CASE Stop
      <3>1. CASE stage = "waiting"
        BY <1>5, <2>1, <3>1 DEF Stop
      <3>2. CASE stage # "waiting"
        BY <2>1, <3>2, EventKept DEF Stop
      <3> QED BY <3>1, <3>2
    <2>2. CASE stage' = "down" \/ Start
      BY <1>5, <2>2 DEF Start
    <2> QED BY <1>4, <1>7, <2>1, <2>2, LifecycleStep
  <1>8. CASE Process
    <2>1. stage \in Handling /\ current # None
      BY <1>8, ProcessStep DEF Ordered, Typed, ReadingInOrder
    <2>2. ASSUME stage \in {"evaluating", "reopening"}
          PROVE  \A i \in DOMAIN current.message.metrics : i = metric => Absorbed(current, i)
      <3>1. Reading \in measurements
        BY <2>2, ReadingInHand DEF Ordered
      <3> QED BY <3>1 DEF Absorbed, Reading
    <2>3. CASE Reject
      <3>1. \A i \in DOMAIN current.message.metrics : i = metric => Absorbed(current, i)'
        BY <2>3, RefusedIsAbsorbed, StaysAbsorbed DEF Reject
      <3> QED BY <2>3, <3>1, EventGoesOn DEF Reject, AtMetric
    <2>4. CASE RejectUnknownDevice
      BY <2>4, EventGoesOn DEF RejectUnknownDevice, AtMetric
    <2>5. CASE (Store \/ ResolveToReopen) /\ ~Throw
      BY <2>5, EventGoesOn DEF Store, ResolveToReopen, Answered, Proceed, AtMetric
    <2>6. CASE EndMetrics
      <3>1. CASE failed
        <4>1. stage' = "rejecting" /\ UNCHANGED <<current, batch>>
          BY <2>6, <3>1 DEF EndMetrics
        <4> QED BY <4>1 DEF Ordered, WorkInOrder, EventInOrder
      <3>2. CASE ~failed
        <4>1. stage' = "finishing" /\ UNCHANGED <<current, batch>>
          BY <2>6, <3>2 DEF EndMetrics
        <4>2. current.message.metrics \in Seq([type : Types, value : Int])
          BY <2>1, ReadingInHand DEF Ordered
        <4>3. \A i \in DOMAIN current.message.metrics : i < metric
          BY <2>6, <4>2 DEF EndMetrics, Ordered, Typed, TypeOK, WorkOK
        <4>4. Settled(current)
          BY <2>6, <3>2, <4>3 DEF EndMetrics, Settled, Ordered, WorkInOrder, EventInOrder
        <4>5. \A e \in {current} : Settled(e)'
          BY <4>4, StaysSettled
        <4> QED BY <4>1, <4>5 DEF Ordered, WorkInOrder, EventInOrder
      <3> QED BY <3>1, <3>2
    <2>7. CASE RecordDeadLetter /\ ~Throw
      <3>1. stage' = "finishing" /\ UNCHANGED <<current, batch>>
        BY <2>7 DEF RecordDeadLetter, Answered, Proceed
      <3>2. \E d \in deadLetters' : d.event = current
        <4>1. [event |-> current, reason |-> ReasonOf(current)] \in deadLetters'
          BY <2>7 DEF RecordDeadLetter
        <4>2. [event |-> current, reason |-> ReasonOf(current)].event = current
          OBVIOUS
        <4> QED BY <4>1, <4>2
      <3>3. Settled(current)'
        BY <3>1, <3>2 DEF Settled
      <3> QED BY <3>1, <3>3 DEF Ordered, WorkInOrder, EventInOrder
    <2>8. CASE EvaluateNone \/ ((OpenAlert \/ RecordOngoing \/ Resolve) /\ ~Throw)
      <3>1. /\ stage \in {"evaluating", "reopening"} /\ stage' = "consolidating"
            /\ UNCHANGED <<current, batch>> /\ metric' = metric + 1 /\ failed' = failed
        BY <2>8 DEF EvaluateNone, OpenAlert, RecordOngoing, Resolve, EvaluationEnds, Proceed
      <3>2. \A i \in DOMAIN current.message.metrics : i = metric => Absorbed(current, i)'
        BY <2>2, <3>1, StaysAbsorbed
      <3> QED BY <3>1, <3>2, EventGoesOn
    <2> QED BY <1>4, <1>8, <2>3, <2>4, <2>5, <2>6, <2>7, <2>8 DEF Process
  <1> QED BY <1>2, <1>3, <1>6, <1>7, <1>8 DEF Next
-----------------------------------------------------------------------------
(* Theorems *)

LEMMA OrderedInit == Init => Ordered
  <1> SUFFICES ASSUME Init PROVE Ordered
    OBVIOUS
  <1>1. Timely
    BY FS_EmptySet DEF Init, Timely, Known, InHand
  <1>2. CursorInOrder
    BY DEF Init, CursorInOrder, InHand
  <1>3. BatchInOrder
    BY DEF Init, BatchInOrder, Passed, InHand
  <1>4. EventInOrder
    BY DEF Init, EventInOrder
  <1> QED BY <1>1, <1>2, <1>3, <1>4, TypedInit DEF Ordered, WorkInOrder, Typed

LEMMA OrderedNext ==
  ASSUME Ordered, [Next]_vars
  PROVE  Ordered'
  <1>1. Timely'
    <2>1. CASE UNCHANGED vars
      BY <2>1 DEF vars, memoryVars, batchVars, journalVars, Known, InHand, Horizon,
                  Ordered, WorkInOrder, Timely
    <2> QED BY <2>1, TimelyJournal, TimelyWorker DEF Next
  <1>2. CursorInOrder' /\ BatchInOrder' /\ EventInOrder'
    BY CursorNext, BatchNext, EventNext
  <1>3. Typed'
    BY TypedNext DEF Ordered
  <1> QED BY <1>1, <1>2, <1>3 DEF Ordered, WorkInOrder, Typed

THEOREM OrderedCorrect == Spec => []Ordered
  BY OrderedInit, OrderedNext, PTL DEF Spec

(* The worker takes the events in the order of the journal, settles each   *)
(* before the next, and its cursors never pass an unsettled one. *)
THEOREM WorkInOrderCorrect == Spec => []WorkInOrder
  <1>1. Ordered => WorkInOrder
    BY DEF Ordered
  <1> QED BY <1>1, OrderedCorrect, PTL

(* Nothing of the journal is lost: whatever crashes, throws or is inserted *)
(* late, what lies before the saved cursor is stored, superseded or set    *)
(* aside. *)
THEOREM NothingSkippedCorrect == Spec => []NothingSkipped
  <1>1. Ordered => NothingSkipped
    BY DEF Ordered, WorkInOrder, BatchInOrder, NothingSkipped
  <1> QED BY <1>1, OrderedCorrect, PTL

(* No restart, throw or failed save makes the saved cursor move back. *)
THEOREM CheckpointMovesForwardCorrect == Spec => CheckpointMovesForward
  <1>1. ASSUME Ordered, [Next]_vars, checkpoint # None
        PROVE  checkpoint' # None /\ (checkpoint' = checkpoint \/ Precedes(checkpoint, checkpoint'))
    <2>1. CASE checkpoint' = checkpoint
      BY <1>1, <2>1
    <2>2. CASE checkpoint' = cursor /\ stage \in {"saving", "salvaging"}
      <3>1. loaded /\ cursor # None /\ ~Precedes(cursor, checkpoint)
        BY <1>1, <2>2 DEF Ordered, WorkInOrder, CursorInOrder
      <3>2. cursor \in Cursor /\ checkpoint \in Cursor
        BY <1>1, <3>1 DEF Ordered, Typed, TypeOK, TablesOK, WorkOK
      <3>3. Precedes(checkpoint, cursor) \/ cursor = checkpoint
        <4>1. \A p \in Cursor : p = [at |-> p.at, id |-> p.id]
          BY DEF Cursor
        <4>2. \A p \in Cursor : p.at \in Nat /\ p.id \in Nat
          BY WorkerAssumption DEF Cursor
        <4>3. ~Precedes(checkpoint, cursor) => cursor.at = checkpoint.at /\ cursor.id = checkpoint.id
          BY <3>1, <3>2, <4>2 DEF Precedes
        <4>4. cursor.at = checkpoint.at /\ cursor.id = checkpoint.id => cursor = checkpoint
          BY <3>2, <4>1
        <4> QED BY <4>3, <4>4
      <3> QED BY <2>2, <3>1, <3>3
    <2>3. CASE Journal \/ UNCHANGED vars
      BY <2>1, <2>3 DEF Journal, Tick, HandleMeasurementMessage, Inserted, InsertionLost, vars
    <2>4. CASE Loop
      BY <2>1, <2>2, <2>4, LoopStep DEF Save, Salvage
    <2> QED BY <1>1, <2>1, <2>3, <2>4, ProcessStep, LifecycleStep DEF Next
  <1> QED BY <1>1, OrderedCorrect, PTL DEF Spec, CheckpointMovesForward
=============================================================================
