------------------------- MODULE MobileCommandProofs -------------------------
(***************************************************************************)
(* What holds of MobileCommand for any numbers of presses, retries and     *)
(* polls, and any backend that keeps CommandContract.                      *)
(***************************************************************************)
EXTENDS MobileCommand, TLAPS, FiniteSetTheorems

(* d is c, read again later. *)
Forward(c, d) ==
  /\ d.key = c.key
  /\ Progress(c.status) <= Progress(d.status)
  /\ ~IsOpen(c) => d.status = c.status
  /\ c.answer # "none" => d.status = c.status /\ d.answer = c.answer
  /\ c.status = "FAILED" => d.answer = c.answer

(* What a row says is true, a refusal as long as its device remembers. *)
RowTrue(k) ==
  /\ answer[k] = "executed" => ran[k] /\ status[k] \in {"ACKNOWLEDGED", "TIMEOUT"}
  /\ answer[k] \in {"rejected", "expired"} =>
       /\ status[k] \in {"FAILED", "TIMEOUT"}
       /\ timely[k] /\ ~restarted[k] => ~ran[k]
  /\ status[k] = "ACKNOWLEDGED" => answer[k] = "executed"
  /\ status[k] = "FAILED" /\ answer[k] = "none" => ~ran[k]

(* A command exists for its own press. *)
RowMade(k) == status[k] # "ABSENT" <=> k \in Presses /\ k \in made[k]

(* c was read from the row of p. *)
Reading(c, p) == c \in Rows /\ c.key = p /\ p \in made[p] /\ Forward(c, RowOf(p))

(* What the code launched by p holds, and the answer on its way to it. *)
JobOK(p) ==
  /\ made[p] \subseteq {p}
  /\ job[p].stage = "retrying" => job[p].attempt <= MaxRetries
  /\ job[p].stage \in {"sleeping", "fetching"} => Reading(job[p].command, p)
  /\ job[p].stage \notin {"sleeping", "fetching"} => job[p].command = NoCommand
  /\ p > generation => job[p].stage = "none"
  /\ posted[p] = IF job[p].stage = "none" THEN {} ELSE {p}
WireOK(p) ==
  wire[p] # NoCommand =>
    /\ job[p].stage \in {"posting", "fetching"}
    /\ Reading(wire[p], p)
    /\ job[p].stage = "fetching" => Forward(job[p].command, wire[p])

(* The display is the last reading of the last press. *)
ShownOK ==
  /\ phase.kind # "idle" => generation \in Presses
  /\ Displayed =>
       /\ mounted /\ generation \in Presses
       /\ Reading(phase.command, generation)
       /\ job[generation].stage \in {"sleeping", "fetching", "done"}
       /\ job[generation].stage # "done" => phase.command = job[generation].command

IInv ==
  /\ TypeOK
  /\ \A k \in Keys : RowTrue(k) /\ RowMade(k)
  /\ \A p \in Presses : JobOK(p) /\ WireOK(p)
  /\ ShownOK

-----------------------------------------------------------------------------
(* Readings *)

LEMMA PressesAreKeys ==
  Presses \subseteq Keys /\ Presses \subseteq Nat /\ Keys \subseteq Nat /\ Attempts \subseteq Nat
  BY BoundsAssumption DEF Presses, Keys, Attempts

LEMMA ForwardTransitive ==
  ASSUME NEW c \in Rows, NEW d \in Rows, NEW e \in Rows, Forward(c, d), Forward(d, e)
  PROVE  Forward(c, e)
  BY DEF Rows, Forward, Progress, IsOpen

LEMMA ForwardReflexive ==
  ASSUME NEW c \in Rows
  PROVE  Forward(c, c)
  BY DEF Rows, Forward, Progress, IsOpen

LEMMA SameRow ==
  ASSUME NEW c \in Rows, NEW d \in Rows,
         c.key = d.key, c.status = d.status, c.answer = d.answer
  PROVE  c = d
  BY DEF Rows

LEMMA RowsAreCommands == NoCommand \notin Rows
  BY DEF Rows, NoCommand

-----------------------------------------------------------------------------
(* The backend *)

LEMMA RowOfType ==
  ASSUME TypeOK, NEW k \in Keys, status[k] # "ABSENT"
  PROVE  RowOf(k) \in Rows
  BY DEF TypeOK, RowOf, Rows

Backs(k) ==
  \/ Backend!Accept(k) \/ Backend!Send(k) \/ Backend!Withdraw(k) \/ Backend!Acknowledge(k)
  \/ Backend!Refuse(k) \/ Backend!TimeOut(k) \/ Backend!AnswerLate(k) \/ Backend!Run(k)

LEMMA BackendTypes ==
  ASSUME TypeOK, NEW k \in Keys, Backs(k)
  PROVE  /\ status' \in [Keys -> {"ABSENT", "PENDING", "SENT", "ACKNOWLEDGED", "FAILED", "TIMEOUT"}]
         /\ answer' \in [Keys -> {"none", "executed", "rejected", "expired"}]
         /\ timely' \in [Keys -> BOOLEAN]
         /\ ran' \in [Keys -> BOOLEAN]
         /\ restarted' = restarted
<1>1. \/ UNCHANGED <<answer, timely>>
      \/ Backend!AnsweredExecuted(k)
      \/ Backend!AnsweredRefused(k)
  BY DEF Backs, Backend!Accept, Backend!Send, Backend!Withdraw, Backend!Acknowledge,
         Backend!Refuse, Backend!TimeOut, Backend!AnswerLate, Backend!Run
<1>2. /\ answer' \in [Keys -> {"none", "executed", "rejected", "expired"}]
      /\ timely' \in [Keys -> BOOLEAN]
  <2>1. CASE UNCHANGED <<answer, timely>>
    BY <2>1 DEF TypeOK
  <2>2. CASE Backend!AnsweredExecuted(k)
    BY <2>2 DEF TypeOK, Backend!AnsweredExecuted
  <2>3. CASE Backend!AnsweredRefused(k)
    <3>1. PICK a \in {"rejected", "expired"}, inTime \in BOOLEAN :
            /\ answer' = [answer EXCEPT ![k] = a]
            /\ timely' = [timely EXCEPT ![k] = inTime]
      BY <2>3 DEF Backend!AnsweredRefused, Backend!Refusals
    <3> QED
      BY <3>1 DEF TypeOK
  <2> QED
    BY <1>1, <2>1, <2>2, <2>3
<1>3. status' \in [Keys -> {"ABSENT", "PENDING", "SENT", "ACKNOWLEDGED", "FAILED", "TIMEOUT"}]
  BY DEF TypeOK, Backs, Backend!Accept, Backend!Send, Backend!Withdraw, Backend!Acknowledge,
         Backend!Refuse, Backend!TimeOut, Backend!AnswerLate, Backend!Run, Backend!Becomes
<1>4. ran' \in [Keys -> BOOLEAN] /\ restarted' = restarted
  BY DEF TypeOK, Backs, Backend!Accept, Backend!Send, Backend!Withdraw, Backend!Acknowledge,
         Backend!Refuse, Backend!TimeOut, Backend!AnswerLate, Backend!Run
<1> QED
  BY <1>2, <1>3, <1>4

LEMMA BackendTrue ==
  ASSUME TypeOK, NEW k \in Keys, RowMoves(k) \/ DeviceRuns(k) \/ Backend!Accept(k),
         NEW j \in Keys, RowTrue(j), RowTrue(k)
  PROVE  RowTrue(j)'
  BY DEF TypeOK, RowMoves, DeviceRuns, Backend!Accept, Backend!Send, Backend!Withdraw,
         Backend!Acknowledge, Backend!Refuse, Backend!TimeOut, Backend!AnswerLate, Backend!Run,
         Backend!Becomes, Backend!AnsweredExecuted, Backend!AnsweredRefused, Backend!Refusals,
         Backend!Open, Backend!Withdrawn, RowTrue

LEMMA BackendForward ==
  ASSUME TypeOK, NEW k \in Keys, RowMoves(k) \/ DeviceRuns(k) \/ Backend!Accept(k),
         NEW j \in Keys, RowTrue(j), status[j] # "ABSENT"
  PROVE  Forward(RowOf(j), RowOf(j)')
  BY DEF TypeOK, RowMoves, DeviceRuns, Backend!Accept, Backend!Send, Backend!Withdraw,
         Backend!Acknowledge, Backend!Refuse, Backend!TimeOut, Backend!AnswerLate, Backend!Run,
         Backend!Becomes, Backend!AnsweredExecuted, Backend!AnsweredRefused, Backend!Refusals,
         Backend!Open, Backend!Withdrawn, RowTrue, Forward, RowOf, IsOpen, Progress

-----------------------------------------------------------------------------
(* Steps of the backend and of the device *)

(* Readings of the past stay readings while the rows move forward. *)
LEMMA ReadingKept ==
  ASSUME TypeOK, TypeOK', NEW p \in Presses, NEW c, RowMade(p), RowMade(p)', Reading(c, p),
         Forward(RowOf(p), RowOf(p)'), made[p] \subseteq made'[p]
  PROVE  Reading(c, p)'
<1>1. p \in Keys /\ status[p] # "ABSENT" /\ status'[p] # "ABSENT"
  BY PressesAreKeys DEF Reading, RowMade
<1>2. RowOf(p) \in Rows
  BY <1>1, RowOfType
<1>3. RowOf(p)' \in Rows
  BY <1>1 DEF TypeOK, RowOf, Rows
<1>4. Forward(c, RowOf(p)')
  BY <1>2, <1>3, ForwardTransitive DEF Reading
<1> QED
  BY <1>4 DEF Reading

(* Nothing of the phone moves, the rows move forward. *)
LEMMA EnvironmentStep ==
  ASSUME IInv, TypeOK', UNCHANGED <<generation, mounted, phase, job, posted, wire>>,
         \A k \in Keys : RowTrue(k)' /\ RowMade(k)',
         \A k \in Keys : status[k] # "ABSENT" => Forward(RowOf(k), RowOf(k)'),
         \A p \in Presses : made[p] \subseteq made'[p] /\ made'[p] \subseteq {p}
  PROVE  IInv'
<1>1. ASSUME NEW p \in Presses, NEW c, Reading(c, p)
      PROVE  Reading(c, p)'
  BY <1>1, ReadingKept, PressesAreKeys DEF IInv, Reading, RowMade
<1>2. ASSUME NEW p \in Presses PROVE JobOK(p)'
  BY <1>1 DEF IInv, JobOK
<1>3. ASSUME NEW p \in Presses PROVE WireOK(p)'
  BY <1>1 DEF IInv, WireOK
<1>4. ShownOK'
  BY <1>1 DEF IInv, ShownOK, Displayed
<1> QED
  BY <1>2, <1>3, <1>4 DEF IInv

LEMMA RowsStep ==
  ASSUME IInv, NEW k \in Keys, RowMoves(k) \/ DeviceRuns(k)
  PROVE  IInv'
<1>1. TypeOK /\ \A j \in Keys : RowTrue(j) /\ RowMade(j)
  BY DEF IInv
<1>2. UNCHANGED <<mobileVars, wire, made>>
  BY DEF RowMoves, DeviceRuns
<1>3. Backs(k)
  BY DEF RowMoves, DeviceRuns, Backs
<1>4. ventilation' \in BOOLEAN
  BY <1>1, BoundsAssumption DEF RowMoves, DeviceRuns, TypeOK, Presses
<1>5. TypeOK'
  BY <1>1, <1>2, <1>3, <1>4, BackendTypes DEF TypeOK, mobileVars
<1>6. ASSUME NEW j \in Keys
      PROVE  RowTrue(j)' /\ (status[j] # "ABSENT" => Forward(RowOf(j), RowOf(j)'))
  BY <1>1, BackendTrue, BackendForward
<1>7. ASSUME NEW j \in Keys
      PROVE  status'[j] = "ABSENT" <=> status[j] = "ABSENT"
  BY <1>1 DEF TypeOK, RowMoves, DeviceRuns, Backend!Send, Backend!Withdraw,
         Backend!Acknowledge, Backend!Refuse, Backend!TimeOut, Backend!AnswerLate, Backend!Run,
         Backend!Becomes, Backend!Open
<1>8. ASSUME NEW j \in Keys PROVE RowMade(j)'
  BY <1>1, <1>2, <1>7 DEF RowMade
<1>9. \A p \in Presses : made[p] \subseteq {p}
  BY DEF IInv, JobOK
<1> QED
  BY <1>2, <1>5, <1>6, <1>8, <1>9, EnvironmentStep DEF mobileVars

(* The one device of the panel restarts. *)
LEMMA RestartStep ==
  ASSUME IInv, DeviceRestarts
  PROVE  IInv'
<1>1. TypeOK /\ \A j \in Keys : RowTrue(j) /\ RowMade(j)
  BY DEF IInv
<1>2. /\ UNCHANGED <<mobileVars, wire, made, status, answer, timely, ran>>
      /\ ventilation' = FALSE
      /\ restarted' = [k \in Keys |-> TRUE]
  <2>1. restarted' = [k \in Keys |-> restarted[k] \/ k \in Keys]
    BY DEF DeviceRestarts, Backend!Restart
  <2> QED
    BY <2>1 DEF DeviceRestarts, Backend!Restart
<1>3. TypeOK'
  BY <1>1, <1>2 DEF TypeOK, mobileVars
<1>4. ASSUME NEW j \in Keys PROVE RowTrue(j)' /\ RowMade(j)'
  BY <1>1, <1>2 DEF RowTrue, RowMade
<1>5. ASSUME NEW j \in Keys, status[j] # "ABSENT"
      PROVE  Forward(RowOf(j), RowOf(j)')
  <2>1. RowOf(j) \in Rows /\ RowOf(j)' = RowOf(j)
    BY <1>1, <1>2, <1>5, RowOfType DEF RowOf
  <2> QED
    BY <2>1, ForwardReflexive
<1>6. \A p \in Presses : made[p] \subseteq made'[p] /\ made'[p] \subseteq {p}
  BY <1>2 DEF IInv, JobOK
<1> QED
  BY <1>2, <1>3, <1>4, <1>5, <1>6, EnvironmentStep DEF mobileVars

(* The only key a press posts is its own. *)
LEMMA PostArrivesOf ==
  ASSUME IInv, NEW p \in Presses, PostArrives(p)
  PROVE  /\ p \in Keys /\ Backend!Accept(p)
         /\ made' = [made EXCEPT ![p] = @ \cup {p}]
         /\ job[p].stage # "none"
         /\ UNCHANGED <<ventilation, mobileVars, wire>>
<1>1. PICK k \in posted[p] : Backend!Accept(k) /\ made' = [made EXCEPT ![p] = @ \cup {k}]
  BY DEF PostArrives
<1>2. JobOK(p)
  BY DEF IInv
<1>3. k = p /\ job[p].stage # "none"
  BY <1>1, <1>2 DEF JobOK
<1>4. p \in Keys
  BY PressesAreKeys
<1>5. UNCHANGED <<ventilation, mobileVars, wire>>
  BY DEF PostArrives
<1> QED
  BY <1>1, <1>3, <1>4, <1>5

LEMMA PostArrivesStep ==
  ASSUME IInv, NEW p \in Presses, PostArrives(p)
  PROVE  IInv'
<1>1. TypeOK /\ \A j \in Keys : RowTrue(j) /\ RowMade(j)
  BY DEF IInv
<1>2. p \in Keys /\ Backend!Accept(p) /\ UNCHANGED <<ventilation, mobileVars, wire>>
      /\ made' = [made EXCEPT ![p] = @ \cup {p}]
  BY PostArrivesOf
<1>3. made' \in [Presses -> SUBSET Keys]
  BY <1>1, <1>2 DEF TypeOK
<1>4. TypeOK'
  BY <1>1, <1>2, <1>3, BackendTypes DEF TypeOK, mobileVars, Backs
<1>5. ASSUME NEW j \in Keys
      PROVE  RowTrue(j)' /\ (status[j] # "ABSENT" => Forward(RowOf(j), RowOf(j)'))
  BY <1>1, <1>2, BackendTrue, BackendForward
<1>6. \A q \in Presses : made[q] \subseteq made'[q] /\ made'[q] \subseteq {q}
  BY <1>1, <1>2 DEF IInv, JobOK, TypeOK
<1>7. ASSUME NEW j \in Keys PROVE RowMade(j)'
  BY <1>1, <1>2 DEF RowMade, Backend!Accept, Backend!Becomes, TypeOK
<1> QED
  BY <1>2, <1>4, <1>5, <1>6, <1>7, EnvironmentStep DEF mobileVars

(* The API answers with the row as it is. *)
LEMMA ReadStep ==
  ASSUME IInv, NEW p \in Presses, Read(p)
  PROVE  IInv'
<1> DEFINE k == IF job[p].stage = "posting" THEN IdempotencyKey(p, job[p].attempt)
                ELSE job[p].command.key
<1>1. TypeOK /\ JobOK(p) /\ WireOK(p) /\ \A j \in Keys : RowTrue(j) /\ RowMade(j)
  BY DEF IInv
<1>2. k = p /\ p \in Keys /\ status[p] # "ABSENT"
  BY <1>1, PressesAreKeys DEF Read, IdempotencyKey, JobOK, Reading
<1>3. RowOf(p) \in Rows /\ wire' = [wire EXCEPT ![p] = RowOf(p)]
      /\ UNCHANGED <<backendVars, ventilation, mobileVars, made>>
  BY <1>1, <1>2, RowOfType DEF Read
<1>4. TypeOK'
  BY <1>1, <1>3 DEF TypeOK, backendVars, mobileVars
<1>5. \A q, c : Reading(c, q) => Reading(c, q)'
  BY <1>3 DEF Reading, RowOf, backendVars
<1>6. Reading(RowOf(p), p)
  BY <1>1, <1>2, <1>3, ForwardReflexive DEF Reading, RowOf, RowMade
<1>7. WireOK(p)'
  <2>1. wire'[p] = RowOf(p)
    BY <1>1, <1>3 DEF TypeOK
  <2>2. job[p].stage \in {"posting", "fetching"}
    BY DEF Read
  <2>3. job[p].stage = "fetching" => Forward(job[p].command, RowOf(p))
    BY <1>1 DEF JobOK, Reading
  <2> QED
    BY <1>3, <1>5, <1>6, <2>1, <2>2, <2>3 DEF WireOK, mobileVars
<1>8. ASSUME NEW q \in Presses PROVE JobOK(q)' /\ WireOK(q)'
  BY <1>1, <1>3, <1>5, <1>7 DEF IInv, JobOK, WireOK, mobileVars, TypeOK
<1>9. ShownOK'
  BY <1>3, <1>5 DEF IInv, ShownOK, Displayed, mobileVars
<1>10. \A j \in Keys : RowTrue(j)' /\ RowMade(j)'
  BY <1>1, <1>3 DEF RowTrue, RowMade, backendVars
<1> QED
  BY <1>4, <1>8, <1>9, <1>10 DEF IInv

-----------------------------------------------------------------------------
(* Steps of the phone *)

Stopped == [NoJob EXCEPT !.stage = "done"]

LEMMA NoJobType == NoJob \in Job
  BY BoundsAssumption DEF Job, Stages, NoJob, Attempts

LEMMA StageType ==
  ASSUME NEW j \in Job, NEW stage \in Stages, NEW attempt \in Attempts
  PROVE  /\ [j EXCEPT !.stage = stage, !.attempt = attempt] \in Job
         /\ [j EXCEPT !.stage = stage] \in Job
  BY DEF Job

LEMMA StoppedType ==
  Stopped \in Job /\ Stopped.stage = "done" /\ Stopped.command = NoCommand
<1>1. Stopped \in Job
  BY NoJobType DEF Stopped, Job, Stages
<1> QED
  BY <1>1 DEF Stopped, NoJob

LEMMA TrackingOfType ==
  ASSUME NEW c \in Rows
  PROVE  TrackingOf(c) \in Job /\ TrackingOf(c).command = c
  BY NoJobType DEF TrackingOf, Job

LEMMA PollingType ==
  ASSUME NEW j \in Job, j.polls + 1 \in 0..(MaxPolls + 1)
  PROVE  [j EXCEPT !.stage = "sleeping", !.polls = @ + 1] \in Job
  BY DEF Job, Stages

LEMMA WatchingType ==
  ASSUME NEW j \in Job, j.watches + 1 \in 0..(MaxWatches + 1)
  PROVE  [j EXCEPT !.stage = "sleeping", !.polls = 0, !.watches = @ + 1] \in Job
<1>1. 0 \in 0..(MaxPolls + 1)
  BY BoundsAssumption
<1> QED
  BY <1>1 DEF Job, Stages

(* The loop of `track` sleeps on the command it holds, or it ends. *)
Goes(p, j, shown, next) ==
  /\ job' = [job EXCEPT ![p] = next]
  /\ \/ next.stage = "sleeping" /\ next.command = j.command /\ phase' = shown
     \/ /\ next.stage = "done" /\ next.command = NoCommand
        /\ phase' = shown \/ phase' = Showing("stale", j.command)

LEMMA ContinueGoes ==
  ASSUME NEW p \in Presses, NEW j \in Job, NEW shown, Continue(p, j, shown)
  PROVE  \E next \in Job : Goes(p, j, shown, next)
<1> DEFINE polling == [j EXCEPT !.stage = "sleeping", !.polls = @ + 1]
           watching == [j EXCEPT !.stage = "sleeping", !.polls = 0, !.watches = @ + 1]
<1>1. Stopped \in Job /\ Stopped.stage = "done" /\ Stopped.command = NoCommand
  BY StoppedType
<1>2. j.polls \in 0..(MaxPolls + 1) /\ j.watches \in 0..(MaxWatches + 1)
  BY DEF Job
<1>3. ASSUME j.polls <= MaxPolls
      PROVE  polling \in Job /\ polling.stage = "sleeping" /\ polling.command = j.command
  <2>1. j.polls + 1 \in 0..(MaxPolls + 1)
    BY <1>2, <1>3, BoundsAssumption
  <2> QED  BY <2>1, PollingType DEF Job
<1>4. ASSUME j.watches <= MaxWatches
      PROVE  watching \in Job /\ watching.stage = "sleeping" /\ watching.command = j.command
  <2>1. j.watches + 1 \in 0..(MaxWatches + 1)
    BY <1>2, <1>4, BoundsAssumption
  <2> QED  BY <2>1, WatchingType DEF Job
<1>5. CASE j.polls <= MaxPolls /\ Becomes(p, Polling(j)) /\ phase' = shown
  <2>1. Goes(p, j, shown, polling)
    BY <1>3, <1>5 DEF Goes, Becomes, Polling
  <2> QED  BY <1>3, <1>5, <2>1
<1>6. CASE j.watches <= MaxWatches /\ Becomes(p, Watching(j)) /\ phase' = shown
  <2>1. Goes(p, j, shown, watching)
    BY <1>4, <1>6 DEF Goes, Becomes, Watching
  <2> QED  BY <1>4, <1>6, <2>1
<1>7. CASE Stops(p) /\ (phase' = shown \/ phase' = Showing("stale", j.command))
  <2>1. Goes(p, j, shown, Stopped)
    BY <1>1, <1>7 DEF Goes, Becomes, Stops, Stopped
  <2> QED  BY <1>1, <2>1
<1> QED
  BY <1>5, <1>6, <1>7 DEF Continue

(* One step of the code that p launched. *)
LEMMA HookStep ==
  ASSUME IInv, NEW p \in Presses, NEW next \in Job,
         job[p].stage # "none",
         job' = [job EXCEPT ![p] = next],
         wire' = [wire EXCEPT ![p] = NoCommand],
         OnlyHook,
         phase' \in Phase,
         next.stage # "none",
         next.stage = "retrying" => next.attempt <= MaxRetries,
         next.stage \in {"sleeping", "fetching"} => Reading(next.command, p),
         next.stage \notin {"sleeping", "fetching"} => next.command = NoCommand,
         p # generation => phase' = phase,
         p = generation /\ Displayed' =>
           /\ mounted /\ Reading(phase'.command, p)
           /\ next.stage \in {"sleeping", "fetching", "done"}
           /\ next.stage # "done" => phase'.command = next.command
  PROVE  IInv'
<1>1. TypeOK /\ \A j \in Keys : RowTrue(j) /\ RowMade(j)
  BY DEF IInv
<1>2. UNCHANGED <<backendVars, ventilation, generation, mounted, made, unsettled, posted>>
  BY DEF OnlyHook, OnlyPhone
<1>3. job' \in [Presses -> Job] /\ wire' \in [Presses -> Rows \cup {NoCommand}]
  BY <1>1 DEF TypeOK
<1>4. TypeOK'
  BY <1>1, <1>2, <1>3 DEF TypeOK, backendVars
<1>5. \A q, c : Reading(c, q)' <=> Reading(c, q)
  BY <1>2 DEF Reading, RowOf, backendVars
<1>6. job'[p] = next /\ wire'[p] = NoCommand
      /\ \A q \in Presses \ {p} : job'[q] = job[q] /\ wire'[q] = wire[q]
  BY <1>1 DEF TypeOK
<1>7. JobOK(p) /\ p <= generation
  BY <1>1, PressesAreKeys DEF IInv, JobOK, TypeOK
<1>8. ASSUME NEW q \in Presses PROVE JobOK(q)' /\ WireOK(q)'
  <2>1. CASE q = p
    BY <2>1, <1>1, <1>2, <1>5, <1>6, <1>7, PressesAreKeys DEF JobOK, WireOK, TypeOK
  <2>2. CASE q # p
    <3>1. JobOK(q) /\ WireOK(q) /\ job'[q] = job[q] /\ wire'[q] = wire[q]
      BY <2>2, <1>6 DEF IInv
    <3> QED
      BY <3>1, <1>2, <1>5 DEF JobOK, WireOK
  <2> QED  BY <2>1, <2>2
<1>9. ShownOK'
  <2>1. CASE p = generation
    BY <2>1, <1>2, <1>5, <1>6 DEF ShownOK
  <2>2. CASE p # generation
    <3>1. phase' = phase /\ ShownOK
      BY <2>2 DEF IInv
    <3>2. generation \in Presses => job'[generation] = job[generation]
      BY <2>2, <1>6
    <3> QED
      BY <3>1, <3>2, <1>2, <1>5 DEF ShownOK, Displayed
  <2> QED  BY <2>1, <2>2
<1>10. \A j \in Keys : RowTrue(j)' /\ RowMade(j)'
  BY <1>1, <1>2 DEF RowTrue, RowMade, backendVars
<1> QED
  BY <1>4, <1>8, <1>9, <1>10 DEF IInv

Tracked(shown) == shown.kind \in {"tracking", "stale"}

LEMMA ShowingType ==
  ASSUME NEW c \in Rows
  PROVE  /\ Showing("tracking", c) \in Phase /\ Showing("tracking", c).command = c
         /\ Showing("stale", c) \in Phase /\ Showing("stale", c).command = c
  BY DEF Showing, Phase

LEMMA WaitingType ==
  /\ Showing("sending", NoCommand) \in Phase /\ ~Tracked(Showing("sending", NoCommand))
  /\ Showing("idle", NoCommand) \in Phase /\ ~Tracked(Showing("idle", NoCommand))
  /\ \A error \in Errors : ShowingError(error) \in Phase /\ ~Tracked(ShowingError(error))
  BY DEF Showing, ShowingError, Phase, Tracked

(* The code of p ends, and leaves the display alone unless it waits. *)
LEMMA StopStep ==
  ASSUME IInv, NEW p \in Presses, job[p].stage # "none",
         Stops(p), wire' = [wire EXCEPT ![p] = NoCommand], OnlyHook,
         \/ ~Alive(p) /\ phase' = phase
         \/ p = generation /\ phase' \in Phase /\ ~Tracked(phase')
  PROVE  IInv'
<1>1. TypeOK /\ ShownOK
  BY DEF IInv
<1>2. Stopped \in Job /\ Stopped.stage = "done" /\ Stopped.command = NoCommand
  BY StoppedType
<1>3. job' = [job EXCEPT ![p] = Stopped]
  BY DEF Stops, Becomes, Stopped
<1>4. phase' \in Phase /\ (p # generation => phase' = phase)
  BY <1>1 DEF TypeOK
<1>5. ~(p = generation /\ Displayed')
  BY <1>1 DEF ShownOK, Displayed, Alive, Tracked
<1> QED
  BY <1>2, <1>3, <1>4, <1>5, HookStep

(* The code of p goes on with a reading of its row, if its press is the    *)
(* last one. *)
LEMMA ContinueStep ==
  ASSUME IInv, NEW p \in Presses, NEW j \in Job, NEW shown \in Phase,
         job[p].stage # "none",
         wire' = [wire EXCEPT ![p] = NoCommand], OnlyHook,
         Reading(j.command, p),
         Tracked(shown) => shown.command = j.command,
         IF Alive(p) THEN Continue(p, j, shown) ELSE Stops(p) /\ UNCHANGED phase
  PROVE  IInv'
<1>1. CASE ~Alive(p)
  BY <1>1, StopStep
<1>2. CASE Alive(p)
  <2>1. job[p] \in Job
    BY DEF IInv, TypeOK
  <2>2. PICK next \in Job : Goes(p, j, shown, next)
    BY <1>2, <2>1, ContinueGoes
  <2>3. /\ Showing("stale", j.command) \in Phase
        /\ Showing("stale", j.command).command = j.command
    BY ShowingType DEF Reading
  <2>4. phase' \in Phase /\ (Displayed' => phase'.command = j.command)
    BY <2>2, <2>3 DEF Goes, Displayed, Tracked
  <2>5. mounted /\ p = generation
    BY <1>2 DEF Alive
  <2> QED
    BY <2>2, <2>4, <2>5, HookStep DEF Goes
<1> QED
  BY <1>1, <1>2

LEMMA PostStep ==
  ASSUME IInv, NEW p \in Presses, PostAnswered(p) \/ PostUnanswered(p) \/ PostRefused(p)
  PROVE  IInv'
<1>1. TypeOK /\ JobOK(p) /\ WireOK(p) /\ job[p] \in Job /\ job[p].attempt \in Attempts
  BY DEF IInv, TypeOK, Job
<1>2. job[p].stage = "posting" /\ wire' = [wire EXCEPT ![p] = NoCommand] /\ OnlyHook
  BY DEF PostAnswered, PostUnanswered, PostRefused
<1>3. CASE PostAnswered(p)
  <2> DEFINE j == TrackingOf(wire[p])
  <2>1. wire[p] \in Rows /\ Reading(wire[p], p)
    BY <1>1, <1>3 DEF PostAnswered, WireOK, TypeOK
  <2>2. j \in Job /\ j.command = wire[p]
    BY <2>1, TrackingOfType
  <2>3. /\ Showing("tracking", wire[p]) \in Phase
        /\ Showing("tracking", wire[p]).command = wire[p]
    BY <2>1, ShowingType
  <2> QED
    BY <1>2, <1>3, <2>1, <2>2, <2>3, ContinueStep DEF PostAnswered
<1>4. CASE PostUnanswered(p)
  <2> DEFINE next == [job[p] EXCEPT !.stage = "retrying"]
  <2>1. CASE Alive(p) /\ Retries(p) /\ Becomes(p, next)
             /\ phase' = Showing("sending", NoCommand)
    <3>1. next \in Job
      BY <1>1, StageType DEF Stages
    <3>2. next.stage = "retrying" /\ next.attempt = job[p].attempt /\ next.command = NoCommand
      BY <1>1, <1>2 DEF JobOK, Job
    <3>3. phase' \in Phase /\ ~Displayed'
      BY <2>1, WaitingType DEF Tracked, Displayed
    <3> QED
      BY <1>2, <2>1, <3>1, <3>2, <3>3, HookStep DEF Becomes, Alive, Retries
  <2>2. CASE Alive(p) /\ Stops(p) /\ phase' = ShowingError("unreachable")
    BY <1>2, <2>2, StopStep, WaitingType DEF Alive, Errors
  <2>3. CASE ~Alive(p) /\ Stops(p) /\ UNCHANGED phase
    BY <1>2, <2>3, StopStep
  <2> QED
    BY <1>4, <2>1, <2>2, <2>3 DEF PostUnanswered
<1>5. CASE PostRefused(p)
  <2>1. CASE ~Alive(p)
    BY <1>2, <1>5, <2>1, StopStep DEF PostRefused
  <2>2. CASE Alive(p)
    BY <1>2, <1>5, <2>2, StopStep, WaitingType DEF PostRefused, Alive, Errors
  <2> QED  BY <2>1, <2>2
<1> QED
  BY <1>3, <1>4, <1>5

LEMMA NoWire ==
  ASSUME IInv, NEW p \in Presses, job[p].stage \notin {"posting", "fetching"}
  PROVE  wire = [wire EXCEPT ![p] = NoCommand]
<1>1. WireOK(p) /\ wire \in [Presses -> Rows \cup {NoCommand}]
  BY DEF IInv, TypeOK
<1>2. wire[p] = NoCommand
  BY <1>1 DEF WireOK
<1> QED
  BY <1>1, <1>2

LEMMA RetryStep ==
  ASSUME IInv, NEW p \in Presses, Retry(p)
  PROVE  IInv'
<1>1. JobOK(p) /\ job[p] \in Job /\ job[p].attempt \in Attempts
  BY DEF IInv, TypeOK, Job
<1>2. job[p].stage = "retrying" /\ OnlyHook /\ wire' = wire
  <2>1. posted[p] = {p} /\ posted \in [Presses -> SUBSET Keys]
    BY <1>1 DEF JobOK, IInv, TypeOK, Retry
  <2>2. [posted EXCEPT ![p] = @ \cup {p}] = posted
    BY <2>1
  <2> QED
    BY <2>2 DEF Retry, OnlyHook, IdempotencyKey
<1>3. wire' = [wire EXCEPT ![p] = NoCommand]
  BY <1>2, NoWire
<1>4. CASE ~Alive(p)
  BY <1>2, <1>3, <1>4, StopStep DEF Retry
<1>5. CASE Alive(p)
  <2> DEFINE next == [job[p] EXCEPT !.stage = "posting", !.attempt = @ + 1]
  <2>1. job[p].attempt + 1 \in Attempts
    BY <1>1, <1>2, BoundsAssumption DEF JobOK, Attempts
  <2>2. next \in Job
    BY <1>1, <2>1, StageType DEF Stages
  <2>3. next.stage = "posting" /\ next.command = NoCommand
    BY <1>1, <1>2 DEF JobOK, Job
  <2>4. Becomes(p, next) /\ phase' = Showing("sending", NoCommand)
    BY <1>5 DEF Retry
  <2>5. phase' \in Phase /\ ~Displayed'
    BY <2>4, WaitingType DEF Tracked, Displayed
  <2> QED
    BY <1>2, <1>3, <1>5, <2>2, <2>3, <2>4, <2>5, HookStep DEF Becomes, Alive
<1> QED
  BY <1>4, <1>5

LEMMA WakeStep ==
  ASSUME IInv, NEW p \in Presses, Wake(p)
  PROVE  IInv'
<1>1. JobOK(p) /\ ShownOK /\ job[p] \in Job /\ phase \in Phase
  BY DEF IInv, TypeOK
<1>2. job[p].stage = "sleeping" /\ OnlyHook /\ wire' = wire /\ phase' = phase
  BY DEF Wake
<1>3. wire' = [wire EXCEPT ![p] = NoCommand]
  BY <1>2, NoWire
<1>4. CASE ~Alive(p)
  BY <1>2, <1>3, <1>4, StopStep DEF Wake
<1>5. CASE Alive(p)
  <2> DEFINE next == [job[p] EXCEPT !.stage = "fetching"]
  <2>1. next \in Job /\ next.stage = "fetching" /\ next.command = job[p].command
    BY <1>1 DEF Job, Stages
  <2>2. job' = [job EXCEPT ![p] = next]
    BY <1>5 DEF Wake, Becomes
  <2>3. Reading(next.command, p)
    BY <1>1, <1>2, <2>1 DEF JobOK
  <2>4. p = generation /\ Displayed' => mounted /\ phase'.command = next.command
    BY <1>1, <1>2, <2>1 DEF ShownOK, Displayed
  <2> QED
    BY <1>1, <1>2, <1>3, <2>1, <2>2, <2>3, <2>4, HookStep
<1> QED
  BY <1>4, <1>5

LEMMA FetchStep ==
  ASSUME IInv, NEW p \in Presses, FetchAnswered(p) \/ FetchFails(p)
  PROVE  IInv'
<1>1. TypeOK /\ JobOK(p) /\ WireOK(p) /\ ShownOK /\ job[p] \in Job /\ phase \in Phase
  BY DEF IInv, TypeOK
<1>2. job[p].stage = "fetching" /\ wire' = [wire EXCEPT ![p] = NoCommand] /\ OnlyHook
  BY DEF FetchAnswered, FetchFails
<1>3. CASE FetchAnswered(p)
  <2> DEFINE j == [job[p] EXCEPT !.command = wire[p]]
  <2>1. wire[p] \in Rows /\ Reading(wire[p], p)
    BY <1>1, <1>3 DEF FetchAnswered, WireOK, TypeOK
  <2>2. j \in Job /\ j.command = wire[p]
    BY <1>1, <2>1 DEF Job
  <2>3. /\ Showing("tracking", wire[p]) \in Phase
        /\ Showing("tracking", wire[p]).command = wire[p]
    BY <2>1, ShowingType
  <2> QED
    BY <1>2, <1>3, <2>1, <2>2, <2>3, ContinueStep DEF FetchAnswered
<1>4. CASE FetchFails(p)
  <2>1. Reading(job[p].command, p)
    BY <1>1, <1>2 DEF JobOK
  <2>2. CASE ~Alive(p)
    BY <1>2, <1>4, <2>2, StopStep DEF FetchFails
  <2>3. CASE Alive(p)
    <3>1. Tracked(phase) => phase.command = job[p].command
      BY <1>1, <1>2, <2>3 DEF ShownOK, Displayed, Tracked, Alive
    <3> QED
      BY <1>1, <1>2, <1>4, <2>1, <3>1, ContinueStep DEF FetchFails
  <2> QED  BY <2>2, <2>3
<1> QED
  BY <1>3, <1>4

LEMMA UnmountStep ==
  ASSUME IInv, Unmount
  PROVE  IInv'
<1>1. /\ UNCHANGED <<backendVars, ventilation, generation, job, posted, unsettled, wire, made>>
      /\ mounted' = FALSE /\ phase' = Showing("idle", NoCommand)
  BY DEF Unmount
<1>2. phase' \in Phase /\ ~Displayed' /\ phase'.kind = "idle"
  BY <1>1, WaitingType DEF Tracked, Displayed, Showing
<1>3. TypeOK'
  BY <1>1, <1>2 DEF IInv, TypeOK, backendVars
<1>4. \A q, c : Reading(c, q)' <=> Reading(c, q)
  BY <1>1 DEF Reading, RowOf, backendVars
<1>5. ASSUME NEW q \in Presses PROVE JobOK(q)' /\ WireOK(q)'
  BY <1>1, <1>4 DEF IInv, JobOK, WireOK
<1>6. ASSUME NEW k \in Keys PROVE RowTrue(k)' /\ RowMade(k)'
  BY <1>1 DEF IInv, RowTrue, RowMade, backendVars
<1> QED
  BY <1>2, <1>3, <1>5, <1>6 DEF IInv, ShownOK

LEMMA PressStep ==
  ASSUME IInv, Press
  PROVE  IInv'
<1> DEFINE p == generation + 1
           next == [NoJob EXCEPT !.stage = "posting"]
<1>1. TypeOK /\ \A q \in Presses : JobOK(q) /\ WireOK(q)
  BY DEF IInv
<1>2. /\ UNCHANGED <<backendVars, ventilation, mounted, wire, made>>
      /\ generation' = p /\ phase' = Showing("sending", NoCommand)
      /\ job' = [job EXCEPT ![p] = next]
      /\ posted' = [posted EXCEPT ![p] = {p}]
      /\ unsettled' \subseteq unsettled \cup {generation}
  BY DEF Press, Becomes, IdempotencyKey
<1>3. p \in Presses /\ generation \in Nat
  BY <1>1, BoundsAssumption DEF Press, TypeOK, Presses
<1>4. next \in Job /\ next.stage = "posting" /\ next.command = NoCommand
  <2>1. next \in Job
    BY NoJobType DEF Job, Stages
  <2> QED
    BY <2>1 DEF NoJob
<1>5. phase' \in Phase /\ ~Displayed'
  BY <1>2, WaitingType DEF Tracked, Displayed
<1>6. unsettled' \subseteq Presses
  <2>1. phase.kind \in {"error", "stale"} => generation \in Presses
    BY DEF IInv, ShownOK
  <2> QED  BY <1>1, <2>1 DEF Press, TypeOK
<1>7. TypeOK'
  <2>1. posted' \in [Presses -> SUBSET Keys]
    BY <1>1, <1>2, <1>3, PressesAreKeys DEF TypeOK
  <2> QED
    BY <1>1, <1>2, <1>3, <1>4, <1>5, <1>6, <2>1 DEF TypeOK, backendVars, Presses
<1>8. \A q, c : Reading(c, q)' <=> Reading(c, q)
  BY <1>2 DEF Reading, RowOf, backendVars
<1>9. /\ job'[p] = next /\ posted'[p] = {p}
      /\ \A q \in Presses \ {p} : job'[q] = job[q] /\ posted'[q] = posted[q]
  BY <1>1, <1>2, <1>3 DEF TypeOK
<1>10. ASSUME NEW q \in Presses PROVE JobOK(q)' /\ WireOK(q)'
  <2>1. JobOK(q) /\ WireOK(q) /\ q \in Nat
    BY <1>1, PressesAreKeys
  <2>2. CASE q = p
    <3>1. made[q] \subseteq {q} /\ wire[q] = NoCommand
      BY <1>3, <2>1, <2>2 DEF JobOK, WireOK
    <3>2. job'[q].stage = "posting" /\ job'[q].command = NoCommand
      BY <1>4, <1>9, <2>2
    <3>3. posted'[q] = {q} /\ made'[q] \subseteq {q} /\ wire'[q] = NoCommand
      BY <1>2, <1>9, <2>2, <3>1
    <3>4. ~(q > generation')
      BY <1>2, <2>1, <2>2
    <3> QED
      BY <3>2, <3>3, <3>4 DEF JobOK, WireOK
  <2>3. CASE q # p
    BY <1>2, <1>3, <1>8, <1>9, <2>1, <2>3 DEF JobOK, WireOK
  <2> QED  BY <2>2, <2>3
<1>11. ASSUME NEW k \in Keys PROVE RowTrue(k)' /\ RowMade(k)'
  BY <1>2 DEF IInv, RowTrue, RowMade, backendVars
<1>12. ShownOK'
  BY <1>2, <1>3, <1>5 DEF ShownOK
<1> QED
  BY <1>7, <1>10, <1>11, <1>12 DEF IInv

-----------------------------------------------------------------------------
(* The invariant *)

LEMMA InvInit == Init => IInv
<1> SUFFICES ASSUME Init PROVE IInv
  OBVIOUS
<1>1. NoJob \in Job /\ NoJob.stage = "none" /\ NoJob.command = NoCommand
  BY NoJobType DEF NoJob
<1>2. phase \in Phase /\ phase.kind = "idle" /\ ~Displayed
  BY WaitingType DEF Init, Displayed, Tracked, Showing
<1>3. TypeOK
  <2>1. /\ job \in [Presses -> Job]
        /\ posted \in [Presses -> SUBSET Keys]
        /\ wire \in [Presses -> Rows \cup {NoCommand}]
        /\ made \in [Presses -> SUBSET Keys]
    BY <1>1 DEF Init
  <2>2. generation \in 0..MaxPresses /\ mounted \in BOOLEAN /\ ventilation \in BOOLEAN
        /\ unsettled \subseteq Presses
    <3>1. generation = 0 /\ mounted = TRUE /\ ventilation = FALSE /\ unsettled = {}
      BY DEF Init
    <3>2. 0 \in 0..MaxPresses
      BY BoundsAssumption
    <3> QED
      BY <3>1, <3>2
  <2>3. /\ status = [k \in Keys |-> "ABSENT"] /\ answer = [k \in Keys |-> "none"]
        /\ timely = [k \in Keys |-> TRUE]
        /\ ran = [k \in Keys |-> FALSE] /\ restarted = [k \in Keys |-> FALSE]
    BY DEF Init, Backend!Init
  <2> QED
    BY <1>2, <2>1, <2>2, <2>3 DEF TypeOK
<1>4. ASSUME NEW k \in Keys PROVE RowTrue(k) /\ RowMade(k)
  BY DEF Init, Backend!Init, RowTrue, RowMade
<1>5. ASSUME NEW p \in Presses PROVE JobOK(p) /\ WireOK(p)
  BY <1>1 DEF Init, JobOK, WireOK
<1> QED
  BY <1>2, <1>3, <1>4, <1>5 DEF IInv, ShownOK

LEMMA InvStutter == IInv /\ UNCHANGED vars => IInv'
<1> SUFFICES ASSUME IInv, UNCHANGED vars PROVE IInv'
  OBVIOUS
<1>1. UNCHANGED <<status, answer, timely, ran, restarted, ventilation, generation, mounted,
                  phase, job, posted, unsettled, wire, made>>
  BY DEF vars, backendVars, mobileVars
<1>2. \A q, c : Reading(c, q)' <=> Reading(c, q)
  BY <1>1 DEF Reading, RowOf
<1>3. TypeOK'
  BY <1>1 DEF IInv, TypeOK
<1>4. ASSUME NEW q \in Presses PROVE JobOK(q)' /\ WireOK(q)'
  BY <1>1, <1>2 DEF IInv, JobOK, WireOK
<1>5. ASSUME NEW k \in Keys PROVE RowTrue(k)' /\ RowMade(k)'
  BY <1>1 DEF IInv, RowTrue, RowMade
<1>6. ShownOK'
  BY <1>1, <1>2 DEF IInv, ShownOK, Displayed
<1> QED
  BY <1>3, <1>4, <1>5, <1>6 DEF IInv

LEMMA InvNext == IInv /\ [Next]_vars => IInv'
<1> SUFFICES ASSUME IInv, [Next]_vars PROVE IInv'
  OBVIOUS
<1>1. CASE Press
  BY <1>1, PressStep
<1>2. CASE Unmount
  BY <1>2, UnmountStep
<1>3. ASSUME NEW p \in Presses, Hook(p) PROVE IInv'
  BY <1>3, PostStep, RetryStep, WakeStep, FetchStep DEF Hook
<1>4. ASSUME NEW p \in Presses, Read(p) PROVE IInv'
  BY <1>4, ReadStep
<1>5. ASSUME NEW p \in Presses, PostArrives(p) PROVE IInv'
  BY <1>5, PostArrivesStep
<1>6. ASSUME NEW k \in Keys, RowMoves(k) \/ DeviceRuns(k) PROVE IInv'
  BY <1>6, RowsStep
<1>7. CASE DeviceRestarts
  BY <1>7, RestartStep
<1>8. CASE UNCHANGED vars
  BY <1>8, InvStutter
<1> QED
  BY <1>1, <1>2, <1>3, <1>4, <1>5, <1>6, <1>7, <1>8 DEF Next

(* What the display rests on: the rows are true and belong to their press, *)
(* and all that the phone knows was read from the row of its press. *)
THEOREM Invariance == Spec => []IInv
  BY InvInit, InvNext, PTL DEF Spec

(* Every variable keeps its type, in particular no press sends more        *)
(* requests, or polls longer, than the code allows. *)
THEOREM TypeCorrect == Spec => []TypeOK
<1>1. IInv => TypeOK
  BY DEF IInv
<1> QED
  BY <1>1, Invariance, PTL

(* A press, with all its lost, late and repeated requests, makes one       *)
(* command at most, and shares it with no other press. *)
THEOREM OneCommandPerPressCorrect == Spec => []OneCommandPerPress
<1>1. ASSUME IInv PROVE OneCommandPerPress
  <2>1. ASSUME NEW p \in Presses PROVE made[p] \subseteq {p}
    BY <1>1 DEF IInv, JobOK
  <2>2. ASSUME NEW p \in Presses PROVE Cardinality(made[p]) <= 1
    <3>1. IsFiniteSet({p}) /\ Cardinality({p}) = 1
      BY FS_Singleton
    <3> QED
      BY <2>1, <3>1, FS_Subset
  <2> QED
    BY <2>1, <2>2 DEF OneCommandPerPress
<1> QED
  BY <1>1, Invariance, PTL

(* No answer to an earlier press ever takes the display. *)
THEOREM ShownIsOfTheLastPressCorrect == Spec => []ShownIsOfTheLastPress
<1>1. IInv => ShownIsOfTheLastPress
  BY DEF IInv, ShownOK, Reading, ShownIsOfTheLastPress
<1> QED
  BY <1>1, Invariance, PTL

(* What the panel claims of a command is true whenever it is displayed,    *)
(* however long ago the answer was read: always for what it presents as    *)
(* done or as not sent, and as long as the device has not restarted and    *)
(* answered within its memory for what it presents as refused. *)
THEOREM ClaimCorrect == Spec => []ClaimIsTrue
<1>1. ASSUME IInv, Displayed
      PROVE  LET claim == Claim(phase.command)
                 k == phase.command.key IN
             /\ claim \in {"done", "done_late"} => ran[k]
             /\ claim = "nothing_sent" => ~ran[k]
             /\ claim \in {"rejected", "expired", "not_done_late"} /\ timely[k] /\ ~restarted[k]
                  => ~ran[k]
             /\ claim # "pending" => status[k] = phase.command.status
  <2> DEFINE c == phase.command
             k == phase.command.key
  <2>1. c \in Rows /\ Forward(c, RowOf(k)) /\ k \in Keys
    BY <1>1, PressesAreKeys DEF IInv, ShownOK, Reading, Rows
  <2>2. RowTrue(k) /\ answer[k] \in {"none", "executed", "rejected", "expired"}
    BY <1>1, <2>1 DEF IInv, TypeOK
  <2> QED
    BY <2>1, <2>2 DEF Rows, Forward, RowOf, RowTrue, Claim, IsOpen
<1> QED
  BY <1>1, Invariance, PTL DEF ClaimIsTrue

-----------------------------------------------------------------------------
(* The display moves forward *)

LEMMA HookShows ==
  ASSUME IInv, NEW p \in Presses, Hook(p), Displayed, Displayed'
  PROVE  Forward(phase.command, phase'.command)
<1>1. JobOK(p) /\ WireOK(p) /\ ShownOK /\ job[p] \in Job /\ phase.command \in Rows
  BY DEF IInv, TypeOK, ShownOK, Reading
<1>2. CASE phase' = phase
  BY <1>1, <1>2, ForwardReflexive
<1>3. ASSUME Alive(p), job[p].stage \in {"fetching", "sleeping", "posting", "retrying"}
      PROVE  phase.command = job[p].command /\ job[p].stage \notin {"posting", "retrying"}
  BY <1>1, <1>3 DEF ShownOK, Alive
<1>4. ASSUME Alive(p), FetchAnswered(p) PROVE Forward(phase.command, phase'.command)
  <2> DEFINE j == [job[p] EXCEPT !.command = wire[p]]
  <2>1. wire[p] \in Rows /\ Forward(job[p].command, wire[p])
    BY <1>1, <1>4 DEF FetchAnswered, WireOK, Reading
  <2>2. j \in Job /\ j.command = wire[p]
    BY <1>1, <2>1 DEF Job
  <2>3. PICK next \in Job : Goes(p, j, Showing("tracking", wire[p]), next)
    BY <1>1, <1>4, <2>2, ContinueGoes DEF FetchAnswered
  <2>4. phase'.command = wire[p]
    BY <2>2, <2>3 DEF Goes, Showing
  <2> QED
    BY <1>3, <1>4, <2>1, <2>4 DEF FetchAnswered
<1>5. ASSUME Alive(p), FetchFails(p) PROVE Forward(phase.command, phase'.command)
  <2>1. PICK next \in Job : Goes(p, job[p], phase, next)
    BY <1>1, <1>5, ContinueGoes DEF FetchFails
  <2>2. job[p].command = phase.command
    BY <1>3, <1>5 DEF FetchFails
  <2>3. phase'.command = phase.command
    BY <2>1, <2>2 DEF Goes, Showing
  <2> QED
    BY <1>1, <2>3, ForwardReflexive
<1>6. CASE ~Alive(p)
  BY <1>2, <1>6 DEF Hook, PostAnswered, PostUnanswered, PostRefused, Retry, Wake, FetchAnswered,
                    FetchFails
<1>7. CASE Alive(p)
  BY <1>2, <1>3, <1>4, <1>5, <1>7 DEF Hook, PostAnswered, PostUnanswered, PostRefused, Retry, Wake
<1> QED
  BY <1>6, <1>7

LEMMA NextShows ==
  ASSUME IInv, [Next]_vars, Displayed, Displayed'
  PROVE  Forward(phase.command, phase'.command)
<1>1. phase.command \in Rows
  BY DEF IInv, ShownOK, Reading
<1>2. CASE phase' = phase
  BY <1>1, <1>2, ForwardReflexive
<1>3. ASSUME NEW p \in Presses, Hook(p) PROVE Forward(phase.command, phase'.command)
  BY <1>3, HookShows
<1>4. ~Press /\ ~Unmount
  BY DEF Press, Unmount, Displayed, Showing
<1> QED
  BY <1>2, <1>3, <1>4 DEF Next, Read, PostArrives, RowMoves, DeviceRuns, DeviceRestarts,
                              mobileVars, vars

(* A display never goes back to what an earlier reading said. *)
THEOREM ShownMovesForwardCorrect == Spec => ShownMovesForward
<1> DEFINE Moves ==
      Displayed /\ Displayed' /\ phase'.command.key = phase.command.key =>
        /\ Progress(phase.command.status) <= Progress(phase'.command.status)
        /\ ~IsOpen(phase.command) => phase'.command.status = phase.command.status
        /\ phase.command.answer # "none" => phase'.command = phase.command
<1>1. ASSUME IInv, IInv', [Next]_vars PROVE Moves
  <2> SUFFICES ASSUME Displayed, Displayed' PROVE Moves
    OBVIOUS
  <2>1. Forward(phase.command, phase'.command)
    BY <1>1, NextShows
  <2>2. phase.command \in Rows /\ phase'.command \in Rows
    BY <1>1 DEF IInv, ShownOK, Reading
  <2> QED
    BY <2>1, <2>2, SameRow DEF Forward
<1> QED
  BY <1>1, Invariance, PTL DEF Spec, ShownMovesForward

-----------------------------------------------------------------------------
(* The state of the ventilation *)

Concluded == {"ACKNOWLEDGED", "FAILED", "TIMEOUT"}

(* While the device has not restarted, presses left with a conclusion run  *)
(* no more, so that, unless one was left without, the last command that    *)
(* ran is that of the last press.  It is one device: a restart is one of   *)
(* all its commands. *)
LastPressRules ==
  /\ \A k \in Keys : status[k] = "ABSENT" => ~ran[k]
  /\ \A p \in Presses : made[p] # {} => p <= generation
  /\ \A p \in Presses : p < generation /\ p \notin unsettled => status[p] \in Concluded
  /\ mounted /\ phase.kind = "idle" => generation = 0
  /\ \A j, k \in Keys : restarted[j] = restarted[k]
  /\ unsettled = {} /\ generation \in Presses /\ ran[generation] /\ ~restarted[generation]
       => ventilation = Asks[generation]

VInv == IInv /\ LastPressRules

(* A command that is concluded was run, or never runs, by a device that    *)
(* has not restarted. *)
LEMMA ConcludedIsOver ==
  ASSUME IInv, NEW k \in Keys, DeviceRuns(k), ~restarted[k]
  PROVE  status[k] \in {"PENDING", "SENT"}
<1>1. /\ status[k] \notin {"ABSENT", "TIMEOUT"} /\ ~ran[k]
      /\ answer[k] \notin {"rejected", "expired"}
      /\ ~(status[k] = "FAILED" /\ answer[k] = "none")
  BY DEF DeviceRuns, Backend!Run, Backend!Withdrawn, Backend!Refusals
<1>2. status[k] # "ACKNOWLEDGED" /\ status[k] # "FAILED"
  BY <1>1 DEF IInv, RowTrue, TypeOK
<1> QED
  BY <1>1, <1>2 DEF IInv, TypeOK

LEMMA DeviceRunsRules ==
  ASSUME VInv, NEW k \in Keys, DeviceRuns(k)
  PROVE  LastPressRules'
<1>1. IInv /\ LastPressRules
  BY DEF VInv
<1>2. /\ UNCHANGED <<mobileVars, wire, made, status, restarted>>
      /\ ran' = [ran EXCEPT ![k] = TRUE] /\ status[k] # "ABSENT"
      /\ ~restarted[k] => status[k] \in {"PENDING", "SENT"}
  BY <1>1, ConcludedIsOver DEF DeviceRuns, Backend!Run
<1>3. PICK p \in Presses : k \in made[p] /\ ventilation' = Asks[p]
  BY DEF DeviceRuns
<1>4. p = k /\ p <= generation
  BY <1>1, <1>3 DEF IInv, JobOK, LastPressRules
<1>5. ASSUME unsettled = {}, generation \in Presses, ~restarted[generation]
      PROVE  p = generation
  <2>1. ~restarted[k]
    BY <1>1, <1>5, PressesAreKeys DEF LastPressRules
  <2>2. status[p] \notin Concluded
    BY <1>2, <1>4, <2>1 DEF Concluded
  <2>3. ~(p < generation)
    BY <1>1, <1>5, <2>2 DEF LastPressRules
  <2>4. p \in Nat /\ generation \in Nat
    BY <1>1, PressesAreKeys, BoundsAssumption DEF IInv, TypeOK
  <2> QED
    BY <1>4, <2>3, <2>4
<1>6. \A j \in Keys : status[j] = "ABSENT" => ~ran'[j]
  BY <1>1, <1>2 DEF LastPressRules, IInv, TypeOK
<1>7. unsettled = {} /\ generation \in Presses /\ ~restarted[generation]
        => ventilation' = Asks[generation]
  BY <1>3, <1>5
<1> QED
  BY <1>1, <1>2, <1>6, <1>7 DEF LastPressRules, mobileVars

LEMMA RowMovesRules ==
  ASSUME VInv, NEW k \in Keys, RowMoves(k)
  PROVE  LastPressRules'
<1>1. IInv /\ LastPressRules
  BY DEF VInv
<1>2. UNCHANGED <<ventilation, mobileVars, wire, made, ran, restarted>>
  BY DEF RowMoves, Backend!Send, Backend!Withdraw, Backend!Acknowledge, Backend!Refuse,
         Backend!TimeOut, Backend!AnswerLate
<1>3. ASSUME NEW j \in Keys
      PROVE  /\ status'[j] = "ABSENT" => status[j] = "ABSENT"
             /\ status[j] \in Concluded => status'[j] \in Concluded
  BY <1>1 DEF IInv, TypeOK, Concluded, RowMoves, Backend!Send, Backend!Withdraw,
         Backend!Acknowledge, Backend!Refuse, Backend!TimeOut, Backend!AnswerLate,
         Backend!Becomes, Backend!Open
<1> QED
  BY <1>1, <1>2, <1>3, PressesAreKeys DEF LastPressRules, mobileVars

LEMMA PostArrivesRules ==
  ASSUME VInv, NEW p \in Presses, PostArrives(p)
  PROVE  LastPressRules'
<1>1. IInv /\ LastPressRules
  BY DEF VInv
<1>2. /\ p \in Keys /\ status[p] = "ABSENT" /\ status' = [status EXCEPT ![p] = "PENDING"]
      /\ made' = [made EXCEPT ![p] = @ \cup {p}]
      /\ job[p].stage # "none"
      /\ UNCHANGED <<ventilation, mobileVars, wire, ran, restarted>>
  BY <1>1, PostArrivesOf DEF Backend!Accept, Backend!Becomes
<1>3. p <= generation
  <2>1. ~(p > generation)
    BY <1>1, <1>2 DEF IInv, JobOK
  <2>2. p \in Nat /\ generation \in Nat
    BY <1>1, PressesAreKeys, BoundsAssumption DEF IInv, TypeOK
  <2> QED  BY <2>1, <2>2
<1>4. ASSUME NEW j \in Keys
      PROVE  /\ status'[j] = "ABSENT" => status[j] = "ABSENT"
             /\ status[j] \in Concluded => status'[j] \in Concluded
  BY <1>1, <1>2 DEF IInv, TypeOK, Concluded
<1>5. \A q \in Presses : q # p => made'[q] = made[q]
  BY <1>1, <1>2 DEF IInv, TypeOK
<1>6. \A q \in Presses : made'[q] # {} => q <= generation
  BY <1>1, <1>3, <1>5 DEF LastPressRules
<1> QED
  BY <1>1, <1>2, <1>4, <1>6, PressesAreKeys DEF LastPressRules, mobileVars

(* The code launched by a press never makes the display idle. *)
LEMMA HookIsNotIdle ==
  ASSUME NEW p \in Presses, Hook(p)
  PROVE  phase' = phase \/ phase'.kind # "idle"
<1>1. ASSUME NEW j, NEW shown, Continue(p, j, shown), shown = phase \/ shown.kind = "tracking"
      PROVE  phase' = phase \/ phase'.kind # "idle"
  BY <1>1 DEF Continue, Showing
<1>2. CASE PostAnswered(p) \/ FetchAnswered(p)
  <2>1. Showing("tracking", wire[p]).kind = "tracking"
    BY DEF Showing
  <2> QED
    BY <1>1, <1>2, <2>1 DEF PostAnswered, FetchAnswered
<1>3. CASE FetchFails(p)
  BY <1>1, <1>3 DEF FetchFails
<1>4. CASE PostUnanswered(p) \/ PostRefused(p)
  BY <1>4 DEF PostUnanswered, PostRefused, Showing, ShowingError
<1>5. CASE Retry(p) \/ Wake(p)
  BY <1>5 DEF Retry, Wake, Showing
<1> QED
  BY <1>2, <1>3, <1>4, <1>5 DEF Hook

LEMMA HookRules ==
  ASSUME VInv, NEW p \in Presses, Hook(p)
  PROVE  LastPressRules'
<1>1. LastPressRules
  BY DEF VInv
<1>2. UNCHANGED <<backendVars, ventilation, generation, mounted, made, unsettled>>
  BY DEF Hook, PostAnswered, PostUnanswered, PostRefused, Retry, Wake, FetchAnswered, FetchFails,
         OnlyHook, OnlyPhone
<1>3. phase'.kind = "idle" => phase.kind = "idle"
  BY HookIsNotIdle
<1> QED
  BY <1>1, <1>2, <1>3 DEF LastPressRules, backendVars

(* A press is only possible once the last one is concluded, or has left    *)
(* the user without an outcome. *)
LEMMA PressRules ==
  ASSUME VInv, Press
  PROVE  LastPressRules'
<1>1. IInv /\ LastPressRules /\ TypeOK
  BY DEF VInv, IInv
<1>2. /\ UNCHANGED <<backendVars, ventilation, mounted, wire, made>>
      /\ mounted /\ ~Busy /\ generation' = generation + 1
      /\ phase'.kind = "sending"
      /\ unsettled \subseteq unsettled'
      /\ phase.kind \in {"error", "stale"} => generation \in unsettled'
  BY DEF Press, Showing
<1>3. generation \in Nat /\ generation' \in Presses /\ generation' \in Keys
  <2>1. generation \in Nat /\ generation < MaxPresses
    BY <1>1 DEF TypeOK, Press
  <2>2. generation' \in Presses
    BY <1>2, <2>1, BoundsAssumption DEF Presses
  <2> QED
    BY <2>1, <2>2, PressesAreKeys
<1>4. generation \in Presses /\ generation \notin unsettled' => status[generation] \in Concluded
  <2>1. SUFFICES ASSUME generation \in Presses, generation \notin unsettled'
                 PROVE  status[generation] \in Concluded
    OBVIOUS
  <2>2. phase.kind # "idle"
    BY <1>1, <1>2, <2>1, BoundsAssumption DEF LastPressRules, Presses
  <2>3. phase.kind = "tracking"
    BY <1>1, <1>2, <2>1, <2>2 DEF Busy, TypeOK, Phase
  <2>4. Reading(phase.command, generation) /\ ~IsOpen(phase.command)
    BY <1>1, <1>2, <2>3 DEF IInv, ShownOK, Displayed, Busy
  <2>5. status[generation] = phase.command.status /\ phase.command \in Rows
    BY <2>4 DEF Reading, Forward, RowOf
  <2> QED
    BY <2>4, <2>5 DEF Rows, IsOpen, Concluded
<1>5. ~ran[generation']
  <2>1. made[generation'] = {}
    BY <1>1, <1>2, <1>3 DEF LastPressRules
  <2>2. status[generation'] = "ABSENT"
    BY <1>1, <1>3, <2>1 DEF IInv, RowMade
  <2> QED
    BY <1>1, <1>3, <2>2 DEF LastPressRules
<1>6. \A p \in Presses : p < generation' /\ p \notin unsettled' => status[p] \in Concluded
  <2>1. SUFFICES ASSUME NEW p \in Presses, p < generation', p \notin unsettled'
                 PROVE  status[p] \in Concluded
    OBVIOUS
  <2>2. p < generation \/ p = generation
    BY <1>2, <1>3, <2>1, PressesAreKeys
  <2> QED
    BY <1>1, <1>2, <1>4, <2>1, <2>2 DEF LastPressRules
<1>7. \A p \in Presses : made[p] # {} => p <= generation'
  <2>1. SUFFICES ASSUME NEW p \in Presses, made[p] # {} PROVE p <= generation + 1
    BY <1>2
  <2>2. p \in Nat /\ p <= generation
    BY <1>1, <2>1, PressesAreKeys DEF LastPressRules
  <2> QED  BY <1>3, <2>2
<1> QED
  BY <1>1, <1>2, <1>5, <1>6, <1>7 DEF LastPressRules, backendVars

LEMMA VInvNext == VInv /\ [Next]_vars => VInv'
<1> SUFFICES ASSUME VInv, [Next]_vars PROVE VInv'
  OBVIOUS
<1>1. IInv' /\ LastPressRules
  BY InvNext DEF VInv
<1>2. CASE Press
  BY <1>1, <1>2, PressRules DEF VInv
<1>3. CASE Unmount
  BY <1>1, <1>3 DEF VInv, LastPressRules, Unmount, backendVars
<1>4. ASSUME NEW p \in Presses, Hook(p) PROVE VInv'
  BY <1>1, <1>4, HookRules DEF VInv
<1>5. ASSUME NEW p \in Presses, Read(p) PROVE VInv'
  BY <1>1, <1>5 DEF VInv, LastPressRules, Read, backendVars, mobileVars
<1>6. ASSUME NEW p \in Presses, PostArrives(p) PROVE VInv'
  BY <1>1, <1>6, PostArrivesRules DEF VInv
<1>7. ASSUME NEW k \in Keys, RowMoves(k) \/ DeviceRuns(k) PROVE VInv'
  BY <1>1, <1>7, RowMovesRules, DeviceRunsRules DEF VInv
<1>8. CASE DeviceRestarts
  <2>1. /\ UNCHANGED <<mobileVars, made, status, ran>>
        /\ \A k \in Keys : restarted'[k]
    BY <1>8 DEF DeviceRestarts, Backend!Restart
  <2> QED
    BY <1>1, <2>1, PressesAreKeys DEF VInv, LastPressRules, mobileVars
<1>9. CASE UNCHANGED vars
  BY <1>1, <1>9 DEF VInv, LastPressRules, vars, backendVars, mobileVars
<1> QED
  BY <1>2, <1>3, <1>4, <1>5, <1>6, <1>7, <1>8, <1>9 DEF Next

(* As long as the device does not restart, the presses that were concluded *)
(* run no more and the last one alone rules the ventilation: a press needs *)
(* the buttons, which are disabled while the last command may still run.   *)
THEOREM LastPressRulesCorrect == Spec => []VInv
<1>1. Init => VInv
  <2> SUFFICES ASSUME Init PROVE VInv
    OBVIOUS
  <2>1. IInv
    BY InvInit
  <2>2. /\ generation = 0 /\ \A k \in Keys : ~ran[k] /\ restarted[k] = FALSE
        /\ \A p \in Presses : made[p] = {}
    BY DEF Init, Backend!Init
  <2>3. \A p \in Presses : p > 0
    BY BoundsAssumption DEF Presses
  <2>4. \A p \in Presses : ~(p < generation) /\ p # generation
    BY <2>2, <2>3, PressesAreKeys
  <2> QED
    BY <2>1, <2>2, <2>4 DEF VInv, LastPressRules
<1>2. VInv /\ [Next]_vars => VInv'
  BY VInvNext
<1> QED
  BY <1>1, <1>2, PTL DEF Spec

(* What is shown as done is the state of the ventilation, unless an        *)
(* earlier press was left without an outcome or the device has restarted.  *)
THEOREM ConfirmedStateCorrect == Spec => []ConfirmedStateIsReal
<1>1. ASSUME VInv, Displayed, Claim(phase.command) = "done", unsettled = {},
             ~restarted[phase.command.key]
      PROVE  ventilation = Asks[generation]
  <2>1. /\ generation \in Presses /\ generation \in Keys
        /\ Reading(phase.command, generation) /\ RowTrue(generation)
    BY <1>1, PressesAreKeys DEF VInv, IInv, ShownOK
  <2>2. phase.command.status = "ACKNOWLEDGED"
    BY <1>1, <2>1 DEF Claim, Reading, Rows, IsOpen
  <2>3. status[generation] = "ACKNOWLEDGED"
    BY <2>1, <2>2 DEF Reading, Forward, RowOf, IsOpen
  <2>4. ran[generation] /\ ~restarted[generation]
    BY <1>1, <2>1, <2>3 DEF RowTrue, Reading
  <2> QED
    BY <1>1, <2>1, <2>4 DEF VInv, LastPressRules
<1>2. VInv => ConfirmedStateIsReal
  BY <1>1 DEF ConfirmedStateIsReal
<1> QED
  BY <1>2, LastPressRulesCorrect, PTL
=============================================================================
