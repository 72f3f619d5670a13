---------------------------- MODULE MobileCommand ----------------------------
(***************************************************************************)
(* The command panel of the mobile application (useDeviceCommand), above   *)
(* the backend as CommandContract describes it: a press becomes a POST     *)
(* that may be lost, late or repeated with the same idempotency key, then  *)
(* a polling of the row, under a display that the next press takes over.   *)
(*                                                                         *)
(* A press is the value of `generation` it draws.  Its requests follow     *)
(* each other, so that at most one call waits for an answer; an answer is  *)
(* read from the row at one instant and arrives at another one, or never.  *)
(* Delays are counted in polls: a poll takes at least its interval, and    *)
(* any more than that.                                                     *)
(***************************************************************************)
EXTENDS Integers, FiniteSets

CONSTANTS
  MaxRetries,   \* MAX_NETWORK_RETRIES
  MaxPolls,     \* polls that fit in MAX_TRACKING_MS
  MaxWatches,   \* slower polls that fit in LATE_ACK_WATCH_MS
  MaxPresses,   \* bound of the model, not of the code
  Asks          \* what each press asks of the ventilation: TRUE is on

ASSUME BoundsAssumption ==
  /\ MaxRetries \in Nat /\ MaxPolls \in Nat \ {0} /\ MaxWatches \in Nat \ {0}
  /\ MaxPresses \in Nat \ {0}
  /\ Asks \in [1..MaxPresses -> BOOLEAN]

Presses == 1..MaxPresses
Attempts == 1..(MaxRetries + 1)
Keys == 1..(MaxPresses * (MaxRetries + 1))

VARIABLES
  status, answer, timely, ran, restarted,   \* the backend and the device, see CommandContract
  ventilation,  \* the state the device is in
  generation, mounted, phase,
  job,          \* how far the code launched by each press has run
  posted,       \* keys of the requests that left on behalf of each press
  wire          \* the answer on its way to the call that press waits for

(* Observed, never read by a guard of the code. *)
VARIABLES
  made,         \* rows created on behalf of each press
  unsettled     \* presses left with an error or a suspended tracking

backendVars == <<status, answer, timely, ran, restarted>>
mobileVars == <<generation, mounted, phase, job, posted, unsettled>>
vars == <<backendVars, ventilation, mobileVars, wire, made>>

Backend == INSTANCE CommandContract WITH Commands <- Keys

Rows == [key : Keys, status : {"PENDING", "SENT", "ACKNOWLEDGED", "FAILED", "TIMEOUT"},
         answer : {"none", "executed", "rejected", "expired"}]
NoCommand == [key |-> 0, status |-> "ABSENT", answer |-> "none"]

Errors == {"unreachable", "server_error", "unexpected"}
Phase ==
  [kind : {"idle", "sending", "error"}, command : {NoCommand}, error : Errors \cup {"none"}]
    \cup [kind : {"tracking", "stale"}, command : Rows, error : {"none"}]
Showing(kind, command) == [kind |-> kind, command |-> command, error |-> "none"]
ShowingError(error) == [kind |-> "error", command |-> NoCommand, error |-> error]

Stages == {"none", "posting", "retrying", "sleeping", "fetching", "done"}
Job == [stage : Stages, attempt : Attempts, command : Rows \cup {NoCommand},
        polls : 0..(MaxPolls + 1), watches : 0..(MaxWatches + 1)]
NoJob == [stage |-> "none", attempt |-> 1, command |-> NoCommand, polls |-> 0, watches |-> 0]

Init ==
  /\ Backend!Init
  /\ ventilation = FALSE
  /\ generation = 0 /\ mounted = TRUE
  /\ phase = Showing("idle", NoCommand)
  /\ job = [p \in Presses |-> NoJob]
  /\ posted = [p \in Presses |-> {}]
  /\ wire = [p \in Presses |-> NoCommand]
  /\ made = [p \in Presses |-> {}]
  /\ unsettled = {}

-----------------------------------------------------------------------------
(* What the user reads: commandStatus.ts *)

IsOpen(c) == c.status \in {"PENDING", "SENT"}

(* Seeded fault: what was transmitted is presented as done. *)
ClaimOptimistic(c) ==
  CASE c.status = "PENDING" -> "pending"
    [] c.status \in {"SENT", "ACKNOWLEDGED"} -> "done"
    [] c.status = "FAILED" -> IF c.answer = "none" THEN "nothing_sent" ELSE c.answer
    [] OTHER -> IF c.answer = "executed" THEN "done_late"
                ELSE IF c.answer = "none" THEN "unknown" ELSE "not_done_late"

(* describeCommand, with the reason failureLabel gives. *)
Claim(c) ==
  CASE IsOpen(c) -> "pending"
    [] c.status = "ACKNOWLEDGED" -> "done"
    [] c.status = "FAILED" -> IF c.answer = "none" THEN "nothing_sent" ELSE c.answer
    [] OTHER -> IF c.answer = "executed" THEN "done_late"
                ELSE IF c.answer = "none" THEN "unknown" ELSE "not_done_late"

(* Seeded fault: the buttons stay enabled once the server has replied. *)
BusySending == phase.kind = "sending"

(* The buttons are disabled. *)
Busy == phase.kind = "sending" \/ (phase.kind = "tracking" /\ IsOpen(phase.command))

-----------------------------------------------------------------------------
(* The hook *)

(* Seeded fault: generation is not compared. *)
AliveWhileMounted(p) == mounted

Alive(p) == mounted /\ generation = p

(* Seeded fault: a key per request. *)
IdempotencyKeyPerAttempt(p, attempt) == (attempt - 1) * MaxPresses + p

(* Drawn once per press and kept for its retries. *)
IdempotencyKey(p, attempt) == p

Becomes(p, j) == job' = [job EXCEPT ![p] = j]
Stops(p) == Becomes(p, [NoJob EXCEPT !.stage = "done"])

(* `track` begins, with variables of its own. *)
TrackingOf(c) == [NoJob EXCEPT !.command = c]

(* Seeded fault: startedAt is taken again at each turn of the loop. *)
PollingAfresh(j) == [j EXCEPT !.stage = "sleeping"]

Polling(j) == [j EXCEPT !.stage = "sleeping", !.polls = @ + 1]

(* startedAt is not looked at any more. *)
Watching(j) == [j EXCEPT !.stage = "sleeping", !.polls = 0, !.watches = @ + 1]

(* The head of the loop of `track`, on the command the job holds: an open  *)
(* command is polled until MAX_TRACKING_MS is over, a TIMEOUT without      *)
(* answer more slowly until LATE_ACK_WATCH_MS is.  `shown` is the display  *)
(* unless the tracking is suspended. *)
Continue(p, j, shown) ==
  LET c == j.command
      unanswered == c.status = "TIMEOUT" /\ c.answer = "none" IN
  \/ /\ IsOpen(c) /\ j.polls <= MaxPolls
     /\ Becomes(p, Polling(j))
     /\ phase' = shown
  \/ /\ IsOpen(c) /\ j.polls >= 1
     /\ Stops(p)
     /\ phase' = Showing("stale", c)
  \/ /\ unanswered /\ j.watches <= MaxWatches
     /\ Becomes(p, Watching(j))
     /\ phase' = shown
  \/ /\ ~IsOpen(c)
     /\ unanswered => j.watches >= 1
     /\ Stops(p)
     /\ phase' = shown

OnlyPhone == UNCHANGED <<backendVars, ventilation, generation, mounted, made, unsettled>>
OnlyHook == OnlyPhone /\ UNCHANGED posted

(* One press on a button that is not disabled: a new generation, a first   *)
(* request.  `offline`, which only forbids presses, is left out. *)
Press ==
  /\ mounted /\ ~Busy
  /\ generation < MaxPresses
  /\ generation' = generation + 1
  /\ phase' = Showing("sending", NoCommand)
  /\ Becomes(generation', [NoJob EXCEPT !.stage = "posting"])
  /\ posted' = [posted EXCEPT ![generation'] = {IdempotencyKey(generation', 1)}]
  /\ unsettled' = IF phase.kind \in {"error", "stale"} THEN unsettled \cup {generation}
                  ELSE unsettled
  /\ UNCHANGED <<backendVars, ventilation, mounted, wire, made>>

(* The POST is answered with a command. *)
PostAnswered(p) ==
  LET c == wire[p] IN
  /\ job[p].stage = "posting" /\ wire[p] # NoCommand
  /\ wire' = [wire EXCEPT ![p] = NoCommand]
  /\ IF Alive(p) THEN Continue(p, TrackingOf(c), Showing("tracking", c))
     ELSE Stops(p) /\ UNCHANGED phase
  /\ OnlyHook

(* Seeded fault: one retry too many. *)
RetriesPastTheLast(p) == job[p].attempt <= MaxRetries + 1

Retries(p) == job[p].attempt <= MaxRetries

(* No answer came: the same press is tried again, or its fate is unknown.  *)
(* The request may still be on its way to the server. *)
PostUnanswered(p) ==
  /\ job[p].stage = "posting"
  /\ wire' = [wire EXCEPT ![p] = NoCommand]
  /\ \/ Alive(p) /\ Retries(p)
        /\ Becomes(p, [job[p] EXCEPT !.stage = "retrying"])
        /\ phase' = Showing("sending", NoCommand)
     \/ Alive(p) /\ ~Retries(p)
        /\ Stops(p)
        /\ phase' = ShowingError("unreachable")
     \/ ~Alive(p) /\ Stops(p) /\ UNCHANGED phase
  /\ OnlyHook

(* RETRY_DELAY_MS is over. *)
Retry(p) ==
  /\ job[p].stage = "retrying"
  /\ \/ /\ Alive(p)
        /\ Becomes(p, [job[p] EXCEPT !.stage = "posting", !.attempt = @ + 1])
        /\ posted' = [posted EXCEPT ![p] = @ \cup {IdempotencyKey(p, job[p].attempt + 1)}]
        /\ phase' = Showing("sending", NoCommand)
     \/ ~Alive(p) /\ Stops(p) /\ UNCHANGED <<phase, posted>>
  /\ OnlyPhone /\ UNCHANGED wire

(* The server answered with an error, or the body of its answer is lost.   *)
PostRefused(p) ==
  /\ job[p].stage = "posting"
  /\ wire' = [wire EXCEPT ![p] = NoCommand]
  /\ Stops(p)
  /\ IF ~Alive(p) THEN UNCHANGED phase
     ELSE phase' = ShowingError(IF wire[p] = NoCommand THEN "server_error" ELSE "unexpected")
  /\ OnlyHook

(* The interval between two polls is over. *)
Wake(p) ==
  /\ job[p].stage = "sleeping"
  /\ IF Alive(p) THEN Becomes(p, [job[p] EXCEPT !.stage = "fetching"]) ELSE Stops(p)
  /\ OnlyHook /\ UNCHANGED <<phase, wire>>

(* Seeded fault: one failed poll ends the tracking. *)
FetchFailsForGood(p) ==
  /\ job[p].stage = "fetching"
  /\ wire' = [wire EXCEPT ![p] = NoCommand]
  /\ Stops(p)
  /\ OnlyHook /\ UNCHANGED phase

(* A poll fails: what is displayed stays, the next turn tries again. *)
FetchFails(p) ==
  /\ job[p].stage = "fetching"
  /\ wire' = [wire EXCEPT ![p] = NoCommand]
  /\ IF Alive(p) THEN Continue(p, job[p], phase) ELSE Stops(p) /\ UNCHANGED phase
  /\ OnlyHook

(* Seeded fault: the loop goes on with the command it started from. *)
FetchAnsweredForgetting(p) ==
  /\ job[p].stage = "fetching" /\ wire[p] # NoCommand
  /\ wire' = [wire EXCEPT ![p] = NoCommand]
  /\ IF Alive(p) THEN Continue(p, job[p], Showing("tracking", wire[p]))
     ELSE Stops(p) /\ UNCHANGED phase
  /\ OnlyHook

FetchAnswered(p) ==
  LET c == wire[p] IN
  /\ job[p].stage = "fetching" /\ wire[p] # NoCommand
  /\ wire' = [wire EXCEPT ![p] = NoCommand]
  /\ IF Alive(p) THEN Continue(p, [job[p] EXCEPT !.command = c], Showing("tracking", c))
     ELSE Stops(p) /\ UNCHANGED phase
  /\ OnlyHook

(* The screen is left, its state is discarded. *)
Unmount ==
  /\ mounted
  /\ mounted' = FALSE
  /\ phase' = Showing("idle", NoCommand)
  /\ UNCHANGED <<backendVars, ventilation, generation, job, posted, unsettled, wire, made>>

-----------------------------------------------------------------------------
(* The backend and the device *)

RowOf(k) == [key |-> k, status |-> status[k], answer |-> answer[k]]

(* A request of p reaches the server, perhaps long after p gave up: its    *)
(* row is created unless its key has one. *)
PostArrives(p) ==
  /\ \E k \in posted[p] :
       /\ Backend!Accept(k)
       /\ made' = [made EXCEPT ![p] = @ \cup {k}]
  /\ UNCHANGED <<ventilation, mobileVars, wire>>

(* The API reads the row for the request p is waiting for: the command its *)
(* handler created or found, or the one polled. *)
Read(p) ==
  LET k == IF job[p].stage = "posting" THEN IdempotencyKey(p, job[p].attempt)
           ELSE job[p].command.key IN
  /\ job[p].stage \in {"posting", "fetching"}
  /\ wire[p] = NoCommand
  /\ status[k] # "ABSENT"
  /\ wire' = [wire EXCEPT ![p] = RowOf(k)]
  /\ UNCHANGED <<backendVars, ventilation, mobileVars, made>>

(* The API, the ingester and the worker, on the word of the device: a      *)
(* command that ran may be refused when it is delivered again to a device  *)
(* that has restarted, or once it is forgotten. *)
RowMoves(k) ==
  /\ \/ Backend!Send(k) \/ Backend!Withdraw(k) \/ Backend!Acknowledge(k) \/ Backend!Refuse(k)
     \/ Backend!TimeOut(k) \/ Backend!AnswerLate(k)
  /\ UNCHANGED <<ventilation, mobileVars, wire, made>>

DeviceRuns(k) ==
  /\ Backend!Run(k)
  /\ \E p \in Presses : k \in made[p] /\ ventilation' = Asks[p]
  /\ UNCHANGED <<mobileVars, wire, made>>

(* The one device of the panel restarts: its ventilation is off, and it    *)
(* may run again a command that it ran or refused. *)
DeviceRestarts ==
  /\ Backend!Restart(Keys)
  /\ ventilation' = FALSE
  /\ UNCHANGED <<mobileVars, wire, made>>

-----------------------------------------------------------------------------

Hook(p) == PostAnswered(p) \/ PostUnanswered(p) \/ PostRefused(p) \/ Retry(p)
             \/ Wake(p) \/ FetchAnswered(p) \/ FetchFails(p)

Next ==
  \/ Press \/ Unmount
  \/ \E p \in Presses : Hook(p) \/ PostArrives(p) \/ Read(p)
  \/ \E k \in Keys : RowMoves(k) \/ DeviceRuns(k)
  \/ DeviceRestarts

Spec == Init /\ [][Next]_vars

(* Every timer fires and every call of the phone ends, with an answer or   *)
(* with an error.  Nothing is asked of the backend or of the device. *)
FairSpec == Spec /\ \A p \in Presses : WF_vars(Hook(p))

-----------------------------------------------------------------------------
(* Properties *)

TypeOK ==
  /\ status \in [Keys -> {"ABSENT", "PENDING", "SENT", "ACKNOWLEDGED", "FAILED", "TIMEOUT"}]
  /\ answer \in [Keys -> {"none", "executed", "rejected", "expired"}]
  /\ timely \in [Keys -> BOOLEAN]
  /\ ran \in [Keys -> BOOLEAN] /\ restarted \in [Keys -> BOOLEAN]
  /\ ventilation \in BOOLEAN
  /\ generation \in 0..MaxPresses /\ mounted \in BOOLEAN
  /\ phase \in Phase
  /\ job \in [Presses -> Job]
  /\ posted \in [Presses -> SUBSET Keys]
  /\ wire \in [Presses -> Rows \cup {NoCommand}]
  /\ made \in [Presses -> SUBSET Keys]
  /\ unsettled \subseteq Presses

(* However many of its requests are lost, late or repeated, a press makes  *)
(* at most one command, and two presses never share one. *)
OneCommandPerPress ==
  /\ \A p \in Presses : Cardinality(made[p]) <= 1
  /\ \A p, q \in Presses : made[p] \cap made[q] # {} => p = q

Displayed == phase.kind \in {"tracking", "stale"}

(* The command on display is the one of the last press: no poll and no     *)
(* reply of an earlier press takes the display back. *)
ShownIsOfTheLastPress == Displayed => phase.command.key \in made[generation]

(* What the panel claims was true when the answer was read and still is:   *)
(* "done" is said of a command the device ran, "not sent" of one that no   *)
(* device runs, whatever fails or restarts.  That the device refused it is *)
(* said on its word alone, and means that it does not run it only as long  *)
(* as it has not restarted, and if it answered within its memory of the    *)
(* command: without either, a command that ran may be answered "expired",  *)
(* and the panel then says that it was not executed. *)
ClaimIsTrue ==
  Displayed =>
    LET claim == Claim(phase.command)
        k == phase.command.key IN
    /\ claim \in {"done", "done_late"} => ran[k]
    /\ claim = "nothing_sent" => ~ran[k]
    /\ claim \in {"rejected", "expired", "not_done_late"} /\ timely[k] /\ ~restarted[k]
         => ~ran[k]
    /\ claim # "pending" => status[k] = phase.command.status

(* A confirmed state is the state of the device, if the user was never     *)
(* left without an outcome before and the device has not restarted: the    *)
(* disabled buttons keep two opposite commands from being in flight        *)
(* together.  A device that restarts is off, and may run an earlier        *)
(* command again. *)
ConfirmedStateIsReal ==
  Displayed /\ Claim(phase.command) = "done" /\ unsettled = {} /\ ~restarted[phase.command.key]
    => ventilation = Asks[generation]

Progress(s) == CASE s = "PENDING" -> 1 [] s = "SENT" -> 2 [] OTHER -> 3

(* Two readings never contradict each other: the display of a command only *)
(* moves forward, and once concluded it only gains a late answer. *)
ShownMovesForward ==
  [][Displayed /\ Displayed' /\ phase'.command.key = phase.command.key =>
       /\ Progress(phase.command.status) <= Progress(phase'.command.status)
       /\ ~IsOpen(phase.command) => phase'.command.status = phase.command.status
       /\ phase.command.answer # "none" => phase'.command = phase.command]_vars

(* The buttons come back: a press ends in a conclusion, in an error or in  *)
(* a suspended tracking, also when the backend never concludes. *)
PressEnds == Busy ~> ~Busy \/ ~mounted

(* No press is tracked for ever, shown or not. *)
TrackingEnds == \A p \in Presses : job[p].stage # "none" ~> job[p].stage = "done"
=============================================================================
