# Campify: specification and verification

TLA+ models of Campify's backend and of its clients, checked with TLC and, for
the results listed under *Theorems*, proved with TLAPS. Paths below are relative
to the repository's root, `src/`.

Campify monitors the rooms of a campus: devices publish readings over MQTT,
a backend stores them and raises alerts, and a mobile application shows them and
sends commands to the devices.

## 1. Inventory

Three backend processes share a PostgreSQL/TimescaleDB base, a MongoDB journal
and a Mosquitto broker; each is wired in `backend/src/composition.ts`.

| component | state it keeps | operations | interacts with |
|---|---|---|---|
| Command dispatch (API): `CommandService.dispatch`, `MqttCommandPublisher`, `PrismaCommandRepository` | rows of `Command`; the QoS 1 store of its MQTT client | POST `/devices/:id/commands`, GET `/commands/:id` | broker (publish, PUBACK), the row shared with ingester and worker |
| Acknowledgement (ingester): `CommandService.acknowledge`, `handlers.ts` | none of its own; handlers suspended between two awaits | one handler per ACK message | broker (ACK topic), the row |
| Timeout sweep (worker): `CommandTimeoutService`, `commandTimeoutPoller` | the batch being expired | `expireOverdue`, polled | the row |
| Device: `scripts/device/commandHandler.ts`, `simulate-devices.ts` | commands already processed (in memory), its physical state | `handle`, `sendAck`, telemetry | broker |
| Journal: `handlers.ts` (measurements), `MongoRawEventRepository` | raw events, append only, by `(receivedAt, _id)` | `record`, `findAfter` | broker, worker |
| Consolidation: `consolidationPoller.ts`, `MeasurementIngestionService`, `dedup.ts` | cursor in memory and in Mongo, dead letters, measurements | `tick`, `processEvent`, `consolidate` | journal, base, alerts |
| Alerts: `AlertService`, `alerts.ts` | open and resolved alerts, one open per device and type | `evaluate` | called after a measurement is stored |
| Read side: `rooms.ts`, `devices.ts`, `history.ts`, `freshness.ts` | none | queries, pure functions | base |
| Association: `deviceAssociation.ts`, `associations.ts` | `Device.roomId` | assign a scanned device to a room | base |
| Mobile command: `useDeviceCommand.ts`, `commandStatus.ts` | phase shown, generation, idempotency key of the press | `send`, `track` | API, with lost replies and retries |
| Mobile screens: `RoomListScreen`, `RoomDetailScreen`, `DeviceHistoryScreen`, `cache.ts` | data shown and its date, cache | `load` on mount, timer, foreground, reconnection | API, local storage |
| Authentication, configuration, logging, dashboards, operation scripts | none that matters here | | |

Hard behaviours: three processes race for one row; QoS 1 redelivers, reorders
and delays; every process can die between two awaits; timers race answers;
the worker replays batches; the mobile client retries what may have succeeded
and overlaps its own requests. `PROJECT.json` lists each hazard at its line.

What makes each component correct:

* *commands*: one command per intention; each status means what the
  documentation of `Command.ts` and ADR 0014 say; a conclusion is final; every
  command is concluded and every request answered;
* *device*: a redelivery never executes twice, nothing runs after `expires_at`;
* *journal and consolidation*: no event is skipped, a replay changes nothing,
  measurements only move forward in time, one bad event is set aside;
* *alerts*: one open alert per device and type, opened and resolved by the
  readings the thresholds say, in time order;
* *mobile*: what is shown is what the server said of the last press; newer
  data is never replaced by older.

## 2. Modules

| module | models | on top of |
|---|---|---|
| `CommandLifecycle` | commands: API, broker, device, ingester, worker | refines `CommandContract` |
| `ReadingRules`, `Consolidation` | journal, worker, measurements, alerts | refines `AlertContract` |
| `MobileCommand` | the command panel of the phone and its requests | `CommandContract`, in place of the backend |
| `Screens` | the screens that show data, their loads and their cache | the API as a version of the data |
| `History`, `Rooms` | ranges, buckets and bars; freshness, scan screens, association, list of rooms | `StoredInOrder` of `Consolidation`, as the guard of `Measure` |

`CommandLifecycle` is shown to keep the contract that `MobileCommand` is built
on, so that what the panel claims is checked against what the backend does
without running both at once. `Screens` and `Rooms` meet in the same way: the
first takes any answer of the API for granted, the second says what an answer
that was read while the tables change is worth.

Every invariant, action property and refinement that a passing run checks on its
instance is also a theorem, for every value of the constants; the proofs are in
the modules `*Proofs`, beside the component they are about. What stays with TLC
alone is liveness (`EventuallyConcluded`, `EventuallyAnswered`,
`EventuallySettled`, `PressEnds`, `TrackingEnds`, `LoadingEnds`,
`EventuallyUpToDate`): it rests on fairness, hence on ENABLED, which TLAPS does
not handle. The runs that expect a violation refute what a document says, and have
nothing to prove.

| proofs | about | on top of |
|---|---|---|
| `CommandLifecycleProofs` | types, rows, *executed* | |
| `CommandConclusionsProofs` | replies, `FAILED`, `TIMEOUT`, the contract | `CommandLifecycleProofs` |
| `ConsolidationProofs` | types, one open alert, order of storage | |
| `ConsolidationOrderProofs` | cursors, nothing skipped | `ConsolidationProofs` |
| `ConsolidationAlertProofs` | alerts are true, the contract | `ConsolidationProofs` |
| `MobileCommandProofs`, `ScreensProofs`, `RoomsProofs` | the clients, the read side | |

What the plan has left: the routes that list the devices, the latest
measurements and the alerts of one room, the setpoint of the temperature and
the simulated readings it drives.

## 3. CommandLifecycle

### State

| variable | code |
|---|---|
| `row` | the `Command` table; `ABSENT` is no row. `ack` stands for `ackedAt` with the answer that concluded the command, `late` for `lateAckStatus`/`lateAckAt` |
| `stage`, `deadline` | where the handler of each POST stands between two awaits, then its reply; the `expiresAt` it computed first |
| `connected`, `outgoing` | the MQTT client of the API: what `client.connected` says, and its QoS 1 store |
| `broker` | commands the broker holds or held for their device |
| `mode`, `processed` | the device: mode of its boot, memory of processed commands |
| `acks` | ACKs published |
| `handling` | ACK handlers of the ingester between two awaits |
| `batch` | what the current sweep still has to expire |
| `clock` | the time, one for all (ADR 0014 and `docs/J4.md` suppose NTP) |
| `faults`, `boots`, `execs`, `published`, `heard` | observations for the properties and bounds; no guard of the code reads them |

A command is named by the request that created its row, since the insertion
draws its identifier. Messages are sets that only grow: a message still there
may be received now, later, again, or never, which covers loss, delay,
reordering and duplication.

### Actions

| action | code |
|---|---|
| `Submit` | `dispatch` up to the insertion: catalogue, device, deadline |
| `CreateIfAbsent` | `createIfAbsent` and the answer to a replay or a conflict |
| `PublishCommand`, `PubackArrives`, `PublishUnconfirmed` | `publishCommand`: `not_sent`, `confirmed`, `unconfirmed` |
| `Settle`, `ReadBack` | the transition an outcome asks for, then the row read for the reply: a 500 may also come after the row has moved |
| `DispatchFails`, `ApiCrash` | a call that throws (500); the process dies with its client's store |
| `Disconnect`, `Reconnect`, `BrokerAccepts` | mqtt.js and Mosquitto, as the code relies on them |
| `DeviceRepeats`, `DeviceIgnores`, `DeviceExpires`, `DeviceRejects`, `DeviceExecutes` | the five ways out of `handle`, each with `forgetExpired` and `sendAck` |
| `DeviceRestarts` | the firmware restarts and forgets |
| `AckReceived`, `AckTransition`, `AckRecheck` | `acknowledge`, cut at its awaits |
| `AckAbandoned` | its catch: the ACK is logged and forgotten |
| `SweepReads`, `SweepExpires`, `SweepFails` | `expireOverdue`, cut at its awaits, and its poller |

Where two reads of the code make one action, the second is atomic or reads
something that no longer changes: the re-read before `recordLateAck` sees a
terminal status, which is final (`TerminalIsFinal`), and the UPDATE that follows
tests again. Left out: logs, timestamps nobody reads (`sentAt`, `timedOutAt`),
`reportedState`, the text of a refusal, messages that do not parse (dropped
before the domain), and the rejections of `execute` for parameters the catalogue
has already refused.

Operators marked *seeded fault* are not part of the specification: each is a
plausible error in the definition it stands next to, used to show that the
properties notice it.

### Contract

`CommandContract` is the life cycle of ADR 0014 on what a reader sees, the status
and the answer the row keeps, and on what it stands for: whether the device ran
the command (`ran`), whether it has restarted since the beginning (`restarted`),
and whether the answer dates from the time it remembers the command for
(`timely`). It says what a reader may rely on: an acknowledgement of something
that ran, a withdrawal of something that never does, a timeout completed once,
nothing that begins to run once the backend has given up, and, *as long as the
device has not restarted*, no second execution and none after a refusal. It
does not promise that a refused command never ran: `AnsweredRefused` allows it
unless the answer is timely and the device has not restarted, since the memory
of the device is in its RAM (`scripts/device/commandHandler.ts:57`) and ends a
margin after the deadline (`:128-133`). `CommandLifecycle` implements it
(`FollowsContract`) under the mapping written in `Contract`.

### Runs

| run | instance | shows |
|---|---|---|
| `command_solo` | one command, three modes, two failures, two ACK handlers | types, meaning of each conclusion, finality, refinement |
| `command_retry` | a press, its retry with one key, a reused key, an unknown device, a refused command; a second device sending stray ACKs, one failure; the two requests of the press are interchangeable, so the run uses their symmetry | one command per key; *executed* is true, with its inductive strengthening; replies are true |
| `command_liveness` | two commands, a silent device, sweeps of one, two failures | everything concludes |
| `failed_means_not_executed` | one command, a restart | *violated*, see Findings |
| `timeout_means_no_ack` | one command, one failing handler | *violated*, see Findings |

Bounds. Delays are scaled to 0-2 ticks: what matters is the order of
`expires_at`, the sweep's cutoff and the end of the device's memory, and a tick
exists before, at and after each. `MaxTime` goes past the last of them.
`LastSubmit` keeps every deadline inside it. `MaxFaults` is two where a restart
and a lost answer must combine. `MaxConcurrentAcks` two lets two copies of an
ACK interleave. With one command, races are between processes; with two, between
handlers of one key or commands of one sweep; nothing in the code relates three.
The runs stop at their bounds, so deadlock is not checked: a state where nothing
is left to do is a legal end.

`TimeoutNeverRunsLater` is what makes a `TIMEOUT` useful: the user who reads it
may act on what the device does now, nothing changes afterwards. It rests on a
comparison between two machines: the device refuses at `expires_at`, the sweep
waits for the grace delay after it.

Fairness. `FairSpec` asks that time passes, that the sweep runs (its poller
re-arms its timer after success and failure), and that a handler of the API
whose calls do not fail goes on: its promise is settled by the PUBACK, by an
error or by a timer the code sets. Nothing is asked of the network, of the
devices or of the ingester; failures are finitely many. `command_liveness` has
silent devices only, so that nothing but the sweep can conclude.

### Findings

* `FAILED` does not always mean *not executed* (`Command.ts:7`, ADR 0014). The
  device's memory does not survive a restart: a command executed, whose ACK was
  lost, delivered again after `expires_at` to the restarted device, is answered
  `expired`. `FailureIsTrueWithinMemory` is what does hold. The panel of the phone
  passes the statement on: for such a command `commandStatus.ts` says that it was
  not executed. `ClaimIsTrue` (section 5) states under which conditions that text
  is true.
* `TIMEOUT` does not always mean *no ACK in time* (`Command.ts:9`). An ACK whose
  handling meets a database error is forgotten, since mqtt.js has already
  acknowledged it to the broker.

### Theorems

`CommandLifecycleProofs`, for any requests, devices, delays and number of
failures, from the named assumptions of `CommandLifecycle`:

* `TypeCorrect`: the type invariant, inductive by itself, one lemma per process;
* `AnswerCorrect`, `TerminalCorrect`: `AnswerMatchesStatus` is inductive, and
  with it no step changes a conclusion. Both follow from `RowStep`: whichever
  process takes a step, a row is unchanged, created, moved from an open status,
  concluded by an ACK or completed by a late one;
* `OneCommandCorrect`: a row is only created when no row holds its key;
* `ExecutedCorrect`: *executed* is true. It is not inductive: the row takes the
  word of a handler, which took it from a message, which came from the device's
  memory. `WordOfTheDevice` says that at each of these places an *executed* is
  witnessed by an execution in time, and that nothing moves for a command before
  its row, hence its deadline, exists. TLC checks it in `command_retry`.

`CommandConclusionsProofs` goes on from there, with the inductive invariant
`CInv`. To the types, `WordOfTheDevice` and `AnswerMatchesStatus` it adds:

* `Ledger`: a command leaves a trace at each place it passes through (stage of
  its handler, publication, store of the client, broker, device), so that a
  command that was never published is nowhere. Hence `ReplyCorrect`,
  `UnsentCorrect`;
* `GivenUp`: what the worker gives up, or is about to, is past its deadline *and*
  the grace delay. Time only moves forward and the device compares its clock to
  the deadline: hence `TimeoutCorrect`;
* `Remembered`: of what it ran in this boot, the device remembers all but
  commands too old to be executed again. Hence `OneExecutionCorrect`;
* `RefusalsHold`: at each place a refusal passes through (memory, message,
  handler, row, late answer), a refusal given before any restart and within the
  memory of the device is of a command that did not run and will not. Hence
  `FailureCorrect`,
  whose two hypotheses are those without which the run
  `failed_means_not_executed` finds a counterexample.

`ContractCorrect` is the refinement. `RowChanges` sorts the steps by what they do
to the rows: nothing, or one of six changes of one row (created, sent,
withdrawn, timed out, concluded, completed late), each of which is a step of
`CommandContract` (`ContractRow`). An answer that is kept is timely exactly when it
dates from within the memory of the device, and then, before a restart,
`RefusalsHold` says that a refused command did not run. An execution is its step
`Run` (`ContractRun`), which the contract forbids once the backend has given up:
this is where `GivenUp` is used; and which it forbids to a device that has not
restarted when the command ran or was refused: `RunsFirst`, by `Remembered` and
`RefusalsHold`. A restart of a device is `Restart` of all its commands
(`ContractRestart`). Any other step is a stutter.

Model-checked only: `EventuallyConcluded`, `EventuallyAnswered`.

## 4. Consolidation

### State

| variable | code |
|---|---|
| `clock` | the time, one for the ingesters and the worker |
| `inserting`, `journal` | `raw_events`: events whose insertion is on its way, then visible |
| `measurements`, `alerts` | the tables; a measurement keeps the fields the decisions read |
| `deadLetters`, `checkpoint` | `dead_letters` by event, the saved cursor (`None` is no document) |
| `stage` | where the worker stands between two awaits of `tick`, `processEvent`, `consolidate` and `evaluate` |
| `stopping`, `cursor`, `loaded` | `stopped`, `cursor`, `cursorLoaded` of the poller |
| `batch`, `full`, `current`, `metric`, `lastDone`, `failed` | the locals of a tick: events left, whether to read again, the event and its metric, the last event done, `permanentFailure` |
| `faults`, `evaluated` | observations: a bound, and which readings had their alert evaluated to the end |

### Actions

| action | code |
|---|---|
| `HandleMeasurementMessage`, `Inserted`, `InsertionLost` | the ingesters: the event is dated, then inserted, later or never |
| `StartTick`, `Load`, `Read`, `Count` | a tick: cursor, next batch behind the settle delay, the gauge at the end |
| `StartEvent`, `FinishEvent`, `EndBatch` | the `for` over the batch and what follows it |
| `Save`, `Salvage` | the save of the cursor after a batch, and the one of the `finally` when an event threw |
| `Reject`, `RejectUnknownDevice`, `Store`, `EndMetrics` | `consolidate` for each metric: rules, foreign key, insertion |
| `RecordDeadLetter` | the event is set aside, with its reason |
| `EvaluateNone`, `OpenAlert`, `RecordOngoing`, `Resolve`, `ResolveToReopen` | `AlertService.evaluate`, one action per write |
| `CallFails`, and `Throw` in the actions that write | a call throws, before or after its write is applied |
| `Crash`, `Stop`, `Exit`, `Start` | the process |

The worker is alone to write these tables, so a read and the write it decides
are one action; what can fall in between is a failure, which `CallFails` takes.

`ReadingRules` holds `isPlausibleValue`, `decideMeasurement`, `breachOf`,
`hasRecovered` and `decideAlertTransition` on integers. The thresholds are those
of one build: the code reads the threshold kept in the open alert, and a change of
the constants of `composition.ts` between two deployments, while an alert is
open, is not represented. `AlertContract` is what
ADR 0015 promises of one stream: an alert opens, goes on and is resolved, in
this order, by readings ever more recent.

### Runs

| run | instance | shows |
|---|---|---|
| `consolidation_alerts` | one sensor, three of twelve readings in any order of arrival, batches of two, one failure or crash | one open alert, true, repaired by the next reading; the order of storage; refinement of the contract |
| `consolidation_journal` | five messages: two metrics, an implausible value, a copy with another date, an unregistered device, two unreadable ones; insertions up to one tick late, two failures, crashes or stops | nothing is skipped, with its inductive strengthening; the saved cursor moves forward |
| `consolidation_liveness` | the same messages, two events, batches of one | each event is settled and passed |
| `only_the_date_is_lost` | one sensor, two readings, one failure | *violated*, see Findings |

Bounds. Thresholds 2 and 5 with a margin of 1 leave a value on each side of
every comparison (1, 4, 5, 6), and the order of arrival of three dated readings
covers late, repeated and regular ones. `Settle` and `InsertDelay` of one tick,
and insertions over two ticks, let an event become visible just before the
horizon reaches it; three events over batches of two make a full batch and a
partial one. Two failures are needed for a throw followed by the failure of the
save that salvages its batch. The worker always has a step to take, so deadlock
is checked.

Fairness. `FairSpec` asks that time passes, that an insertion which has started
ends (or is lost), that the worker, whose timer is re-armed in a `finally`, goes
on, and that its orchestrator restarts it. Messages and failures are owed
nothing.

### Findings

* "At worst the exact date of the opening is lost" (ADR 0015) when the alert of
  a stored reading is not written. If the next reading is back to normal, no
  alert ever tells of the breach: the replay sees a duplicate, which is not
  evaluated. `AlertMatchesLatest` is the self-repair that does hold.

### Theorems

For any messages, thresholds, devices, delays, batch size and number of
failures, from the named assumptions of `ReadingRules` and `Consolidation`;
`SettleAssumption` (no insertion takes longer than the settle delay) is used at
one place, `BatchInserted`.

* `TypeCorrect`. Inductive with `ReadingInOrder`: an alert is evaluated for a
  reading that is in the table, and opened for one that breaches.
* `OneOpenAlertCorrect`. The unique key makes `OneOpenAlert` inductive over the
  types: an opening finds the key free, the other writes replace its one holder.
* `StoredInOrderCorrect`. A reading is compared to the latest row only; that it
  is later than all of them needs `HasLatest`, which each insertion preserves.
* `NothingSkippedCorrect`, `CheckpointMovesForwardCorrect`. Neither is
  inductive. `WorkInOrder` adds where the work in hand stands: events on their
  way into the journal lie beyond every position the worker knows (`Timely`),
  the saved cursor is not beyond the one in memory, which is before the last
  event done, which is before the batch (`CursorInOrder`), nothing unsettled
  lies before them outside the batch (`BatchInOrder`), and what was done of the
  current event is in the tables (`EventInOrder`). That a read takes an initial
  part of the candidates is a counting argument (`BatchRead`).
  `WorkInOrderCorrect` is checked by TLC in `consolidation_journal` too.

* `AlertsAreTrueCorrect`, `AlertMatchesLatestCorrect`, in
  `ConsolidationAlertProofs`. The inductive invariant `AInv` says that each alert
  is founded on readings of its stream, and every date it shows is the date of
  one (`Truth`); and, while an alert is evaluated, that the reading is the last
  of its stream, not evaluated yet and more recent than what the alerts of the
  stream have seen (`EvaluationInOrder`), including between the two writes of
  `ResolveToReopen`. It holds whether a call threw before or after its write
  was applied.
* `AlertContractCorrect`: each write of the table of alerts, by whichever path,
  is a step of `AlertContract` on one stream, every other step a stutter.

`AlertsAreTrue` also counts on `MarginAssumption`: a margin is not wider than
the range between the two thresholds, so that a value beyond one threshold is
back over the margin of the other. Without it, an alert closed because the
value jumped to the opposite breach could be closed by a reading that has not
recovered. The code does not test it; the thresholds of
`backend/src/composition.ts:38-41` satisfy it by far.

Model-checked only: `EventuallySettled`.

## 5. MobileCommand

The hook of the command panel, above `CommandContract`.

| variable | code |
|---|---|
| `status`, `answer`, `timely`, `ran`, `restarted` | the rows and the device, as the contract describes them; the row of a press is named by its idempotency key |
| `ventilation` | the state of the device: what the last command it ran since it started told it, off before |
| `generation`, `mounted`, `phase` | the refs and the state of `useDeviceCommand` |
| `job` | one per press: the calls of `send` and `track`, which go on after the press that follows. `polls` and `watches` count the turns of the loop, in place of the two dates it compares |
| `posted` | keys of the requests that left on behalf of each press, which may all still arrive |
| `wire` | the answer to the call a press waits for, read from the row at one instant, received at another or never |
| `made`, `unsettled` | observations: rows created for a press; presses the user left without an outcome |

| action | code |
|---|---|
| `Press` | a button that is not disabled, and `send` up to its first request |
| `PostAnswered`, `PostUnanswered`, `PostRefused`, `Retry` | the ways out of `sendCommand`: a command, no answer (tried again, or the error that says nobody knows), an error of the server |
| `Continue` | the head of the loop of `track`: poll, poll slowly for a late ACK, suspend, stop |
| `Wake`, `FetchAnswered`, `FetchFails` | the rest of a turn |
| `Unmount` | the screen is left; what is under way finds `mounted` false |
| `PostArrives`, `Read` | the API: a request may arrive after its press gave up |
| `RowMoves`, `DeviceRuns` | the steps of the contract, with no guard of their own: a command that ran may be refused, or run again after a restart |
| `DeviceRestarts` | the device of the panel restarts: its ventilation is off (`simulate-devices.ts:362`) and what it remembered is lost |

The run `mobile_command` has two presses, on then off, one retry, one poll of
each kind before its limit. A second press is what it takes for answers of two
generations to cross, one retry for two requests to carry one key, one poll for
a reading to be overtaken by a limit. It checks that a press makes one command
at most, that what is displayed is of the last press, what each claim of
`describeCommand` says of the row and of the device, that a display never goes
back, and that presses and their tracking end. The device may restart at any
time.

`ClaimIsTrue` takes the claims one by one. *Executed* and *not sent* are true
whatever restarts and whatever is forgotten, as long as they are displayed. A
refusal (*rejected*, *expired*, also late), which the panel words as *not
executed*, is the word of the device: it is true if the device has not restarted
and if it answered within its memory of the command. Both conditions are needed:
without either, the run finds what `failed_means_not_executed` finds in the
pipeline.

`ConfirmedStateIsReal` says when *ventilation on* may be believed: if the user
never went on after an error or a suspended tracking and the device has not
restarted, the state that is confirmed is the state of the device. The disabled
buttons are what keeps two opposite commands from being in flight together:
without an outcome, the first may be executed after the second, and nothing in
the protocol orders them. A restart turns the ventilation off behind a confirmed
*on*, and lets an earlier command run again.

Fairness. Timers fire and a call of the phone ends with an answer or with an
error; the backend and the device owe nothing.

### Theorems

`MobileCommandProofs`, for any numbers of presses, retries and polls, from
`BoundsAssumption`. One inductive invariant, `IInv`, carries the first five
theorems:

* `RowTrue`, `RowMade`: a row says what happened to its command, a refusal under
  the two conditions above, and exists if and only if it was made for the press
  whose key it has;
* `JobOK`, `WireOK`: the command a job holds, and the answer on its way to it,
  are *readings*: what the row of that press was at some instant. A row only
  moves `Forward`, which is transitive, so that a reading stays one while the
  row moves, and a later answer is forward of an earlier one;
* `ShownOK`: the display is a reading of the last press, the one its job holds
  as long as it runs.

`ShownIsOfTheLastPress` and `ClaimIsTrue` are read off it, `OneCommandPerPress`
off the rows, and `ShownMovesForward` follows since a step replaces the display
by the same reading or by the answer of the job.

`ConfirmedStateCorrect` needs the past of the presses as well. `LastPressRules`
adds that a press the user left with a conclusion has a command that is
concluded, which runs no more before a restart, so that, as long as the device
has not restarted and no press was left without an outcome, the last command
that ran is that of the last press. TLC checks it on the instance of
`mobile_command`.

Model-checked only: `PressEnds`, `TrackingEnds`.

## 6. Screens

| variable | code |
|---|---|
| `world`, `online` | the version of the data on the server; whether calls are answered, and not with an error |
| `screen` | the store and what `App` mounts |
| `data`, `asOf`, `loading`, `error`, `alertsUnavailable` | the state of the mounted screen, one part per payload: rooms, measurements, alerts, history |
| `reading` | entries of the cache that are still being read |
| `loads` | calls of `load` that have not settled, of the mounted screen or of one that was left |
| `cache` | AsyncStorage, one entry per payload |

`StartLoad` is the beginning of `load`, for each of its triggers: `Opens`,
`Timer`, `Foreground`, `ComesBack`, `Asks`. `ListSettles`, `RoomSettles` and
`HistorySettles` are its end on each screen, `LeftSettles` the end of a load
whose screen is gone, which still writes the cache. `CacheRead` is the answer of
`readCache`. A date is the version of the data at that moment: two dates differ
exactly when something changed in between. One room and one metric stand for
all, since a screen that opens another one reads other entries and shares
nothing else with it.

The run `screens` lets two loads overlap, over two versions and three openings.
Nothing in the code cancels a load or numbers its answers, so an older answer may
win; `OlderOnlyByOverlap` says that this is the only way, in particular that
the cache never replaces an answer of the server, and `EventuallyUpToDate` that
a room or a list that stays open repairs it. Deadlock is not checked: the
history, which has no timer, may have nothing left to do.

`online` is coarser than the network: a server that answers with an error (500,
or 401 once the session is over) counts as one that cannot be reached. What
follows a failed load is the same code; but a failure that happens while the
network is up, and is over without a reconnection, appears as one that ends with
`ComesBack`. `EventuallyUpToDate` therefore speaks of a phone whose calls succeed
from some moment on, and there it is the timer that brings the data.

Fairness. A load progresses or the timer fires, as long as the application runs;
the network and the user owe nothing, and the cache may never answer.

Read in the model, without a property of its own: an error screen may cover data
that are there. A load fails, nothing is on the screen, `error` is set; then the
cache, or a load that overlaps it, brings data, and nothing but the next load
clears the error. `RoomListScreen.tsx:55-57` wants an error only when there is
nothing to show. On the list and on a room the next refresh repairs it
(`EventuallyUpToDate`); the history waits for its button.

### Theorems

`ScreensProofs`, for any numbers of versions, loads and openings, from
`BoundsAssumption`. The inductive invariant `SInv` adds to the
invariants of the run:

* `MountedIsShown`: a load that was not left is one of the screen on display;
* `NothingFromTheFuture`: no data, cache or answer is newer than the server;
* `AlertsCovered`: `AlertsNeverSilent` before the room has anything to show.
  Without it the cache of the measurements could bring the room on the screen
  while nothing accounts for its alerts;
* `AnswersInOrder`: an answer that no later load overtook is at least as recent
  as all its screen shows and all its cache may still bring. With it, only an
  overtaken answer may be older than what it replaces
  (`OlderOnlyByOverlapCorrect`).

Model-checked only: `LoadingEnds`, `EventuallyUpToDate`.

## 7. History and Rooms

`History` holds pure operators on integers: `ResolveHistoryRange`,
`ResolveBucket`, the aggregation of the SQL query (`Rows`), what the route
answers (`HistoryOf`) and where the chart draws it (`XForTime`). What is expected
of them is stated apart: `InFewRows`, `CountsEach`, `BarsApart`. `MCRooms` also
checks that the constants of `history.ts` satisfy `SizesAssumption`.

| variable of `Rooms` | code |
|---|---|
| `now`, `stored`, `roomOf` | the time, the table of measurements, `Device.roomId` |
| `scan` | `ScanDeviceScreen` of each phone: `locked` and `outcome`; while it is open and locked without outcome, it submits |
| `call` | associations under way, also those whose screen was left |
| `list` | one GET `/rooms`: which rooms had their devices read, and which devices are still to be judged |
| `scans` | a bound |

| action | code |
|---|---|
| `StartScan`, `Submit`, `Retry`, `StopScan` | the scan screen |
| `Associate`, `Refuse` | the route and its service, whose reads only decide the refusals: devices and rooms are never deleted |
| `Answered`, `Unanswered`, `Lost` | the way back, and requests given up |
| `AskRooms`, `ReadDevices`, `ReadLatest`, `AnswerRooms` | `roomHasSilentDevice` of every room, concurrently, cut at its awaits |
| `Measure` | the consolidation stores a measurement, later than the others of its metric, dated by the device: before the clock of the API or after it |

The run `rooms` has two devices, two rooms (interchangeable, hence a symmetry),
three measurements, two scans, and histories of two buckets over nine ranges:
default, given, too long, empty, aligned and not. Sizes 1, 2 and 4 make the
choice of the bucket fall on each of them. `SilentIsSignalled` is restricted to
devices that neither move nor measure during the request: one that moves between
the reads of the two rooms may be counted in neither, or in both.

Read in the model, without a property of its own:

* the first bar of the chart is that of an interval begun before the window: its
  slot is -1, kept within the chart at 0, where the second bar is. Windows are
  practically never aligned, so two bars overlap on almost every chart, and the
  comments of `DeviceHistoryScreen.tsx:16-18` and `:140-142` do not hold for
  them. `BarsApart` says that they hold for all others but one that begins at
  the very end of the window;
* "Annuler" while a code is submitted leaves the request on its way: it may be
  handled after a later one and take the device back. `AssociatedIsTrue` states
  what a success means with that allowed for.

### Theorems

`RoomsProofs`, for any devices, rooms, users, sizes of buckets, ranges and numbers
of measurements, from `SizesAssumption` and `RoomsAssumption`. Nothing of this
component is model-checked only.

* `HistoryCorrect` needs no invariant but the types: it is a theorem about
  `History`. `ResolveBucket` takes a smallest size, which exists (`SmallestIs`;
  the library's induction takes an operator as a parameter, so the minimum of a
  set of naturals is got from the well-foundedness of the inclusion of the
  intervals `0..n`). The rows of an answer start at different multiples of the
  bucket, of which the window holds few (`FewRows`, by an injection into an
  interval); each measurement is of the one row its quotient names
  (`EachIsCounted`); and the slots of two rows, but the exceptions `BarsApart`
  names, differ (`BarsAreApart`).
* `AssociatedCorrect`, from `ScanInv`: a screen waits for a call about its own
  room and for one at most, and what was done is still there unless a later
  association overtook it, from the route to the answer to the screen.
* `SilentCorrect`, from `ListInv`: until the room of a steady device is judged,
  the device is still to be read and silent at the date its room will be judged
  at (`SteadyIsSeen`). A measurement of another device changes nothing to it,
  a move between two rooms neither.

TLC checks `RInv`, the conjunction of both, on the instance of `rooms`.

## 8. Not modelled

Authentication and roles, login, configuration, logging, dashboards, operation
scripts, styles and texts: sequential or stateless code, or pure input and
output. The routes that list the devices, the latest measurements or the alerts
of one room read one or two tables and keep nothing. Topics and QR codes are
names of devices here, and simulated telemetry is any measurement.

Of what is modelled, some things are left out on purpose: the expiry of the
journal's events (weeks, against a settle delay of a second), clocks that
disagree (the code supposes NTP), an event whose processing fails for ever,
which stops the consolidation and which ADR 0013 accepts, and the order of two
states set in one render (React applies them together).
