-------------------------------- MODULE Rooms --------------------------------
(***************************************************************************)
(* Devices, their rooms and their measurements, as the API reads and       *)
(* changes them: a scanned device moves to a room, the list of rooms tells *)
(* which have a silent device, the history of a metric is summed up (see   *)
(* History).  No transaction spans two calls of a repository, so that the  *)
(* list is read while devices move and measure; and an association goes on *)
(* its way when the screen that asked for it is left.                      *)
(***************************************************************************)
EXTENDS History

CONSTANTS
  RoomIds,        \* rooms are only ever created
  Metrics,        \* <<device, type>> that are measured
  Queries,        \* bounds asked of a history
  Users,          \* phones with a scan screen
  Codes,          \* codes that are scanned: of devices, unknown or not ours
  StaleThreshold, \* staleThresholdMs
  (* Bounds of the model, not of the code: *)
  MaxTime,        \* instants
  MaxStored,      \* measurements
  MaxScans,       \* codes read by the scan screens
  Calls           \* associations under way

Devices == {metric[1] : metric \in Metrics}
Times == 0..MaxTime
Measurements == [metric : Metrics, at : Times]

ASSUME RoomsAssumption ==
  /\ StaleThreshold \in Nat /\ MaxTime \in Nat /\ MaxStored \in Nat
  /\ MaxScans \in Nat
  /\ Queries \subseteq [from : Int \cup {Unset}, to : Int \cup {Unset}]

VARIABLES
  now, roomOf, stored,
  scan,     \* the scan screen of each user
  scans,    \* how many codes were read (bounded by MaxScans)
  call,     \* associations under way
  list      \* one request for the list of rooms

vars == <<now, roomOf, stored, scan, scans, call, list>>

(* Observed only: `overtaken`, the device was associated again since.      *)
None == [kind |-> "none"]
Closed == [room |-> "none"]
Opened(r) == [room |-> r, locked |-> FALSE, outcome |-> None]
Free == [user |-> "none"]
UnreadRoom == [read |-> FALSE, at |-> 0, devices |-> {}, silent |-> FALSE]

Init ==
  /\ now = 0
  /\ roomOf \in [Devices -> RoomIds]
  /\ stored = {}
  /\ scan = [u \in Users |-> Closed] /\ scans = 0
  /\ call = [i \in Calls |-> Free]
  /\ list = [stage |-> "idle", rooms |-> [r \in RoomIds |-> UnreadRoom], steady |-> {}]

-----------------------------------------------------------------------------
(* Freshness *)

IsFresh(at, date) == date - at <= StaleThreshold

OfDevice(d) == {m \in stored : m.metric[1] = d}

(* findLatestByDeviceGroupedByType *)
LatestByType(d) ==
  {m \in OfDevice(d) : \A other \in OfDevice(d) : other.metric = m.metric => other.at <= m.at}

IsSilent(d, date) == \E m \in LatestByType(d) : ~IsFresh(m.at, date)

-----------------------------------------------------------------------------
(* Measurements come from the consolidation, each later than those of its  *)
(* metric: see Consolidation!StoredInOrder.  Their date is the device's    *)
(* own, and may be ahead of the clock. *)

Tick ==
  /\ now < MaxTime
  /\ now' = now + 1
  /\ UNCHANGED <<roomOf, stored, scan, scans, call, list>>

Unsteady(d) == list' = [list EXCEPT !.steady = @ \ {d}]

Measure(metric, at) ==
  /\ Cardinality(stored) < MaxStored
  /\ \A m \in stored : m.metric = metric => m.at < at
  /\ stored' = stored \cup {[metric |-> metric, at |-> at]}
  /\ Unsteady(metric[1])
  /\ UNCHANGED <<now, roomOf, scan, scans, call>>

-----------------------------------------------------------------------------
(* ScanDeviceScreen *)

IsOpen(u) == scan[u] # Closed
CallsOf(u) == {i \in Calls : call[i] # Free /\ call[i].user = u /\ call[i].waited}

StartScan(u, r) ==
  /\ ~IsOpen(u)
  /\ scan' = [scan EXCEPT ![u] = Opened(r)]
  /\ UNCHANGED <<now, roomOf, stored, scans, call, list>>

NextCall == CHOOSE i \in Calls : call[i] = Free

(* Seeded fault: the screen is not locked by its first reading. *)
SubmitUnlocked(u, code) ==
  /\ IsOpen(u)
  /\ scan[u].outcome = None
  /\ \E i \in Calls : call[i] = Free
  /\ scans < MaxScans /\ scans' = scans + 1
  /\ call' = [call EXCEPT ![NextCall] =
       [user |-> u, room |-> scan[u].room, code |-> code, waited |-> TRUE,
        answer |-> "none", overtaken |-> FALSE]]
  /\ UNCHANGED <<now, roomOf, stored, scan, list>>

(* The camera reads a code, over and over, or one is typed in. *)
Submit(u, code) ==
  /\ IsOpen(u)
  /\ ~scan[u].locked /\ scan[u].outcome = None
  /\ \E i \in Calls : call[i] = Free
  /\ scans < MaxScans /\ scans' = scans + 1
  /\ scan' = [scan EXCEPT ![u].locked = TRUE]
  /\ call' = [call EXCEPT ![NextCall] =
       [user |-> u, room |-> scan[u].room, code |-> code, waited |-> TRUE,
        answer |-> "none", overtaken |-> FALSE]]
  /\ UNCHANGED <<now, roomOf, stored, list>>

(* A request that would be refused is of no consequence once nobody waits  *)
(* for its answer: it is left out. *)
GivenUp(c) ==
  IF c.answer = "none" /\ c.code \in Devices THEN [c EXCEPT !.waited = FALSE] ELSE Free

Showing(u, outcome) == scan' = [scan EXCEPT ![u].outcome = outcome]

(* The answer reaches the screen that waits for it. *)
Answered(i) ==
  /\ call[i] # Free /\ call[i].waited /\ call[i].answer # "none"
  /\ Showing(call[i].user,
       IF call[i].answer = "refused" THEN [kind |-> "refused"]
       ELSE [kind |-> "success", device |-> call[i].code, overtaken |-> call[i].overtaken])
  /\ call' = [call EXCEPT ![i] = Free]
  /\ UNCHANGED <<now, roomOf, stored, scans, list>>

(* The server cannot be reached, fails, or its answer is lost: the request *)
(* may still be on its way. *)
Unanswered(i) ==
  /\ call[i] # Free /\ call[i].waited
  /\ Showing(call[i].user, [kind |-> "unknown"])
  /\ call' = [call EXCEPT ![i] = GivenUp(@)]
  /\ UNCHANGED <<now, roomOf, stored, scans, list>>

Retry(u) ==
  /\ IsOpen(u)
  /\ scan[u].outcome.kind \in {"refused", "unknown"}
  /\ scan' = [scan EXCEPT ![u] = Opened(@.room)]
  /\ UNCHANGED <<now, roomOf, stored, scans, call, list>>

(* "Annuler" at any time, also while a request is under way, or "OK". *)
StopScan(u) ==
  /\ IsOpen(u)
  /\ scan' = [scan EXCEPT ![u] = Closed]
  /\ call' = [i \in Calls |->
       IF i \in CallsOf(u) THEN GivenUp(call[i]) ELSE call[i]]
  /\ UNCHANGED <<now, roomOf, stored, scans, list>>

-----------------------------------------------------------------------------
(* POST /rooms/:id/devices/associate *)

(* What a later association of d does to what was said of the former.      *)
Overtaken(d, i) ==
  /\ call' = [j \in Calls |->
       IF j = i THEN IF call[i].waited THEN [call[i] EXCEPT !.answer = "done"] ELSE Free
       ELSE IF call[j] # Free /\ call[j].code = d /\ call[j].answer = "done"
              THEN [call[j] EXCEPT !.overtaken = TRUE]
              ELSE call[j]]
  /\ scan' = [u \in Users |->
       IF IsOpen(u) /\ scan[u].outcome.kind = "success" /\ scan[u].outcome.device = d
         THEN [scan[u] EXCEPT !.outcome.overtaken = TRUE]
         ELSE scan[u]]

(* Seeded fault: a device that has a room keeps it. *)
AssociateOnce(i) ==
  /\ call[i] # Free /\ call[i].answer = "none"
  /\ call[i].code \in Devices
  /\ Overtaken(call[i].code, i)
  /\ Unsteady(call[i].code)
  /\ UNCHANGED <<now, roomOf, stored, scans>>

(* The last association wins, whatever room the device was in. *)
Associate(i) ==
  /\ call[i] # Free /\ call[i].answer = "none"
  /\ call[i].code \in Devices
  /\ roomOf' = [roomOf EXCEPT ![call[i].code] = call[i].room]
  /\ Overtaken(call[i].code, i)
  /\ Unsteady(call[i].code)
  /\ UNCHANGED <<now, stored, scans>>

(* 400 or 404 *)
Refuse(i) ==
  /\ call[i] # Free /\ call[i].answer = "none"
  /\ call[i].code \notin Devices
  /\ call' = [call EXCEPT ![i] = [@ EXCEPT !.answer = "refused"]]
  /\ UNCHANGED <<now, roomOf, stored, scan, scans, list>>

(* A request that nobody waits for never arrives. *)
Lost(i) ==
  /\ call[i] # Free /\ ~call[i].waited
  /\ call' = [call EXCEPT ![i] = Free]
  /\ UNCHANGED <<now, roomOf, stored, scan, scans, list>>

-----------------------------------------------------------------------------
(* GET /rooms: roomHasSilentDevice of every room, interleaved *)

OnlyList == UNCHANGED <<now, roomOf, stored, scan, scans, call>>

(* `steady` (observed only): silent from the start, neither moved nor      *)
(* measured since. *)
AskRooms ==
  /\ list.stage # "reading"
  /\ list' = [stage |-> "reading", rooms |-> [r \in RoomIds |-> UnreadRoom],
              steady |-> {d \in Devices : IsSilent(d, now)}]
  /\ OnlyList

(* The rest of a room that was judged: nothing is left to read. *)
Judged(silent) == [read |-> TRUE, at |-> 0, devices |-> {}, silent |-> silent]

(* findByRoom, and the date the room is judged at. *)
ReadDevices(r) ==
  /\ list.stage = "reading" /\ ~list.rooms[r].read
  /\ list' = [list EXCEPT !.rooms[r] =
       LET devices == {d \in Devices : roomOf[d] = r} IN
       IF devices = {} THEN Judged(FALSE)
       ELSE [read |-> TRUE, at |-> now, devices |-> devices, silent |-> FALSE]]
  /\ OnlyList

(* Seeded fault: the first device decides for its room. *)
ReadLatestOfFirst(r, d) ==
  /\ list.stage = "reading" /\ d \in list.rooms[r].devices
  /\ list' = [list EXCEPT !.rooms[r] = Judged(IsSilent(d, list.rooms[r].at))]
  /\ OnlyList

(* One device after the other, until one is silent. *)
ReadLatest(r, d) ==
  LET room == list.rooms[r]
      silent == IsSilent(d, room.at) IN
  /\ list.stage = "reading" /\ d \in room.devices
  /\ list' = [list EXCEPT !.rooms[r] =
       IF silent \/ room.devices = {d} THEN Judged(silent)
       ELSE [room EXCEPT !.devices = room.devices \ {d}]]
  /\ OnlyList

AnswerRooms ==
  /\ list.stage = "reading"
  /\ \A r \in RoomIds : list.rooms[r].read /\ list.rooms[r].devices = {}
  /\ list' = [list EXCEPT !.stage = "answered"]
  /\ OnlyList

-----------------------------------------------------------------------------

Next ==
  \/ Tick
  \/ \E metric \in Metrics, at \in Times : Measure(metric, at)
  \/ \E u \in Users :
       \/ \E r \in RoomIds : StartScan(u, r)
       \/ \E code \in Codes : Submit(u, code)
       \/ Retry(u) \/ StopScan(u)
  \/ \E i \in Calls : Answered(i) \/ Unanswered(i) \/ Associate(i) \/ Refuse(i) \/ Lost(i)
  \/ AskRooms \/ AnswerRooms
  \/ \E r \in RoomIds : ReadDevices(r) \/ \E d \in Devices : ReadLatest(r, d)

Spec == Init /\ [][Next]_vars

-----------------------------------------------------------------------------
(* Properties *)

(* Whatever the range that is asked for and the measurements that are      *)
(* stored, the history counts each measurement of the range once, in few   *)
(* enough rows, and the bars that are drawn of it stay apart. *)
HistoryIsFaithful ==
  \A metric \in Metrics, asked \in Queries :
    LET mine == {m \in stored : m.metric = metric}
        h == HistoryOf(mine, asked, now) IN
    InFewRows(h) /\ CountsEach(mine, h) /\ BarsApart(h)

(* A device that is silent from the beginning of a request to its answer,  *)
(* and stays where it is, is signalled by its room, however the reading is *)
(* interleaved with the moves and the measurements of the others. *)
SilentIsSignalled ==
  list.stage = "answered" =>
    \A d \in list.steady : list.rooms[roomOf[d]].silent

(* A scan asks for one association at a time, and what its screen claims   *)
(* is true: the device is in the room, unless it was associated again      *)
(* since, be it by a request that another screen had given up. *)
AssociatedIsTrue ==
  \A u \in Users : IsOpen(u) =>
    /\ Cardinality(CallsOf(u)) <= 1
    /\ LET outcome == scan[u].outcome IN
       outcome.kind = "success" /\ ~outcome.overtaken
         => roomOf[outcome.device] = scan[u].room
=============================================================================
