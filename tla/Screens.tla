------------------------------- MODULE Screens -------------------------------
(***************************************************************************)
(* The screens of the mobile application that show data of the API: the    *)
(* list of rooms, the detail of one and the history of a metric.  A screen *)
(* loads when it opens, when the application comes back to the front, on a *)
(* timer, on a reconnection and on demand: nothing keeps two loads from    *)
(* overlapping, nor a load from outliving its screen.  Under them, a cache *)
(* that survives the application.                                          *)
(*                                                                         *)
(* What the API answers is the version of the data it read, and a date is  *)
(* the version the data had then: time is told by what changes.            *)
(***************************************************************************)
EXTENDS Naturals

CONSTANTS
  (* Bounds of the model, not of the code: *)
  MaxVersion,   \* versions of the data on the server
  Slots,        \* loads in flight
  MaxOpenings   \* lists and rooms opened one after the other

ASSUME BoundsAssumption == MaxVersion \in Nat \ {0} /\ MaxOpenings \in Nat

(* What a screen shows, and which of it decides whether it has data. *)
Parts == {"rooms", "latest", "alerts", "history"}
MainPart == [list |-> "rooms", room |-> "latest", history |-> "history"]
PartsOf == [list |-> {"rooms"}, room |-> {"latest", "alerts"}, history |-> {"history"}]
Screens == DOMAIN PartsOf

(* Screens that refresh by themselves. *)
Refreshed == {"list", "room"}

VARIABLES
  world,        \* version of the data on the server
  online,       \* the calls of the phone are answered, and not with errors
  screen,       \* the one that is mounted
  openings,     \* how many were (bounded by MaxOpenings)
  data, asOf,   \* its data and their dates: rooms, measurements, alerts, history
  loading, error, alertsUnavailable,
  reading,      \* parts whose cache entry is still being read
  loads,        \* in flight, of this screen or of one that was left
  cache

mountVars == <<data, asOf, loading, error, alertsUnavailable, reading>>
vars == <<world, online, screen, openings, mountVars, loads, cache>>

(* A version, and when the answer that holds it came (observed only). *)
Versions == 1..MaxVersion
Data == [version : Versions, at : Versions]
NoData == [version |-> 0, at |-> 0]
Entry == [data : Data, cachedAt : Versions]
NoEntry == [data |-> NoData, cachedAt |-> 0]

(* `overtaken` (observed only): another load of the screen settled since.  *)
Load == [screen : Screens, mounted : BOOLEAN, answer : 0..MaxVersion,
         overtaken : BOOLEAN]
Free == [screen |-> "none", mounted |-> FALSE, answer |-> 0, overtaken |-> FALSE]
InFlight == {i \in Slots : loads[i] # Free}

Init ==
  /\ world = 1
  /\ online \in BOOLEAN
  /\ screen = "login" /\ openings = 0
  /\ data = [p \in Parts |-> NoData] /\ asOf = [p \in Parts |-> 0]
  /\ loading = TRUE /\ error = FALSE /\ alertsUnavailable = FALSE
  /\ reading = {}
  /\ loads = [i \in Slots |-> Free]
  /\ cache = [p \in Parts |-> NoEntry]

HasData == data[MainPart[screen]] # NoData

-----------------------------------------------------------------------------
(* What is displayed *)

View == IF loading THEN "loading" ELSE IF error THEN "error" ELSE "main"

ListView == screen = "list" /\ View = "main"
RoomView == screen = "room" /\ View = "main"
HistoryView == screen = "history" /\ View = "main"

-----------------------------------------------------------------------------
(* Loads *)

NextSlot == CHOOSE i \in Slots : i \notin InFlight
Launched(s) == [Free EXCEPT !.screen = s, !.mounted = TRUE]

(* Seeded fault: the error of the previous load is not cleared. *)
StartLoadWithError ==
  /\ InFlight # Slots
  /\ loads' = [loads EXCEPT ![NextSlot] = Launched(screen)]
  /\ loading' = ~HasData
  /\ UNCHANGED <<data, asOf, error, alertsUnavailable, reading, cache, screen, openings>>

(* The beginning of `load`, by whatever triggers it. *)
StartLoad ==
  /\ InFlight # Slots
  /\ loads' = [loads EXCEPT ![NextSlot] = Launched(screen)]
  /\ loading' = ~HasData
  /\ error' = FALSE
  /\ UNCHANGED <<data, asOf, alertsUnavailable, reading, cache, screen, openings>>

(* The API reads what a load asks for: both requests of a room at once, no *)
(* property relates the two. *)
Reads(i) ==
  /\ online
  /\ i \in InFlight
  /\ loads[i].answer = 0
  /\ loads' = [loads EXCEPT ![i].answer = world]
  /\ UNCHANGED <<world, online, screen, openings, mountVars, cache>>

Fresh(i) == [version |-> loads[i].answer, at |-> world]

(* Seeded fault: the body of an answer that is not ok is taken for data.   *)
SettledUnchecked(i, fulfilled) ==
  /\ online => fulfilled = PartsOf[loads[i].screen]
  /\ loads' = [loads EXCEPT ![i] = Free]

(* The requests of a load have settled, those of `fulfilled` with a value: *)
(* a call is only lost while the server cannot be reached, which here      *)
(* includes a server that answers with an error (500, 401). *)
Settled(i, fulfilled) ==
  /\ loads[i].answer = 0 => fulfilled = {}
  /\ online => fulfilled = PartsOf[loads[i].screen]
  /\ loads' = [j \in Slots |->
       IF j = i THEN Free
       ELSE [loads[j] EXCEPT !.overtaken =
               @ \/ (loads[j].mounted /\ loads[j].screen = loads[i].screen)]]

(* writeCache, also by the load of a screen that was left.  It is best      *)
(* effort: what cannot be written or read back is a read without entry. *)
WriteCache(i, fulfilled) ==
  cache' = [p \in Parts |-> IF p \in fulfilled
                            THEN [data |-> Fresh(i), cachedAt |-> world]
                            ELSE cache[p]]

Shown(i, fulfilled) ==
  /\ data' = [p \in Parts |-> IF p \in fulfilled THEN Fresh(i) ELSE data[p]]
  /\ asOf' = [p \in Parts |-> IF p \in fulfilled THEN world ELSE asOf[p]]

(* The main request failed: an error screen, unless there is data to keep. *)
Fails(s, fulfilled) ==
  error' = (error \/ (MainPart[s] \notin fulfilled /\ ~HasData))

(* Seeded fault: the alerts that could not be loaded are not mentioned. *)
RoomSettlesQuietly(i) ==
  /\ loads[i].screen = "room" /\ loads[i].mounted
  /\ \E fulfilled \in SUBSET {"latest", "alerts"} :
       /\ Settled(i, fulfilled) /\ WriteCache(i, fulfilled)
       /\ Shown(i, fulfilled) /\ Fails("room", fulfilled)
  /\ loading' = FALSE
  /\ UNCHANGED <<alertsUnavailable, reading>>

(* Seeded fault: the waiting ends with a success only. *)
ListSettlesOnSuccess(i) ==
  /\ loads[i].screen = "list" /\ loads[i].mounted
  /\ \E fulfilled \in {{}, {"rooms"}} :
       /\ Settled(i, fulfilled) /\ WriteCache(i, fulfilled)
       /\ Shown(i, fulfilled) /\ Fails("list", fulfilled)
       /\ loading' = (loading /\ fulfilled = {})
  /\ UNCHANGED <<alertsUnavailable, reading>>

ListSettles(i) ==
  /\ loads[i].screen = "list" /\ loads[i].mounted
  /\ \E fulfilled \in {{}, {"rooms"}} :
       /\ Settled(i, fulfilled) /\ WriteCache(i, fulfilled)
       /\ Shown(i, fulfilled) /\ Fails("list", fulfilled)
  /\ loading' = FALSE
  /\ UNCHANGED <<alertsUnavailable, reading>>

(* Two requests, each with its own outcome. *)
RoomSettles(i) ==
  /\ loads[i].screen = "room" /\ loads[i].mounted
  /\ \E fulfilled \in SUBSET {"latest", "alerts"} :
       /\ Settled(i, fulfilled) /\ WriteCache(i, fulfilled)
       /\ Shown(i, fulfilled) /\ Fails("room", fulfilled)
       /\ alertsUnavailable' = ("alerts" \notin fulfilled)
  /\ loading' = FALSE
  /\ UNCHANGED reading

HistorySettles(i) ==
  /\ loads[i].screen = "history" /\ loads[i].mounted
  /\ \E fulfilled \in {{}, {"history"}} :
       /\ Settled(i, fulfilled) /\ WriteCache(i, fulfilled)
       /\ Shown(i, fulfilled) /\ Fails("history", fulfilled)
  /\ loading' = FALSE
  /\ UNCHANGED <<alertsUnavailable, reading>>

(* The screen is gone: only the cache keeps the answers. *)
LeftSettles(i) ==
  /\ i \in InFlight /\ ~loads[i].mounted
  /\ \E fulfilled \in SUBSET PartsOf[loads[i].screen] :
       Settled(i, fulfilled) /\ WriteCache(i, fulfilled)
  /\ UNCHANGED mountVars

LoadSettles(i) ==
  /\ ListSettles(i) \/ RoomSettles(i) \/ HistorySettles(i) \/ LeftSettles(i)
  /\ UNCHANGED <<world, online, screen, openings>>

-----------------------------------------------------------------------------
(* Triggers *)

(* A press on "retry", or the room pulled down. *)
Asks ==
  /\ screen \in Screens
  /\ View = "error" \/ RoomView
  /\ StartLoad
  /\ UNCHANGED <<world, online>>

(* usePeriodicRefresh: a tick in the background, ignored, is no step. *)
Timer ==
  /\ screen \in Refreshed
  /\ StartLoad
  /\ UNCHANGED <<world, online>>

(* useAppForeground *)
Foreground ==
  /\ screen \in Refreshed
  /\ StartLoad
  /\ UNCHANGED <<world, online>>

(* useNetworkStatus, when the phone notices. *)
ComesBack ==
  /\ ~online
  /\ online' = TRUE
  /\ \/ screen \in Refreshed /\ StartLoad
     \/ UNCHANGED <<screen, openings, mountVars, loads, cache>>
  /\ UNCHANGED <<world>>

GoesOffline ==
  /\ online
  /\ online' = FALSE
  /\ UNCHANGED <<world, screen, openings, mountVars, loads, cache>>

DataChanges ==
  /\ world < MaxVersion
  /\ world' = world + 1
  /\ UNCHANGED <<online, screen, openings, mountVars, loads, cache>>

-----------------------------------------------------------------------------
(* The cache *)

(* Seeded fault: the cache is shown without looking at what is there. *)
CacheShowsAlways(p) ==
  /\ data' = [data EXCEPT ![p] = cache[p].data]
  /\ asOf' = [asOf EXCEPT ![p] = cache[p].cachedAt]
  /\ loading' = FALSE

(* Seeded fault: the date of the cache is set whatever is displayed. *)
CacheDatesAlways(p) ==
  /\ data' = [data EXCEPT ![p] = IF @ = NoData THEN cache[p].data ELSE @]
  /\ asOf' = [asOf EXCEPT ![p] = cache[p].cachedAt]
  /\ loading' = (loading /\ p # MainPart[screen])

(* A cached entry fills what is still empty; only the main one ends the    *)
(* waiting. *)
CacheShows(p) ==
  IF data[p] # NoData THEN UNCHANGED <<data, asOf, loading>>
  ELSE /\ data' = [data EXCEPT ![p] = cache[p].data]
       /\ asOf' = [asOf EXCEPT ![p] = cache[p].cachedAt]
       /\ loading' = (loading /\ p # MainPart[screen])

(* readCache answers: with an entry, or with nothing, on an error too. *)
CacheRead(p) ==
  /\ p \in reading
  /\ reading' = reading \ {p}
  /\ \/ cache[p] # NoEntry /\ CacheShows(p)
     \/ UNCHANGED <<data, asOf, loading>>
  /\ UNCHANGED <<world, online, screen, openings, error, alertsUnavailable, loads, cache>>

-----------------------------------------------------------------------------
(* Navigation: App and its store *)

Emptied ==
  /\ data' = [p \in Parts |-> NoData] /\ asOf' = [p \in Parts |-> 0]
  /\ loading' = TRUE /\ error' = FALSE /\ alertsUnavailable' = FALSE

Left == [i \in Slots |-> [loads[i] EXCEPT !.mounted = FALSE, !.overtaken = FALSE]]

(* A screen is mounted: its state is new, it reads the cache and loads.    *)
Opens(s) ==
  /\ openings < MaxOpenings /\ InFlight # Slots
  /\ openings' = IF s = "history" THEN openings ELSE openings + 1
  /\ screen' = s
  /\ Emptied
  /\ reading' = PartsOf[s]
  /\ loads' = [Left EXCEPT ![NextSlot] = Launched(s)]
  /\ UNCHANGED <<world, online, cache>>

Login == screen = "login" /\ Opens("list")
SelectRoom == ListView /\ HasData /\ Opens("room")
BackToRoomList == screen = "room" /\ Opens("list")
OpenHistory == RoomView /\ HasData /\ Opens("history")
CloseHistory == screen = "history" /\ Opens("room")
StopScan == screen = "scan" /\ Opens("room")

StartScan ==
  /\ screen = "room"
  /\ screen' = "scan"
  /\ Emptied /\ reading' = {}
  /\ loads' = Left
  /\ UNCHANGED <<world, online, openings, cache>>

(* The application is killed: the token and the loads are lost, the cache  *)
(* stays. *)
Killed ==
  /\ screen # "login"
  /\ screen' = "login"
  /\ Emptied /\ reading' = {}
  /\ loads' = [i \in Slots |-> Free]
  /\ UNCHANGED <<world, online, openings, cache>>

Navigation ==
  Login \/ SelectRoom \/ BackToRoomList \/ OpenHistory \/ CloseHistory
    \/ StartScan \/ StopScan \/ Killed

-----------------------------------------------------------------------------

Next ==
  \/ Asks \/ Timer \/ Foreground \/ ComesBack \/ GoesOffline \/ DataChanges
  \/ \E i \in Slots : LoadSettles(i) \/ Reads(i)
  \/ \E p \in Parts : CacheRead(p)
  \/ Navigation

Spec == Init /\ [][Next]_vars

(* The application runs: a load progresses or the timer fires, whichever.  *)
(* The API answers while it can be reached, the other calls fail.  Nothing *)
(* is asked of the user, of the network or of the cache. *)
Fairness == WF_vars(Timer \/ \E i \in Slots : Reads(i) \/ LoadSettles(i))

FairSpec == Spec /\ Fairness

-----------------------------------------------------------------------------
(* Properties *)

TypeOK ==
  /\ world \in Versions /\ online \in BOOLEAN
  /\ screen \in Screens \cup {"login", "scan"} /\ openings \in 0..MaxOpenings
  /\ data \in [Parts -> Data \cup {NoData}]
  /\ asOf \in [Parts -> 0..MaxVersion]
  /\ loading \in BOOLEAN /\ error \in BOOLEAN /\ alertsUnavailable \in BOOLEAN
  /\ reading \subseteq Parts
  /\ loads \in [Slots -> Load \cup {Free}]
  /\ cache \in [Parts -> Entry \cup {NoEntry}]

(* The date on display, and the one in the cache, are those of the data    *)
(* they come with: never the date of another answer. *)
DateGoesWithData ==
  \A p \in Parts : asOf[p] = data[p].at /\ cache[p].cachedAt = cache[p].data.at

(* A failure to load the alerts is never read as "no alert": a room that   *)
(* shows its measurements without any alerts says so, or is still loading  *)
(* them. *)
AlertsNeverSilent ==
  RoomView /\ data["alerts"] = NoData =>
    alertsUnavailable \/ \E i \in InFlight : loads[i].mounted

Older(d1, d2) == d1 # NoData /\ d1.version < d2.version

(* Within a screen, data only gives way to older data when loads overlap:  *)
(* the one that brings it was overtaken by a load that settled before.  In *)
(* particular the cache never replaces an answer of the server. *)
OlderOnlyByOverlap ==
  [][\A p \in Parts :
       Older(data'[p], data[p]) =>
         \E i \in InFlight : loads'[i] = Free /\ loads[i].overtaken]_vars

(* The waiting ends, however many loads begin meanwhile. *)
LoadingEnds == loading ~> ~loading \/ screen \notin Screens

UpToDate == screen \in Screens /\ View = "main" /\ data[MainPart[screen]].version = world

(* A room or the list left open, at the front and online, ends up showing  *)
(* the data of the server and keeps showing them: an error displayed over  *)
(* cached data, or an old answer that came last, does not stay. *)
EventuallyUpToDate == <>[](screen \in Refreshed /\ online) => <>[]UpToDate
=============================================================================
