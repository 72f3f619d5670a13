---------------------------- MODULE ScreensProofs ----------------------------
(***************************************************************************)
(* Proofs about Screens, for any number of versions, loads and openings.   *)
(***************************************************************************)
EXTENDS Screens, TLAPS

(* The loads that are not those of a screen that was left are those of the *)
(* screen that is mounted. *)
MountedIsShown == \A i \in InFlight : loads[i].mounted => loads[i].screen = screen

(* Nothing the phone holds is more recent than the server. *)
NothingFromTheFuture ==
  /\ \A p \in Parts : data[p].version <= world /\ cache[p].data.version <= world
  /\ \A i \in Slots : loads[i].answer <= world

(* AlertsNeverSilent before the screen has anything to show: whatever ends *)
(* the waiting, the cache included, the alerts are accounted for. *)
AlertsCovered ==
  screen = "room" /\ data["alerts"] = NoData =>
    alertsUnavailable \/ \E i \in InFlight : loads[i].mounted

(* An answer that no other load overtook is as recent as all that its      *)
(* screen shows, or may still read from the cache. *)
AnswersInOrder ==
  \A i \in InFlight :
    loads[i].mounted /\ ~loads[i].overtaken /\ loads[i].answer # 0 =>
      \A p \in PartsOf[loads[i].screen] :
        data[p].version <= loads[i].answer /\ cache[p].data.version <= loads[i].answer

SInv ==
  TypeOK /\ DateGoesWithData /\ MountedIsShown /\ NothingFromTheFuture /\ AlertsCovered /\ AnswersInOrder

-----------------------------------------------------------------------------
(* Loads *)

LEMMA ScreenParts ==
  /\ Screens = {"list", "room", "history"}
  /\ "none" \notin Screens /\ "scan" \notin Screens /\ "login" \notin Screens
  /\ PartsOf["list"] = {"rooms"} /\ PartsOf["room"] = {"latest", "alerts"}
  /\ PartsOf["history"] = {"history"}
  BY DEF Screens, PartsOf

LEMMA FreeIs ==
  /\ Free.screen = "none" /\ Free.mounted = FALSE /\ Free.answer = 0 /\ Free.overtaken = FALSE
  /\ Free \notin Load
  <1>1. Free.screen = "none" /\ Free.mounted = FALSE /\ Free.answer = 0 /\ Free.overtaken = FALSE
    BY DEF Free
  <1>2. \A l \in Load : l.screen \in Screens
    BY DEF Load
  <1> QED BY <1>1, <1>2, ScreenParts

(* Records like Free are Free. *)
LEMMA LikeFree ==
  ASSUME NEW l \in [screen : {"none"}, mounted : {FALSE}, answer : {0}, overtaken : {FALSE}]
  PROVE  l = Free
  <1>1. l = [screen |-> l.screen, mounted |-> l.mounted, answer |-> l.answer, overtaken |-> l.overtaken]
    OBVIOUS
  <1>2. l.screen = "none" /\ l.mounted = FALSE /\ l.answer = 0 /\ l.overtaken = FALSE
    OBVIOUS
  <1> QED BY <1>1, <1>2 DEF Free

LEMMA FreeKept ==
  /\ [Free EXCEPT !.mounted = FALSE, !.overtaken = FALSE] = Free
  /\ [Free EXCEPT !.overtaken = FALSE] = Free
  <1> DEFINE S == [screen : {"none"}, mounted : {FALSE}, answer : {0}, overtaken : {FALSE}]
  <1>1. [Free EXCEPT !.mounted = FALSE, !.overtaken = FALSE] \in S
    BY DEF Free
  <1>2. [Free EXCEPT !.overtaken = FALSE] \in S
    BY DEF Free
  <1> QED BY <1>1, <1>2, LikeFree

LEMMA LoadIs ==
  ASSUME NEW l \in Load
  PROVE  /\ l.screen \in Screens /\ l.mounted \in BOOLEAN /\ l.overtaken \in BOOLEAN
         /\ l.answer \in 0..MaxVersion
  BY DEF Load

LEMMA LoadTypes ==
  ASSUME TypeOK, NEW i \in Slots
  PROVE  /\ i \in InFlight <=> loads[i] # Free
         /\ i \in InFlight => loads[i] \in Load /\ loads[i].screen \in Screens
         /\ loads[i].mounted \in BOOLEAN /\ loads[i].overtaken \in BOOLEAN
         /\ loads[i].answer \in 0..MaxVersion
         /\ loads[i] = Free => loads[i].mounted = FALSE /\ loads[i].answer = 0
  <1>1. loads[i] \in Load \cup {Free}
    BY DEF TypeOK
  <1>2. i \in InFlight <=> loads[i] # Free
    BY DEF InFlight
  <1>3. 0 \in 0..MaxVersion
    BY BoundsAssumption
  <1> QED BY <1>1, <1>2, <1>3, FreeIs, LoadIs

LEMMA LaunchedIs ==
  ASSUME NEW s \in Screens
  PROVE  /\ Launched(s) \in Load /\ Launched(s) # Free
         /\ Launched(s).screen = s /\ Launched(s).mounted = TRUE
         /\ Launched(s).answer = 0 /\ Launched(s).overtaken = FALSE
  <1>1. Launched(s) \in [screen : {s}, mounted : {TRUE}, answer : {0}, overtaken : {FALSE}]
    BY DEF Launched, Free
  <1>2. 0 \in 0..MaxVersion
    BY BoundsAssumption
  <1>3. Launched(s) \in Load
    BY <1>1, <1>2 DEF Load
  <1> QED BY <1>1, <1>3, FreeIs

LEMMA NextSlotIsFree ==
  ASSUME InFlight # Slots
  PROVE  NextSlot \in Slots /\ NextSlot \notin InFlight
  BY DEF NextSlot, InFlight

LEMMA LeftIs ==
  ASSUME TypeOK, NEW i \in Slots
  PROVE  /\ Left[i] \in Load \cup {Free}
         /\ Left[i].mounted = FALSE /\ Left[i].answer = loads[i].answer
         /\ Left[i] = Free <=> loads[i] = Free
  <1>1. Left[i] = [loads[i] EXCEPT !.mounted = FALSE, !.overtaken = FALSE]
    BY DEF Left
  <1>2. CASE loads[i] = Free
    <2>1. Left[i] = Free
      BY <1>1, <1>2, FreeKept
    <2> QED BY <1>2, <2>1, FreeIs
  <1>3. CASE loads[i] \in Load
    <2> DEFINE l == loads[i]
    <2>1. l \in Load /\ Left[i] = [l EXCEPT !.mounted = FALSE, !.overtaken = FALSE]
      BY <1>1, <1>3
    <2> HIDE DEF l
    <2>2. Left[i] \in Load
      BY <2>1 DEF Load
    <2>3. Left[i].mounted = FALSE /\ Left[i].answer = l.answer
      BY <2>1 DEF Load
    <2> QED BY <2>1, <2>2, <2>3, FreeIs DEF l
  <1> QED BY <1>2, <1>3 DEF TypeOK

(* A load that settles overtakes those of its screen and changes no other. *)
LEMMA SettledIs ==
  ASSUME TypeOK, NEW i \in InFlight, NEW fulfilled, Settled(i, fulfilled)
  PROVE  /\ loads' \in [Slots -> Load \cup {Free}] /\ loads'[i] = Free
         /\ \A j \in Slots \ {i} :
              /\ loads'[j].screen = loads[j].screen /\ loads'[j].mounted = loads[j].mounted
              /\ loads'[j].answer = loads[j].answer
              /\ loads'[j] = Free <=> loads[j] = Free
              /\ ~loads'[j].overtaken => ~loads[j].overtaken
              /\ loads[j].mounted /\ loads[j].screen = loads[i].screen => loads'[j].overtaken
  <1>1. loads' = [j \in Slots |->
          IF j = i THEN Free
          ELSE [loads[j] EXCEPT !.overtaken =
                  @ \/ (loads[j].mounted /\ loads[j].screen = loads[i].screen)]]
    BY DEF Settled
  <1>2. i \in Slots
    BY DEF InFlight
  <1>3. ASSUME NEW j \in Slots \ {i}
        PROVE  /\ loads'[j] \in Load \cup {Free}
               /\ loads'[j].screen = loads[j].screen /\ loads'[j].mounted = loads[j].mounted
               /\ loads'[j].answer = loads[j].answer
               /\ loads'[j] = Free <=> loads[j] = Free
               /\ ~loads'[j].overtaken => ~loads[j].overtaken
               /\ loads[j].mounted /\ loads[j].screen = loads[i].screen => loads'[j].overtaken
    <2> DEFINE now == loads[j].overtaken \/ (loads[j].mounted /\ loads[j].screen = loads[i].screen)
    <2>1. loads'[j] = [loads[j] EXCEPT !.overtaken = now]
      BY <1>1
    <2>2. now \in BOOLEAN
      OBVIOUS
    <2> HIDE DEF now
    <2>3. CASE loads[j] = Free
      <3>1. now = FALSE
        BY <2>3 DEF now, Free
      <3>2. loads'[j] = Free
        BY <2>1, <2>3, <3>1, FreeKept
      <3> QED BY <2>3, <3>1, <3>2, FreeIs DEF now
    <2>4. CASE loads[j] \in Load
      <3>1. loads'[j] \in Load
        BY <2>1, <2>2, <2>4 DEF Load
      <3>2. /\ loads'[j].overtaken = now
            /\ loads'[j].screen = loads[j].screen /\ loads'[j].mounted = loads[j].mounted
            /\ loads'[j].answer = loads[j].answer
        BY <2>1, <2>4 DEF Load
      <3>3. loads'[j] # Free /\ loads[j] # Free
        BY <2>4, <3>1, FreeIs
      <3> QED BY <3>1, <3>2, <3>3 DEF now
    <2> QED BY <2>3, <2>4 DEF TypeOK
  <1>4. loads'[i] = Free
    BY <1>1, <1>2
  <1>5. loads' \in [Slots -> Load \cup {Free}]
    BY <1>1, <1>3, <1>4
  <1> QED BY <1>3, <1>4, <1>5

-----------------------------------------------------------------------------
(* Data *)

LEMMA DataTypes ==
  ASSUME TypeOK
  PROVE  /\ world \in Nat /\ world >= 1
         /\ NoData \notin Data /\ NoData.version = 0 /\ NoData.at = 0
         /\ \A d \in Data \cup {NoData} : d.version \in Nat /\ d.at \in Nat
         /\ \A p \in Parts :
              /\ data[p] \in Data \cup {NoData} /\ data[p].version \in Nat
              /\ cache[p].data \in Data \cup {NoData} /\ cache[p].data.version \in Nat
              /\ cache[p].cachedAt \in 0..MaxVersion
  <1>1. NoData.version = 0 /\ NoData.at = 0
    BY DEF NoData
  <1>2. \A d \in Data : d.version \in Nat /\ d.at \in Nat /\ d.version >= 1
    BY BoundsAssumption DEF Data, Versions
  <1>3. \A e \in Entry : e.data \in Data /\ e.cachedAt \in 0..MaxVersion
    BY BoundsAssumption DEF Entry, Versions
  <1>4. NoEntry.data = NoData /\ NoEntry.cachedAt = 0
    BY DEF NoEntry
  <1>5. world \in Nat /\ world >= 1
    BY BoundsAssumption DEF TypeOK, Versions
  <1>6. ASSUME NEW p \in Parts
        PROVE  data[p] \in Data \cup {NoData} /\ cache[p] \in Entry \cup {NoEntry}
    BY DEF TypeOK
  <1>7. 0 \in 0..MaxVersion
    BY BoundsAssumption
  <1> QED BY <1>1, <1>2, <1>3, <1>4, <1>5, <1>6, <1>7

(* A load of the screen that is mounted begins. *)
LEMMA StartLoadKeeps ==
  ASSUME SInv, StartLoad, UNCHANGED world, online' \in BOOLEAN, screen \in Screens
  PROVE  SInv'
  <1> DEFINE n == NextSlot
  <1>1. /\ n \in Slots /\ loads[n] = Free
        /\ loads' = [loads EXCEPT ![n] = Launched(screen)]
    BY NextSlotIsFree DEF StartLoad, InFlight
  <1> HIDE DEF n
  <1>2. /\ UNCHANGED <<data, asOf, alertsUnavailable, reading, cache, screen, openings>>
        /\ loading' \in BOOLEAN /\ error' \in BOOLEAN
    BY DEF StartLoad
  <1>3. /\ loads' \in [Slots -> Load \cup {Free}]
        /\ loads'[n] = Launched(screen)
        /\ \A i \in Slots \ {n} : loads'[i] = loads[i]
    BY <1>1, LaunchedIs DEF SInv, TypeOK
  <1>4. TypeOK'
    BY <1>2, <1>3 DEF SInv, TypeOK
  <1>5. DateGoesWithData'
    BY <1>2 DEF SInv, DateGoesWithData
  <1>6. MountedIsShown'
    BY <1>2, <1>3, LaunchedIs DEF SInv, MountedIsShown, InFlight
  <1>7. NothingFromTheFuture'
    <2>1. 0 <= world /\ Launched(screen).answer = 0
      <3>1. world \in Nat
        BY DataTypes DEF SInv
      <3>2. Launched(screen).answer = 0
        BY LaunchedIs
      <3> QED BY <3>1, <3>2
    <2> QED BY <1>2, <1>3, <2>1 DEF SInv, NothingFromTheFuture
  <1>8. AlertsCovered'
    BY <1>1, <1>2, <1>3, LaunchedIs DEF AlertsCovered, InFlight
  <1>9. AnswersInOrder'
    <2> SUFFICES ASSUME NEW i \in Slots, loads'[i] # Free, loads'[i].mounted, ~loads'[i].overtaken,
                        loads'[i].answer # 0, NEW p \in PartsOf[loads'[i].screen]
                 PROVE  data'[p].version <= loads'[i].answer /\ cache'[p].data.version <= loads'[i].answer
      BY DEF AnswersInOrder, InFlight
    <2>1. i # n
      BY <1>3, LaunchedIs
    <2> QED BY <1>2, <1>3, <2>1 DEF SInv, AnswersInOrder, InFlight
  <1> QED BY <1>4, <1>5, <1>6, <1>7, <1>8, <1>9 DEF SInv

(* The answer the API gives is as recent as anything on the phone. *)
LEMMA ReadsKeeps ==
  ASSUME SInv, NEW i \in Slots, Reads(i)
  PROVE  SInv'
  <1>1. /\ loads' = [loads EXCEPT ![i].answer = world] /\ i \in InFlight
        /\ UNCHANGED <<world, online, screen, openings, mountVars, cache>>
    BY DEF Reads
  <1>2. UNCHANGED <<data, asOf, loading, error, alertsUnavailable, reading>>
    BY <1>1 DEF mountVars
  <1>3. loads[i] \in Load
    BY <1>1, LoadTypes DEF SInv
  <1>4. /\ loads'[i] \in Load /\ loads'[i] # Free
        /\ loads'[i].screen = loads[i].screen /\ loads'[i].mounted = loads[i].mounted
        /\ loads'[i].overtaken = loads[i].overtaken /\ loads'[i].answer = world
    <2> DEFINE l == loads[i]  new == [l EXCEPT !.answer = world]
    <2>1. l \in Load /\ loads'[i] = new
      BY <1>1, <1>3 DEF SInv, TypeOK
    <2>2. world \in 0..MaxVersion
      BY BoundsAssumption DEF SInv, TypeOK, Versions
    <2> HIDE DEF l
    <2>3. new \in Load
      BY <2>1, <2>2 DEF Load
    <2>4. /\ new.screen = l.screen /\ new.mounted = l.mounted
          /\ new.overtaken = l.overtaken /\ new.answer = world
      BY <2>1 DEF Load
    <2> HIDE DEF new
    <2> QED BY <2>1, <2>3, <2>4, FreeIs DEF l
  <1>5. \A j \in Slots \ {i} : loads'[j] = loads[j]
    BY <1>1 DEF SInv, TypeOK
  <1>6. loads' \in [Slots -> Load \cup {Free}]
    BY <1>1, <1>4, <1>5 DEF SInv, TypeOK
  <1>7. TypeOK'
    BY <1>1, <1>2, <1>6 DEF SInv, TypeOK
  <1>8. DateGoesWithData'
    BY <1>1, <1>2 DEF SInv, DateGoesWithData
  <1>9. MountedIsShown'
    BY <1>1, <1>4, <1>5 DEF SInv, MountedIsShown, InFlight
  <1>10. NothingFromTheFuture'
    <2>1. world <= world
      BY DataTypes DEF SInv
    <2> QED BY <1>1, <1>2, <1>4, <1>5, <2>1 DEF SInv, NothingFromTheFuture
  <1>11. AlertsCovered'
    BY <1>1, <1>2, <1>4, <1>5 DEF SInv, AlertsCovered, InFlight
  <1>12. AnswersInOrder'
    <2>1. \A p \in Parts : data[p].version <= world /\ cache[p].data.version <= world
      BY DEF SInv, NothingFromTheFuture
    <2>2. \A p \in PartsOf[loads[i].screen] : p \in Parts
      BY <1>3, LoadIs, ScreenParts DEF Parts
    <2> QED BY <1>1, <1>2, <1>4, <1>5, <2>1, <2>2 DEF SInv, AnswersInOrder, InFlight
  <1> QED BY <1>7, <1>8, <1>9, <1>10, <1>11, <1>12 DEF SInv

(* What the answers of a load leave in the cache. *)
LEMMA CacheWritten ==
  ASSUME SInv, NEW i \in InFlight, NEW fulfilled \in SUBSET PartsOf[loads[i].screen],
         Settled(i, fulfilled), WriteCache(i, fulfilled)
  PROVE  /\ \A p \in fulfilled :
              /\ Fresh(i) \in Data /\ Fresh(i) # NoData /\ Fresh(i).at = world /\ world \in 0..MaxVersion
              /\ Fresh(i).version = loads[i].answer /\ Fresh(i).version <= world
              /\ cache'[p] = [data |-> Fresh(i), cachedAt |-> world]
         /\ \A p \in Parts \ fulfilled : cache'[p] = cache[p]
         /\ fulfilled \subseteq Parts
         /\ cache' \in [Parts -> Entry \cup {NoEntry}]
         /\ \A p \in Parts : /\ cache'[p].cachedAt = cache'[p].data.at
                             /\ cache'[p].data.version <= world
  <1>1. /\ loads[i] \in Load /\ loads[i].answer \in 0..MaxVersion /\ i \in Slots
        /\ loads[i].screen \in Screens
    BY LoadTypes DEF SInv, InFlight
  <1>2. fulfilled \subseteq Parts
    BY <1>1, ScreenParts DEF Parts
  <1>3. ASSUME NEW p \in fulfilled
        PROVE  /\ Fresh(i) \in Data /\ Fresh(i).at = world /\ Fresh(i).version = loads[i].answer
               /\ Fresh(i).version <= world /\ world \in Versions /\ world \in 0..MaxVersion
    <2>1. loads[i].answer # 0
      BY <1>3 DEF Settled
    <2>2. loads[i].answer \in Versions /\ world \in Versions /\ world \in 0..MaxVersion
      BY <1>1, <2>1, BoundsAssumption DEF SInv, TypeOK, Versions
    <2>3. Fresh(i) \in Data /\ Fresh(i).at = world /\ Fresh(i).version = loads[i].answer
      BY <2>2 DEF Fresh, Data
    <2>4. loads[i].answer <= world
      BY <1>1 DEF SInv, NothingFromTheFuture
    <2> QED BY <2>2, <2>3, <2>4
  <1>4. \A p \in fulfilled : cache'[p] = [data |-> Fresh(i), cachedAt |-> world]
    BY <1>2 DEF WriteCache
  <1>5. \A p \in Parts \ fulfilled : cache'[p] = cache[p]
    BY DEF WriteCache
  <1>6. \A p \in fulfilled : /\ cache'[p] \in Entry
                             /\ cache'[p].cachedAt = world /\ cache'[p].data = Fresh(i)
    BY <1>3, <1>4 DEF Entry
  <1>7. cache' \in [Parts -> Entry \cup {NoEntry}]
    <2>1. \A p \in Parts : cache'[p] \in Entry \cup {NoEntry}
      BY <1>5, <1>6 DEF SInv, TypeOK
    <2> QED BY <2>1 DEF WriteCache
  <1>8. \A p \in Parts : /\ cache'[p].cachedAt = cache'[p].data.at
                         /\ cache'[p].data.version <= world
    BY <1>3, <1>5, <1>6 DEF SInv, DateGoesWithData, NothingFromTheFuture
  <1>9. NoData \notin Data
    BY DataTypes DEF SInv
  <1> QED BY <1>2, <1>3, <1>4, <1>5, <1>7, <1>8, <1>9

(* The answers of a load that settles, and what they do to its screen when *)
(* that screen is still there. *)
LEMMA SettlesKeeps ==
  ASSUME SInv, NEW i \in InFlight, NEW fulfilled \in SUBSET PartsOf[loads[i].screen],
         Settled(i, fulfilled), WriteCache(i, fulfilled), UNCHANGED <<world, online, screen, openings, reading>>,
         loading' \in BOOLEAN, error' \in BOOLEAN, alertsUnavailable' \in BOOLEAN,
         \/ ~loads[i].mounted /\ UNCHANGED <<data, asOf, alertsUnavailable>>
         \/ /\ loads[i].mounted /\ Shown(i, fulfilled)
            /\ loads[i].screen = "room" => alertsUnavailable' = ("alerts" \notin fulfilled)
  PROVE  SInv'
  <1>1. i \in Slots /\ loads[i].screen \in Screens
    BY LoadTypes DEF SInv, InFlight
  <1>2. /\ \A p \in Parts \ fulfilled : data'[p] = data[p] /\ asOf'[p] = asOf[p] /\ cache'[p] = cache[p]
        /\ fulfilled \subseteq Parts
        /\ \A p \in fulfilled :
             \/ data'[p] = data[p] /\ asOf'[p] = asOf[p]
             \/ data'[p] = Fresh(i) /\ asOf'[p] = world
    BY CacheWritten DEF Shown
  <1>3. data' \in [Parts -> Data \cup {NoData}] /\ asOf' \in [Parts -> 0..MaxVersion]
    <2>1. CASE UNCHANGED <<data, asOf>>
      BY <2>1 DEF SInv, TypeOK
    <2>2. CASE Shown(i, fulfilled)
      BY <2>2, CacheWritten DEF Shown, SInv, TypeOK
    <2> QED BY <2>1, <2>2
  <1>4. TypeOK'
    BY <1>3, SettledIs, CacheWritten DEF SInv, TypeOK
  <1>5. DateGoesWithData'
    <2>1. \A p \in fulfilled : Fresh(i).at = world
      BY CacheWritten
    <2>2. \A p \in Parts : asOf'[p] = data'[p].at
      BY <1>2, <2>1 DEF SInv, DateGoesWithData
    <2>3. \A p \in Parts : cache'[p].cachedAt = cache'[p].data.at
      BY CacheWritten
    <2> QED BY <2>2, <2>3 DEF DateGoesWithData
  <1>6. MountedIsShown'
    BY SettledIs DEF SInv, MountedIsShown, InFlight
  <1>7. NothingFromTheFuture'
    <2>1. \A p \in Parts : data'[p].version <= world
      BY <1>2, CacheWritten DEF SInv, NothingFromTheFuture
    <2>2. \A j \in Slots : loads'[j].answer <= world
      <3>1. 0 <= world
        BY DataTypes DEF SInv
      <3> QED BY <1>1, <3>1, SettledIs, FreeIs DEF SInv, NothingFromTheFuture
    <2> QED BY <2>1, <2>2, CacheWritten DEF NothingFromTheFuture
  <1>8. AlertsCovered'
    <2> SUFFICES ASSUME screen = "room", data'["alerts"] = NoData
                 PROVE  alertsUnavailable' \/ \E j \in Slots : loads'[j] # Free /\ loads'[j].mounted
      BY DEF AlertsCovered, InFlight
    <2>1. CASE loads[i].mounted
      <3>1. loads[i].screen = "room"
        BY <2>1 DEF SInv, MountedIsShown
      <3>2. "alerts" \notin fulfilled
        BY <2>1, <1>2, CacheWritten DEF Shown
      <3> QED BY <2>1, <3>1, <3>2
    <2>2. CASE ~loads[i].mounted
      <3>1. UNCHANGED <<data, alertsUnavailable>>
        BY <2>2
      <3>2. alertsUnavailable \/ \E j \in InFlight : loads[j].mounted
        BY <3>1 DEF SInv, AlertsCovered
      <3>3. CASE \E j \in InFlight : loads[j].mounted
        <4>1. PICK j \in Slots : loads[j] # Free /\ loads[j].mounted
          BY <3>3 DEF InFlight
        <4>2. j # i
          BY <2>2, <4>1
        <4>3. loads'[j] # Free /\ loads'[j].mounted
          BY <4>1, <4>2, SettledIs DEF SInv
        <4> QED BY <4>3
      <3> QED BY <3>1, <3>2, <3>3
    <2> QED BY <2>1, <2>2
  <1>9. AnswersInOrder'
    <2> SUFFICES ASSUME NEW j \in Slots, loads'[j] # Free, loads'[j].mounted, ~loads'[j].overtaken,
                        loads'[j].answer # 0, NEW p \in PartsOf[loads'[j].screen]
                 PROVE  data'[p].version <= loads'[j].answer /\ cache'[p].data.version <= loads'[j].answer
      BY DEF AnswersInOrder, InFlight
    <2>1. /\ j # i /\ loads[j] # Free /\ loads[j].mounted /\ ~loads[j].overtaken
          /\ loads'[j].answer = loads[j].answer /\ loads'[j].screen = loads[j].screen
          /\ loads[j].screen # loads[i].screen
      <3>1. j # i
        BY SettledIs DEF SInv
      <3>2. /\ loads'[j].mounted = loads[j].mounted
            /\ loads'[j].answer = loads[j].answer /\ loads'[j].screen = loads[j].screen
            /\ loads[j] # Free /\ ~loads[j].overtaken
        BY <3>1, SettledIs DEF SInv
      <3>3. loads[j].screen # loads[i].screen
        BY <3>1, <3>2, SettledIs DEF SInv
      <3> QED BY <3>1, <3>2, <3>3
    <2>2. loads[j].screen \in Screens
      BY <2>1, LoadTypes DEF SInv, InFlight
    <2>3. p \in Parts \ fulfilled
      BY <1>1, <2>1, <2>2, ScreenParts DEF Parts
    <2>4. data[p].version <= loads[j].answer /\ cache[p].data.version <= loads[j].answer
      BY <2>1 DEF SInv, AnswersInOrder, InFlight
    <2> QED BY <1>2, <2>1, <2>3, <2>4
  <1> QED BY <1>4, <1>5, <1>6, <1>7, <1>8, <1>9 DEF SInv

-----------------------------------------------------------------------------
(* The invariant, step by step *)

LEMMA LoadSettlesKeeps ==
  ASSUME SInv, NEW i \in Slots, LoadSettles(i)
  PROVE  SInv'
  <1>1. UNCHANGED <<world, online, screen, openings>>
    BY DEF LoadSettles
  <1>2. loads[i].screen \in Screens => i \in InFlight
    BY LoadTypes, FreeIs, ScreenParts DEF SInv
  <1>3. loading \in BOOLEAN /\ error \in BOOLEAN /\ alertsUnavailable \in BOOLEAN
    BY DEF SInv, TypeOK
  <1>4. CASE ListSettles(i)
    <2>1. loads[i].screen = "list" /\ loads[i].mounted /\ UNCHANGED <<alertsUnavailable, reading>>
          /\ loading' = FALSE
      BY <1>4 DEF ListSettles
    <2>2. PICK fulfilled \in {{}, {"rooms"}} :
            Settled(i, fulfilled) /\ WriteCache(i, fulfilled) /\ Shown(i, fulfilled) /\ Fails("list", fulfilled)
      BY <1>4 DEF ListSettles
    <2>3. error' \in BOOLEAN /\ fulfilled \in SUBSET PartsOf[loads[i].screen]
      BY <2>1, <2>2, ScreenParts DEF Fails
    <2> QED BY <1>1, <1>2, <1>3, <2>1, <2>2, <2>3, ScreenParts, SettlesKeeps
  <1>5. CASE RoomSettles(i)
    <2>1. loads[i].screen = "room" /\ loads[i].mounted /\ UNCHANGED reading /\ loading' = FALSE
      BY <1>5 DEF RoomSettles
    <2>2. PICK fulfilled \in SUBSET {"latest", "alerts"} :
            /\ Settled(i, fulfilled) /\ WriteCache(i, fulfilled) /\ Shown(i, fulfilled)
            /\ Fails("room", fulfilled) /\ alertsUnavailable' = ("alerts" \notin fulfilled)
      BY <1>5 DEF RoomSettles
    <2>3. /\ error' \in BOOLEAN /\ alertsUnavailable' \in BOOLEAN
          /\ fulfilled \in SUBSET PartsOf[loads[i].screen]
      BY <2>1, <2>2, ScreenParts DEF Fails
    <2> QED BY <1>1, <1>2, <2>1, <2>2, <2>3, ScreenParts, SettlesKeeps
  <1>6. CASE HistorySettles(i)
    <2>1. loads[i].screen = "history" /\ loads[i].mounted /\ UNCHANGED <<alertsUnavailable, reading>>
          /\ loading' = FALSE
      BY <1>6 DEF HistorySettles
    <2>2. PICK fulfilled \in {{}, {"history"}} :
            /\ Settled(i, fulfilled) /\ WriteCache(i, fulfilled) /\ Shown(i, fulfilled)
            /\ Fails("history", fulfilled)
      BY <1>6 DEF HistorySettles
    <2>3. error' \in BOOLEAN /\ fulfilled \in SUBSET PartsOf[loads[i].screen]
      BY <2>1, <2>2, ScreenParts DEF Fails
    <2> QED BY <1>1, <1>2, <1>3, <2>1, <2>2, <2>3, ScreenParts, SettlesKeeps
  <1>7. CASE LeftSettles(i)
    <2>1. i \in InFlight /\ ~loads[i].mounted
          /\ UNCHANGED <<data, asOf, loading, error, alertsUnavailable, reading>>
      BY <1>7 DEF LeftSettles, mountVars
    <2>2. PICK fulfilled \in SUBSET PartsOf[loads[i].screen] : Settled(i, fulfilled) /\ WriteCache(i, fulfilled)
      BY <1>7 DEF LeftSettles
    <2> QED BY <1>1, <1>3, <2>1, <2>2, SettlesKeeps
  <1> QED BY <1>4, <1>5, <1>6, <1>7 DEF LoadSettles

(* What the cache shows is as recent, and as dated, as what is in it. *)
LEMMA CacheReadKeeps ==
  ASSUME SInv, NEW p \in Parts, CacheRead(p)
  PROVE  SInv'
  <1>1. /\ UNCHANGED <<world, online, screen, openings, error, alertsUnavailable, loads, cache>>
        /\ reading' = reading \ {p}
    BY DEF CacheRead
  <1>2. CASE UNCHANGED <<data, asOf, loading>>
    BY <1>1, <1>2 DEF SInv, TypeOK, DateGoesWithData, MountedIsShown, NothingFromTheFuture, AlertsCovered,
                      AnswersInOrder, InFlight
  <1>3. CASE cache[p] # NoEntry /\ data[p] = NoData /\ CacheShows(p)
    <2>1. /\ data' = [data EXCEPT ![p] = cache[p].data]
          /\ asOf' = [asOf EXCEPT ![p] = cache[p].cachedAt]
          /\ loading' = (loading /\ p # MainPart[screen])
      BY <1>3 DEF CacheShows
    <2>2. /\ data'[p] = cache[p].data /\ asOf'[p] = cache[p].cachedAt
          /\ \A q \in Parts \ {p} : data'[q] = data[q] /\ asOf'[q] = asOf[q]
      BY <2>1 DEF SInv, TypeOK
    <2>3. data' \in [Parts -> Data \cup {NoData}] /\ asOf' \in [Parts -> 0..MaxVersion]
          /\ loading' \in BOOLEAN
      <3>1. cache[p].data \in Data \cup {NoData} /\ cache[p].cachedAt \in 0..MaxVersion
        BY DataTypes DEF SInv
      <3> QED BY <2>1, <3>1 DEF SInv, TypeOK
    <2>4. TypeOK'
      BY <1>1, <2>3 DEF SInv, TypeOK
    <2>5. DateGoesWithData' /\ NothingFromTheFuture' /\ MountedIsShown'
      BY <1>1, <2>2 DEF SInv, DateGoesWithData, NothingFromTheFuture, MountedIsShown, InFlight
    <2>6. AlertsCovered'
      <3>1. data'["alerts"] = NoData => data["alerts"] = NoData
        BY <1>3, <2>2 DEF Parts
      <3> QED BY <1>1, <3>1 DEF SInv, AlertsCovered, InFlight
    <2>7. AnswersInOrder'
      <3> SUFFICES ASSUME NEW i \in InFlight, loads[i].mounted, ~loads[i].overtaken, loads[i].answer # 0,
                          NEW q \in PartsOf[loads[i].screen]
                   PROVE  data'[q].version <= loads[i].answer /\ cache[q].data.version <= loads[i].answer
        BY <1>1 DEF AnswersInOrder, InFlight
      <3>1. q \in Parts
        <4>1. loads[i].screen \in Screens
          BY LoadTypes DEF SInv, InFlight
        <4> QED BY <4>1, ScreenParts DEF Parts
      <3> QED BY <2>2, <3>1 DEF SInv, AnswersInOrder
    <2> QED BY <2>4, <2>5, <2>6, <2>7 DEF SInv
  <1> QED BY <1>2, <1>3 DEF CacheRead, CacheShows

(* A screen that has just been mounted, or none. *)
LEMMA EmptiedKeeps ==
  ASSUME SInv, Emptied, UNCHANGED <<world, online, cache>>,
         screen' \in Screens \cup {"login", "scan"}, openings' \in 0..MaxOpenings, reading' \subseteq Parts,
         loads' \in [Slots -> Load \cup {Free}],
         \A i \in Slots : loads'[i].answer <= world,
         \A i \in Slots : loads'[i].mounted => loads'[i].screen = screen' /\ loads'[i].answer = 0,
         screen' = "room" => \E i \in Slots : loads'[i] # Free /\ loads'[i].mounted
  PROVE  SInv'
  <1>1. /\ data' = [p \in Parts |-> NoData] /\ asOf' = [p \in Parts |-> 0]
        /\ loading' = TRUE /\ error' = FALSE /\ alertsUnavailable' = FALSE
    BY DEF Emptied
  <1>2. TypeOK'
    <2>1. 0 \in 0..MaxVersion
      BY BoundsAssumption
    <2>2. data' \in [Parts -> Data \cup {NoData}] /\ asOf' \in [Parts -> 0..MaxVersion]
      BY <1>1, <2>1
    <2> QED BY <1>1, <2>2 DEF SInv, TypeOK
  <1>3. \A p \in Parts : data'[p].version = 0 /\ data'[p].at = 0 /\ asOf'[p] = 0
    BY <1>1, DataTypes DEF SInv
  <1>4. DateGoesWithData'
    BY <1>3 DEF SInv, DateGoesWithData
  <1>5. NothingFromTheFuture'
    <2>1. 0 <= world
      BY DataTypes DEF SInv
    <2> QED BY <1>3, <2>1 DEF SInv, NothingFromTheFuture
  <1>6. MountedIsShown' /\ AlertsCovered' /\ AnswersInOrder'
    BY DEF MountedIsShown, AlertsCovered, AnswersInOrder, InFlight
  <1> QED BY <1>2, <1>4, <1>5, <1>6 DEF SInv

LEMMA OpensKeeps ==
  ASSUME SInv, NEW s \in Screens, Opens(s)
  PROVE  SInv'
  <1> DEFINE n == NextSlot
  <1>1. /\ n \in Slots /\ loads' = [Left EXCEPT ![n] = Launched(s)]
        /\ Emptied /\ UNCHANGED <<world, online, cache>> /\ screen' = s
        /\ reading' = PartsOf[s]
    BY NextSlotIsFree DEF Opens
  <1> HIDE DEF n
  <1>2. loads'[n] = Launched(s) /\ \A i \in Slots \ {n} : loads'[i] = Left[i]
    BY <1>1 DEF Left
  <1>3. loads' \in [Slots -> Load \cup {Free}]
    <2>1. \A i \in Slots : Left[i] \in Load \cup {Free}
      BY LeftIs DEF SInv
    <2> QED BY <1>1, <2>1, LaunchedIs DEF Left
  <1>4. \A i \in Slots : loads'[i].answer <= world
    <2>1. 0 <= world
      BY DataTypes DEF SInv
    <2>2. \A i \in Slots : Left[i].answer <= world
      BY LeftIs DEF SInv, NothingFromTheFuture
    <2>3. Launched(s).answer = 0
      BY LaunchedIs
    <2> QED BY <1>2, <2>1, <2>2, <2>3
  <1>5. \A i \in Slots : loads'[i].mounted => loads'[i].screen = screen' /\ loads'[i].answer = 0
    <2>1. \A i \in Slots : Left[i].mounted = FALSE
      BY LeftIs DEF SInv
    <2>2. \A i \in Slots \ {n} : ~loads'[i].mounted
      BY <1>2, <2>1
    <2>3. loads'[n].screen = s /\ loads'[n].answer = 0
      BY <1>2, LaunchedIs
    <2> QED BY <1>1, <2>2, <2>3
  <1>6. \E i \in Slots : loads'[i] # Free /\ loads'[i].mounted
    BY <1>1, <1>2, LaunchedIs
  <1>7. openings' \in 0..MaxOpenings
    BY BoundsAssumption DEF SInv, TypeOK, Opens
  <1>8. reading' \subseteq Parts
    BY <1>1, ScreenParts DEF Parts
  <1> QED BY <1>1, <1>3, <1>4, <1>5, <1>6, <1>7, <1>8, EmptiedKeeps

LEMMA NavigationKeeps ==
  ASSUME SInv, Navigation
  PROVE  SInv'
  <1>1. CASE Login \/ SelectRoom \/ BackToRoomList \/ OpenHistory \/ CloseHistory \/ StopScan
    <2>1. \E s \in Screens : Opens(s)
      BY <1>1, ScreenParts DEF Login, SelectRoom, BackToRoomList, OpenHistory, CloseHistory, StopScan
    <2> QED BY <2>1, OpensKeeps
  <1>2. CASE StartScan
    <2>1. /\ Emptied /\ UNCHANGED <<world, online, openings, cache>> /\ screen' = "scan"
          /\ reading' = {} /\ loads' = Left
      BY <1>2 DEF StartScan
    <2>2. \A i \in Slots : /\ Left[i] \in Load \cup {Free} /\ Left[i].mounted = FALSE
                           /\ Left[i].answer <= world
      BY LeftIs DEF SInv, NothingFromTheFuture
    <2>3. Left \in [Slots -> Load \cup {Free}]
      BY <2>2 DEF Left
    <2> QED BY <2>1, <2>2, <2>3, EmptiedKeeps DEF SInv, TypeOK
  <1>3. CASE Killed
    <2>1. /\ Emptied /\ UNCHANGED <<world, online, openings, cache>> /\ screen' = "login"
          /\ reading' = {} /\ loads' = [i \in Slots |-> Free]
      BY <1>3 DEF Killed
    <2>2. 0 <= world
      BY DataTypes DEF SInv
    <2> QED BY <2>1, <2>2, FreeIs, EmptiedKeeps DEF SInv, TypeOK
  <1> QED BY <1>1, <1>2, <1>3 DEF Navigation

LEMMA SInvInit == Init => SInv
  <1> SUFFICES ASSUME Init PROVE SInv
    OBVIOUS
  <1>1. NoEntry.data = NoData /\ NoEntry.cachedAt = 0 /\ NoData.at = 0 /\ NoData.version = 0
    BY DEF NoEntry, NoData
  <1>2. InFlight = {}
    BY DEF Init, InFlight
  <1>3. TypeOK
    <2>1. 1 \in Versions /\ 0 \in 0..MaxVersion /\ 0 \in 0..MaxOpenings
      BY BoundsAssumption DEF Versions
    <2>2. /\ data \in [Parts -> Data \cup {NoData}] /\ asOf \in [Parts -> 0..MaxVersion]
          /\ loads \in [Slots -> Load \cup {Free}] /\ cache \in [Parts -> Entry \cup {NoEntry}]
      BY <2>1 DEF Init
    <2>3. /\ screen \in Screens \cup {"login", "scan"} /\ reading \subseteq Parts
          /\ online \in BOOLEAN /\ loading \in BOOLEAN /\ error \in BOOLEAN /\ alertsUnavailable \in BOOLEAN
      BY DEF Init
    <2>4. world \in Versions /\ openings \in 0..MaxOpenings
      BY <2>1 DEF Init
    <2> QED BY <2>2, <2>3, <2>4 DEF TypeOK
  <1>4. DateGoesWithData
    BY <1>1 DEF Init, DateGoesWithData
  <1>5. NothingFromTheFuture
    BY <1>1, FreeIs DEF Init, NothingFromTheFuture
  <1>6. MountedIsShown /\ AnswersInOrder
    BY <1>2 DEF MountedIsShown, AnswersInOrder
  <1>7. AlertsCovered
    BY DEF Init, AlertsCovered
  <1> QED BY <1>3, <1>4, <1>5, <1>6, <1>7 DEF SInv

(* The network and the server change alone. *)
LEMMA WorldKeeps ==
  ASSUME SInv, UNCHANGED <<screen, openings, mountVars, loads, cache>>, online' \in BOOLEAN,
         world' = world \/ (world < MaxVersion /\ world' = world + 1)
  PROVE  SInv'
  <1>1. UNCHANGED <<data, asOf, loading, error, alertsUnavailable, reading>>
    BY DEF mountVars
  <1>2. world' \in Versions /\ world <= world' /\ world \in Nat /\ world' \in Nat
    BY BoundsAssumption DEF SInv, TypeOK, Versions
  <1>3. TypeOK'
    BY <1>1, <1>2 DEF SInv, TypeOK
  <1>4. NothingFromTheFuture'
    <2>1. \A p \in Parts : data[p].version \in Nat /\ cache[p].data.version \in Nat
      BY DataTypes DEF SInv
    <2>2. \A i \in Slots : loads[i].answer \in Nat
      <3>1. \A i \in Slots : loads[i].answer \in 0..MaxVersion
        BY LoadTypes DEF SInv
      <3> QED BY <3>1, BoundsAssumption
    <2> QED BY <1>1, <1>2, <2>1, <2>2 DEF SInv, NothingFromTheFuture
  <1>5. DateGoesWithData' /\ MountedIsShown' /\ AlertsCovered' /\ AnswersInOrder'
    BY <1>1 DEF SInv, DateGoesWithData, MountedIsShown, AlertsCovered, AnswersInOrder, InFlight
  <1> QED BY <1>3, <1>4, <1>5 DEF SInv

LEMMA SInvNext ==
  ASSUME SInv, [Next]_vars
  PROVE  SInv'
  <1>1. CASE UNCHANGED vars
    BY <1>1, WorldKeeps DEF vars, SInv, TypeOK
  <1>2. CASE GoesOffline
    BY <1>2, WorldKeeps DEF GoesOffline
  <1>3. CASE DataChanges
    BY <1>3, WorldKeeps DEF DataChanges, SInv, TypeOK
  <1>4. CASE ComesBack
    <2>1. online' \in BOOLEAN /\ world' = world
      BY <1>4 DEF ComesBack
    <2>2. CASE screen \in Refreshed /\ StartLoad
      BY <2>1, <2>2, StartLoadKeeps, ScreenParts DEF Refreshed
    <2>3. CASE UNCHANGED <<screen, openings, mountVars, loads, cache>>
      BY <2>1, <2>3, WorldKeeps
    <2> QED BY <1>4, <2>2, <2>3 DEF ComesBack
  <1>5. CASE Asks \/ Timer \/ Foreground
    <2>1. screen \in Screens /\ StartLoad /\ UNCHANGED <<world, online>>
      BY <1>5, ScreenParts DEF Asks, Timer, Foreground, Refreshed
    <2> QED BY <2>1, StartLoadKeeps DEF SInv, TypeOK
  <1>6. CASE \E i \in Slots : LoadSettles(i) \/ Reads(i)
    BY <1>6, LoadSettlesKeeps, ReadsKeeps
  <1>7. CASE \E p \in Parts : CacheRead(p)
    BY <1>7, CacheReadKeeps
  <1>8. CASE Navigation
    BY <1>8, NavigationKeeps
  <1> QED BY <1>1, <1>2, <1>3, <1>4, <1>5, <1>6, <1>7, <1>8 DEF Next

THEOREM SInvCorrect == Spec => []SInv
  BY SInvInit, SInvNext, PTL DEF Spec

(* The screens, their loads and the cache only hold what the code's types  *)
(* allow. *)
THEOREM TypeCorrect == Spec => []TypeOK
  <1>1. SInv => TypeOK
    BY DEF SInv
  <1> QED BY <1>1, SInvCorrect, PTL

(* However loads, the cache and the navigation interleave, the date on     *)
(* display is that of the data on display. *)
THEOREM DateCorrect == Spec => []DateGoesWithData
  <1>1. SInv => DateGoesWithData
    BY DEF SInv
  <1> QED BY <1>1, SInvCorrect, PTL

(* A room shown without alerts is loading them or says they are missing.   *)
THEOREM AlertsNeverSilentCorrect == Spec => []AlertsNeverSilent
  <1>1. SInv => AlertsNeverSilent
    BY DEF SInv, AlertsCovered, AlertsNeverSilent, RoomView
  <1> QED BY <1>1, SInvCorrect, PTL

-----------------------------------------------------------------------------
(* Older data *)

LEMMA NotOlder ==
  ASSUME SInv, SInv', NEW p \in Parts, Older(data'[p], data[p])
  PROVE  data'[p] # data[p] /\ data'[p] # NoData /\ data[p] # NoData
  <1>1. data[p].version \in Nat /\ NoData.version = 0 /\ data'[p] # NoData
    BY DataTypes DEF SInv, Older
  <1>2. data'[p].version \in Nat
    BY <1>1 DEF SInv, TypeOK, Data, Versions
  <1>3. data'[p].version < data[p].version
    BY DEF Older
  <1>4. data[p] # NoData
    BY <1>1, <1>2, <1>3
  <1>5. data'[p] # data[p]
    BY <1>1, <1>3
  <1> QED BY <1>1, <1>4, <1>5

(* Apart from a load of the screen that settles, a step shows the same     *)
(* data, nothing, or what the cache has for a part that shows nothing. *)
LEMMA DataStep ==
  ASSUME TypeOK, [Next]_vars, NEW p \in Parts, data'[p] # data[p], data'[p] # NoData, data[p] # NoData
  PROVE  \E i \in Slots : ListSettles(i) \/ RoomSettles(i) \/ HistorySettles(i)
  <1> USE DEF mountVars
  <1>1. CASE UNCHANGED vars
    BY <1>1 DEF vars
  <1>2. CASE Asks \/ Timer \/ Foreground \/ ComesBack \/ GoesOffline \/ DataChanges
    BY <1>2 DEF Asks, Timer, Foreground, ComesBack, GoesOffline, DataChanges, StartLoad
  <1>3. ASSUME NEW i \in Slots, LoadSettles(i) \/ Reads(i)
        PROVE  ListSettles(i) \/ RoomSettles(i) \/ HistorySettles(i)
    BY <1>3 DEF LoadSettles, LeftSettles, Reads
  <1>4. ASSUME NEW q \in Parts, CacheRead(q)
        PROVE  FALSE
    <2>1. q # p => data'[p] = data[p]
      BY <1>4 DEF CacheRead, CacheShows, TypeOK
    <2>2. q = p => data'[p] = data[p]
      BY <1>4 DEF CacheRead, CacheShows
    <2> QED BY <2>1, <2>2
  <1>5. ~Navigation
    BY DEF Navigation, Login, SelectRoom, BackToRoomList, OpenHistory, CloseHistory, StopScan, Opens,
           StartScan, Killed, Emptied
  <1> QED BY <1>1, <1>2, <1>3, <1>4, <1>5 DEF Next

LEMMA OlderIsOvertaken ==
  ASSUME SInv, NEW p \in Parts, Older(data'[p], data[p]), data'[p] # data[p],
         NEW i \in InFlight, loads[i].mounted, NEW fulfilled \in SUBSET PartsOf[loads[i].screen],
         Settled(i, fulfilled), WriteCache(i, fulfilled), Shown(i, fulfilled)
  PROVE  loads'[i] = Free /\ loads[i].overtaken
  <1>1. p \in fulfilled /\ data'[p] = Fresh(i)
    BY DEF Shown
  <1>2. loads[i].answer # 0 /\ Fresh(i).version = loads[i].answer
    BY <1>1, CacheWritten DEF Settled
  <1>3. loads[i].answer < data[p].version
    BY <1>1, <1>2 DEF Older
  <1>4. loads[i].answer \in Nat /\ data[p].version \in Nat
    <2>1. loads[i].answer \in 0..MaxVersion
      BY LoadTypes DEF SInv, InFlight
    <2> QED BY <2>1, BoundsAssumption, DataTypes DEF SInv
  <1>5. ~(data[p].version <= loads[i].answer)
    BY <1>3, <1>4
  <1>6. loads[i].overtaken
    BY <1>1, <1>2, <1>5 DEF SInv, AnswersInOrder
  <1> QED BY <1>6, SettledIs DEF SInv

LEMMA OlderStep ==
  ASSUME SInv, [Next]_vars, NEW p \in Parts, Older(data'[p], data[p])
  PROVE  \E i \in InFlight : loads'[i] = Free /\ loads[i].overtaken
  <1>1. data'[p] # data[p] /\ data'[p] # NoData /\ data[p] # NoData
    BY SInvNext, NotOlder
  <1>2. PICK i \in Slots : ListSettles(i) \/ RoomSettles(i) \/ HistorySettles(i)
    BY <1>1, DataStep DEF SInv
  <1>3. i \in InFlight /\ loads[i].mounted
    BY <1>2, LoadTypes, FreeIs DEF SInv, ListSettles, RoomSettles, HistorySettles
  <1>4. \E fulfilled \in SUBSET PartsOf[loads[i].screen] :
          Settled(i, fulfilled) /\ WriteCache(i, fulfilled) /\ Shown(i, fulfilled)
    <2>1. CASE ListSettles(i)
      BY <2>1, ScreenParts DEF ListSettles
    <2>2. CASE RoomSettles(i)
      BY <2>2, ScreenParts DEF RoomSettles
    <2>3. CASE HistorySettles(i)
      BY <2>3, ScreenParts DEF HistorySettles
    <2> QED BY <1>2, <2>1, <2>2, <2>3
  <1> QED BY <1>1, <1>3, <1>4, OlderIsOvertaken

(* Whatever the loads, the cache and the navigation interleave, the screen *)
(* only goes back to older data with an answer that another one overtook.  *)
THEOREM OlderOnlyByOverlapCorrect == Spec => OlderOnlyByOverlap
  <1>1. ASSUME SInv, [Next]_vars
        PROVE  [\A p \in Parts : Older(data'[p], data[p]) =>
                  \E i \in InFlight : loads'[i] = Free /\ loads[i].overtaken]_vars
    BY <1>1, OlderStep
  <1> QED BY <1>1, SInvCorrect, PTL DEF Spec, OlderOnlyByOverlap
=============================================================================
