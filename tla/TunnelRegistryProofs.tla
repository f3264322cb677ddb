------------------------- MODULE TunnelRegistryProofs -------------------------
(***************************************************************************)
(* Proofs about TunnelRegistry, for any configuration, any batches of      *)
(* commands and any number of managers.                                    *)
(***************************************************************************)
EXTENDS TunnelRegistry, FiniteSets, FiniteSetTheorems, SequenceTheorems, TLAPS

(* The reporter's goroutine has been started and has not ended.              *)
ReporterActive == pc["reporter"] \notin {"off", "done"}

(* Run and the reporter never start or stop tunnels at the same time: the    *)
(* reporter is started last, and Run then only waits.  MAVLink is started    *)
(* first.                                                                    *)
Sequential ==
    /\ pc["main"] \in {"init", "next", "insert", "stop", "failed"} =>
          pc["reporter"] = "off"
    /\ pc["main"] \in {"init", "failed"} => mavlink = "off"

(* Every ID that is asked for or in use is an ID of the map.                 *)
KnownIDs ==
    /\ \A c \in Callers : \A i \in DOMAIN work[c] :
          TunnelID(work[c][i].entry) \in TunnelIDs
    /\ \A m \in Managers : manager[m] # "none" => TunnelID(entry[m]) \in TunnelIDs

(* Between the check of startTunnels and its insertion the ID stays free.    *)
InsertReady ==
    \A c \in Callers : pc[c] = "insert" =>
        /\ work[c] # <<>>
        /\ tunnelManagers[TunnelID(CurrentEntry(c))] = NoManager

(* A caller between the two steps of a stop has its event still at hand.     *)
StopReady == \A c \in Callers : pc[c] = "stop" => work[c] # <<>>

(* The WaitGroup counts the goroutines that have not called Done: the live   *)
(* managers, MAVLink's and the reporter's.                                   *)
Live == {m \in Managers : manager[m] # "none"}
One(b) == IF b THEN 1 ELSE 0

CountExact ==
    /\ IsFiniteSet(Live)
    /\ wg = Cardinality(Live) + One(mavlink = "running") + One(ReporterActive)

Inv ==
    /\ TypeOK /\ Sequential /\ KnownIDs /\ InsertReady /\ StopReady
    /\ RegistryExact /\ CountExact /\ ReturnedMeansGone
-----------------------------------------------------------------------------
(***************************************************************************)
(* Facts the steps need.                                                   *)
(***************************************************************************)

(* The events a caller has still to run are known ones.                      *)
LEMMA WorkHead ==
    ASSUME TypeOK, KnownIDs, NEW c \in Callers, work[c] # <<>>
    PROVE  /\ CurrentEntry(c) \in Entry
           /\ TunnelID(CurrentEntry(c)) \in TunnelIDs
<1>1. work[c] \in Seq(Event)
  BY DEF TypeOK
<1>2. 1 \in DOMAIN work[c] /\ Head(work[c]) = work[c][1]
  BY <1>1
<1>3. work[c][1] \in Event
  BY <1>1, <1>2
<1> QED
  BY <1>2, <1>3 DEF KnownIDs, CurrentEntry, Event

LEMMA WorkTail ==
    ASSUME TypeOK, KnownIDs, NEW c \in Callers, work[c] # <<>>,
           work' = [work EXCEPT ![c] = Tail(@)]
    PROVE  /\ work' \in [Callers -> Seq(Event)]
           /\ \A d \in Callers : \A i \in DOMAIN work'[d] :
                 TunnelID(work'[d][i].entry) \in TunnelIDs
<1>1. work \in [Callers -> Seq(Event)]
  BY DEF TypeOK
<1>2. /\ Tail(work[c]) \in Seq(Event)
      /\ \A i \in DOMAIN Tail(work[c]) :
            i + 1 \in DOMAIN work[c] /\ Tail(work[c])[i] = work[c][i + 1]
  BY <1>1
<1>3. \A d \in Callers : work'[d] = IF d = c THEN Tail(work[c]) ELSE work[d]
  BY <1>1
<1>4. \A d \in Callers : \A i \in DOMAIN work'[d] :
          TunnelID(work'[d][i].entry) \in TunnelIDs
  <2> SUFFICES ASSUME NEW d \in Callers, NEW i \in DOMAIN work'[d]
               PROVE  TunnelID(work'[d][i].entry) \in TunnelIDs
    OBVIOUS
  <2>1. CASE d = c
    BY <1>2, <1>3, <2>1 DEF KnownIDs
  <2>2. CASE d # c
    BY <1>3, <2>2 DEF KnownIDs
  <2> QED
    BY <2>1, <2>2
<1> QED
  BY <1>1, <1>2, <1>4

(* The same set of managers is alive after a step that neither starts nor    *)
(* finishes one.                                                             *)
LEMMA SameLive ==
    ASSUME \A m \in Managers : manager'[m] = "none" <=> manager[m] = "none"
    PROVE  Live' = Live
BY DEF Live

(* Steps that leave the map and the managers alone.                          *)
LEMMA RegistryUntouched ==
    ASSUME Inv, UNCHANGED registryVars
    PROVE  /\ RegistryExact' /\ Live' = Live
           /\ \A m \in Managers : manager'[m] # "none" => TunnelID(entry'[m]) \in TunnelIDs
BY DEF Inv, registryVars, RegistryExact, Live, KnownIDs, Running

(* One step of one manager's goroutine, with the map as it was: it keeps     *)
(* going, or it is on its way out.                                           *)
LEMMA ManagerMoves ==
    ASSUME Inv, NEW m \in Managers, manager[m] \in Running,
           NEW state \in Running \cup {"exit"}, GoTo(m, state)
    PROVE  Inv'
<1>1. /\ manager \in [Managers -> ManagerStates]
      /\ manager' = [manager EXCEPT ![m] = state]
      /\ UNCHANGED <<callerVars, tunnelManagers, entry, stopped, cancelled, mavlink, wg>>
  BY DEF GoTo, Inv, TypeOK
<1>2. \A n \in Managers : manager'[n] = IF n = m THEN state ELSE manager[n]
  BY <1>1
<1>3. state # "none" /\ manager[m] # "none"
  BY DEF Running
<1>4. TypeOK'
  BY <1>1 DEF Inv, TypeOK, callerVars, Running, ManagerStates
<1>5. Live' = Live
  BY <1>2, <1>3, SameLive
<1>6. RegistryExact'
  BY <1>1, <1>2 DEF Inv, RegistryExact, TypeOK
<1>7. KnownIDs' /\ InsertReady' /\ StopReady' /\ Sequential'
  BY <1>1, <1>2, <1>3 DEF Inv, KnownIDs, InsertReady, StopReady, Sequential,
     CurrentEntry, callerVars
<1>8. CountExact'
  BY <1>1, <1>5 DEF Inv, CountExact, ReporterActive, callerVars
<1>9. ReturnedMeansGone'
  BY <1>1, <1>2, <1>3 DEF Inv, ReturnedMeansGone, callerVars
<1> QED
  BY <1>4, <1>6, <1>7, <1>8, <1>9 DEF Inv
-----------------------------------------------------------------------------
(***************************************************************************)
(* The invariant is inductive.                                             *)
(***************************************************************************)
LEMMA InvInit == Init => Inv
<1> SUFFICES ASSUME Init PROVE Inv
  OBVIOUS
<1>1. Live = {}
  BY DEF Init, Live
<1>2. TypeOK
  <2>2. work \in [Callers -> Seq(Event)]
    BY DEF Init
  <2>3. pc["main"] = "init" /\ pc["reporter"] = "off"
    BY DEF Init, Callers
  <2>4. pc \in [Callers -> MainStates \cup ReporterStates]
    BY DEF Init, MainStates, ReporterStates
  <2> QED
    BY <2>2, <2>3, <2>4 DEF Init, TypeOK, MainStates, ReporterStates, ManagerStates
<1>3. CountExact
  BY <1>1, FS_EmptySet DEF Init, CountExact, One, ReporterActive, Callers
<1>4. Sequential /\ KnownIDs /\ InsertReady /\ StopReady /\ RegistryExact /\ ReturnedMeansGone
  BY DEF Init, Sequential, KnownIDs, InsertReady, StopReady, RegistryExact,
     ReturnedMeansGone, Callers, Running
<1> QED
  BY <1>2, <1>3, <1>4 DEF Inv

(* Run up to startTunnels: its work is the configured entries.               *)
LEMMA RunInitStep == Inv /\ RunInit => Inv'
<1> SUFFICES ASSUME Inv, RunInit PROVE Inv'
  OBVIOUS
<1>1. /\ pc["main"] = "init" /\ pc["reporter"] = "off" /\ mavlink = "off"
      /\ UNCHANGED <<target, registryVars, cancelled>>
  BY DEF RunInit, Inv, Sequential
<1>2. /\ RegistryExact' /\ Live' = Live
      /\ \A m \in Managers : manager'[m] # "none" => TunnelID(entry'[m]) \in TunnelIDs
  BY <1>1, RegistryUntouched
<1>3. CASE pc' = [pc EXCEPT !["main"] = "failed"] /\ UNCHANGED <<work, mavlink, wg>>
  <2>1. TypeOK' /\ pc'["main"] = "failed" /\ pc'["reporter"] = "off"
    BY <1>1, <1>3 DEF Inv, TypeOK, registryVars, Callers, MainStates
  <2> QED
    BY <1>1, <1>2, <1>3, <2>1 DEF Inv, Sequential, KnownIDs, InsertReady, StopReady,
       CountExact, ReporterActive, ReturnedMeansGone, Callers, CurrentEntry
<1>4. CASE /\ pc' = [pc EXCEPT !["main"] = "next"]
           /\ work' = [work EXCEPT !["main"] =
                 [i \in DOMAIN Endpoints |-> [op |-> "start", entry |-> Endpoints[i]]]]
           /\ IF MAVLinkEnabled
              THEN mavlink' = "running" /\ wg' = wg + 1
              ELSE UNCHANGED <<mavlink, wg>>
  <2> DEFINE events == [i \in DOMAIN Endpoints |-> [op |-> "start", entry |-> Endpoints[i]]]
  <2>1. pc'["main"] = "next" /\ pc'["reporter"] = "off"
    BY <1>1, <1>4 DEF Inv, TypeOK, Callers
  <2>2. events \in Seq(Event)
    <3>1. /\ Len(Endpoints) \in Nat /\ DOMAIN Endpoints = 1 .. Len(Endpoints)
          /\ \A i \in DOMAIN Endpoints : Endpoints[i] \in Entry
      BY RegistryAssumption
    <3>2. events \in [1 .. Len(Endpoints) -> Event]
      BY <3>1 DEF Event
    <3> QED
      <4> HIDE DEF events
      <4>1. events \in UNION {[1 .. n -> Event] : n \in Nat}
        BY <3>1, <3>2
      <4> QED
        BY <4>1, SeqDef, Zenon
  <2>3. \A c \in Callers : work'[c] = IF c = "main" THEN events ELSE work[c]
    BY <1>4 DEF Inv, TypeOK
  <2>4. TypeOK'
    <3>1. work' \in [Callers -> Seq(Event)]
      BY <1>4, <2>2 DEF Inv, TypeOK
    <3>2. pc' \in [Callers -> MainStates \cup ReporterStates]
      BY <1>4 DEF Inv, TypeOK, MainStates
    <3>3. mavlink' \in {"off", "running", "done"} /\ wg' \in Nat
      BY <1>4 DEF Inv, TypeOK
    <3> QED
      BY <1>1, <2>1, <3>1, <3>2, <3>3 DEF Inv, TypeOK, registryVars, MainStates,
         ReporterStates
  <2>5. KnownIDs'
    <3>1. \A i \in DOMAIN Endpoints : TunnelID(Endpoints[i]) \in TunnelIDs
      BY DEF TunnelIDs
    <3>2. \A c \in Callers : \A i \in DOMAIN work'[c] :
              TunnelID(work'[c][i].entry) \in TunnelIDs
      <4> SUFFICES ASSUME NEW c \in Callers, NEW i \in DOMAIN work'[c]
                   PROVE  TunnelID(work'[c][i].entry) \in TunnelIDs
        OBVIOUS
      <4>1. CASE c = "main"
        <5>1. i \in DOMAIN Endpoints /\ work'[c][i] = events[i]
          BY <2>3, <4>1
        <5> QED
          BY <3>1, <5>1
      <4>2. CASE c # "main"
        BY <2>3, <4>2 DEF Inv, KnownIDs
      <4> QED
        BY <4>1, <4>2
    <3> QED
      BY <1>2, <3>2 DEF KnownIDs
  <2>6. CountExact'
    BY <1>1, <1>2, <1>4, <2>1, FS_CardinalityType
    DEF Inv, TypeOK, CountExact, ReporterActive, One
  <2> QED
    BY <1>1, <1>2, <2>1, <2>4, <2>5, <2>6 DEF Inv, Sequential, InsertReady, StopReady,
       ReturnedMeansGone, Callers
<1> QED
  BY <1>3, <1>4 DEF RunInit

(* The steps of Run and of the reporter that only move a program counter,    *)
(* end a goroutine that is counted, or start the reporter.                   *)
LEMMA GoroutineStep ==
    Inv /\ (StartReporter \/ Signal \/ WaitReturns \/ MAVLinkDone \/ Tick
              \/ BatchDone \/ ReporterDone) => Inv'
<1> SUFFICES ASSUME Inv,
                    StartReporter \/ Signal \/ WaitReturns \/ MAVLinkDone \/ Tick
                      \/ BatchDone \/ ReporterDone
             PROVE  Inv'
  OBVIOUS
<1>1. UNCHANGED <<work, target, registryVars>>
  BY DEF StartReporter, Signal, WaitReturns, MAVLinkDone, Tick, BatchDone, ReporterDone,
     callerVars
<1>2. /\ RegistryExact' /\ Live' = Live
      /\ \A m \in Managers : manager'[m] # "none" => TunnelID(entry'[m]) \in TunnelIDs
  BY <1>1, RegistryUntouched
<1>3. Cardinality(Live) \in Nat
  BY FS_CardinalityType DEF Inv, CountExact
<1>4. CountExact'
  <2>1. CASE StartReporter
    BY <1>1, <1>2, <1>3, <2>1 DEF StartReporter, Inv, TypeOK, CountExact, Sequential,
       ReporterActive, One, Callers
  <2>2. CASE MAVLinkDone
    BY <1>1, <1>2, <1>3, <2>2 DEF MAVLinkDone, Inv, TypeOK, CountExact, ReporterActive,
       One, callerVars
  <2>3. CASE ReporterDone
    BY <1>1, <1>2, <1>3, <2>3 DEF ReporterDone, Inv, TypeOK, CountExact, ReporterActive,
       One, Callers
  <2>4. CASE Signal \/ WaitReturns \/ Tick \/ BatchDone
    BY <1>1, <1>2, <2>4 DEF Signal, WaitReturns, Tick, BatchDone, Inv, TypeOK,
       CountExact, ReporterActive, Callers
  <2> QED
    BY <2>1, <2>2, <2>3, <2>4
<1>5. TypeOK'
  <2>1. wg' \in Nat
    BY <1>2, <1>3, <1>4 DEF CountExact, One
  <2>2. /\ pc' \in [Callers -> MainStates \cup ReporterStates]
        /\ pc'["main"] \in MainStates /\ pc'["reporter"] \in ReporterStates
    BY DEF StartReporter, Signal, WaitReturns, MAVLinkDone, Tick, BatchDone, ReporterDone,
       Inv, TypeOK, callerVars, Callers, MainStates, ReporterStates
  <2>3. cancelled' \in BOOLEAN /\ mavlink' \in {"off", "running", "done"}
    BY DEF StartReporter, Signal, WaitReturns, MAVLinkDone, Tick, BatchDone, ReporterDone,
       Inv, TypeOK
  <2> QED
    BY <1>1, <2>1, <2>2, <2>3 DEF Inv, TypeOK, registryVars
<1>6. KnownIDs'
  BY <1>1, <1>2 DEF Inv, KnownIDs
<1>7. \A c \in Callers : pc'[c] \in {"insert", "stop"} => pc[c] = pc'[c]
  BY DEF StartReporter, Signal, WaitReturns, MAVLinkDone, Tick, BatchDone,
     ReporterDone, Inv, TypeOK, callerVars, Callers
<1>8. InsertReady' /\ StopReady'
  BY <1>1, <1>7 DEF Inv, InsertReady, StopReady, CurrentEntry, registryVars
<1>9. Sequential'
  BY DEF StartReporter, Signal, WaitReturns, MAVLinkDone, Tick, BatchDone,
     ReporterDone, Inv, TypeOK, Sequential, callerVars, Callers
<1>10. ReturnedMeansGone'
  <2>1. CASE WaitReturns
    <3>1. /\ Cardinality(Live) = 0 /\ ~ReporterActive /\ mavlink # "running"
      BY <1>3, <2>1 DEF WaitReturns, Inv, CountExact, One
    <3>2. Live = {}
      BY <3>1, FS_EmptySet DEF Inv, CountExact
    <3> QED
      BY <1>1, <2>1, <3>1, <3>2 DEF WaitReturns, ReturnedMeansGone, Live, ReporterActive,
         registryVars, Inv, TypeOK, Callers
  <2>2. CASE ~WaitReturns
    BY <1>1, <2>2 DEF StartReporter, Signal, MAVLinkDone, Tick, BatchDone, ReporterDone,
       Inv, TypeOK, ReturnedMeansGone, registryVars, callerVars, Callers
  <2> QED
    BY <2>1, <2>2
<1> QED
  BY <1>2, <1>4, <1>5, <1>6, <1>8, <1>9, <1>10 DEF Inv

(* While a caller starts or stops tunnels, it is the only one, and Run has   *)
(* not returned.                                                             *)
LEMMA OneCaller ==
    ASSUME Inv, NEW c \in Callers, pc[c] \in {"next", "insert", "stop"}
    PROVE  /\ \A d \in Callers : d # c => pc[d] \notin {"insert", "stop"}
           /\ c = "main" => pc["reporter"] = "off"
           /\ c = "reporter" => pc["main"] \in {"wait", "drain"}
BY DEF Inv, TypeOK, Sequential, ReturnedMeansGone, Callers, MainStates

(* What a caller's step has to respect besides the registry.                 *)
LEMMA CallerMoves ==
    ASSUME Inv, NEW c \in Callers, pc[c] \in {"next", "insert", "stop"},
           NEW state \in {"next", "insert", "stop"}, pc' = [pc EXCEPT ![c] = state],
           UNCHANGED <<cancelled, mavlink>>
    PROVE  /\ pc' \in [Callers -> MainStates \cup ReporterStates]
           /\ pc'["main"] \in MainStates /\ pc'["reporter"] \in ReporterStates
           /\ Sequential' /\ ReturnedMeansGone'
           /\ \A d \in Callers : pc'[d] \in {"insert", "stop"} => d = c
           /\ ReporterActive' = ReporterActive
           /\ pc'[c] = state
<1>1. \A d \in Callers : pc'[d] = IF d = c THEN state ELSE pc[d]
  BY DEF Inv, TypeOK
<1>2. /\ pc' \in [Callers -> MainStates \cup ReporterStates]
      /\ pc'["main"] \in MainStates /\ pc'["reporter"] \in ReporterStates
  BY <1>1 DEF Inv, TypeOK, Callers, MainStates, ReporterStates
<1>3. Sequential' /\ ReporterActive' = ReporterActive
  BY <1>1, OneCaller DEF Inv, Sequential, ReporterActive, Callers
<1>4. pc'["main"] # "returned"
  BY <1>1, OneCaller DEF Callers
<1> QED
  BY <1>1, <1>2, <1>3, <1>4, OneCaller DEF ReturnedMeansGone

LEMMA StartCheckStep == ASSUME Inv, NEW c \in Callers, StartCheck(c) PROVE Inv'
<1>1. /\ pc[c] = "next" /\ work[c] # <<>>
      /\ UNCHANGED <<target, registryVars, cancelled, mavlink, wg>>
  BY DEF StartCheck, Current
<1>2. /\ RegistryExact' /\ Live' = Live
      /\ \A m \in Managers : manager'[m] # "none" => TunnelID(entry'[m]) \in TunnelIDs
  BY <1>1, RegistryUntouched
<1>3. CASE work' = [work EXCEPT ![c] = Tail(@)] /\ UNCHANGED pc
  <2>1. /\ work' \in [Callers -> Seq(Event)]
        /\ \A d \in Callers : \A i \in DOMAIN work'[d] :
              TunnelID(work'[d][i].entry) \in TunnelIDs
    BY <1>1, <1>3, WorkTail DEF Inv
  <2>2. TypeOK' /\ KnownIDs'
    BY <1>1, <1>2, <1>3, <2>1 DEF Inv, TypeOK, KnownIDs, registryVars
  <2>3. InsertReady' /\ StopReady'
    BY <1>1, <1>3, OneCaller DEF InsertReady, StopReady
  <2>4. Sequential' /\ CountExact' /\ ReturnedMeansGone'
    BY <1>1, <1>2, <1>3 DEF Inv, Sequential, CountExact, ReporterActive,
       ReturnedMeansGone, registryVars
  <2> QED
    BY <1>2, <2>2, <2>3, <2>4 DEF Inv
<1>4. CASE /\ pc' = [pc EXCEPT ![c] = "insert"] /\ UNCHANGED work
           /\ tunnelManagers[TunnelID(CurrentEntry(c))] = NoManager
  <2>1. /\ pc' \in [Callers -> MainStates \cup ReporterStates]
        /\ pc'["main"] \in MainStates /\ pc'["reporter"] \in ReporterStates
        /\ Sequential' /\ ReturnedMeansGone'
        /\ \A d \in Callers : pc'[d] \in {"insert", "stop"} => d = c
        /\ ReporterActive' = ReporterActive /\ pc'[c] = "insert"
    BY <1>1, <1>4, CallerMoves
  <2>2. TypeOK' /\ KnownIDs'
    BY <1>1, <1>2, <1>4, <2>1 DEF Inv, TypeOK, KnownIDs, registryVars
  <2>3. InsertReady' /\ StopReady'
    BY <1>1, <1>4, <2>1 DEF InsertReady, StopReady, CurrentEntry, registryVars
  <2>4. CountExact'
    BY <1>1, <1>2, <2>1 DEF Inv, CountExact
  <2> QED
    BY <1>2, <2>1, <2>2, <2>3, <2>4 DEF Inv
<1> QED
  BY <1>3, <1>4 DEF StartCheck

(* The manager that is inserted was not alive, and its ID was free since the *)
(* check.                                                                    *)
LEMMA StartInsertStep == ASSUME Inv, NEW c \in Callers, StartInsert(c) PROVE Inv'
<1> DEFINE id == TunnelID(CurrentEntry(c))
<1>1. /\ pc[c] = "insert" /\ pc' = [pc EXCEPT ![c] = "next"]
      /\ wg' = wg + 1 /\ work' = [work EXCEPT ![c] = Tail(@)]
      /\ UNCHANGED <<target, cancelled, mavlink>>
  BY DEF StartInsert
<1>2. PICK m \in Managers :
          /\ manager[m] = "none"
          /\ tunnelManagers' = [tunnelManagers EXCEPT ![id] = m]
          /\ manager' = [manager EXCEPT ![m] = "top"]
          /\ entry' = [entry EXCEPT ![m] = CurrentEntry(c)]
          /\ stopped' = [stopped EXCEPT ![m] = FALSE]
  BY DEF StartInsert
<1>3. work[c] # <<>> /\ tunnelManagers[id] = NoManager
  BY <1>1 DEF Inv, InsertReady
<1>4. CurrentEntry(c) \in Entry /\ id \in TunnelIDs
  BY <1>3, WorkHead DEF Inv
<1>5. /\ pc' \in [Callers -> MainStates \cup ReporterStates]
      /\ pc'["main"] \in MainStates /\ pc'["reporter"] \in ReporterStates
      /\ Sequential' /\ ReturnedMeansGone'
      /\ \A d \in Callers : pc'[d] \in {"insert", "stop"} => d = c
      /\ ReporterActive' = ReporterActive /\ pc'[c] = "next"
  BY <1>1, CallerMoves
<1>6. /\ work' \in [Callers -> Seq(Event)]
      /\ \A d \in Callers : \A i \in DOMAIN work'[d] :
            TunnelID(work'[d][i].entry) \in TunnelIDs
  BY <1>1, <1>3, WorkTail DEF Inv
<1>7. TypeOK'
  BY <1>1, <1>2, <1>4, <1>5, <1>6 DEF Inv, TypeOK, ManagerStates
<1>8. /\ \A n \in Managers : manager'[n] = IF n = m THEN "top" ELSE manager[n]
      /\ \A n \in Managers : entry'[n] = IF n = m THEN CurrentEntry(c) ELSE entry[n]
      /\ \A i \in TunnelIDs : tunnelManagers'[i] = IF i = id THEN m ELSE tunnelManagers[i]
  BY <1>2 DEF Inv, TypeOK
<1>9. KnownIDs'
  BY <1>4, <1>6, <1>8 DEF Inv, KnownIDs
<1>10. InsertReady' /\ StopReady'
  BY <1>5 DEF InsertReady, StopReady
<1>11. RegistryExact'
  <2> DEFINE alive == Running \cup {"exit"}
  <2>1. \A i \in TunnelIDs : tunnelManagers'[i] # NoManager =>
            manager'[tunnelManagers'[i]] \in alive /\ TunnelID(entry'[tunnelManagers'[i]]) = i
    <3> SUFFICES ASSUME NEW i \in TunnelIDs, tunnelManagers'[i] # NoManager
                 PROVE  /\ manager'[tunnelManagers'[i]] \in alive
                        /\ TunnelID(entry'[tunnelManagers'[i]]) = i
      OBVIOUS
    <3>1. CASE i = id
      BY <1>8, <3>1 DEF Running
    <3>2. CASE i # id
      <4>1. /\ tunnelManagers'[i] = tunnelManagers[i] /\ tunnelManagers[i] \in Managers
            /\ manager[tunnelManagers[i]] \in alive /\ TunnelID(entry[tunnelManagers[i]]) = i
        BY <1>8, <3>2 DEF Inv, TypeOK, RegistryExact
      <4>2. tunnelManagers[i] # m
        BY <1>2, <4>1 DEF Running
      <4> QED
        BY <1>8, <4>1, <4>2
    <3> QED
      BY <3>1, <3>2
  <2>2. \A n \in Managers : manager'[n] \in alive => tunnelManagers'[TunnelID(entry'[n])] = n
    <3> SUFFICES ASSUME NEW n \in Managers, manager'[n] \in alive
                 PROVE  tunnelManagers'[TunnelID(entry'[n])] = n
      OBVIOUS
    <3>1. CASE n = m
      BY <1>4, <1>8, <3>1
    <3>2. CASE n # m
      <4>1. manager[n] \in alive /\ entry'[n] = entry[n]
        BY <1>8, <3>2
      <4>2. /\ tunnelManagers[TunnelID(entry[n])] = n
            /\ TunnelID(entry[n]) \in TunnelIDs
        BY <4>1 DEF Inv, RegistryExact, KnownIDs, Running
      <4>3. TunnelID(entry[n]) # id
        BY <1>3, <4>2, RegistryAssumption
      <4> QED
        BY <1>8, <4>1, <4>2, <4>3
    <3> QED
      BY <3>1, <3>2
  <2> QED
    BY <2>1, <2>2 DEF RegistryExact
<1>12. CountExact'
  <2>1. Live' = Live \cup {m} /\ m \notin Live
    BY <1>2, <1>8 DEF Live
  <2>2. IsFiniteSet(Live) /\ Cardinality(Live) \in Nat
    BY FS_CardinalityType DEF Inv, CountExact
  <2>3. IsFiniteSet(Live') /\ Cardinality(Live') = Cardinality(Live) + 1
    BY <2>1, <2>2, FS_AddElement
  <2> QED
    BY <1>1, <1>5, <2>2, <2>3 DEF Inv, CountExact, One
<1> QED
  BY <1>5, <1>7, <1>9, <1>10, <1>11, <1>12 DEF Inv

LEMMA StopStep ==
    ASSUME Inv, NEW c \in Callers, StopLookup(c) \/ StopCancel(c) PROVE Inv'
<1>1. /\ UNCHANGED <<tunnelManagers, manager, entry, cancelled, mavlink, wg>>
      /\ Live' = Live
  BY DEF StopLookup, StopCancel, registryVars, Live
<1>2. RegistryExact'
  BY <1>1 DEF Inv, RegistryExact
<1>3. stopped' \in [Managers -> BOOLEAN]
  BY DEF StopLookup, StopCancel, registryVars, Inv, TypeOK
<1>4. \A m \in Managers : manager'[m] # "none" => TunnelID(entry'[m]) \in TunnelIDs
  BY <1>1 DEF Inv, KnownIDs
<1>5. ASSUME work[c] # <<>>, pc[c] \in {"next", "stop"},
             work' = [work EXCEPT ![c] = Tail(@)], pc' = [pc EXCEPT ![c] = "next"],
             target' \in [Callers -> Managers \cup {NoManager}]
      PROVE  Inv'
  <2>1. /\ pc' \in [Callers -> MainStates \cup ReporterStates]
        /\ pc'["main"] \in MainStates /\ pc'["reporter"] \in ReporterStates
        /\ Sequential' /\ ReturnedMeansGone'
        /\ \A d \in Callers : pc'[d] \in {"insert", "stop"} => d = c
        /\ ReporterActive' = ReporterActive /\ pc'[c] = "next"
    BY <1>1, <1>5, CallerMoves
  <2>2. /\ work' \in [Callers -> Seq(Event)]
        /\ \A d \in Callers : \A i \in DOMAIN work'[d] :
              TunnelID(work'[d][i].entry) \in TunnelIDs
    BY <1>5, WorkTail DEF Inv
  <2>3. TypeOK'
    BY <1>1, <1>3, <1>5, <2>1, <2>2 DEF Inv, TypeOK
  <2>4. KnownIDs' /\ InsertReady' /\ StopReady' /\ CountExact'
    BY <1>1, <1>4, <2>1, <2>2 DEF Inv, KnownIDs, InsertReady, StopReady, CountExact
  <2> QED
    BY <1>2, <2>1, <2>3, <2>4 DEF Inv
<1>6. CASE StopCancel(c)
  BY <1>5, <1>6 DEF StopCancel, Inv, StopReady, TypeOK
<1>7. CASE StopLookup(c)
  <2> DEFINE m == tunnelManagers[TunnelID(CurrentEntry(c))]
  <2>1. pc[c] = "next" /\ work[c] # <<>>
    BY <1>7 DEF StopLookup, Current
  <2>2. CASE m = NoManager
    <3>1. pc' = [pc EXCEPT ![c] = "next"]
      BY <1>7, <2>1, <2>2 DEF StopLookup, Inv, TypeOK
    <3> QED
      BY <1>5, <1>7, <2>1, <2>2, <3>1 DEF StopLookup, Inv, TypeOK
  <2>3. CASE m # NoManager
    <3>1. /\ pc' = [pc EXCEPT ![c] = "stop"] /\ target' = [target EXCEPT ![c] = m]
          /\ UNCHANGED work
      BY <1>7, <2>3 DEF StopLookup
    <3>2. /\ pc' \in [Callers -> MainStates \cup ReporterStates]
          /\ pc'["main"] \in MainStates /\ pc'["reporter"] \in ReporterStates
          /\ Sequential' /\ ReturnedMeansGone'
          /\ \A d \in Callers : pc'[d] \in {"insert", "stop"} => d = c
          /\ ReporterActive' = ReporterActive /\ pc'[c] = "stop"
      BY <1>1, <2>1, <3>1, CallerMoves
    <3>3. m \in Managers \cup {NoManager}
      BY <2>1, WorkHead DEF Inv, TypeOK
    <3>4. TypeOK'
      BY <1>1, <1>3, <3>1, <3>2, <3>3 DEF Inv, TypeOK
    <3>5. KnownIDs' /\ InsertReady' /\ StopReady' /\ CountExact'
      BY <1>1, <1>4, <2>1, <3>1, <3>2 DEF Inv, KnownIDs, InsertReady, StopReady, CountExact
    <3> QED
      BY <1>2, <3>2, <3>4, <3>5 DEF Inv
  <2> QED
    BY <2>2, <2>3
<1> QED
  BY <1>6, <1>7

(* sendStats returns a batch, whose IDs are known.                           *)
LEMMA AnswerStep == ASSUME Inv, Answer PROVE Inv'
<1>1. PICK batch \in Batches : work' = [work EXCEPT !["reporter"] = batch]
  BY DEF Answer
<1>2. /\ pc["reporter"] = "post" /\ pc' = [pc EXCEPT !["reporter"] = "next"]
      /\ UNCHANGED <<target, registryVars, cancelled, mavlink, wg>>
  BY DEF Answer
<1>3. /\ RegistryExact' /\ Live' = Live
      /\ \A m \in Managers : manager'[m] # "none" => TunnelID(entry'[m]) \in TunnelIDs
  BY <1>2, RegistryUntouched
<1>4. \A c \in Callers :
          /\ pc'[c] = IF c = "reporter" THEN "next" ELSE pc[c]
          /\ work'[c] = IF c = "reporter" THEN batch ELSE work[c]
  BY <1>1, <1>2 DEF Inv, TypeOK
<1>5. batch \in Seq(Event) /\ \A i \in DOMAIN batch : TunnelID(batch[i].entry) \in TunnelIDs
  BY RegistryAssumption DEF TunnelIDs
<1>6. TypeOK'
  BY <1>1, <1>2, <1>4, <1>5 DEF Inv, TypeOK, registryVars, Callers, MainStates, ReporterStates
<1>7. KnownIDs'
  BY <1>3, <1>4, <1>5 DEF Inv, KnownIDs
<1>8. InsertReady' /\ StopReady' /\ Sequential'
  BY <1>2, <1>4 DEF Inv, InsertReady, StopReady, Sequential, CurrentEntry, registryVars,
     Callers
<1>9. CountExact' /\ ReturnedMeansGone'
  BY <1>2, <1>3, <1>4 DEF Inv, CountExact, ReporterActive, ReturnedMeansGone, Callers
<1> QED
  BY <1>3, <1>6, <1>7, <1>8, <1>9 DEF Inv

(* A manager that ends takes its own entry out of the map.                   *)
LEMMA ManagerDeleteStep == ASSUME Inv, NEW m \in Managers, ManagerDelete(m) PROVE Inv'
<1>1. /\ manager[m] = "exit" /\ manager' = [manager EXCEPT ![m] = "deleted"]
      /\ tunnelManagers' = [tunnelManagers EXCEPT ![TunnelID(entry[m])] = NoManager]
      /\ UNCHANGED <<callerVars, entry, stopped, cancelled, mavlink, wg>>
  BY DEF ManagerDelete
<1>2. /\ tunnelManagers[TunnelID(entry[m])] = m /\ TunnelID(entry[m]) \in TunnelIDs
  BY <1>1 DEF Inv, RegistryExact, KnownIDs
<1>3. /\ \A n \in Managers : manager'[n] = IF n = m THEN "deleted" ELSE manager[n]
      /\ \A id \in TunnelIDs : tunnelManagers'[id] =
            IF id = TunnelID(entry[m]) THEN NoManager ELSE tunnelManagers[id]
  BY <1>1 DEF Inv, TypeOK
<1>4. TypeOK'
  BY <1>1 DEF Inv, TypeOK, callerVars, ManagerStates
<1>5. Live' = Live
  BY <1>1, <1>3, SameLive
<1>6. RegistryExact'
  BY <1>1, <1>2, <1>3 DEF Inv, TypeOK, RegistryExact, Running
<1>7. InsertReady'
  <2> SUFFICES ASSUME NEW c \in Callers, pc[c] = "insert"
               PROVE  tunnelManagers'[TunnelID(CurrentEntry(c))] = NoManager
    BY <1>1 DEF Inv, InsertReady, CurrentEntry, callerVars
  <2>1. /\ TunnelID(CurrentEntry(c)) \in TunnelIDs
        /\ tunnelManagers[TunnelID(CurrentEntry(c))] = NoManager
    BY WorkHead DEF Inv, InsertReady
  <2> QED
    BY <1>3, <2>1
<1>8. KnownIDs' /\ StopReady' /\ Sequential'
  BY <1>1, <1>3 DEF Inv, KnownIDs, StopReady, Sequential, callerVars
<1>9. CountExact' /\ ReturnedMeansGone'
  BY <1>1, <1>3, <1>5 DEF Inv, CountExact, ReporterActive, ReturnedMeansGone, callerVars
<1> QED
  BY <1>4, <1>6, <1>7, <1>8, <1>9 DEF Inv

(* The last thing it does is count itself out.                               *)
LEMMA ManagerDoneStep == ASSUME Inv, NEW m \in Managers, ManagerDone(m) PROVE Inv'
<1>1. /\ manager[m] = "deleted" /\ manager' = [manager EXCEPT ![m] = "none"]
      /\ entry' = [entry EXCEPT ![m] = NoEntry] /\ stopped' = [stopped EXCEPT ![m] = FALSE]
      /\ wg' = wg - 1
      /\ UNCHANGED <<callerVars, tunnelManagers, cancelled, mavlink>>
  BY DEF ManagerDone
<1>2. \A n \in Managers :
          /\ manager'[n] = IF n = m THEN "none" ELSE manager[n]
          /\ entry'[n] = IF n = m THEN NoEntry ELSE entry[n]
  BY <1>1 DEF Inv, TypeOK
<1>3. CountExact'
  <2>1. Live' = Live \ {m} /\ m \in Live
    BY <1>1, <1>2 DEF Live
  <2>2. /\ IsFiniteSet(Live) /\ Cardinality(Live) \in Nat
        /\ IsFiniteSet(Live') /\ Cardinality(Live') = Cardinality(Live) - 1
    BY <2>1, FS_CardinalityType, FS_RemoveElement DEF Inv, CountExact
  <2> QED
    BY <1>1, <2>2 DEF Inv, CountExact, ReporterActive, One, callerVars
<1>4. TypeOK'
  <2>1. wg' \in Nat
    BY <1>3, FS_CardinalityType DEF CountExact, One
  <2> QED
    BY <1>1, <2>1 DEF Inv, TypeOK, callerVars, ManagerStates
<1>5. RegistryExact'
  BY <1>1, <1>2 DEF Inv, TypeOK, RegistryExact, Running
<1>6. KnownIDs' /\ InsertReady' /\ StopReady' /\ Sequential' /\ ReturnedMeansGone'
  BY <1>1, <1>2 DEF Inv, KnownIDs, InsertReady, StopReady, Sequential, ReturnedMeansGone,
     CurrentEntry, callerVars
<1> QED
  BY <1>3, <1>4, <1>5, <1>6 DEF Inv

LEMMA InvStep == Inv /\ [Next]_vars => Inv'
<1> SUFFICES ASSUME Inv, [Next]_vars PROVE Inv'
  OBVIOUS
<1>1. CASE RunInit
  BY <1>1, RunInitStep
<1>2. CASE StartReporter \/ Signal \/ WaitReturns \/ MAVLinkDone \/ Tick \/ BatchDone
              \/ ReporterDone
  BY <1>2, GoroutineStep
<1>3. ASSUME NEW c \in Callers, CallerStep(c) PROVE Inv'
  BY <1>3, StartCheckStep, StartInsertStep, StopStep DEF CallerStep
<1>4. CASE Answer
  BY <1>4, AnswerStep
<1>5. ASSUME NEW m \in Managers, ManagerStep(m) \/ TunnelCloses(m) PROVE Inv'
  <2>1. CASE ManagerTop(m)
    BY <2>1, ManagerMoves DEF ManagerTop, Running
  <2>2. CASE PauseOver(m)
    BY <2>2, ManagerMoves DEF PauseOver, Running
  <2>3. CASE TunnelCloses(m)
    BY <2>3, ManagerMoves DEF TunnelCloses, Running
  <2> QED
    BY <1>5, <2>1, <2>2, <2>3, ManagerDeleteStep, ManagerDoneStep DEF ManagerStep
<1>6. CASE UNCHANGED vars
  <2>1. /\ RegistryExact' /\ Live' = Live
        /\ \A m \in Managers : manager'[m] # "none" => TunnelID(entry'[m]) \in TunnelIDs
    BY <1>6, RegistryUntouched DEF vars
  <2> QED
    BY <1>6, <2>1 DEF vars, callerVars, registryVars, Inv, TypeOK, Sequential, KnownIDs,
       InsertReady, StopReady, CountExact, ReporterActive, ReturnedMeansGone, CurrentEntry
<1> QED
  BY <1>1, <1>2, <1>3, <1>4, <1>5, <1>6 DEF Next, Terminated

LEMMA InvCorrect == Spec => []Inv
BY InvInit, InvStep, PTL DEF Spec
-----------------------------------------------------------------------------
(***************************************************************************)
(* Theorems.                                                               *)
(***************************************************************************)

(* The counter of the WaitGroup never goes below zero - in Go a panic -, and *)
(* everything has its type.                                                  *)
THEOREM TypeCorrect == Spec => []TypeOK
BY InvCorrect, PTL DEF Inv

(* The map holds exactly the managers that have not ended: startTunnels      *)
(* never starts a second one for an ID (drone.go:254), and a manager's       *)
(* deferred delete (drone.go:285) never removes another one's entry.         *)
THEOREM RegistryExactCorrect == Spec => []RegistryExact
BY InvCorrect, PTL DEF Inv

(* Run returns only when every goroutine it started is gone.                 *)
THEOREM ReturnedMeansGoneCorrect == Spec => []ReturnedMeansGone
BY InvCorrect, PTL DEF Inv

(* No wg.Add once wg.Wait could have returned, although the reporter starts  *)
(* tunnels while Run waits (drone.go:280).                                   *)
THEOREM NoAddAfterWaitCorrect == Spec => NoAddAfterWait
<1>1. ASSUME Inv, [Next]_vars, pc["main"] = "drain", wg = 0 PROVE wg' = 0
  <2>1. /\ IsFiniteSet(Live) /\ Cardinality(Live) \in Nat
        /\ wg = Cardinality(Live) + One(mavlink = "running") + One(ReporterActive)
    BY <1>1, FS_CardinalityType DEF Inv, CountExact
  <2>2. Live = {} /\ mavlink # "running" /\ pc["reporter"] \in {"off", "done"}
    BY <1>1, <2>1, FS_EmptySet DEF One, ReporterActive
  <2>3. \A m \in Managers : manager[m] = "none"
    BY <2>2 DEF Live
  <2>4. \A c \in Callers : pc[c] \notin {"next", "insert", "stop"}
    BY <1>1, <2>2 DEF Callers
  <2>5. ~\E c \in Callers : CallerStep(c)
    BY <2>4 DEF CallerStep, StartCheck, StartInsert, StopLookup, StopCancel, Current
  <2>6. ~\E m \in Managers : ManagerStep(m) \/ TunnelCloses(m)
    BY <2>3 DEF ManagerStep, TunnelCloses, ManagerTop, PauseOver, ManagerDelete, ManagerDone
  <2>7. CASE RunInit \/ StartReporter \/ MAVLinkDone \/ ReporterDone
    BY <1>1, <2>2, <2>7 DEF RunInit, StartReporter, MAVLinkDone, ReporterDone
  <2> QED
    BY <1>1, <2>5, <2>6, <2>7 DEF Next, Signal, WaitReturns, Tick, Answer, BatchDone,
       Terminated, vars
<1>2. Inv /\ [Next]_vars => [pc["main"] = "drain" /\ wg = 0 => wg' = 0]_vars
  BY <1>1
<1> QED
  BY <1>2, InvCorrect, PTL DEF Spec, NoAddAfterWait

(* wg.Wait can return as soon as the last goroutine Run started is gone, and *)
(* not before: no wg.Done is missing on any way a goroutine may end.         *)
THEOREM WaitIsExact ==
    Spec => [](wg = 0 <=> /\ \A m \in Managers : manager[m] = "none"
                          /\ mavlink # "running"
                          /\ ~ReporterActive)
<1>1. ASSUME Inv
      PROVE  wg = 0 <=> /\ \A m \in Managers : manager[m] = "none"
                        /\ mavlink # "running"
                        /\ ~ReporterActive
  <2>1. /\ Cardinality(Live) \in Nat
        /\ Cardinality(Live) = 0 <=> Live = {}
        /\ wg = Cardinality(Live) + One(mavlink = "running") + One(ReporterActive)
    BY <1>1, FS_CardinalityType, FS_EmptySet DEF Inv, CountExact
  <2>2. Live = {} <=> \A m \in Managers : manager[m] = "none"
    BY DEF Live
  <2> QED
    BY <2>1, <2>2 DEF One
<1> QED
  BY <1>1, InvCorrect, PTL
=============================================================================
