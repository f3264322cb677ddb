--------------------------- MODULE DroneSystemProofs ---------------------------
(***************************************************************************)
(* Proofs about DroneSystem, for any commands, tunnels, managers and       *)
(* heartbeats, and any number of failed database calls, lost connections,  *)
(* crashes of the device or the server, and regular restarts.  They rest   *)
(* on those about the two components.                                      *)
(***************************************************************************)
EXTENDS DroneSystem, FiniteSetTheorems, SequenceTheorems, TLAPS

CP == INSTANCE DroneCommandsProofs
DP == INSTANCE TunnelRegistryProofs

(* The channel's and the process's view of one batch, in which no command    *)
(* comes twice.                                                              *)
BatchExact ==
    /\ batch \in Seq(Commands)
    /\ \A i, j \in DOMAIN batch : batch[i] = batch[j] => i = j
    /\ work["reporter"] = Events(batch)
    /\ inbox[Drone] = {batch[i] : i \in DOMAIN batch}

(* Run only starts tunnels.  Between the two steps of a stop the tunnel is   *)
(* the target's, or nobody's, and the target is no other tunnel's manager.   *)
CallersReady ==
    /\ \A i \in DOMAIN work["main"] : work["main"][i].op = "start"
    /\ \A c \in Device!Callers :
          LET id == Device!TunnelID(Device!CurrentEntry(c)) IN
          /\ pc[c] = "insert" => Head(work[c]).op = "start"
          /\ pc[c] = "stop" =>
                /\ Head(work[c]).op = "stop"
                /\ target[c] \in Managers
                /\ tunnelManagers[id] \in {target[c], NoManager}
                /\ \A i \in Device!TunnelIDs : tunnelManagers[i] = target[c] => i = id

(* Once the process has its signal nobody has the last word.                 *)
SignalCancels ==
    /\ pc["main"] \in {"drain", "returned"} => cancelled
    /\ cancelled => lastWord = {}

(* What keeps a command's word the last one until it is run: none of its     *)
(* tunnel's other commands is on its way, and the tunnel of a start stays    *)
(* idle or up.  The process that runs it has started its own tunnels before. *)
WordReady ==
    \A c \in lastWord :
        /\ \A o \in Rivals(c) : ~Outstanding(o)
        /\ pc["reporter"] = "off" => executed[c] = 0
        /\ EventOf[c].op = "start" =>
              /\ Device!HasFactory(EventOf[c].entry)
              /\ executed[c] = 0 => Idle(TunnelOf(c)) \/ Up(TunnelOf(c))

Counters ==
    /\ lastWord \subseteq Commands
    /\ losses \in 0 .. MaxLosses
    /\ signals \in 0 .. MaxRestarts

SystemInv ==
    /\ Counters /\ BatchExact /\ CallersReady /\ SignalCancels
    /\ WordReady /\ LastWordHolds

Inv == DP!Inv /\ CP!TypeOK /\ CP!HandOver /\ SystemInv
-----------------------------------------------------------------------------
(***************************************************************************)
(* What the two components assume of their constants holds here.           *)
(***************************************************************************)
LEMMA ChannelAssumption == CP!CommandsAssumption
BY SystemAssumption DEF CP!CommandsAssumption, CP!FaultKinds, Channel!FaultKinds, Drones,
   DroneOf, BeatDrone

(* Sequences of commands and their events.                                   *)
LEMMA EventsType ==
    ASSUME NEW order \in Seq(Commands)
    PROVE  /\ Events(order) \in Seq(Device!Event)
           /\ Len(Events(order)) = Len(order)
           /\ DOMAIN Events(order) = 1 .. Len(order)
           /\ \A i \in 1 .. Len(order) : Events(order)[i] = EventOf[order[i]]
<1> DEFINE events == Events(order)
<1>1. Len(order) \in Nat /\ DOMAIN order = 1 .. Len(order)
  OBVIOUS
<1>2. events \in [1 .. Len(order) -> Device!Event]
  BY <1>1, SystemAssumption DEF Events
<1>3. \A i \in 1 .. Len(order) : events[i] = EventOf[order[i]]
  BY <1>1 DEF Events
<1> HIDE DEF events
<1>4. events \in UNION {[1 .. n -> Device!Event] : n \in Nat}
  BY <1>1, <1>2
<1>5. events \in Seq(Device!Event)
  BY <1>4, SeqDef, Zenon
<1>6. Len(events) = Len(order) /\ DOMAIN events = 1 .. Len(order)
  BY <1>1, <1>2, <1>5
<1> QED
  BY <1>3, <1>5, <1>6 DEF events

LEMMA NoEvents == Events(<<>>) = <<>>
<1>1. <<>> \in Seq(Commands) /\ Len(<<>>) = 0
  OBVIOUS
<1>2. Events(<<>>) \in Seq(Device!Event) /\ Len(Events(<<>>)) = 0
  BY <1>1, EventsType
<1> QED
  BY <1>2, EmptySeq

LEMMA TailEvents ==
    ASSUME NEW order \in Seq(Commands), order # <<>>
    PROVE  /\ Events(order) # <<>>
           /\ Head(Events(order)) = EventOf[Head(order)]
           /\ Tail(Events(order)) = Events(Tail(order))
<1>1. /\ Len(order) \in Nat \ {0} /\ Tail(order) \in Seq(Commands)
      /\ Len(Tail(order)) = Len(order) - 1
      /\ \A i \in 1 .. Len(order) - 1 : Tail(order)[i] = order[i + 1]
      /\ Head(order) = order[1]
  OBVIOUS
<1>2. /\ Events(order) \in Seq(Device!Event) /\ Len(Events(order)) = Len(order)
      /\ \A i \in 1 .. Len(order) : Events(order)[i] = EventOf[order[i]]
  BY EventsType
<1> DEFINE rest == Tail(order)
<1>3. /\ Events(rest) \in Seq(Device!Event)
      /\ Len(Events(rest)) = Len(order) - 1
      /\ \A i \in 1 .. Len(order) - 1 : Events(rest)[i] = EventOf[order[i + 1]]
  <2> HIDE DEF rest
  <2>1. /\ rest \in Seq(Commands) /\ Len(rest) = Len(order) - 1
        /\ \A i \in 1 .. Len(order) - 1 : rest[i] = order[i + 1]
    BY <1>1 DEF rest
  <2> QED
    BY <2>1, EventsType
<1>4. /\ Events(order) # <<>> /\ Head(Events(order)) = EventOf[Head(order)]
      /\ Tail(Events(order)) \in Seq(Device!Event)
      /\ Len(Tail(Events(order))) = Len(order) - 1
      /\ \A i \in 1 .. Len(order) - 1 : Tail(Events(order))[i] = EventOf[order[i + 1]]
  BY <1>1, <1>2
<1>5. Tail(Events(order)) = Events(Tail(order))
  BY <1>3, <1>4, SeqEqual
<1> QED
  BY <1>4, <1>5

(* The orders of a set of commands.                                          *)
LEMMA OrderOf ==
    ASSUME NEW S, S \subseteq Commands, NEW order \in SetToSeqs(S)
    PROVE  /\ order \in Seq(Commands)
           /\ \A i, j \in DOMAIN order : order[i] = order[j] => i = j
           /\ S = {order[i] : i \in DOMAIN order}
<1>1. IsFiniteSet(S) /\ Cardinality(S) \in Nat
  BY SystemAssumption, FS_Subset, FS_CardinalityType
<1> DEFINE D == 1 .. Cardinality(S)
<1>2. /\ order \in [D -> S]
      /\ \A i, j \in D : i # j => order[i] # order[j]
  BY DEF SetToSeqs
<1>3. order \in Seq(Commands)
  <2>1. order \in UNION {[1 .. n -> Commands] : n \in Nat}
    BY <1>1, <1>2
  <2> QED
    BY <2>1, SeqDef, Zenon
<1>4. order \in Surjection(D, S)
  <2>1. order \in Injection(D, S)
    BY <1>2 DEF Injection, IsInjective
  <2>2. Cardinality(D) = Cardinality(S)
    BY <1>1, FS_Interval
  <2> QED
    BY <1>1, <2>1, <2>2, FS_Injection
<1>5. S = {order[i] : i \in DOMAIN order}
  BY <1>2, <1>4 DEF Surjection
<1> QED
  BY <1>2, <1>3, <1>5

LEMMA NoOrder == <<>> \in SetToSeqs({})
<1>1. Cardinality({}) = 0
  BY FS_EmptySet
<1>2. <<>> \in [1 .. 0 -> {}]
  OBVIOUS
<1> QED
  BY <1>1, <1>2 DEF SetToSeqs

LEMMA DeviceAssumption == DP!RegistryAssumption
<1>1. Batches \subseteq Seq(Device!Event)
  <2> SUFFICES ASSUME NEW S \in SUBSET Commands, NEW order \in SetToSeqs(S)
               PROVE  Events(order) \in Seq(Device!Event)
    BY DEF Batches, SetToAllKPermutations
  <2> QED
    BY OrderOf, EventsType
<1>2. <<>> \in Batches
  BY NoOrder, NoEvents DEF Batches, SetToAllKPermutations
<1>3. DP!Event = Device!Event /\ DP!Entry = Device!Entry
  BY DEF DP!Event, Device!Event, DP!Entry, Device!Entry
<1> QED
  BY <1>1, <1>2, <1>3, SystemAssumption DEF DP!RegistryAssumption, StatsEnabled

(* Every command's tunnel has a place in the map.                            *)
LEMMA KnownTunnel ==
    ASSUME NEW c \in Commands
    PROVE  TunnelOf(c) \in Device!TunnelIDs
<1> DEFINE order == <<c>>
<1>1. order \in SetToSeqs({c})
  <2>1. Cardinality({c}) = 1
    BY FS_Singleton
  <2>2. order \in [1 .. 1 -> {c}]
    OBVIOUS
  <2> QED
    BY <2>1, <2>2 DEF SetToSeqs
<1>2. Events(order) \in Batches
  BY <1>1 DEF Batches, SetToAllKPermutations
<1>3. 1 \in DOMAIN Events(order) /\ Events(order)[1] = EventOf[c]
  <2>1. order \in Seq(Commands) /\ Len(order) = 1 /\ order[1] = c
    OBVIOUS
  <2> HIDE DEF order
  <2> QED
    BY <2>1, EventsType
<1> QED
  BY <1>2, <1>3 DEF TunnelOf, Device!TunnelIDs
-----------------------------------------------------------------------------
(***************************************************************************)
(* The components' invariants, which their steps preserve here, too.       *)
(***************************************************************************)
LEMMA ChannelNext ==
    /\ Channel!Next => CP!Next
    /\ UNCHANGED channelVars => UNCHANGED CP!vars
<1>1. Channel!Next => CP!Next
  BY DEF Channel!Next, CP!Next, Channel!CreateFind, CP!CreateFind,
     Channel!CreateInsert, CP!CreateInsert, Channel!DeleteDrone, CP!DeleteDrone,
     Channel!HandlerStep, CP!HandlerStep, Channel!StatusUpsert, CP!StatusUpsert,
     Channel!StatusFind, CP!StatusFind, Channel!StatusReply, CP!StatusReply,
     Channel!ReplyDiscarded, CP!ReplyDiscarded, Channel!StatusMark, CP!StatusMark,
     Channel!PendingFor, CP!PendingFor, Channel!DeviceStep, CP!DeviceStep,
     Channel!Receive, CP!Receive, Channel!SendBeat, CP!SendBeat, Channel!ProcessEvent,
     CP!ProcessEvent, Channel!ConnectionLost, CP!ConnectionLost,
     Channel!DeviceRestart, CP!DeviceRestart, Channel!ServerRestart, CP!ServerRestart,
     Channel!Free, CP!Free, Channel!operatorVars, CP!operatorVars,
     Channel!handlerVars, CP!handlerVars, Channel!deviceVars, CP!deviceVars
<1>2. UNCHANGED channelVars => UNCHANGED CP!vars
  BY DEF channelVars, CP!vars, CP!operatorVars, CP!handlerVars, CP!deviceVars
<1> QED
  BY <1>1, <1>2

LEMMA ChannelStep ==
    ASSUME CP!TypeOK, CP!HandOver, Channel!Next \/ UNCHANGED channelVars
    PROVE  CP!TypeOK' /\ CP!HandOver'
BY ChannelNext, ChannelAssumption, CP!TypeStep, CP!HandOverStep

LEMMA DeviceStep ==
    ASSUME DP!Inv, Device!Next \/ UNCHANGED deviceVars
    PROVE  DP!Inv'
<1>1. Device!Next => DP!Next
  <2> USE DEF Device!callerVars, DP!callerVars, Device!registryVars, DP!registryVars
  <2>1. /\ Device!RunInit => DP!RunInit
        /\ Device!StartReporter => DP!StartReporter
        /\ Device!Signal => DP!Signal
        /\ Device!WaitReturns => DP!WaitReturns
        /\ Device!MAVLinkDone => DP!MAVLinkDone
    BY DEF Device!RunInit, DP!RunInit, Device!StartReporter, DP!StartReporter,
       Device!Signal, DP!Signal, Device!WaitReturns, DP!WaitReturns,
       Device!MAVLinkDone, DP!MAVLinkDone
  <2>2. /\ Device!Tick => DP!Tick
        /\ Device!Answer => DP!Answer
        /\ Device!BatchDone => DP!BatchDone
        /\ Device!ReporterDone => DP!ReporterDone
        /\ Device!Terminated => DP!Terminated
    BY DEF Device!Tick, DP!Tick, Device!Answer, DP!Answer, Device!BatchDone,
       DP!BatchDone, Device!ReporterDone, DP!ReporterDone, Device!Terminated,
       DP!Terminated, Device!vars, DP!vars
  <2>3. ASSUME NEW c \in Device!Callers, Device!CallerStep(c)
        PROVE  c \in DP!Callers /\ DP!CallerStep(c)
    <3> USE DEF Device!Current, DP!Current, Device!CurrentEntry, DP!CurrentEntry,
            Device!TunnelID, DP!TunnelID, Device!HasFactory, DP!HasFactory
    <3>1. CASE Device!StartCheck(c)
      BY <3>1 DEF Device!StartCheck, DP!StartCheck, DP!CallerStep, Device!Callers, DP!Callers
    <3>2. CASE Device!StartInsert(c)
      BY <3>2 DEF Device!StartInsert, DP!StartInsert, DP!CallerStep, Device!Callers, DP!Callers
    <3>3. CASE Device!StopLookup(c)
      BY <3>3 DEF Device!StopLookup, DP!StopLookup, DP!CallerStep, Device!Callers, DP!Callers
    <3>4. CASE Device!StopCancel(c)
      BY <3>4 DEF Device!StopCancel, DP!StopCancel, DP!CallerStep, Device!Callers, DP!Callers
    <3> QED
      BY <2>3, <3>1, <3>2, <3>3, <3>4 DEF Device!CallerStep
  <2>4. ASSUME NEW m \in Managers, Device!ManagerStep(m) \/ Device!TunnelCloses(m)
        PROVE  DP!ManagerStep(m) \/ DP!TunnelCloses(m)
    <3> USE DEF Device!GoTo, DP!GoTo, Device!Done, DP!Done
    <3>1. CASE Device!ManagerTop(m)
      BY <3>1 DEF Device!ManagerTop, DP!ManagerTop, DP!ManagerStep
    <3>2. CASE Device!PauseOver(m)
      BY <3>2 DEF Device!PauseOver, DP!PauseOver, DP!ManagerStep
    <3>3. CASE Device!ManagerDelete(m) \/ Device!ManagerDone(m)
      <4>1. Device!TunnelID(entry[m]) = DP!TunnelID(entry[m])
        BY DEF Device!TunnelID, DP!TunnelID
      <4>2. CASE Device!ManagerDelete(m)
        BY <4>1, <4>2 DEF Device!ManagerDelete, DP!ManagerDelete, DP!ManagerStep
      <4>3. CASE Device!ManagerDone(m)
        BY <4>3 DEF Device!ManagerDone, DP!ManagerDone, DP!ManagerStep, Device!NoEntry, DP!NoEntry
      <4> QED
        BY <3>3, <4>2, <4>3
    <3>4. CASE Device!TunnelCloses(m)
      BY <3>4 DEF Device!TunnelCloses, DP!TunnelCloses
    <3> QED
      BY <2>4, <3>1, <3>2, <3>3, <3>4 DEF Device!ManagerStep
  <2> QED
    BY <2>1, <2>2, <2>3, <2>4 DEF Device!Next, DP!Next
<1>2. UNCHANGED deviceVars => UNCHANGED DP!vars
  BY DEF deviceVars, DP!vars, DP!callerVars, DP!registryVars
<1> QED
  BY <1>1, <1>2, DeviceAssumption, DP!InvStep

(* What their invariants say in the names of the composition.                *)
LEMMA ChannelFacts ==
    ASSUME CP!TypeOK, CP!HandOver
    PROVE  Channel!TypeOK /\ Channel!HandOver
<1>1. Channel!TypeOK
  BY DEF CP!TypeOK, Channel!TypeOK, CP!CreateStates, Channel!CreateStates,
     CP!BeatStates, Channel!BeatStates
<1>2. Channel!OneRequest /\ Channel!InboxFresh /\ Channel!AnswerFresh
  BY DEF CP!HandOver, CP!OneRequest, Channel!OneRequest, CP!InboxFresh,
     Channel!InboxFresh, CP!AnswerFresh, Channel!AnswerFresh, CP!Awaited, Channel!Awaited
<1>3. Channel!Marked /\ Channel!History
  BY DEF CP!HandOver, CP!Marked, Channel!Marked, CP!History, Channel!History
<1> QED
  BY <1>1, <1>2, <1>3 DEF Channel!HandOver

(* A caller at work is the only one, its event and the event's tunnel are    *)
(* there, and between check and insertion the tunnel is free.                *)
CallersAtWork ==
    \A c \in Device!Callers :
        /\ work[c] # <<>> =>
              /\ Head(work[c]) \in Device!Event
              /\ Device!TunnelID(Device!CurrentEntry(c)) \in Device!TunnelIDs
        /\ pc[c] \in {"insert", "stop"} => work[c] # <<>>
        /\ pc[c] = "insert" =>
              tunnelManagers[Device!TunnelID(Device!CurrentEntry(c))] = NoManager
        /\ pc[c] \in {"next", "insert", "stop"} =>
              /\ \A e \in Device!Callers : e # c => pc[e] \notin {"insert", "stop"}
              /\ c = "main" => pc["reporter"] = "off"
              /\ c = "reporter" => pc["main"] \in {"wait", "drain"}

LEMMA DeviceFacts ==
    ASSUME DP!Inv
    PROVE  /\ Device!TypeOK /\ Device!RegistryExact /\ CallersAtWork
           /\ \A m \in Managers :
                 manager[m] # "none" => Device!TunnelID(entry[m]) \in Device!TunnelIDs
           /\ pc["main"] \in {"init", "next", "failed"} => pc["reporter"] = "off"
<1>1. /\ \A e : DP!TunnelID(e) = Device!TunnelID(e)
      /\ DP!TunnelIDs = Device!TunnelIDs /\ DP!Callers = Device!Callers
      /\ DP!Event = Device!Event /\ DP!Entry = Device!Entry
      /\ \A c : DP!CurrentEntry(c) = Device!CurrentEntry(c)
  BY DEF DP!TunnelID, Device!TunnelID, DP!TunnelIDs, Device!TunnelIDs, DP!Callers,
     Device!Callers, DP!Event, Device!Event, DP!Entry, Device!Entry, DP!CurrentEntry,
     Device!CurrentEntry
<1>2. Device!TypeOK
  BY <1>1 DEF DP!Inv, DP!TypeOK, Device!TypeOK, DP!MainStates, Device!MainStates,
     DP!ReporterStates, Device!ReporterStates, DP!ManagerStates, Device!ManagerStates,
     DP!NoEntry, Device!NoEntry
<1>3. Device!RegistryExact
  BY <1>1 DEF DP!Inv, DP!RegistryExact, Device!RegistryExact, DP!Running, Device!Running
<1>4. CallersAtWork
  <2> SUFFICES ASSUME NEW c \in Device!Callers PROVE CallersAtWork!(c)
    BY DEF CallersAtWork
  <2>1. ASSUME work[c] # <<>>
        PROVE  /\ Head(work[c]) \in Device!Event
               /\ Device!TunnelID(Device!CurrentEntry(c)) \in Device!TunnelIDs
    <3>1. Head(work[c]) \in Device!Event
      BY <1>2, <2>1 DEF Device!TypeOK
    <3>2. DP!TunnelID(DP!CurrentEntry(c)) \in DP!TunnelIDs
      BY <1>1, <2>1, DeviceAssumption, DP!WorkHead DEF DP!Inv
    <3> QED
      BY <1>1, <3>1, <3>2
  <2>2. /\ pc[c] \in {"insert", "stop"} => work[c] # <<>>
        /\ pc[c] = "insert" =>
              tunnelManagers[Device!TunnelID(Device!CurrentEntry(c))] = NoManager
    BY <1>1 DEF DP!Inv, DP!InsertReady, DP!StopReady
  <2>3. pc[c] \in {"next", "insert", "stop"} =>
              /\ \A e \in Device!Callers : e # c => pc[e] \notin {"insert", "stop"}
              /\ c = "main" => pc["reporter"] = "off"
              /\ c = "reporter" => pc["main"] \in {"wait", "drain"}
    BY <1>1, DeviceAssumption, DP!OneCaller
  <2> QED
    BY <2>1, <2>2, <2>3
<1>5. \A m \in Managers :
          manager[m] # "none" => Device!TunnelID(entry[m]) \in Device!TunnelIDs
  BY <1>1 DEF DP!Inv, DP!KnownIDs
<1>6. pc["main"] \in {"init", "next", "failed"} => pc["reporter"] = "off"
  BY DEF DP!Inv, DP!Sequential
<1> QED
  BY <1>2, <1>3, <1>4, <1>5, <1>6
-----------------------------------------------------------------------------
(***************************************************************************)
(* The invariant holds initially, and the steps keep the components'.      *)
(***************************************************************************)
LEMMA InvInit == Init => Inv
<1> SUFFICES ASSUME Init PROVE Inv
  OBVIOUS
<1> USE DEF Init
<1>1. DP!Inv
  <2>1. DP!Init
    BY DEF Device!Init, DP!Init, Device!Callers, DP!Callers, Device!NoEntry, DP!NoEntry,
       Device!TunnelIDs, DP!TunnelIDs, Device!TunnelID, DP!TunnelID
  <2> QED
    BY <2>1, DeviceAssumption, DP!InvInit
<1>2. CP!TypeOK /\ CP!HandOver
  <2>1. CP!Init
    BY DEF Channel!Init, CP!Init
  <2>2. CP!TypeOK
    BY <2>1 DEF CP!Init, CP!TypeOK, CP!CreateStates, CP!BeatStates
  <2> QED
    BY <2>1, <2>2, ChannelAssumption, CP!HandOverInit
<1>3. BatchExact
  <2>1. work["reporter"] = <<>> /\ inbox[Drone] = {} /\ batch = <<>>
    BY DEF Device!Init, Channel!Init, Device!Callers, Drones
  <2> QED
    BY <2>1, NoEvents DEF BatchExact
<1>4. CallersReady
  BY DEF CallersReady, Device!Init, Device!Callers
<1>5. Counters /\ SignalCancels /\ WordReady /\ LastWordHolds
  BY SystemAssumption DEF Counters, SignalCancels, WordReady, LastWordHolds, Device!Init,
     Device!Callers
<1> QED
  BY <1>1, <1>2, <1>3, <1>4, <1>5 DEF Inv, SystemInv

(* A new process starts where the old one ended: nothing runs.               *)
LEMMA RestartStep == ASSUME DP!Inv, Restart PROVE DP!Inv'
<1>1. /\ pc["main"] \in {"returned", "failed"}
      /\ pc' = [c \in DP!Callers |-> IF c = "main" THEN "init" ELSE "off"]
      /\ cancelled' = FALSE /\ mavlink' = "off"
      /\ UNCHANGED <<work, target, tunnelManagers, manager, entry, stopped, wg>>
  BY DEF Restart, DP!Callers, Device!Callers
<1>2. pc'["main"] = "init" /\ pc'["reporter"] = "off"
  BY <1>1 DEF DP!Callers
<1>3. pc["reporter"] \in {"off", "done"} /\ mavlink # "running"
  BY <1>1 DEF DP!Inv, DP!Sequential, DP!ReturnedMeansGone
<1>4. DP!CountExact'
  <2>1. DP!Live' = DP!Live
    BY <1>1 DEF DP!Live
  <2> QED
    BY <1>1, <1>2, <1>3, <2>1 DEF DP!Inv, DP!CountExact, DP!One, DP!ReporterActive
<1>5. DP!TypeOK'
  BY <1>1, <1>2 DEF DP!Inv, DP!TypeOK, DP!MainStates, DP!ReporterStates
<1>6. DP!RegistryExact'
  BY <1>1 DEF DP!Inv, DP!RegistryExact
<1>7. DP!Sequential' /\ DP!InsertReady' /\ DP!StopReady' /\ DP!ReturnedMeansGone'
  BY <1>1, <1>2 DEF DP!Sequential, DP!InsertReady, DP!StopReady, DP!ReturnedMeansGone,
     DP!Callers
<1>8. DP!KnownIDs'
  BY <1>1 DEF DP!Inv, DP!KnownIDs
<1> QED
  BY <1>4, <1>5, <1>6, <1>7, <1>8 DEF DP!Inv

(* So does one that follows a kill: what ran is gone.                        *)
LEMMA FreshProcess == (DP!Init => DP!Inv)'
<1>1. DP!Init => DP!Inv
  BY DeviceAssumption, DP!InvInit
<1> QED
  BY <1>1, PTL

LEMMA KilledStep == ASSUME Killed PROVE DP!Inv'
<1>1. DP!Init'
  BY DEF Killed, DP!Init, DP!Callers, Device!Callers, DP!TunnelIDs, Device!TunnelIDs,
     DP!TunnelID, Device!TunnelID, DP!NoEntry, Device!NoEntry
<1> QED
  BY <1>1, FreshProcess

(* A joint step is a step of the channel, or the channel does not see it.    *)
LEMMA ChannelMoves ==
    ASSUME CP!TypeOK, [Next]_vars PROVE Channel!Next \/ UNCHANGED channelVars
<1> USE DEF Channel!Next, Channel!DeviceStep
<1>0. Drone \in Drones
  BY DEF Drones
<1>1. CASE DashboardStep \/ \E b \in Beats : HandlerStep(b)
  BY <1>0, <1>1 DEF DashboardStep, HandlerStep
<1>2. CASE \E c \in Commands : CommandStored(c)
  BY <1>2 DEF CommandStored
<1>3. CASE HeartbeatSent \/ AnswerRead \/ AnswerLost \/ ServerRestart \/ Killed
  BY <1>0, <1>3 DEF HeartbeatSent, AnswerRead, AnswerLost, ServerRestart, Killed
<1>4. CASE ReporterRuns
  <2>1. Channel!ProcessEvent(Drone, Head(batch)) => Head(batch) \in Commands
    BY <1>0 DEF Channel!ProcessEvent, CP!TypeOK
  <2> QED
    BY <1>0, <1>4, <2>1 DEF ReporterRuns
<1>5. CASE BatchDone \/ ReporterDone \/ MainStep \/ Signal \/ Restart
  BY <1>5 DEF BatchDone, ReporterDone, MainStep, Signal, Restart
<1>6. CASE \E m \in Managers : ManagerStep(m) \/ TunnelCloses(m)
  BY <1>6 DEF ManagerStep, TunnelCloses
<1>7. CASE UNCHANGED vars
  BY <1>7 DEF vars
<1> QED
  BY <1>1, <1>2, <1>3, <1>4, <1>5, <1>6, <1>7 DEF Next

(* Only a kill and a restart are not steps of the process.                   *)
LEMMA DeviceMoves ==
    ASSUME [Next]_vars PROVE Device!Next \/ UNCHANGED deviceVars \/ Restart \/ Killed
<1> USE DEF Device!Next
<1>0. "main" \in Device!Callers /\ "reporter" \in Device!Callers
  BY DEF Device!Callers
<1>1. CASE DashboardStep \/ (\E b \in Beats : HandlerStep(b))
           \/ \E c \in Commands : CommandStored(c)
  BY <1>1 DEF DashboardStep, HandlerStep, CommandStored
<1>2. CASE HeartbeatSent \/ AnswerRead \/ AnswerLost \/ ServerRestart \/ ReporterRuns
  BY <1>0, <1>2 DEF HeartbeatSent, AnswerRead, AnswerLost, ServerRestart, ReporterRuns
<1>3. CASE BatchDone \/ ReporterDone \/ MainStep \/ Signal
  BY <1>0, <1>3 DEF BatchDone, ReporterDone, MainStep, Signal
<1>4. CASE \E m \in Managers : ManagerStep(m) \/ TunnelCloses(m)
  BY <1>4 DEF ManagerStep, TunnelCloses
<1>5. CASE UNCHANGED vars
  BY <1>5 DEF vars
<1> QED
  BY <1>1, <1>2, <1>3, <1>4, <1>5 DEF Next

LEMMA ComponentsStep ==
    ASSUME DP!Inv, CP!TypeOK, CP!HandOver, [Next]_vars
    PROVE  DP!Inv' /\ CP!TypeOK' /\ CP!HandOver'
BY ChannelMoves, ChannelStep, DeviceMoves, DeviceStep, RestartStep, KilledStep
-----------------------------------------------------------------------------
(***************************************************************************)
(* What a step may do to the callers and to the commands that have the     *)
(* last word.                                                              *)
(***************************************************************************)

(* A step that moves no caller into or between the two steps of a start or a *)
(* stop, and puts no manager into the map.                                   *)
LEMMA CallersKept ==
    ASSUME Inv,
           \A c \in Device!Callers : pc'[c] \in {"insert", "stop"} =>
               pc'[c] = pc[c] /\ work'[c] = work[c] /\ target'[c] = target[c],
           \A id \in Device!TunnelIDs : tunnelManagers'[id] \in {tunnelManagers[id], NoManager},
           \A i \in DOMAIN work'["main"] : work'["main"][i].op = "start"
    PROVE  CallersReady'
<1> DEFINE ID(e) == Device!TunnelID(Device!CurrentEntry(e))
<1> SUFFICES ASSUME NEW c \in Device!Callers
             PROVE  /\ pc'[c] = "insert" => Head(work'[c]).op = "start"
                    /\ pc'[c] = "stop" =>
                          /\ Head(work'[c]).op = "stop"
                          /\ target'[c] \in Managers
                          /\ tunnelManagers'[ID(c)'] \in {target'[c], NoManager}
                          /\ \A i \in Device!TunnelIDs :
                                tunnelManagers'[i] = target'[c] => i = ID(c)'
  BY DEF CallersReady
<1>1. CASE pc'[c] = "insert"
  BY <1>1 DEF Inv, SystemInv, CallersReady
<1>2. CASE pc'[c] = "stop"
  <2>1. pc[c] = "stop" /\ work'[c] = work[c] /\ target'[c] = target[c]
    BY <1>2
  <2>2. ID(c)' = ID(c) /\ ID(c) \in Device!TunnelIDs
    BY <2>1, DeviceFacts DEF Inv, CallersAtWork, Device!CurrentEntry
  <2> HIDE DEF ID
  <2>3. /\ Head(work[c]).op = "stop" /\ target[c] \in Managers
        /\ tunnelManagers[ID(c)] \in {target[c], NoManager}
        /\ \A i \in Device!TunnelIDs : tunnelManagers[i] = target[c] => i = ID(c)
    BY <2>1 DEF Inv, SystemInv, CallersReady, ID
  <2> QED
    BY <2>1, <2>2, <2>3, SystemAssumption
<1> QED
  BY <1>1, <1>2

(* A step that brings no rival on its way and either runs a command, with    *)
(* the tunnel as it says, or leaves both as they were.                       *)
LEMMA WordsKept ==
    ASSUME Inv, lastWord' \subseteq lastWord,
           \A o \in Commands : Outstanding(o)' => Outstanding(o),
           \A c \in lastWord' :
              /\ pc'["reporter"] = "off" => executed'[c] = 0
              /\ \/ /\ executed'[c] = 1
                    /\ IF EventOf[c].op = "start" THEN Up(TunnelOf(c))' ELSE ~Up(TunnelOf(c))'
                 \/ /\ executed'[c] = executed[c]
                    /\ Up(TunnelOf(c)) => Up(TunnelOf(c))'
                    /\ executed[c] = 0 /\ Idle(TunnelOf(c)) =>
                          Idle(TunnelOf(c))' \/ Up(TunnelOf(c))'
                    /\ executed[c] = 1 /\ Up(TunnelOf(c))' => Up(TunnelOf(c))
    PROVE  WordReady' /\ LastWordHolds'
<1>1. ASSUME NEW c \in lastWord', NEW o \in Rivals(c) PROVE ~Outstanding(o)'
  BY <1>1 DEF Inv, SystemInv, WordReady, Rivals
<1>2. ASSUME NEW c \in lastWord', EventOf[c].op = "start"
      PROVE  /\ Device!HasFactory(EventOf[c].entry)
             /\ executed'[c] = 0 => Idle(TunnelOf(c))' \/ Up(TunnelOf(c))'
  BY <1>2 DEF Inv, SystemInv, WordReady
<1>3. LastWordHolds'
  BY DEF Inv, SystemInv, LastWordHolds
<1> QED
  BY <1>1, <1>2, <1>3 DEF WordReady

(* A step that leaves the managers and what has been run alone.              *)
LEMMA QuietStep ==
    ASSUME Inv, UNCHANGED <<tunnelManagers, manager, stopped, executed>>,
           lastWord' \subseteq lastWord,
           \A o \in Commands : Outstanding(o)' => Outstanding(o),
           lastWord' # {} => (pc'["reporter"] = "off" => pc["reporter"] = "off")
    PROVE  WordReady' /\ LastWordHolds'
<1>1. \A id : Up(id)' = Up(id) /\ Idle(id)' = Idle(id)
  BY DEF Up, Idle
<1>2. \A c \in lastWord' : pc'["reporter"] = "off" => executed'[c] = 0
  BY DEF Inv, SystemInv, WordReady
<1> QED
  BY <1>1, <1>2, WordsKept
-----------------------------------------------------------------------------
(***************************************************************************)
(* The invariant is preserved: the channel's steps.                        *)
(***************************************************************************)
LEMMA StoredStep == ASSUME Inv, NEW c \in Commands, CommandStored(c) PROVE SystemInv'
<1>1. /\ create[c] = "checked"
      /\ \A o \in Commands : o # c => commands'[o] = commands[o]
      /\ UNCHANGED <<beat, found, waiting, inbox, executed>>
      /\ UNCHANGED <<deviceVars, batch, losses, signals>>
      /\ lastWord' = (lastWord \ Rivals(c)) \cup (IF Unrivalled(c) THEN {c} ELSE {})
  <2>1. Channel!TypeOK
    BY ChannelFacts DEF Inv
  <2> QED
    BY <2>1 DEF CommandStored, Channel!CreateInsert, Channel!TypeOK, Channel!handlerVars,
       Channel!deviceVars
<1>2. executed[c] = 0
  <2>1. Channel!TypeOK /\ Channel!History
    BY ChannelFacts DEF Inv, Channel!HandOver
  <2> QED
    BY <1>1, <2>1 DEF Channel!TypeOK, Channel!History
<1>3. Counters' /\ BatchExact' /\ CallersReady' /\ SignalCancels'
  BY <1>1 DEF Inv, SystemInv, Counters, BatchExact, CallersReady, SignalCancels,
     deviceVars, Unrivalled, Device!CurrentEntry
<1>4. \A id : Up(id)' = Up(id) /\ Idle(id)' = Idle(id)
  BY <1>1 DEF Up, Idle, deviceVars
<1>5. \A o \in Commands \ {c} : Outstanding(o)' => Outstanding(o)
  BY <1>1 DEF Outstanding, Channel!InHand, Channel!Awaited
<1>6. ASSUME NEW x \in lastWord', NEW o \in Rivals(x) PROVE o # c
  BY <1>1, <1>6 DEF Rivals, Inv, SystemInv, Counters
<1>7. ASSUME NEW x \in lastWord', NEW o \in Rivals(x) PROVE ~Outstanding(o)'
  <2>1. o \in Commands \ {c}
    BY <1>6 DEF Rivals
  <2>2. ~Outstanding(o)
    BY <1>1 DEF Inv, SystemInv, WordReady, Unrivalled
  <2> QED
    BY <1>5, <2>1, <2>2
<1>8. ASSUME NEW x \in lastWord', EventOf[x].op = "start"
      PROVE  /\ Device!HasFactory(EventOf[x].entry)
             /\ executed'[x] = 0 => Idle(TunnelOf(x))' \/ Up(TunnelOf(x))'
  BY <1>1, <1>4, <1>8 DEF Inv, SystemInv, WordReady, Unrivalled
<1>9. \A x \in lastWord' : pc'["reporter"] = "off" => executed'[x] = 0
  BY <1>1, <1>2 DEF Inv, SystemInv, WordReady, deviceVars
<1>10. LastWordHolds'
  BY <1>1, <1>2, <1>4 DEF Inv, SystemInv, LastWordHolds
<1> QED
  BY <1>3, <1>7, <1>8, <1>9, <1>10 DEF SystemInv, WordReady

(* The rest of the dashboard and the handlers put nothing on its way that    *)
(* was not pending.                                                          *)
LEMMA BackendStep ==
    ASSUME Inv, DashboardStep \/ \E b \in Beats : HandlerStep(b) PROVE SystemInv'
<1>1. UNCHANGED <<deviceVars, systemVars, waiting, inbox, executed>>
  BY DEF DashboardStep, HandlerStep, Channel!CreateFind, Channel!DeleteDrone,
     Channel!HandlerStep, Channel!StatusUpsert, Channel!StatusFind, Channel!StatusReply,
     Channel!ReplyDiscarded, Channel!StatusMark, Channel!deviceVars
<1>2. Counters' /\ BatchExact' /\ CallersReady' /\ SignalCancels'
  BY <1>1 DEF Inv, SystemInv, Counters, BatchExact, CallersReady, SignalCancels,
     deviceVars, systemVars, Device!CurrentEntry
<1>3. ASSUME NEW o \in Commands, Outstanding(o)' PROVE Outstanding(o)
  <2> USE <1>1, <1>3 DEF Outstanding, Channel!InHand, Channel!Awaited
  <2>1. Channel!TypeOK
    BY ChannelFacts DEF Inv
  <2>2. CASE DashboardStep
    BY <2>2 DEF DashboardStep, Channel!CreateFind, Channel!DeleteDrone, Channel!handlerVars
  <2>3. ASSUME NEW b \in Beats, Channel!StatusUpsert(b) PROVE Outstanding(o)
    BY <2>1, <2>3 DEF Channel!TypeOK, Channel!StatusUpsert
  <2>4. ASSUME NEW b \in Beats, Channel!StatusFind(b) PROVE Outstanding(o)
    BY <2>1, <2>4 DEF Channel!TypeOK, Channel!StatusFind, Channel!PendingFor
  <2>5. ASSUME NEW b \in Beats, Channel!StatusReply(b) PROVE Outstanding(o)
    BY <2>1, <2>5 DEF Channel!TypeOK, Channel!StatusReply
  <2>6. ASSUME NEW b \in Beats, Channel!ReplyDiscarded(b) PROVE Outstanding(o)
    BY <2>1, <2>6 DEF Channel!TypeOK, Channel!ReplyDiscarded, Channel!Free
  <2>7. ASSUME NEW b \in Beats, NEW c \in Commands, Channel!StatusMark(b, c) PROVE Outstanding(o)
    BY <2>1, <2>7 DEF Channel!TypeOK, Channel!StatusMark
  <2> QED
    BY <2>2, <2>3, <2>4, <2>5, <2>6, <2>7 DEF HandlerStep, Channel!HandlerStep
<1>4. WordReady' /\ LastWordHolds'
  BY <1>1, <1>3, QuietStep DEF deviceVars, systemVars
<1> QED
  BY <1>2, <1>4 DEF SystemInv
-----------------------------------------------------------------------------
(***************************************************************************)
(* The reporter's steps.                                                   *)
(***************************************************************************)
LEMMA HeartbeatStep == ASSUME Inv, HeartbeatSent PROVE SystemInv'
<1>1. /\ pc' = [pc EXCEPT !["reporter"] = "post"]
      /\ UNCHANGED <<work, target, tunnelManagers, manager, entry, stopped, cancelled>>
      /\ UNCHANGED systemVars
  BY DEF HeartbeatSent, Device!Tick, Device!registryVars
<1>2. PICK b \in Beats : Channel!SendBeat(Drone, b)
  BY DEF HeartbeatSent
<1>3. /\ beat[b] = "idle" /\ beat' = [beat EXCEPT ![b] = "upsert"]
      /\ waiting[Drone] = NoBeat /\ waiting' = [waiting EXCEPT ![Drone] = b]
      /\ UNCHANGED <<commands, found, inbox, executed>>
  BY <1>2 DEF Channel!SendBeat
<1>4. Device!TypeOK /\ Channel!TypeOK
  BY ChannelFacts, DeviceFacts DEF Inv
<1>5. pc'["main"] = pc["main"] /\ pc'["reporter"] = "post"
  BY <1>1, <1>4 DEF Device!TypeOK, Device!Callers
<1>6. CallersReady'
  <2>1. \A c \in Device!Callers : pc'[c] \in {"insert", "stop"} => pc'[c] = pc[c]
    BY <1>5 DEF Device!Callers
  <2> QED
    BY <1>1, <2>1, CallersKept DEF Inv, SystemInv, CallersReady
<1>7. ASSUME NEW o \in Commands, Outstanding(o)' PROVE Outstanding(o)
  BY <1>3, <1>4, <1>7 DEF Outstanding, Channel!InHand, Channel!Awaited, Channel!TypeOK,
     Drones, DroneOf
<1>8. WordReady' /\ LastWordHolds'
  BY <1>1, <1>3, <1>5, <1>7, QuietStep DEF systemVars
<1>9. Counters' /\ BatchExact' /\ SignalCancels'
  BY <1>1, <1>3, <1>5 DEF Inv, SystemInv, Counters, BatchExact, SignalCancels, systemVars
<1> QED
  BY <1>6, <1>8, <1>9 DEF SystemInv

(* An answer, read or lost, gives the reporter its next batch.               *)
LEMMA AnswerStep ==
    ASSUME Inv, Device!Answer, NEW order, work' = [work EXCEPT !["reporter"] = Events(order)],
           batch' = order, BatchExact', UNCHANGED <<lastWord, signals, executed>>,
           losses' \in 0 .. MaxLosses,
           \A o \in Commands : Outstanding(o)' => Outstanding(o)
    PROVE  SystemInv'
<1>1. /\ pc["reporter"] = "post" /\ pc' = [pc EXCEPT !["reporter"] = "next"]
      /\ UNCHANGED <<target, tunnelManagers, manager, entry, stopped, cancelled>>
  BY DEF Device!Answer, Device!registryVars
<1>2. Device!TypeOK
  BY DeviceFacts DEF Inv
<1>3. /\ pc'["main"] = pc["main"] /\ pc'["reporter"] = "next"
      /\ work'["main"] = work["main"]
  BY <1>1, <1>2 DEF Device!TypeOK, Device!Callers
<1>4. CallersReady'
  <2>1. \A c \in Device!Callers : pc'[c] \in {"insert", "stop"} =>
            pc'[c] = pc[c] /\ work'[c] = work[c]
    BY <1>3 DEF Device!Callers
  <2> QED
    BY <1>1, <1>3, <2>1, CallersKept DEF Inv, SystemInv, CallersReady
<1>5. WordReady' /\ LastWordHolds'
  BY <1>1, <1>3, QuietStep
<1>6. Counters' /\ SignalCancels'
  BY <1>1, <1>3 DEF Inv, SystemInv, Counters, SignalCancels
<1> QED
  BY <1>4, <1>5, <1>6 DEF SystemInv

LEMMA AnswerReadStep == ASSUME Inv, AnswerRead PROVE SystemInv'
<1>1. PICK order \in SetToSeqs(inbox'[Drone]) :
          batch' = order /\ work' = [work EXCEPT !["reporter"] = Events(order)]
  BY DEF AnswerRead
<1>2. Channel!TypeOK /\ Channel!HandOver /\ Device!TypeOK
  BY ChannelFacts, DeviceFacts DEF Inv
<1> DEFINE b == waiting[Drone]
<1>3. /\ b \in Beats /\ beat[b] \in {"replied", "error"}
      /\ inbox'[Drone] = IF beat[b] = "replied" THEN found[b] ELSE {}
      /\ waiting'[Drone] = NoBeat
      /\ UNCHANGED <<commands, executed>>
  BY <1>2 DEF AnswerRead, Channel!Receive, Channel!TypeOK, Drones
<1>4. BatchExact'
  <2>1. inbox'[Drone] \subseteq Commands
    BY <1>2, <1>3 DEF Channel!TypeOK
  <2>2. /\ order \in Seq(Commands)
        /\ \A i, j \in DOMAIN order : order[i] = order[j] => i = j
        /\ inbox'[Drone] = {order[i] : i \in DOMAIN order}
    BY <2>1, OrderOf
  <2>3. work'["reporter"] = Events(order)
    BY <1>1, <1>2 DEF Device!TypeOK, Device!Callers
  <2> QED
    BY <1>1, <2>2, <2>3 DEF BatchExact
<1>5. ASSUME NEW o \in Commands, Outstanding(o)' PROVE Outstanding(o)
  <2>1. NoBeat \notin Beats
    BY SystemAssumption
  <2>2. commands[o] = "pending" \/ o \in inbox'[Drone]
    BY <1>3, <1>5, <2>1 DEF Outstanding, Channel!InHand, Channel!Awaited, DroneOf
  <2> QED
    BY <1>3, <2>2 DEF Outstanding, Channel!InHand, Channel!Awaited, DroneOf
<1> QED
  BY <1>1, <1>3, <1>4, <1>5, AnswerStep DEF AnswerRead, Inv, SystemInv, Counters

(* While the device waits it has nothing to run, so a lost answer leaves its *)
(* batch empty.                                                              *)
LEMMA AnswerLostStep == ASSUME Inv, AnswerLost PROVE SystemInv'
<1>1. Channel!TypeOK /\ Channel!HandOver /\ Device!TypeOK
  BY ChannelFacts, DeviceFacts DEF Inv
<1>2. /\ waiting[Drone] # NoBeat /\ waiting' = [waiting EXCEPT ![Drone] = NoBeat]
      /\ UNCHANGED <<commands, beat, found, inbox, executed>>
  BY DEF AnswerLost, Channel!ConnectionLost, Channel!handlerVars
<1>3. inbox[Drone] = {}
  BY <1>1, <1>2 DEF Channel!HandOver, Channel!OneRequest, Drones
<1>4. batch = <<>>
  <2>1. batch \in Seq(Commands) /\ DOMAIN batch = {}
    BY <1>3 DEF Inv, SystemInv, BatchExact
  <2> QED
    BY <2>1
<1>5. work' = [work EXCEPT !["reporter"] = Events(batch)] /\ UNCHANGED batch
  BY <1>4, NoEvents DEF AnswerLost
<1>6. BatchExact'
  <2>1. work'["reporter"] = Events(batch)
    BY <1>1, <1>5 DEF Device!TypeOK, Device!Callers
  <2> QED
    BY <1>2, <1>5, <2>1 DEF Inv, SystemInv, BatchExact
<1>7. ASSUME NEW o \in Commands, Outstanding(o)' PROVE Outstanding(o)
  <2>1. NoBeat \notin Beats /\ waiting'[Drone] = NoBeat
    BY <1>1, <1>2, SystemAssumption DEF Channel!TypeOK, Drones
  <2> QED
    BY <1>2, <1>7, <2>1 DEF Outstanding, Channel!InHand, Channel!Awaited, DroneOf
<1>8. losses' \in 0 .. MaxLosses
  BY SystemAssumption DEF AnswerLost, Inv, SystemInv, Counters
<1> QED
  BY <1>2, <1>5, <1>6, <1>7, <1>8, AnswerStep DEF AnswerLost

(* A server that dies is a lost answer, or nothing the device notices.  It   *)
(* takes no command out of a batch and puts none on its way.                 *)
LEMMA ServerRestartStep == ASSUME Inv, ServerRestart PROVE SystemInv'
<1>1. Channel!TypeOK /\ Channel!HandOver /\ Device!TypeOK
  BY ChannelFacts, DeviceFacts DEF Inv
<1>2. /\ waiting'[Drone] \in {waiting[Drone], NoBeat}
      /\ waiting'[Drone] \in Beats =>
            beat'[waiting'[Drone]] = "replied" /\ beat[waiting'[Drone]] = "replied"
            /\ found'[waiting'[Drone]] = found[waiting'[Drone]]
      /\ UNCHANGED <<commands, inbox, executed, batch, lastWord, signals>>
  <2>1. waiting'[Drone] = IF waiting[Drone] \in Beats /\ beat[waiting[Drone]] = "replied"
                          THEN waiting[Drone] ELSE NoBeat
    BY DEF ServerRestart, Channel!ServerRestart, Drones
  <2>2. NoBeat \notin Beats
    BY SystemAssumption
  <2>3. ASSUME NEW b \in Beats, beat[b] = "replied"
        PROVE  beat'[b] = "replied" /\ found'[b] = found[b]
    BY <2>3 DEF ServerRestart, Channel!ServerRestart, Channel!Free
  <2>4. UNCHANGED <<commands, inbox, executed, batch, lastWord, signals>>
    BY DEF ServerRestart, Channel!ServerRestart
  <2> QED
    BY <2>1, <2>2, <2>3, <2>4
<1>3. losses' \in 0 .. MaxLosses
  BY SystemAssumption DEF ServerRestart, Inv, SystemInv, Counters
<1>4. ASSUME NEW o \in Commands, Outstanding(o)' PROVE Outstanding(o)
  <2>1. NoBeat \notin Beats
    BY SystemAssumption
  <2> QED
    BY <1>2, <1>4, <2>1 DEF Outstanding, Channel!InHand, Channel!Awaited, DroneOf
<1>5. CASE waiting'[Drone] # waiting[Drone]
  <2>1. Device!Answer /\ work' = [work EXCEPT !["reporter"] = <<>>]
    BY <1>5 DEF ServerRestart
  <2>2. inbox[Drone] = {}
    BY <1>1, <1>2, <1>5 DEF Channel!HandOver, Channel!OneRequest, Drones
  <2>3. batch = <<>>
    <3>1. batch \in Seq(Commands) /\ DOMAIN batch = {}
      BY <2>2 DEF Inv, SystemInv, BatchExact
    <3> QED
      BY <3>1
  <2>4. work' = [work EXCEPT !["reporter"] = Events(batch)]
    BY <2>1, <2>3, NoEvents
  <2>5. BatchExact'
    <3>1. work'["reporter"] = Events(batch)
      BY <1>1, <2>4 DEF Device!TypeOK, Device!Callers
    <3> QED
      BY <1>2, <3>1 DEF Inv, SystemInv, BatchExact
  <2> QED
    BY <1>2, <1>3, <1>4, <2>1, <2>4, <2>5, AnswerStep
<1>6. CASE waiting'[Drone] = waiting[Drone]
  <2>1. UNCHANGED deviceVars
    BY <1>6 DEF ServerRestart
  <2>2. Counters' /\ BatchExact' /\ CallersReady' /\ SignalCancels'
    BY <1>2, <1>3, <2>1 DEF Inv, SystemInv, Counters, BatchExact, CallersReady,
       SignalCancels, deviceVars, Device!CurrentEntry
  <2>3. WordReady' /\ LastWordHolds'
    BY <1>2, <1>4, <2>1, QuietStep DEF deviceVars
  <2> QED
    BY <2>2, <2>3 DEF SystemInv
<1> QED
  BY <1>5, <1>6
-----------------------------------------------------------------------------
(***************************************************************************)
(* A step of startTunnels or stopTunnel, by Run or by the reporter.        *)
(***************************************************************************)
LEMMA CallerReady ==
    ASSUME Inv, NEW c \in Device!Callers, Device!CallerStep(c) PROVE CallersReady'
<1> USE DEF Device!CallerStep, Device!StartCheck, Device!StartInsert, Device!StopLookup,
            Device!StopCancel, Device!Current
<1> DEFINE ID == Device!TunnelID(Device!CurrentEntry(c))
<1>1. Device!TypeOK /\ Device!RegistryExact /\ CallersAtWork
  BY DeviceFacts DEF Inv
<1>2. pc[c] \in {"next", "insert", "stop"} /\ work[c] # <<>>
  BY <1>1 DEF CallersAtWork
<1>3. \A e \in Device!Callers \ {c} :
          pc'[e] = pc[e] /\ work'[e] = work[e] /\ pc'[e] \notin {"insert", "stop"}
  <2>1. \A e \in Device!Callers \ {c} : pc'[e] = pc[e] /\ work'[e] = work[e]
    BY <1>1 DEF Device!TypeOK
  <2> QED
    BY <1>1, <1>2, <2>1 DEF CallersAtWork
<1>4. work'[c] \in {work[c], Tail(work[c])} /\ work[c] \in Seq(Device!Event)
  BY <1>1 DEF Device!TypeOK
<1>5. \A i \in DOMAIN work'["main"] : work'["main"][i].op = "start"
  <2>1. \A i \in DOMAIN work["main"] : work["main"][i].op = "start"
    BY DEF Inv, SystemInv, CallersReady
  <2>2. CASE c = "main"
    <3> DEFINE w == work["main"]
    <3>1. work'["main"] \in {w, Tail(w)} /\ w \in Seq(Device!Event) /\ w # <<>>
      BY <1>2, <1>4, <2>2
    <3>2. \A i \in DOMAIN w : w[i].op = "start"
      BY <2>1
    <3> HIDE DEF w
    <3>3. \A i \in DOMAIN Tail(w) : i + 1 \in DOMAIN w /\ Tail(w)[i] = w[i + 1]
      BY <3>1
    <3> QED
      BY <3>1, <3>2, <3>3
  <2>3. CASE c # "main"
    BY <1>3, <2>1, <2>3 DEF Device!Callers
  <2> QED
    BY <2>2, <2>3
<1>6. pc'[c] = "insert" => Head(work'[c]).op = "start"
  BY <1>1, <1>2 DEF Device!TypeOK, Inv, SystemInv, CallersReady
<1>7. ASSUME pc'[c] = "stop"
      PROVE  /\ Head(work'[c]).op = "stop"
             /\ target'[c] \in Managers
             /\ tunnelManagers'[ID'] \in {target'[c], NoManager}
             /\ \A i \in Device!TunnelIDs : tunnelManagers'[i] = target'[c] => i = ID'
  <2>1. Device!StopLookup(c) /\ pc[c] = "next"
    BY <1>1, <1>7 DEF Device!TypeOK
  <2>2. /\ tunnelManagers[ID] # NoManager /\ target'[c] = tunnelManagers[ID]
        /\ Head(work[c]).op = "stop"
        /\ UNCHANGED <<work, tunnelManagers>>
    BY <1>1, <1>7, <2>1 DEF Device!TypeOK, Device!registryVars
  <2>3. ID' = ID /\ ID \in Device!TunnelIDs
    BY <1>1, <1>2, <2>2 DEF CallersAtWork, Device!CurrentEntry
  <2> HIDE DEF ID
  <2>4. tunnelManagers[ID] \in Managers
    BY <1>1, <2>2, <2>3 DEF Device!TypeOK
  <2>5. \A i \in Device!TunnelIDs : tunnelManagers[i] = tunnelManagers[ID] => i = ID
    BY <1>1, <2>2, <2>3 DEF Device!RegistryExact
  <2> QED
    BY <2>2, <2>3, <2>4, <2>5
<1> QED
  BY <1>3, <1>5, <1>6, <1>7 DEF CallersReady

(* The last step of a start: the tunnel was idle and is up.                  *)
LEMMA StartEffect ==
    ASSUME Inv, NEW c \in Device!Callers, Device!StartInsert(c),
           NEW id, id = Device!TunnelID(Device!CurrentEntry(c))
    PROVE  /\ Idle(id) /\ Up(id)'
           /\ \A i \in Device!TunnelIDs \ {id} : Up(i)' = Up(i) /\ Idle(i)' = Idle(i)
<1>1. Device!TypeOK /\ Device!RegistryExact
      /\ id \in Device!TunnelIDs /\ tunnelManagers[id] = NoManager
  BY DeviceFacts DEF Inv, CallersAtWork, Device!StartInsert
<1>2. PICK m \in Managers :
          /\ manager[m] = "none"
          /\ tunnelManagers' = [tunnelManagers EXCEPT ![id] = m]
          /\ manager' = [manager EXCEPT ![m] = "top"]
          /\ stopped' = [stopped EXCEPT ![m] = FALSE]
  BY DEF Device!StartInsert
<1>3. Idle(id) /\ Up(id)'
  BY <1>1, <1>2, SystemAssumption DEF Device!TypeOK, Idle, Up, Device!Running
<1>4. ASSUME NEW i \in Device!TunnelIDs \ {id} PROVE Up(i)' = Up(i) /\ Idle(i)' = Idle(i)
  <2>1. tunnelManagers'[i] = tunnelManagers[i]
    BY <1>1, <1>2, <1>4 DEF Device!TypeOK
  <2>2. tunnelManagers[i] # m
    BY <1>1, <1>2, SystemAssumption DEF Device!RegistryExact, Device!Running
  <2>3. \A k \in Managers \ {m} : manager'[k] = manager[k] /\ stopped'[k] = stopped[k]
    BY <1>1, <1>2 DEF Device!TypeOK
  <2>4. tunnelManagers[i] \in Managers \cup {NoManager}
    BY <1>1, <1>4 DEF Device!TypeOK
  <2> QED
    BY <2>1, <2>2, <2>3, <2>4 DEF Up, Idle
<1> QED
  BY <1>3, <1>4

(* The last step of a stop: the tunnel is not up.                            *)
LEMMA StopEffect ==
    ASSUME Inv, NEW c \in Device!Callers, Device!StopCancel(c),
           NEW id, id = Device!TunnelID(Device!CurrentEntry(c))
    PROVE  /\ ~Up(id)'
           /\ \A i \in Device!TunnelIDs \ {id} : Up(i)' = Up(i) /\ Idle(i)' = Idle(i)
<1>1. /\ Device!TypeOK /\ target[c] \in Managers
      /\ tunnelManagers[id] \in {target[c], NoManager}
      /\ \A i \in Device!TunnelIDs : tunnelManagers[i] = target[c] => i = id
  BY DeviceFacts DEF Inv, SystemInv, CallersReady, Device!StopCancel
<1>2. /\ UNCHANGED <<tunnelManagers, manager>>
      /\ stopped' = [stopped EXCEPT ![target[c]] = TRUE]
  BY DEF Device!StopCancel
<1>3. ~Up(id)'
  BY <1>1, <1>2 DEF Device!TypeOK, Up
<1>4. ASSUME NEW i \in Device!TunnelIDs \ {id} PROVE Up(i)' = Up(i) /\ Idle(i)' = Idle(i)
  <2>1. \A k \in Managers \ {target[c]} : stopped'[k] = stopped[k]
    BY <1>1, <1>2 DEF Device!TypeOK
  <2>2. tunnelManagers[i] \in (Managers \cup {NoManager}) \ {target[c]}
    BY <1>1, <1>4 DEF Device!TypeOK
  <2> QED
    BY <1>2, <2>1, <2>2 DEF Up, Idle
<1> QED
  BY <1>3, <1>4

(* A turn of processEvent, or a step on the way to it.  The command that is  *)
(* run is its tunnel's only one under way.                                   *)
LEMMA ReporterStep == ASSUME Inv, ReporterRuns PROVE SystemInv'
<1> USE DEF Device!CallerStep, Device!StartCheck, Device!StartInsert, Device!StopLookup,
            Device!StopCancel, Device!Current
<1> DEFINE events == work["reporter"]
<1>1. /\ Device!TypeOK /\ CallersAtWork /\ Device!CallerStep("reporter")
      /\ Channel!TypeOK /\ Channel!HandOver
      /\ BatchExact /\ "reporter" \in Device!Callers /\ "main" \in Device!Callers
  BY DeviceFacts, ChannelFacts DEF Inv, SystemInv, ReporterRuns, Device!Callers
<1>2. CallersReady'
  BY <1>1, CallerReady DEF ReporterRuns
<1>3. /\ pc'["main"] = pc["main"] /\ pc'["reporter"] # "off" /\ events # <<>>
      /\ UNCHANGED <<lastWord, losses, signals, cancelled>>
  BY <1>1 DEF ReporterRuns, Device!TypeOK, CallersAtWork
<1>4. Counters' /\ SignalCancels'
  BY <1>3 DEF Inv, SystemInv, Counters, SignalCancels
<1>5. /\ work' = work \/ work' = [work EXCEPT !["reporter"] = Tail(@)]
      /\ work' = work \/ UNCHANGED <<tunnelManagers, manager, stopped>>
            \/ Device!StartInsert("reporter") \/ Device!StopCancel("reporter")
      /\ work' = work => UNCHANGED <<tunnelManagers, manager, stopped>>
  <2>1. Tail(events) # events
    BY <1>1, <1>3 DEF Device!TypeOK
  <2>2. [work EXCEPT !["reporter"] = Tail(@)] # work
    BY <1>1, <2>1 DEF Device!TypeOK
  <2> QED
    BY <1>1, <2>2 DEF Device!registryVars
<1>6. CASE work' = work
  <2>1. UNCHANGED <<channelVars, batch, tunnelManagers, manager, stopped>>
    BY <1>5, <1>6 DEF ReporterRuns
  <2>2. BatchExact'
    BY <1>1, <1>6, <2>1 DEF BatchExact, channelVars
  <2>3. \A o \in Commands : Outstanding(o)' => Outstanding(o)
    BY <2>1 DEF Outstanding, Channel!InHand, Channel!Awaited, channelVars
  <2> QED
    BY <1>2, <1>3, <1>4, <2>1, <2>2, <2>3, QuietStep DEF SystemInv, channelVars
<1>7. CASE work' # work
  <2>0. /\ Channel!ProcessEvent(Drone, Head(batch)) /\ batch' = Tail(batch)
        /\ batch \in Seq(Commands) /\ batch # <<>>
    <3>1. Channel!ProcessEvent(Drone, Head(batch)) /\ batch' = Tail(batch)
      BY <1>7 DEF ReporterRuns
    <3>2. inbox[Drone] # {}
      BY <3>1 DEF Channel!ProcessEvent
    <3> QED
      BY <1>1, <3>1, <3>2 DEF BatchExact
  <2>1. PICK o \in Commands : o = Head(batch)
    BY <2>0
  <2> DEFINE id == TunnelOf(o)
  <2>2. /\ o \in inbox[Drone] /\ inbox' = [inbox EXCEPT ![Drone] = @ \ {o}]
        /\ executed' = [executed EXCEPT ![o] = @ + 1]
        /\ UNCHANGED <<commands, beat, found, waiting>> /\ batch' = Tail(batch)
    BY <2>0, <2>1 DEF Channel!ProcessEvent, Channel!handlerVars
  <2>3. /\ Head(events) = EventOf[o] /\ Device!CurrentEntry("reporter") = EventOf[o].entry
        /\ id = Device!TunnelID(Device!CurrentEntry("reporter"))
        /\ id \in Device!TunnelIDs
        /\ work'["reporter"] = Events(Tail(batch))
    <3>1. Head(events) = EventOf[o] /\ Tail(events) = Events(Tail(batch))
      BY <1>1, <2>0, <2>1, TailEvents DEF BatchExact
    <3>2. work'["reporter"] = Tail(events)
      BY <1>1, <1>5, <1>7 DEF Device!TypeOK
    <3> QED
      BY <3>1, <3>2, KnownTunnel DEF Device!CurrentEntry, TunnelOf
  <2>4. BatchExact'
    <3> DEFINE rest == Tail(batch)
    <3>1. /\ rest \in Seq(Commands) /\ o = batch[1] /\ Len(batch) \in Nat \ {0}
          /\ DOMAIN batch = 1 .. Len(batch) /\ DOMAIN rest = 1 .. Len(batch) - 1
          /\ \A i \in 1 .. Len(batch) - 1 : rest[i] = batch[i + 1]
      BY <2>0, <2>1
    <3>2. \A i, j \in DOMAIN batch : batch[i] = batch[j] => i = j
      BY <1>1 DEF BatchExact
    <3>3. inbox'[Drone] = {batch[i] : i \in DOMAIN batch} \ {o}
      BY <1>1, <2>2 DEF BatchExact, Channel!TypeOK, Drones
    <3> HIDE DEF rest
    <3>4. \A i, j \in DOMAIN rest : rest[i] = rest[j] => i = j
      BY <3>1, <3>2
    <3>5. ASSUME NEW x
          PROVE  (x \in inbox'[Drone]) <=> \E i \in DOMAIN rest : x = rest[i]
      <4>1. ASSUME x \in inbox'[Drone] PROVE \E i \in DOMAIN rest : x = rest[i]
        <5>1. PICK i \in DOMAIN batch : x = batch[i] /\ i # 1
          BY <3>1, <3>3, <4>1
        <5>2. i - 1 \in DOMAIN rest /\ rest[i - 1] = x
          BY <3>1, <5>1
        <5> QED
          BY <5>2
      <4>2. ASSUME NEW i \in DOMAIN rest, x = rest[i] PROVE x \in inbox'[Drone]
        <5>1. i + 1 \in DOMAIN batch /\ 1 \in DOMAIN batch /\ i + 1 # 1 /\ x = batch[i + 1]
          BY <3>1, <4>2
        <5> QED
          BY <3>1, <3>2, <3>3, <5>1
      <4> QED
        BY <4>1, <4>2
    <3>6. inbox'[Drone] = {rest[i] : i \in DOMAIN rest}
      BY <3>5
    <3> QED
      BY <2>2, <2>3, <3>1, <3>4, <3>6 DEF BatchExact, rest
  <2>5. \A x \in Commands : Outstanding(x)' => Outstanding(x)
    BY <1>1, <2>2 DEF Outstanding, Channel!InHand, Channel!Awaited, Channel!TypeOK,
       DroneOf, Drones
  <2>6. /\ Outstanding(o) /\ executed[o] = 0 /\ executed'[o] = 1
        /\ \A x \in Commands \ {o} : executed'[x] = executed[x]
    BY <1>1, <2>2 DEF Outstanding, Channel!InHand, Channel!HandOver,
       Channel!InboxFresh, Channel!TypeOK, DroneOf, Drones
  <2>7. \A x \in lastWord : TunnelOf(x) = id => x = o
    BY <2>6 DEF Inv, SystemInv, Counters, WordReady, Rivals
  <2>8. \A i \in Device!TunnelIDs \ {id} : Up(i)' = Up(i) /\ Idle(i)' = Idle(i)
    <3>1. CASE UNCHANGED <<tunnelManagers, manager, stopped>>
      BY <3>1 DEF Up, Idle
    <3> QED
      BY <1>1, <1>5, <1>7, <2>3, <3>1, StartEffect, StopEffect
  <2>9. o \in lastWord => IF EventOf[o].op = "start" THEN Up(id)' ELSE ~Up(id)'
    <3> HIDE DEF id
    <3>1. CASE Device!StartCheck("reporter")
      <4>1. /\ EventOf[o].op = "start" /\ UNCHANGED <<tunnelManagers, manager, stopped>>
            /\ tunnelManagers[id] # NoManager \/ ~Device!HasFactory(EventOf[o].entry)
        BY <1>7, <2>3, <3>1 DEF Device!registryVars
      <4>2. o \in lastWord => Up(id)
        BY <2>6, <4>1 DEF Inv, SystemInv, WordReady, Idle, id
      <4> QED
        BY <4>1, <4>2 DEF Up
    <3>2. CASE Device!StartInsert("reporter")
      <4>1. EventOf[o].op = "start"
        BY <1>1, <2>3, <3>2 DEF Inv, SystemInv, CallersReady
      <4> QED
        BY <1>1, <2>3, <3>2, <4>1, StartEffect
    <3>3. CASE Device!StopLookup("reporter")
      <4>1. /\ EventOf[o].op = "stop" /\ UNCHANGED <<tunnelManagers, manager, stopped>>
            /\ tunnelManagers[id] = NoManager
        BY <1>7, <2>3, <3>3 DEF Device!registryVars
      <4> QED
        BY <4>1 DEF Up
    <3>4. CASE Device!StopCancel("reporter")
      <4>1. EventOf[o].op = "stop"
        BY <1>1, <2>3, <3>4 DEF Inv, SystemInv, CallersReady
      <4> QED
        BY <1>1, <2>3, <3>4, <4>1, StopEffect
    <3> QED
      BY <1>1, <3>1, <3>2, <3>3, <3>4
  <2>10. WordReady' /\ LastWordHolds'
    <3> HIDE DEF id
    <3>1. ASSUME NEW x \in lastWord, x # o
          PROVE  /\ executed'[x] = executed[x]
                 /\ Up(TunnelOf(x))' = Up(TunnelOf(x)) /\ Idle(TunnelOf(x))' = Idle(TunnelOf(x))
      BY <2>6, <2>7, <2>8, <3>1, KnownTunnel DEF Inv, SystemInv, Counters
    <3> QED
      BY <1>3, <2>5, <2>6, <2>9, <3>1, WordsKept DEF id
  <2> QED
    BY <1>2, <1>4, <2>4, <2>10 DEF SystemInv
<1> QED
  BY <1>6, <1>7

LEMMA ReporterTurns == ASSUME Inv, BatchDone \/ ReporterDone PROVE SystemInv'
<1>1. /\ \E s \in {"select", "done"} : pc' = [pc EXCEPT !["reporter"] = s]
      /\ UNCHANGED <<work, target, tunnelManagers, manager, entry, stopped, cancelled>>
      /\ UNCHANGED <<channelVars, systemVars>>
  BY DEF BatchDone, ReporterDone, Device!BatchDone, Device!ReporterDone, Device!registryVars
<1>2. Device!TypeOK
  BY DeviceFacts DEF Inv
<1>3. pc'["main"] = pc["main"] /\ pc'["reporter"] \in {"select", "done"}
  BY <1>1, <1>2 DEF Device!TypeOK, Device!Callers
<1>4. CallersReady'
  <2>1. \A c \in Device!Callers : pc'[c] \in {"insert", "stop"} => pc'[c] = pc[c]
    BY <1>3 DEF Device!Callers
  <2> QED
    BY <1>1, <2>1, CallersKept DEF Inv, SystemInv, CallersReady
<1>5. WordReady' /\ LastWordHolds'
  <2>1. \A o \in Commands : Outstanding(o)' => Outstanding(o)
    BY <1>1 DEF Outstanding, Channel!InHand, Channel!Awaited, channelVars
  <2> QED
    BY <1>1, <1>3, <2>1, QuietStep DEF systemVars, channelVars
<1>6. Counters' /\ BatchExact' /\ SignalCancels'
  BY <1>1, <1>3 DEF Inv, SystemInv, Counters, BatchExact, SignalCancels, systemVars, channelVars
<1> QED
  BY <1>4, <1>5, <1>6 DEF SystemInv
-----------------------------------------------------------------------------
(***************************************************************************)
(* The invariant is preserved: the rest of the process.                    *)
(***************************************************************************)

(* Run itself stops no tunnel, and while it starts its own no command has    *)
(* been run yet that has the last word.                                      *)
LEMMA RunStep ==
    ASSUME Inv, Device!CallerStep("main"), UNCHANGED <<channelVars, systemVars>>
    PROVE  SystemInv'
<1> USE DEF Device!CallerStep, Device!StartCheck, Device!StartInsert, Device!StopLookup,
            Device!StopCancel, Device!Current
<1>1. /\ Device!TypeOK /\ CallersAtWork /\ "main" \in Device!Callers
      /\ "reporter" \in Device!Callers
  BY DeviceFacts DEF Inv, Device!Callers
<1>2. pc["main"] \in {"next", "insert", "stop"} /\ work["main"] # <<>> /\ pc["reporter"] = "off"
  BY <1>1 DEF CallersAtWork
<1>3. CallersReady'
  BY <1>1, CallerReady
<1>4. /\ pc'["main"] \in {"next", "insert", "stop"} /\ pc'["reporter"] = "off"
      /\ work'["reporter"] = work["reporter"] /\ UNCHANGED cancelled
  BY <1>1, <1>2 DEF Device!TypeOK
<1>5. Counters' /\ BatchExact' /\ SignalCancels'
  BY <1>4 DEF Inv, SystemInv, Counters, BatchExact, SignalCancels, systemVars, channelVars
<1>6. Head(work["main"]).op = "start"
  <2>1. work["main"] \in Seq(Device!Event)
    BY <1>1 DEF Device!TypeOK
  <2>2. 1 \in DOMAIN work["main"] /\ Head(work["main"]) = work["main"][1]
    BY <1>2, <2>1
  <2> QED
    BY <2>2 DEF Inv, SystemInv, CallersReady
<1>7. \A o \in Commands : Outstanding(o)' => Outstanding(o)
  BY DEF Outstanding, Channel!InHand, Channel!Awaited, channelVars
<1>8. WordReady' /\ LastWordHolds'
  <2>1. CASE Device!StartInsert("main")
    <3>1. PICK id : id = Device!TunnelID(Device!CurrentEntry("main"))
      OBVIOUS
    <3>2. /\ Idle(id) /\ Up(id)'
          /\ \A i \in Device!TunnelIDs \ {id} : Up(i)' = Up(i) /\ Idle(i)' = Idle(i)
      BY <1>1, <2>1, <3>1, StartEffect
    <3>3. \A c \in lastWord : executed[c] = 0 /\ TunnelOf(c) \in Device!TunnelIDs
      BY <1>2, KnownTunnel DEF Inv, SystemInv, Counters, WordReady
    <3> QED
      BY <1>7, <3>2, <3>3, WordsKept DEF systemVars, channelVars
  <2>2. CASE UNCHANGED <<tunnelManagers, manager, stopped>>
    BY <1>2, <1>7, <2>2, QuietStep DEF systemVars, channelVars
  <2>3. Device!StartInsert("main") \/ UNCHANGED <<tunnelManagers, manager, stopped>>
    BY <1>1, <1>6 DEF Device!registryVars, Inv, SystemInv, CallersReady
  <2> QED
    BY <2>1, <2>2, <2>3
<1> QED
  BY <1>3, <1>5, <1>8 DEF SystemInv

LEMMA MainSteps == ASSUME Inv, MainStep \/ Restart PROVE SystemInv'
<1>1. CASE MainStep /\ Device!CallerStep("main")
  BY <1>1, RunStep DEF MainStep
<1>2. CASE (MainStep /\ ~Device!CallerStep("main")) \/ Restart
  <2> DEFINE quit == {"drain", "returned"}
  <2>1. Device!TypeOK
    BY DeviceFacts DEF Inv
  <2>2. /\ UNCHANGED <<target, tunnelManagers, manager, entry, stopped>>
        /\ UNCHANGED <<channelVars, systemVars>>
        /\ work'["reporter"] = work["reporter"]
        /\ cancelled' => cancelled
        /\ pc'["main"] \in quit => cancelled'
        /\ \A c \in Device!Callers : pc'[c] \in {"insert", "stop"} =>
              pc'[c] = pc[c] /\ work'[c] = work[c]
        /\ lastWord # {} => (pc'["reporter"] = "off" => pc["reporter"] = "off")
        /\ \A i \in DOMAIN work'["main"] : work'["main"][i].op = "start"
    <3> USE <2>1 DEF Device!TypeOK, Device!Callers, Device!registryVars, Device!callerVars
    <3>1. SignalCancels /\ \A i \in DOMAIN work["main"] : work["main"][i].op = "start"
      BY DEF Inv, SystemInv, CallersReady
    <3>2. pc["main"] \in {"init", "next", "failed"} => pc["reporter"] = "off"
      BY DeviceFacts DEF Inv
    <3>3. CASE MainStep /\ Device!RunInit
      BY <3>1, <3>2, <3>3, SystemAssumption DEF MainStep, Device!RunInit, SignalCancels
    <3>4. CASE MainStep /\ (Device!StartReporter \/ Device!MAVLinkDone \/ Device!WaitReturns)
      BY <3>1, <3>2, <3>4 DEF MainStep, Device!StartReporter, Device!MAVLinkDone,
         Device!WaitReturns, SignalCancels, StatsEnabled
    <3>5. CASE Restart
      BY <3>1, <3>2, <3>5 DEF Restart, SignalCancels
    <3> QED
      BY <1>2, <3>3, <3>4, <3>5 DEF MainStep
  <2>3. CallersReady'
    BY <2>2, CallersKept
  <2>4. WordReady' /\ LastWordHolds'
    <3>1. \A o \in Commands : Outstanding(o)' => Outstanding(o)
      BY <2>2 DEF Outstanding, Channel!InHand, Channel!Awaited, channelVars
    <3> QED
      BY <2>2, <3>1, QuietStep DEF systemVars, channelVars
  <2>5. Counters' /\ BatchExact' /\ SignalCancels'
    BY <2>2 DEF Inv, SystemInv, Counters, BatchExact, SignalCancels, systemVars, channelVars
  <2> QED
    BY <2>3, <2>4, <2>5 DEF SystemInv
<1> QED
  BY <1>1, <1>2

LEMMA SignalStep == ASSUME Inv, Signal PROVE SystemInv'
<1>1. /\ pc' = [pc EXCEPT !["main"] = "drain"] /\ cancelled' = TRUE
      /\ lastWord' = {} /\ signals < MaxRestarts /\ signals' = signals + 1
      /\ UNCHANGED <<work, target, tunnelManagers, channelVars, batch, losses>>
  BY DEF Signal, Device!Signal, Device!registryVars
<1>2. Device!TypeOK
  BY DeviceFacts DEF Inv
<1>3. CallersReady'
  <2>1. \A c \in Device!Callers : pc'[c] \in {"insert", "stop"} => pc'[c] = pc[c]
    BY <1>1, <1>2 DEF Device!TypeOK, Device!Callers
  <2> QED
    BY <1>1, <2>1, CallersKept DEF Inv, SystemInv, CallersReady
<1>4. Counters'
  BY <1>1, SystemAssumption DEF Inv, SystemInv, Counters
<1>5. BatchExact'
  BY <1>1 DEF Inv, SystemInv, BatchExact, channelVars
<1>6. SignalCancels' /\ WordReady' /\ LastWordHolds'
  BY <1>1 DEF SignalCancels, WordReady, LastWordHolds
<1> QED
  BY <1>3, <1>4, <1>5, <1>6 DEF SystemInv

(* After a kill nothing is left of the process and of its batch.             *)
LEMMA KilledSystem == ASSUME Inv, Killed PROVE SystemInv'
<1>1. /\ work' = [c \in Device!Callers |-> <<>>] /\ batch' = <<>> /\ lastWord' = {}
      /\ pc' = [c \in Device!Callers |-> IF c = "main" THEN "init" ELSE "off"]
      /\ inbox' = [inbox EXCEPT ![Drone] = {}]
      /\ losses < MaxLosses /\ losses' = losses + 1 /\ UNCHANGED signals
  BY DEF Killed, Channel!DeviceRestart
<1>2. Counters'
  BY <1>1, SystemAssumption DEF Inv, SystemInv, Counters
<1>3. BatchExact'
  <2>1. inbox'[Drone] = {}
    BY <1>1, ChannelFacts DEF Inv, Channel!TypeOK, Drones
  <2> QED
    BY <1>1, <2>1, NoEvents DEF BatchExact, Device!Callers
<1>4. CallersReady'
  BY <1>1 DEF CallersReady, Device!Callers
<1>5. SignalCancels' /\ WordReady' /\ LastWordHolds'
  BY <1>1 DEF SignalCancels, WordReady, LastWordHolds, Device!Callers
<1> QED
  BY <1>2, <1>3, <1>4, <1>5 DEF SystemInv

(* A manager that ends without having been told to takes its tunnel's        *)
(* command out of lastWord, and one that was told to is not up before.       *)
LEMMA ManagerSteps ==
    ASSUME Inv, NEW m \in Managers, ManagerStep(m) \/ TunnelCloses(m) PROVE SystemInv'
<1> USE DEF Device!GoTo
<1>1. Device!TypeOK /\ Device!RegistryExact
  BY DeviceFacts DEF Inv
<1>2. /\ UNCHANGED <<pc, work, target, cancelled, channelVars, batch, losses, signals>>
      /\ lastWord' \subseteq lastWord
      /\ \A id \in Device!TunnelIDs : tunnelManagers'[id] \in {tunnelManagers[id], NoManager}
  BY <1>1 DEF ManagerStep, TunnelCloses, Device!ManagerStep, Device!ManagerTop,
     Device!PauseOver, Device!ManagerDelete, Device!ManagerDone, Device!TunnelCloses,
     Device!callerVars, systemVars, Device!TypeOK
<1>3. CallersReady'
  BY <1>2, CallersKept DEF Inv, SystemInv, CallersReady
<1>4. Counters' /\ BatchExact' /\ SignalCancels'
  BY <1>2 DEF Inv, SystemInv, Counters, BatchExact, SignalCancels, channelVars
<1>5. ASSUME NEW x \in lastWord', NEW i, i = TunnelOf(x)
      PROVE  /\ Up(i)' = Up(i)
             /\ Idle(i) => Idle(i)'
  <2>1. ~cancelled /\ i \in Device!TunnelIDs
    BY <1>2, <1>5, KnownTunnel DEF Inv, SystemInv, Counters, SignalCancels
  <2>2. tunnelManagers[i] \in Managers \cup {NoManager}
    BY <1>1, <2>1 DEF Device!TypeOK
  <2>3. /\ \A k \in Managers \ {m} : manager'[k] = manager[k] /\ stopped'[k] = stopped[k]
        /\ Idle(i) => Idle(i)'
    BY <1>1, <1>2, <2>1 DEF ManagerStep, TunnelCloses, Device!ManagerStep, Device!ManagerTop,
       Device!PauseOver, Device!ManagerDelete, Device!ManagerDone, Device!TunnelCloses,
       Device!TypeOK, Idle
  <2>4. CASE tunnelManagers[i] # m
    <3>1. tunnelManagers'[i] = tunnelManagers[i]
      BY <1>1, <2>1, <2>4 DEF ManagerStep, TunnelCloses, Device!ManagerStep,
         Device!ManagerTop, Device!PauseOver, Device!ManagerDelete, Device!ManagerDone,
         Device!TunnelCloses, Device!TypeOK, Device!RegistryExact
    <3> QED
      BY <2>2, <2>3, <2>4, <3>1 DEF Up
  <2>5. CASE tunnelManagers[i] = m
    <3>1. m # NoManager /\ Device!TunnelID(entry[m]) = i
          /\ manager[m] \in Device!Running \cup {"exit"}
      BY <1>1, <2>1, <2>5, SystemAssumption DEF Device!RegistryExact
    <3>2. CASE ManagerStep(m) /\ Device!ManagerTop(m)
      BY <1>1, <1>5, <2>1, <2>3, <2>5, <3>1, <3>2 DEF ManagerStep, Device!ManagerTop, Device!Done,
         Device!TypeOK, Device!Running, Up
    <3>3. CASE ManagerStep(m) /\ Device!PauseOver(m)
      BY <1>1, <2>1, <2>3, <2>5, <3>1, <3>3 DEF Device!PauseOver, Device!Done, Device!TypeOK,
         Device!Running, Up
    <3>4. CASE ManagerStep(m) /\ Device!ManagerDelete(m)
      BY <1>1, <2>1, <2>3, <2>5, <3>1, <3>4 DEF Device!ManagerDelete, Device!TypeOK,
         Device!Running, Up
    <3>5. CASE ManagerStep(m) /\ Device!ManagerDone(m)
      BY <3>1, <3>5 DEF Device!ManagerDone, Device!Running
    <3>6. CASE TunnelCloses(m)
      BY <1>1, <2>3, <2>5, <3>1, <3>6 DEF TunnelCloses, Device!TunnelCloses, Device!TypeOK,
         Device!Running, Up
    <3> QED
      BY <2>3, <3>2, <3>3, <3>4, <3>5, <3>6 DEF ManagerStep, Device!ManagerStep
  <2> QED
    BY <2>3, <2>4, <2>5
<1>6. \A o \in Commands : Outstanding(o)' => Outstanding(o)
  BY <1>2 DEF Outstanding, Channel!InHand, Channel!Awaited, channelVars
<1>7. \A x \in lastWord' : pc'["reporter"] = "off" => executed'[x] = 0
  BY <1>2 DEF Inv, SystemInv, WordReady, channelVars
<1>8. WordReady' /\ LastWordHolds'
  BY <1>2, <1>5, <1>6, <1>7, WordsKept DEF channelVars
<1> QED
  BY <1>3, <1>4, <1>8 DEF SystemInv
-----------------------------------------------------------------------------
(***************************************************************************)
(* The theorems.                                                           *)
(***************************************************************************)
LEMMA InvStep == Inv /\ [Next]_vars => Inv'
<1> SUFFICES ASSUME Inv, [Next]_vars PROVE Inv'
  OBVIOUS
<1>1. DP!Inv' /\ CP!TypeOK' /\ CP!HandOver'
  BY ComponentsStep DEF Inv
<1>2. SystemInv'
  <2>1. CASE DashboardStep \/ \E b \in Beats : HandlerStep(b)
    BY <2>1, BackendStep
  <2>2. ASSUME NEW c \in Commands, CommandStored(c) PROVE SystemInv'
    BY <2>2, StoredStep
  <2>3. CASE HeartbeatSent
    BY <2>3, HeartbeatStep
  <2>4. CASE AnswerRead
    BY <2>4, AnswerReadStep
  <2>5. CASE AnswerLost
    BY <2>5, AnswerLostStep
  <2>6. CASE ReporterRuns
    BY <2>6, ReporterStep
  <2>7. CASE BatchDone \/ ReporterDone
    BY <2>7, ReporterTurns
  <2>8. CASE MainStep \/ Restart
    BY <2>8, MainSteps
  <2>9. CASE Signal
    BY <2>9, SignalStep
  <2>10. ASSUME NEW m \in Managers, ManagerStep(m) \/ TunnelCloses(m) PROVE SystemInv'
    BY <2>10, ManagerSteps
  <2>11. CASE ServerRestart
    BY <2>11, ServerRestartStep
  <2>12. CASE Killed
    BY <2>12, KilledSystem
  <2>13. CASE UNCHANGED vars
    <3>1. UNCHANGED <<deviceVars, channelVars, systemVars>>
      BY <2>13 DEF vars
    <3>2. Counters' /\ BatchExact' /\ CallersReady' /\ SignalCancels'
      BY <3>1 DEF Inv, SystemInv, Counters, BatchExact, CallersReady, SignalCancels,
         deviceVars, channelVars, systemVars, Device!CurrentEntry
    <3>3. WordReady' /\ LastWordHolds'
      <4>1. \A o \in Commands : Outstanding(o)' => Outstanding(o)
        BY <3>1 DEF Outstanding, Channel!InHand, Channel!Awaited, channelVars
      <4> QED
        BY <3>1, <4>1, QuietStep DEF deviceVars, channelVars, systemVars
    <3> QED
      BY <3>2, <3>3 DEF SystemInv
  <2> QED
    BY <2>1, <2>2, <2>3, <2>4, <2>5, <2>6, <2>7, <2>8, <2>9, <2>10, <2>11, <2>12,
       <2>13 DEF Next
<1> QED
  BY <1>1, <1>2 DEF Inv

LEMMA InvCorrect == Spec => []Inv
BY InvInit, InvStep, PTL DEF Spec

(* Every variable of the two components keeps its type when they run         *)
(* together, and the reporter's events and its batch of commands are one.    *)
THEOREM TypeCorrect == Spec => []TypeOK
<1>1. Inv => TypeOK
  BY ChannelFacts, DeviceFacts DEF Inv, SystemInv, BatchExact, Counters, TypeOK
<1> QED
  BY <1>1, InvCorrect, PTL

(* What the operator last asked of a tunnel is what the tunnel is: a start   *)
(* or stop that was issued with nothing else under way for its tunnel has    *)
(* its effect, once the device's processEvent has run it, as long as no      *)
(* other command for the tunnel follows, the process neither ends nor is     *)
(* killed and the endpoint opens - whatever answers are lost, however often  *)
(* the managers reconnect, and with any number of tunnels and commands.      *)
THEOREM LastWordHoldsCorrect == Spec => []LastWordHolds
<1>1. Inv => LastWordHolds
  BY DEF Inv, SystemInv
<1> QED
  BY <1>1, InvCorrect, PTL

(* The device's batches, tunnels and restarts are nothing new to the channel *)
(* - every joint step is a step of DroneCommands or a stutter -, so that it  *)
(* promises here what it promises alone: no command is run twice, and a lost *)
(* one is lost for good.                                                     *)
THEOREM ImplementsChannel == Spec => CP!Spec /\ CP!ImplementsCommandOnce
<1>1. Init => CP!Init
  BY DEF Init, Channel!Init, CP!Init
<1>2. Inv /\ [Next]_vars => [CP!Next]_(CP!vars)
  BY ChannelMoves, ChannelNext DEF Inv
<1>3. Spec => CP!Spec
  BY <1>1, <1>2, InvCorrect, PTL DEF Spec, CP!Spec
<1>4. CP!Spec => CP!ImplementsCommandOnce
  BY ChannelAssumption, CP!Implements
<1> QED
  BY <1>3, <1>4, PTL

(* The map of tunnels is exact across restarts and kills, too, which         *)
(* TunnelRegistry does not have: a process that ended has left nothing in    *)
(* it, and one that was killed took it along.                                *)
THEOREM RegistryExactCorrect == Spec => []Device!RegistryExact
<1>1. Inv => Device!RegistryExact
  BY DeviceFacts DEF Inv
<1> QED
  BY <1>1, InvCorrect, PTL
=============================================================================
