----------------------------- MODULE DroneSystem -----------------------------
(***************************************************************************)
(* The dashboard, the server and one device together: DroneCommands        *)
(* carries the commands, TunnelRegistry is the process that runs them.     *)
(* The two meet in the stats reporter: its tick sends the heartbeat, its   *)
(* sendStats returns the answer's commands, and every turn of processEvent *)
(* starts or stops a tunnel.  systemd starts the process again after its   *)
(* end, be it regular, a failure or a kill.  The reporter is enabled, for  *)
(* without it no command reaches the device.                               *)
(*                                                                         *)
(* Here a batch has an order: any, since FindAll asks the database for     *)
(* none.                                                                   *)
(***************************************************************************)
EXTENDS Naturals, Sequences, SequencesExt

CONSTANTS
    Drone,          \* the device's UID
    Commands, Beats, NoBeat, Faults,                    \* see DroneCommands
    Endpoints, Managers, NoManager, MAVLinkEnabled,     \* see TunnelRegistry
    EventOf,        \* the type and payload of each command
    MaxLosses,      \* bound: connections lost, by themselves or by a crash
    MaxRestarts     \* bound: signals to the process, each with a restart

VARIABLES
    drones, commands, create, beat, found, todo, waiting, inbox, executed,
    pc, work, target, tunnelManagers, manager, entry, stopped, cancelled,
    mavlink, wg,
    batch,          \* processEvent's events: the commands it has still to run
    lastWord,       \* commands that settle what their tunnel has to be (history)
    losses,         \* connections lost, kills and restarts of the server
    signals         \* signals sent to the process

channelVars == <<drones, commands, create, beat, found, todo, waiting, inbox, executed>>
deviceVars  == <<pc, work, target, tunnelManagers, manager, entry, stopped,
                 cancelled, mavlink, wg>>
systemVars  == <<batch, lastWord, losses, signals>>
vars == <<channelVars, deviceVars, systemVars>>

Drones == {Drone}
DroneOf == [c \in Commands |-> Drone]
BeatDrone == [b \in Beats |-> Drone]
StatsEnabled == TRUE

Events(order) == [i \in DOMAIN order |-> EventOf[order[i]]]
Batches == {Events(order) : order \in SetToAllKPermutations(Commands)}

Channel == INSTANCE DroneCommands
Device  == INSTANCE TunnelRegistry

TunnelOf(c) == Device!TunnelID(EventOf[c].entry)

(* Only so many commands are ever issued.  Any prefix of a run issues but    *)
(* finitely many, so this is no restriction to an invariant.                 *)
ASSUME SystemAssumption ==
    /\ IsFiniteSet(Commands)
    /\ EventOf \in [Commands -> Device!Event]
    /\ NoBeat \notin Beats
    /\ Faults \subseteq Channel!FaultKinds
    /\ Endpoints \in Seq(Device!Entry)
    /\ NoManager \notin Managers
    /\ MAVLinkEnabled \in BOOLEAN
    /\ MaxLosses \in Nat
    /\ MaxRestarts \in Nat

TypeOK ==
    /\ Channel!TypeOK
    /\ Device!TypeOK
    /\ work["reporter"] = Events(batch)
    /\ inbox[Drone] = {batch[i] : i \in DOMAIN batch}
    /\ lastWord \subseteq Commands
    /\ losses \in 0..MaxLosses
    /\ signals \in 0..MaxRestarts

Init ==
    /\ Channel!Init
    /\ Device!Init
    /\ batch = <<>>
    /\ lastWord = {}
    /\ losses = 0
    /\ signals = 0
-----------------------------------------------------------------------------
(***************************************************************************)
(* The operator.                                                           *)
(***************************************************************************)
Rivals(c) == {o \in Commands \ {c} : TunnelOf(o) = TunnelOf(c)}
Outstanding(o) == commands[o] = "pending" \/ Channel!InHand(o)

Idle(id) == tunnelManagers[id] = NoManager
Up(id) ==
    LET m == tunnelManagers[id] IN
    m # NoManager /\ manager[m] \in Device!Running /\ ~stopped[m]

(* The command is issued with nothing else under way for its tunnel, and a   *)
(* start neither to a tunnel that is going down nor without a factory.       *)
Unrivalled(c) ==
    /\ ~cancelled
    /\ ~\E o \in Rivals(c) : Outstanding(o)
    /\ EventOf[c].op = "start" =>
          /\ Device!HasFactory(EventOf[c].entry)
          /\ Idle(TunnelOf(c)) \/ Up(TunnelOf(c))

CommandStored(c) ==
    /\ Channel!CreateInsert(c)
    /\ lastWord' = (lastWord \ Rivals(c)) \cup (IF Unrivalled(c) THEN {c} ELSE {})
    /\ UNCHANGED <<deviceVars, batch, losses, signals>>

(* The rest of the dashboard, and the server's handler of a heartbeat: the   *)
(* device does not see them.                                                 *)
DashboardStep ==
    /\ (\E c \in Commands : Channel!CreateFind(c)) \/ Channel!DeleteDrone(Drone)
    /\ UNCHANGED <<deviceVars, systemVars>>

HandlerStep(b) ==
    /\ Channel!HandlerStep(b)
    /\ UNCHANGED <<deviceVars, systemVars>>
-----------------------------------------------------------------------------
(***************************************************************************)
(* The stats reporter, where the channel and the process meet.             *)
(***************************************************************************)

(* Mutant: the answer is decoded into a single command.                      *)
AnswerReadFirst ==
    /\ Channel!Receive(Drone)
    /\ \E order \in SetToSeqs(inbox'[Drone]) :
          /\ batch' = IF order = <<>> THEN <<>> ELSE <<Head(order)>>
          /\ work' = [work EXCEPT !["reporter"] = Events(batch')]
    /\ Device!Answer
    /\ UNCHANGED <<lastWord, losses, signals>>

(* The ticker fires: sendStats posts the heartbeat.                          *)
HeartbeatSent ==
    /\ Device!Tick
    /\ \E b \in Beats : Channel!SendBeat(Drone, b)
    /\ UNCHANGED systemVars

(* sendStats returns the answer's commands, in the order the database had.   *)
AnswerRead ==
    /\ Channel!Receive(Drone)
    /\ \E order \in SetToSeqs(inbox'[Drone]) :
          /\ batch' = order
          /\ work' = [work EXCEPT !["reporter"] = Events(order)]
    /\ Device!Answer
    /\ UNCHANGED <<lastWord, losses, signals>>

(* The connection breaks: sendStats returns an error, and the server's       *)
(* handler goes on.                                                          *)
AnswerLost ==
    /\ losses < MaxLosses
    /\ Channel!ConnectionLost(Drone)
    /\ work' = [work EXCEPT !["reporter"] = <<>>]
    /\ Device!Answer
    /\ losses' = losses + 1
    /\ UNCHANGED <<batch, lastWord, signals>>

(* The server dies and comes back: a reporter whose heartbeat it had not      *)
(* answered yet gets an error.                                               *)
ServerRestart ==
    /\ losses < MaxLosses
    /\ Channel!ServerRestart
    /\ \/ /\ waiting'[Drone] # waiting[Drone]
          /\ work' = [work EXCEPT !["reporter"] = <<>>]
          /\ Device!Answer
       \/ /\ waiting'[Drone] = waiting[Drone]
          /\ UNCHANGED deviceVars
    /\ losses' = losses + 1
    /\ UNCHANGED <<batch, lastWord, signals>>

(* A step of startTunnels or stopTunnel; the last one for an event is a turn *)
(* of processEvent's loop.                                                   *)
ReporterRuns ==
    /\ Device!CallerStep("reporter")
    /\ \/ /\ work' = work
          /\ UNCHANGED <<channelVars, batch>>
       \/ /\ work' # work
          /\ Channel!ProcessEvent(Drone, Head(batch))
          /\ batch' = Tail(batch)
    /\ UNCHANGED <<lastWord, losses, signals>>

BatchDone ==
    /\ Device!BatchDone
    /\ UNCHANGED <<channelVars, systemVars>>

ReporterDone ==
    /\ Device!ReporterDone
    /\ UNCHANGED <<channelVars, systemVars>>
-----------------------------------------------------------------------------
(***************************************************************************)
(* The rest of the process.                                                *)
(***************************************************************************)
MainStep ==
    /\ \/ Device!RunInit \/ Device!CallerStep("main") \/ Device!StartReporter
       \/ Device!MAVLinkDone \/ Device!WaitReturns
    /\ UNCHANGED <<channelVars, systemVars>>

(* SIGTERM takes every tunnel down: no command has the last word any more.   *)
Signal ==
    /\ signals < MaxRestarts
    /\ Device!Signal
    /\ signals' = signals + 1
    /\ lastWord' = {}
    /\ UNCHANGED <<channelVars, batch, losses>>

(* Mutant: Restart=on-failure leaves a process that ended regularly alone.    *)
RestartOnFailure ==
    /\ pc["main"] = "failed"
    /\ pc' = [c \in Device!Callers |-> IF c = "main" THEN "init" ELSE "off"]
    /\ cancelled' = FALSE
    /\ mavlink' = "off"
    /\ UNCHANGED <<channelVars, systemVars, work, target, tunnelManagers, manager,
                   entry, stopped, wg>>

(* systemd, Restart=always: a new process, with the tunnels of its           *)
(* configuration and none of those that commands started.                    *)
Restart ==
    /\ pc["main"] \in {"returned", "failed"}
    /\ pc' = [c \in Device!Callers |-> IF c = "main" THEN "init" ELSE "off"]
    /\ cancelled' = FALSE
    /\ mavlink' = "off"
    /\ UNCHANGED <<channelVars, systemVars, work, target, tunnelManagers, manager,
                   entry, stopped, wg>>

(* The process is killed or the device loses its power: nothing is left of    *)
(* the process, its batch and its connection, and systemd starts it again.   *)
Killed ==
    /\ losses < MaxLosses
    /\ Channel!DeviceRestart(Drone)
    /\ pc' = [c \in Device!Callers |-> IF c = "main" THEN "init" ELSE "off"]
    /\ work' = [c \in Device!Callers |-> <<>>]
    /\ target' = [c \in Device!Callers |-> NoManager]
    /\ tunnelManagers' = [id \in Device!TunnelIDs |-> NoManager]
    /\ manager' = [m \in Managers |-> "none"]
    /\ entry' = [m \in Managers |-> Device!NoEntry]
    /\ stopped' = [m \in Managers |-> FALSE]
    /\ cancelled' = FALSE
    /\ mavlink' = "off"
    /\ wg' = 0
    /\ batch' = <<>>
    /\ lastWord' = {}
    /\ losses' = losses + 1
    /\ UNCHANGED signals

(* An endpoint that does not open ends the manager: what was asked of the    *)
(* tunnel is void.                                                           *)
ManagerStep(m) ==
    /\ Device!ManagerStep(m)
    /\ lastWord' =
          IF manager[m] = "top" /\ manager'[m] = "exit" /\ ~Device!Done(m)
          THEN {c \in lastWord : TunnelOf(c) # Device!TunnelID(entry[m])}
          ELSE lastWord
    /\ UNCHANGED <<channelVars, batch, losses, signals>>

TunnelCloses(m) ==
    /\ Device!TunnelCloses(m)
    /\ UNCHANGED <<channelVars, systemVars>>
-----------------------------------------------------------------------------
Next ==
    \/ DashboardStep
    \/ \E b \in Beats : HandlerStep(b)
    \/ \E c \in Commands : CommandStored(c)
    \/ HeartbeatSent \/ AnswerRead \/ AnswerLost \/ ServerRestart
    \/ ReporterRuns \/ BatchDone \/ ReporterDone
    \/ MainStep \/ Signal \/ Restart \/ Killed
    \/ \E m \in Managers : ManagerStep(m) \/ TunnelCloses(m)

Spec == Init /\ [][Next]_vars

(* The two components' fairness, on the joint steps.  systemd restarts the   *)
(* process, and the MAVLink endpoint can be opened sooner or later.          *)
Fairness ==
    /\ \A b \in Beats : WF_vars(HandlerStep(b))
    /\ WF_vars(HeartbeatSent) /\ WF_vars(AnswerRead)
    /\ WF_vars(ReporterRuns) /\ WF_vars(BatchDone) /\ SF_vars(ReporterDone)
    /\ WF_vars(MainStep)
    /\ SF_vars(MainStep /\ pc["main"] = "init" /\ pc'["main"] = "next")
    /\ WF_vars(Restart)
    /\ \A m \in Managers :
          /\ WF_vars(ManagerStep(m))
          /\ WF_vars(Device!Done(m) /\ TunnelCloses(m))

FairSpec == Spec /\ Fairness
-----------------------------------------------------------------------------
(***************************************************************************)
(* Properties.                                                             *)
(***************************************************************************)

(* A command that was issued with nothing else under way for its tunnel, and *)
(* a start with the tunnel idle or up, leaves the tunnel as it says once it  *)
(* has been run: after a start it is up, after a stop it is down or going    *)
(* down, whatever batches, lost answers, earlier managers and reconnections  *)
(* came between.  That ends with the next command for the tunnel, the end of *)
(* the process, or an error of the local endpoint.                           *)
LastWordHolds ==
    \A c \in lastWord : executed[c] = 1 =>
        IF EventOf[c].op = "start" THEN Up(TunnelOf(c)) ELSE ~Up(TunnelOf(c))

(* No connection will be lost any more, no process killed, and no handler of *)
(* a lost connection is left to mark commands that nobody will read.         *)
Settled ==
    /\ losses = MaxLosses
    /\ \A b \in Beats : beat[b] # "idle" => waiting[Drone] = b

(* Once a device can be reached again, every pending command is run, be it   *)
(* across a regular end of the process and its restart.                      *)
PendingIsRun ==
    \A c \in Commands :
        (Settled /\ commands[c] = "pending") ~> executed[c] = 1

(* A stop the operator has queued then takes the tunnel off the device: its  *)
(* manager ends and leaves the map.                                          *)
StopReaches ==
    \A c \in Commands :
        (Settled /\ commands[c] = "pending" /\ EventOf[c].op = "stop")
            ~> Idle(TunnelOf(c))
=============================================================================
