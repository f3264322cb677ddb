---------------------------- MODULE DroneCommands ----------------------------
(***************************************************************************)
(* The command channel from the dashboard to a device.                     *)
(*                                                                         *)
(* An operator's POST /device/{id}/commands (createDroneCommand) stores a  *)
(* "pending" document in the collection drone_commands.  The device polls: *)
(* every heartbeat is a POST /device-status/{id} (deviceStatus), whose     *)
(* handler upserts the device's status, reads its pending commands, marks  *)
(* each of them "done" in the database, one UpdateOne at a time, and only  *)
(* then answers with the list, which the device's processEvent executes.   *)
(*                                                                         *)
(* A handler runs on context.Background(), so it goes on when the device   *)
(* that sent the request has lost the connection or restarted: handlers of *)
(* one device's successive heartbeats may run concurrently.  Every         *)
(* database call is a step of its own.                                     *)
(***************************************************************************)
EXTENDS Naturals

CONSTANTS
    Drones,     \* device UIDs
    Commands,   \* identities (ObjectIDs) of the commands operators issue
    DroneOf,    \* the drone_uid each command is issued for
    Beats,      \* slots for heartbeat requests the server is handling
    BeatDrone,  \* the drone_id in the URL of the requests in each slot
    NoBeat,     \* "no request in flight"
    Faults      \* which faults may happen, a subset of FaultKinds

(* "db": a database call fails or times out; "net": a connection is lost;    *)
(* "device", "server": the process dies and is started again.               *)
FaultKinds == {"db", "net", "device", "server"}

ASSUME CommandsAssumption ==
    /\ DroneOf \in [Commands -> Drones]
    /\ BeatDrone \in [Beats -> Drones]
    /\ NoBeat \notin Beats
    /\ Faults \subseteq FaultKinds

VARIABLES
    drones,     \* collection "drone": the UIDs that have a document
    commands,   \* collection "drone_commands": each command's status field
    create,     \* progress of the createDroneCommand call for each command
    beat,       \* progress of the deviceStatus call in each slot
    found,      \* droneCommand: what FindAll returned
    todo,       \* the part of found that is still to be marked
    waiting,    \* the device's request in flight (web.WebRequest), or NoBeat
    inbox,      \* commands of the last answer that processEvent has still to run
    executed    \* how often a device has run each command (history)

operatorVars == <<drones, create>>
handlerVars  == <<beat, found, todo>>
deviceVars   == <<waiting, inbox, executed>>
vars == <<operatorVars, commands, handlerVars, deviceVars>>

BeatStates   == {"idle", "upsert", "find", "mark", "replied", "error"}
CreateStates == {"idle", "checked", "created", "refused", "failed"}

TypeOK ==
    /\ drones \subseteq Drones
    /\ commands \in [Commands -> {"absent", "pending", "done"}]
    /\ create \in [Commands -> CreateStates]
    /\ beat \in [Beats -> BeatStates]
    /\ found \in [Beats -> SUBSET Commands]
    /\ todo \in [Beats -> SUBSET Commands]
    /\ waiting \in [Drones -> Beats \cup {NoBeat}]
    /\ inbox \in [Drones -> SUBSET Commands]
    /\ executed \in [Commands -> Nat]

(* Every drone has been created with the dashboard and no request is running. *)
Init ==
    /\ drones = Drones
    /\ commands = [c \in Commands |-> "absent"]
    /\ create = [c \in Commands |-> "idle"]
    /\ beat = [b \in Beats |-> "idle"]
    /\ found = [b \in Beats |-> {}]
    /\ todo = [b \in Beats |-> {}]
    /\ waiting = [d \in Drones |-> NoBeat]
    /\ inbox = [d \in Drones |-> {}]
    /\ executed = [c \in Commands |-> 0]
-----------------------------------------------------------------------------
(***************************************************************************)
(* The dashboard's handlers.                                               *)
(***************************************************************************)

(* createDroneCommand, first half: FindOne on the drone; 404 without it.     *)
CreateFind(c) ==
    /\ create[c] = "idle"
    /\ \/ /\ DroneOf[c] \in drones
          /\ create' = [create EXCEPT ![c] = "checked"]
       \/ /\ DroneOf[c] \notin drones \/ "db" \in Faults
          /\ create' = [create EXCEPT ![c] = "refused"]
    /\ UNCHANGED <<drones, commands, handlerVars, deviceVars>>

(* createDroneCommand, second half: InsertOne of the pending command.  An    *)
(* error - the five second timeout among them - answers 500 and leaves it    *)
(* open whether the document was written.                                    *)
CreateInsert(c) ==
    /\ create[c] = "checked"
    /\ \/ /\ commands' = [commands EXCEPT ![c] = "pending"]
          /\ create' = [create EXCEPT ![c] = "created"]
       \/ /\ "db" \in Faults
          /\ \E s \in {"absent", "pending"} :
                commands' = [commands EXCEPT ![c] = s]
          /\ create' = [create EXCEPT ![c] = "failed"]
    /\ UNCHANGED <<drones, handlerVars, deviceVars>>

(* DELETE /device/{id}: the drone's document goes, its commands stay.        *)
DeleteDrone(d) ==
    /\ d \in drones
    /\ drones' = drones \ {d}
    /\ UNCHANGED <<create, commands, handlerVars, deviceVars>>
-----------------------------------------------------------------------------
(***************************************************************************)
(* The heartbeat handler, deviceStatus.                                    *)
(***************************************************************************)

(* The handlers in the slots S are over and their variables gone.            *)
Free(S) ==
    /\ beat' = [b \in Beats |-> IF b \in S THEN "idle" ELSE beat[b]]
    /\ found' = [b \in Beats |-> IF b \in S THEN {} ELSE found[b]]
    /\ todo' = [b \in Beats |-> IF b \in S THEN {} ELSE todo[b]]

(* Mutants of the filter: without the status, and without the drone.        *)
PendingForAnyStatus(d) == {c \in Commands : commands[c] # "absent" /\ DroneOf[c] = d}
PendingForAnyDrone(d) == {c \in Commands : commands[c] = "pending"}

(* The filter of FindAll: this drone's commands, and only the pending ones.  *)
PendingFor(d) == {c \in Commands : commands[c] = "pending" /\ DroneOf[c] = d}

(* UpsertOne of the status.  Upserting creates the document when there is    *)
(* none.                                                                     *)
StatusUpsert(b) ==
    /\ beat[b] = "upsert"
    /\ \/ /\ drones' = drones \cup {BeatDrone[b]}
          /\ beat' = [beat EXCEPT ![b] = "find"]
       \/ /\ "db" \in Faults
          /\ drones' \in {drones, drones \cup {BeatDrone[b]}}
          /\ beat' = [beat EXCEPT ![b] = "error"]
    /\ UNCHANGED <<create, commands, found, todo, deviceVars>>

StatusFind(b) ==
    /\ beat[b] = "find"
    /\ \/ /\ found' = [found EXCEPT ![b] = PendingFor(BeatDrone[b])]
          /\ todo' = [todo EXCEPT ![b] = PendingFor(BeatDrone[b])]
          /\ beat' = [beat EXCEPT ![b] = "mark"]
       \/ /\ "db" \in Faults
          /\ beat' = [beat EXCEPT ![b] = "error"]
          /\ UNCHANGED <<found, todo>>
    /\ UNCHANGED <<operatorVars, commands, deviceVars>>

(* Mutants of the loop's turn: the error of UpdateOne is only logged; the   *)
(* command is marked "failed" when its update fails.                        *)
StatusMarkLogsErrors(b, c) ==
    /\ beat[b] = "mark"
    /\ c \in todo[b]
    /\ commands' \in {[commands EXCEPT ![c] = "done"]}
                      \cup (IF "db" \in Faults THEN {commands} ELSE {})
    /\ todo' = [todo EXCEPT ![b] = @ \ {c}]
    /\ UNCHANGED <<operatorVars, beat, found, deviceVars>>

StatusMarkFailed(b, c) ==
    /\ beat[b] = "mark"
    /\ c \in todo[b]
    /\ commands' \in {[commands EXCEPT ![c] = s] : s \in {"done", "failed"}}
    /\ todo' = [todo EXCEPT ![b] = @ \ {c}]
    /\ UNCHANGED <<operatorVars, beat, found, deviceVars>>

(* One turn of the loop: UpdateOne sets the command's status to done.  When  *)
(* it fails the handler answers 404 and gives up, whatever it has marked.    *)
StatusMark(b, c) ==
    /\ beat[b] = "mark"
    /\ c \in todo[b]
    /\ \/ /\ commands' = [commands EXCEPT ![c] = "done"]
          /\ todo' = [todo EXCEPT ![b] = @ \ {c}]
          /\ UNCHANGED beat
       \/ /\ "db" \in Faults
          /\ commands' \in {commands, [commands EXCEPT ![c] = "done"]}
          /\ beat' = [beat EXCEPT ![b] = "error"]
          /\ UNCHANGED todo
    /\ UNCHANGED <<operatorVars, found, deviceVars>>

(* Mutant: the answer goes out before the loop has marked every command.      *)
StatusReplyEarly(b) ==
    /\ beat[b] = "mark"
    /\ beat' = [beat EXCEPT ![b] = "replied"]
    /\ todo' = [todo EXCEPT ![b] = {}]
    /\ UNCHANGED <<operatorVars, commands, found, deviceVars>>

(* The loop is over: the handler encodes the list it read.                   *)
StatusReply(b) ==
    /\ beat[b] = "mark"
    /\ todo[b] = {}
    /\ beat' = [beat EXCEPT ![b] = "replied"]
    /\ UNCHANGED <<operatorVars, commands, found, todo, deviceVars>>

(* An answer nobody waits for disappears with its connection.                *)
ReplyDiscarded(b) ==
    /\ beat[b] \in {"replied", "error"}
    /\ waiting[BeatDrone[b]] # b
    /\ Free({b})
    /\ UNCHANGED <<operatorVars, commands, deviceVars>>
-----------------------------------------------------------------------------
(***************************************************************************)
(* The device's stats reporter: one goroutine that sends a heartbeat, waits *)
(* for the answer, runs its commands, and only then selects on the ticker   *)
(* again.                                                                   *)
(***************************************************************************)

SendBeat(d, b) ==
    /\ waiting[d] = NoBeat
    /\ inbox[d] = {}
    /\ beat[b] = "idle" /\ BeatDrone[b] = d
    /\ beat' = [beat EXCEPT ![b] = "upsert"]
    /\ waiting' = [waiting EXCEPT ![d] = b]
    /\ UNCHANGED <<operatorVars, commands, found, todo, inbox, executed>>

(* A status outside 2xx makes sendStats return an error and no commands.     *)
Receive(d) ==
    /\ waiting[d] # NoBeat
    /\ beat[waiting[d]] \in {"replied", "error"}
    /\ inbox' = [inbox EXCEPT ![d] = IF beat[waiting[d]] = "replied"
                                     THEN found[waiting[d]] ELSE {}]
    /\ Free({waiting[d]})
    /\ waiting' = [waiting EXCEPT ![d] = NoBeat]
    /\ UNCHANGED <<operatorVars, commands, executed>>

(* One turn of processEvent's loop.                                          *)
ProcessEvent(d, c) ==
    /\ c \in inbox[d]
    /\ inbox' = [inbox EXCEPT ![d] = @ \ {c}]
    /\ executed' = [executed EXCEPT ![c] = @ + 1]
    /\ UNCHANGED <<operatorVars, commands, handlerVars, waiting>>
-----------------------------------------------------------------------------
(***************************************************************************)
(* Faults.                                                                 *)
(***************************************************************************)

(* WebRequest returns an error; the server's handler knows nothing of it.    *)
ConnectionLost(d) ==
    /\ "net" \in Faults
    /\ waiting[d] # NoBeat
    /\ waiting' = [waiting EXCEPT ![d] = NoBeat]
    /\ UNCHANGED <<operatorVars, commands, handlerVars, inbox, executed>>

(* systemd restarts the device's process (Restart=always).                   *)
DeviceRestart(d) ==
    /\ "device" \in Faults
    /\ waiting' = [waiting EXCEPT ![d] = NoBeat]
    /\ inbox' = [inbox EXCEPT ![d] = {}]
    /\ UNCHANGED <<operatorVars, commands, handlerVars, executed>>

(* The server dies: handlers stop where they are, what they wrote remains,   *)
(* and the devices and operators they served get a broken connection.        *)
ServerRestart ==
    /\ "server" \in Faults
    /\ Free({b \in Beats : beat[b] # "replied"})
    /\ waiting' = [d \in Drones |->
            IF waiting[d] \in Beats /\ beat[waiting[d]] = "replied"
            THEN waiting[d] ELSE NoBeat]
    /\ create' = [c \in Commands |->
            IF create[c] = "checked" THEN "failed" ELSE create[c]]
    /\ UNCHANGED <<drones, commands, inbox, executed>>
-----------------------------------------------------------------------------
HandlerStep(b) ==
    \/ StatusUpsert(b) \/ StatusFind(b) \/ StatusReply(b) \/ ReplyDiscarded(b)
    \/ \E c \in Commands : StatusMark(b, c)

DeviceStep(d) ==
    \/ Receive(d)
    \/ \E b \in Beats : SendBeat(d, b)
    \/ \E c \in Commands : ProcessEvent(d, c)

Next ==
    \/ \E c \in Commands : CreateFind(c) \/ CreateInsert(c)
    \/ \E d \in Drones : DeleteDrone(d)
    \/ \E b \in Beats : HandlerStep(b)
    \/ \E d \in Drones : DeviceStep(d) \/ ConnectionLost(d) \/ DeviceRestart(d)
    \/ ServerRestart

Spec == Init /\ [][Next]_vars
-----------------------------------------------------------------------------
(***************************************************************************)
(* Properties.                                                             *)
(***************************************************************************)

(* The slots whose answer the device d will still read.                      *)
Awaited(d) == {b \in Beats : waiting[d] = b /\ beat[b] \in {"mark", "replied"}}

(* The command is on its way: read for an answer its device waits for, or    *)
(* read by the device and not yet run.                                       *)
InHand(c) == \/ c \in inbox[DroneOf[c]]
             \/ \E b \in Awaited(DroneOf[c]) : c \in found[b]

(* No command runs twice, although handlers of one device's heartbeats may   *)
(* overlap and read the same pending command before either marks it.         *)
AtMostOnce == \A c \in Commands : executed[c] <= 1

(* A device never gets hold of a command issued for another one.             *)
OnlyOwnCommands ==
    \A d \in Drones, c \in Commands :
        c \in inbox[d] \/ (\E b \in Awaited(d) : c \in found[b]) => DroneOf[c] = d

(* A device has at most one answer to come, and none while it runs a batch.  *)
OneRequest ==
    \A d \in Drones : waiting[d] # NoBeat =>
        /\ BeatDrone[waiting[d]] = d
        /\ beat[waiting[d]] # "idle"
        /\ inbox[d] = {}

(* What a device has in hand is marked in the database and has never run.    *)
InboxFresh ==
    \A d \in Drones : \A c \in inbox[d] :
        DroneOf[c] = d /\ commands[c] = "done" /\ executed[c] = 0

(* No answer that a device will still read lists a command that has run.     *)
AnswerFresh ==
    \A d \in Drones : \A b \in Awaited(d) : \A c \in found[b] :
        DroneOf[c] = d /\ executed[c] = 0

(* A handler works on commands there are, has marked those it is past with,  *)
(* and all of them once it answers.                                          *)
Marked ==
    \A b \in Beats :
        /\ todo[b] \subseteq found[b]
        /\ \A c \in found[b] : commands[c] # "absent"
        /\ beat[b] \in {"mark", "replied"} =>
              \A c \in found[b] \ todo[b] : commands[c] = "done"
        /\ beat[b] = "replied" => todo[b] = {}

(* What has run was marked; what was never inserted is not there.            *)
History ==
    \A c \in Commands :
        /\ executed[c] # 0 => executed[c] = 1 /\ commands[c] = "done"
        /\ create[c] \notin {"created", "failed"} => commands[c] = "absent"

(* Marking comes before handing over, and handing over before running: the   *)
(* inductive invariant behind AtMostOnce and OnlyOwnCommands.                *)
HandOver == OneRequest /\ InboxFresh /\ AnswerFresh /\ Marked /\ History

(* The channel implements CommandOnce.  A command is lost as soon as it is   *)
(* marked done and no device will run it any more - which is for good.       *)
commandStatus ==
    [c \in Commands |->
        IF executed[c] # 0 THEN "executed"
        ELSE IF commands[c] = "absent" THEN "absent"
        ELSE IF commands[c] = "done" /\ ~InHand(c) THEN "lost"
        ELSE "queued"]

Once == INSTANCE CommandOnce WITH status <- commandStatus

ImplementsCommandOnce == Once!Spec

(* drone-details.html:578 tells the operator "Tunnel command queued. The     *)
(* device will open the relay on its next heartbeat."  It will not when the  *)
(* answer is lost after the handler has marked the command.                  *)
QueuedIsNotLost ==
    \A c \in Commands : commands[c] = "done" => executed[c] = 1 \/ InHand(c)
=============================================================================
