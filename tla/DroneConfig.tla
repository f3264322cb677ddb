----------------------------- MODULE DroneConfig -----------------------------
(***************************************************************************)
(* The configuration of one drone on its way from the dashboard to the     *)
(* device: createDrone and updateDeviceConfig store it in the drone's      *)
(* document, DeviceConfigHandler serves it, the installer saves it as      *)
(* config.json on the device, and NewDronnayak loads that file and then    *)
(* asks the server for the current one.  The same document is upserted by  *)
(* the device's heartbeats and removed by the dashboard.                   *)
(*                                                                         *)
(* Of a configuration the model keeps what defaults and validation look    *)
(* at, and the list of tunnels as the rest.  Each handler makes one call   *)
(* to the database and is a step.                                          *)
(***************************************************************************)
EXTENDS Integers

CONSTANTS
    Tunnels,        \* lists of tunnel endpoints an operator may ask for
    NoTunnels,      \* the empty list
    DefaultTunnels, \* the one tunnel to port 5760
    NoConfig,       \* no file to load, or no process
    Faults          \* which faults may happen, a subset of FaultKinds

(* "db": a database call fails; "net": the device cannot reach the server.   *)
FaultKinds == {"db", "net"}

ASSUME ConfigAssumption ==
    /\ NoTunnels # DefaultTunnels
    /\ Faults \subseteq FaultKinds

Lists == Tunnels \cup {NoTunnels, DefaultTunnels}

(* data.Config.  Intervals are in half seconds: 0 is the zero value, 1 is    *)
(* too short; a baud rate of 0 is the zero value, too.                       *)
Intervals == {0, 1, 2, 10}
BaudRates == {-1, 0, 9600, 57600}

Config == [uuid : BOOLEAN, url : BOOLEAN,       \* whether it is not empty
           interval : Intervals, baudRate : BaudRates, tunnels : Lists]

ASSUME NoConfigAssumption == NoConfig \notin Config

ZeroConfig == [uuid |-> FALSE, url |-> FALSE, interval |-> 0, baudRate |-> 0,
               tunnels |-> NoTunnels]

(* The configuration NewDefaultDeviceConfig makes up.                        *)
NewDefaultDeviceConfig ==
    [uuid |-> TRUE, url |-> TRUE, interval |-> 10, baudRate |-> 57600,
     tunnels |-> DefaultTunnels]

OrDefault(value, default) == IF value = 0 THEN default ELSE value

ApplyDefaults(c) ==
    [c EXCEPT !.baudRate = OrDefault(c.baudRate, 57600),
              !.interval = OrDefault(c.interval, 10)]

Validate(c) == c.uuid /\ c.url /\ c.baudRate >= 0 /\ c.interval >= 2

VARIABLES
    created,    \* the drone's UID has been given out
    stored,     \* the document has been created or upserted and not deleted
    config,     \* its device_config
    file,       \* config.json on the device
    loaded,     \* bootstrap: what a process that is starting has read from it
    running,    \* the configuration the device's process runs with
    given       \* tunnels stored for the drone or installed (history)

serverVars == <<created, stored, config>>
processVars == <<loaded, running>>
vars == <<serverVars, file, processVars, given>>

TypeOK ==
    /\ created \in BOOLEAN
    /\ stored \in BOOLEAN
    /\ config \in Config
    /\ file \in Config \cup {NoConfig}
    /\ loaded \in Config \cup {NoConfig}
    /\ running \in Config \cup {NoConfig}
    /\ given \subseteq Lists

Init ==
    /\ created = FALSE
    /\ stored = FALSE
    /\ config = ZeroConfig
    /\ file = NoConfig
    /\ loaded = NoConfig
    /\ running = NoConfig
    /\ given = {}
-----------------------------------------------------------------------------
(***************************************************************************)
(* The server.                                                             *)
(***************************************************************************)

(* createDrone.  The form has no baud rate, its interval is at least a       *)
(* second, and without a tunnel it gets the default one.                     *)
CreateDrone ==
    /\ ~created
    /\ \E list \in Lists \ {NoTunnels}, interval \in {2, 10} :
          LET c == ApplyDefaults([uuid |-> TRUE, url |-> TRUE, baudRate |-> 0,
                                  interval |-> interval, tunnels |-> list]) IN
          /\ Validate(c)
          /\ config' = c
          /\ given' = given \cup {list}
    /\ created' = TRUE
    /\ stored' = TRUE
    /\ UNCHANGED <<file, processVars>>

(* Mutant: the configuration is stored as it came, without defaults.         *)
UpdateDeviceConfigRaw ==
    /\ created
    /\ \E c \in Config :
          /\ c.uuid /\ c.url
          /\ config' = c
          /\ given' = given \cup {c.tunnels}
    /\ stored' = TRUE
    /\ UNCHANGED <<created, file, processVars>>

(* updateDeviceConfig, with any body.  It upserts the document, whether the  *)
(* drone still exists or not.                                                *)
UpdateDeviceConfig ==
    /\ created
    /\ \E body \in Config :
          LET c == ApplyDefaults([body EXCEPT !.uuid = TRUE, !.url = TRUE]) IN
          /\ Validate(c)
          /\ config' = c
          /\ given' = given \cup {c.tunnels}
    /\ stored' = TRUE
    /\ UNCHANGED <<created, file, processVars>>

(* DELETE /device/{id}.                                                      *)
DeleteDrone ==
    /\ stored
    /\ stored' = FALSE
    /\ config' = ZeroConfig
    /\ UNCHANGED <<created, file, processVars, given>>

(* deviceStatus upserts the status.  A document it creates has no            *)
(* configuration.                                                            *)
Heartbeat ==
    /\ running # NoConfig
    /\ stored' = TRUE
    /\ UNCHANGED <<created, config, file, processVars, given>>

(* What DeviceConfigHandler answers: defaults for a drone it does not find   *)
(* - or fails to read -, and otherwise the document's configuration.         *)
Served(raw) ==
    LET c == [config EXCEPT !.uuid = TRUE] IN
    (IF stored
     THEN {IF raw THEN c ELSE ApplyDefaults([c EXCEPT !.url = TRUE])}
     ELSE {NewDefaultDeviceConfig})
    \cup (IF "db" \in Faults THEN {NewDefaultDeviceConfig} ELSE {})
-----------------------------------------------------------------------------
(***************************************************************************)
(* The device.                                                             *)
(***************************************************************************)

(* Mutant: the installer asks for the raw configuration.                     *)
InstallRaw ==
    /\ created
    /\ \E c \in Served(TRUE) : file' = c /\ given' = given \cup {c.tunnels}
    /\ UNCHANGED <<serverVars, processVars>>

(* The installer's wget of config.json.                                      *)
Install ==
    /\ created
    /\ \E c \in Served(FALSE) : file' = c /\ given' = given \cup {c.tunnels}
    /\ UNCHANGED <<serverVars, processVars>>

(* A download of the installer fails.  It has removed the binary by then, or *)
(* truncated the file: nothing is left to start.                             *)
InstallFails ==
    /\ created
    /\ "net" \in Faults
    /\ file' = NoConfig
    /\ UNCHANGED <<serverVars, processVars, given>>

(* LoadConfig and LoadConfigV2 refuse a configuration that is not valid with *)
(* its defaults.                                                             *)
Loads(c) == Validate(ApplyDefaults(c))

(* NewDronnayak, first half: config.json is loaded.  When it does not load,  *)
(* the process ends, and systemd starts it again.                            *)
Start ==
    /\ loaded = NoConfig /\ running = NoConfig
    /\ file # NoConfig /\ Loads(file)
    /\ loaded' = ApplyDefaults(file)
    /\ UNCHANGED <<serverVars, file, running, given>>

(* Mutants of the fetch: what the server answers is used without validation; *)
(* the process ends when it does not get a valid configuration.              *)
FetchUnvalidated ==
    /\ loaded # NoConfig
    /\ \/ \E c \in Served(TRUE) : running' = ApplyDefaults(c)
       \/ "net" \in Faults /\ running' = loaded
    /\ loaded' = NoConfig
    /\ UNCHANGED <<serverVars, file, given>>

FetchOrEnd ==
    /\ loaded # NoConfig
    /\ \/ \E c \in Served(TRUE) :
             running' = IF Loads(c) THEN ApplyDefaults(c) ELSE NoConfig
       \/ "net" \in Faults /\ running' = NoConfig
    /\ loaded' = NoConfig
    /\ UNCHANGED <<serverVars, file, given>>

(* Second half: LoadConfigV2 asks the server - with http.Get, which waits    *)
(* for an answer as long as it takes - and its answer is used if it loads.   *)
(* Otherwise, and when the request fails, the file's configuration is.       *)
Fetch ==
    /\ loaded # NoConfig
    /\ \/ \E c \in Served(TRUE) :
             running' = IF Loads(c) THEN ApplyDefaults(c) ELSE loaded
       \/ "net" \in Faults /\ running' = loaded
    /\ loaded' = NoConfig
    /\ UNCHANGED <<serverVars, file, given>>

(* The process ends: on a signal or a failure once it runs, and on a signal  *)
(* while it starts.                                                          *)
Exit ==
    /\ running # NoConfig \/ loaded # NoConfig
    /\ running' = NoConfig
    /\ loaded' = NoConfig
    /\ UNCHANGED <<serverVars, file, given>>
-----------------------------------------------------------------------------
Next ==
    \/ CreateDrone \/ UpdateDeviceConfig \/ DeleteDrone \/ Heartbeat
    \/ Install \/ InstallFails \/ Start \/ Fetch \/ Exit

Spec == Init /\ [][Next]_vars

(* systemd starts the process (Restart=always), the server answers or the    *)
(* connection fails, and nobody ends the process in its fetch every time.    *)
AnsweredSpec == Spec /\ WF_vars(Start) /\ SF_vars(Fetch)
-----------------------------------------------------------------------------
(***************************************************************************)
(* Properties.                                                             *)
(***************************************************************************)

(* What the server has accepted the device accepts, and takes as it is: the  *)
(* two sides apply the same defaults and the same checks.  The configuration *)
(* of a document that only a heartbeat made is the zero one.                 *)
StoredLoads ==
    \/ config = ZeroConfig
    \/ stored /\ ApplyDefaults(config) = config /\ Validate(config)

(* Whatever the server had when the installer ended - a drone that was deleted *)
(* or brought back by a heartbeat included -, the file it left starts the    *)
(* process.                                                                  *)
FileLoads == file # NoConfig => Loads(file)

(* A process runs only with a valid configuration, also after its drone was  *)
(* deleted and a heartbeat has left a document without configuration.        *)
RunningIsValid == running # NoConfig => Validate(running)

(* A process runs the tunnels somebody stored for its drone or installed, or *)
(* the default one.  That the drone is deleted and comes back with a         *)
(* heartbeat, without any tunnel, does not take a device's tunnels away.     *)
RunsKnownTunnels ==
    running # NoConfig => running.tunnels \in given \cup {DefaultTunnels}

(* What the server has for a device never keeps it from running: a process   *)
(* that can be started gets through NewDronnayak, with a deleted drone, an   *)
(* empty document or without the server.                                     *)
InstalledRuns ==
    file # NoConfig ~> running # NoConfig \/ file = NoConfig
=============================================================================
