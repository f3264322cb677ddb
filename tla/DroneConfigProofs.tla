-------------------------- MODULE DroneConfigProofs --------------------------
(***************************************************************************)
(* Proofs about DroneConfig, for any lists of tunnels and any faults.      *)
(***************************************************************************)
EXTENDS DroneConfig, TLAPS

(* What a starting process has loaded, it could run with.                    *)
LoadedIsValid == loaded # NoConfig => Validate(loaded)

(* The tunnels of what is stored, saved and loaded have been given; the zero *)
(* configuration of an empty document is the exception.                      *)
TunnelsGiven ==
    /\ config # ZeroConfig => config.tunnels \in given
    /\ file # NoConfig => file.tunnels \in given
    /\ loaded # NoConfig => loaded.tunnels \in given

Inv == /\ TypeOK
       /\ StoredLoads /\ FileLoads /\ LoadedIsValid /\ RunningIsValid
       /\ TunnelsGiven /\ RunsKnownTunnels

(* Applying the defaults keeps a configuration a configuration and leaves no *)
(* zero in it.                                                               *)
LEMMA DefaultsType ==
    ASSUME NEW c \in Config
    PROVE  LET d == ApplyDefaults(c) IN
           /\ d \in Config
           /\ d.uuid = c.uuid /\ d.url = c.url /\ d.tunnels = c.tunnels
           /\ d.baudRate = OrDefault(c.baudRate, 57600) /\ d.baudRate # 0
           /\ d.interval = OrDefault(c.interval, 10) /\ d.interval # 0
<1>1. /\ OrDefault(c.baudRate, 57600) \in BaudRates \ {0}
      /\ OrDefault(c.interval, 10) \in Intervals \ {0}
  BY DEF Config, BaudRates, Intervals, OrDefault
<1> DEFINE baud == OrDefault(c.baudRate, 57600)
           int  == OrDefault(c.interval, 10)
           d    == [c EXCEPT !.baudRate = baud, !.interval = int]
<1>2. ApplyDefaults(c) = d
  BY DEF ApplyDefaults
<1>3. baud \in BaudRates /\ int \in Intervals /\ baud # 0 /\ int # 0
  BY <1>1
<1> HIDE DEF baud, int
<1>4. d \in Config
  BY <1>3 DEF Config
<1>5. /\ d.uuid = c.uuid /\ d.url = c.url /\ d.tunnels = c.tunnels
      /\ d.baudRate = baud /\ d.interval = int
  BY DEF Config
<1> HIDE DEF d
<1> QED
  BY <1>2, <1>3, <1>4, <1>5 DEF baud, int

(* Twice is as good as once.                                                 *)
LEMMA DefaultsLemma ==
    ASSUME NEW c \in Config
    PROVE  /\ ApplyDefaults(c) \in Config
           /\ ApplyDefaults(ApplyDefaults(c)) = ApplyDefaults(c)
           /\ ApplyDefaults(c).tunnels = c.tunnels
           /\ c.tunnels \in Lists
<1> DEFINE d == ApplyDefaults(c)
           e == ApplyDefaults(d)
<1>1. d \in Config /\ d.baudRate # 0 /\ d.interval # 0
  BY DefaultsType
<1> HIDE DEF d
<1>2. /\ e \in Config
      /\ e.uuid = d.uuid /\ e.url = d.url /\ e.tunnels = d.tunnels
      /\ e.baudRate = d.baudRate /\ e.interval = d.interval
  BY <1>1, DefaultsType DEF OrDefault
<1> HIDE DEF e
<1>3. e = d
  BY <1>1, <1>2 DEF Config
<1>4. ApplyDefaults(c).tunnels = c.tunnels
  BY DefaultsType
<1> QED
  BY <1>1, <1>3, <1>4 DEF d, e, Config

(* A configuration that nothing but a heartbeat stored, completed the way    *)
(* the installer gets it, is a valid one.  As the device gets it, it does    *)
(* not load, and what loads has tunnels that were given.                     *)
LEMMA ServedLemma ==
    ASSUME TypeOK, StoredLoads, TunnelsGiven,
           NEW raw \in BOOLEAN, NEW c \in Served(raw)
    PROVE  /\ c \in Config
           /\ ~raw => Loads(c)
           /\ raw /\ Loads(c) => c.tunnels \in given \cup {DefaultTunnels}
<1>1. NewDefaultDeviceConfig \in Config /\ Loads(NewDefaultDeviceConfig)
  BY DEF NewDefaultDeviceConfig, Config, Intervals, BaudRates, Lists, Loads,
     ApplyDefaults, OrDefault, Validate
<1> DEFINE stamped == [config EXCEPT !.uuid = TRUE]
           complete == [stamped EXCEPT !.url = TRUE]
<1>2. stamped \in Config /\ complete \in Config
  BY DEF TypeOK, Config
<1>3. Loads(ApplyDefaults(complete))
  <2>1. /\ config.baudRate \in BaudRates /\ config.baudRate >= 0
        /\ config.interval \in Intervals /\ config.interval # 1
    BY DEF TypeOK, StoredLoads, ZeroConfig, Config, BaudRates, Intervals, Validate
  <2>2. /\ complete.uuid /\ complete.url
        /\ complete.baudRate = config.baudRate
        /\ complete.interval = config.interval
    BY DEF TypeOK, Config
  <2>3. Validate(ApplyDefaults(complete))
    BY <1>2, <2>1, <2>2 DEF Validate, ApplyDefaults, OrDefault, Config, BaudRates, Intervals
  <2> QED
    BY <1>2, <2>3, DefaultsLemma DEF Loads
<1>4. ApplyDefaults(complete) \in Config
  BY <1>2, DefaultsLemma
<1>5. c \in {NewDefaultDeviceConfig, IF raw THEN stamped ELSE ApplyDefaults(complete)}
  BY DEF Served
<1>6. NewDefaultDeviceConfig.tunnels = DefaultTunnels
  BY DEF NewDefaultDeviceConfig
<1>7. Loads(stamped) => stamped.tunnels \in given
  <2>1. CASE config = ZeroConfig
    <3>1. stamped.url = FALSE
      BY <2>1 DEF ZeroConfig
    <3> HIDE DEF stamped
    <3>2. ApplyDefaults(stamped).url = FALSE
      BY <1>2, <3>1, DefaultsType
    <3> QED
      BY <3>2 DEF Loads, Validate
  <2>2. CASE config # ZeroConfig
    <3>1. stamped.tunnels = config.tunnels
      BY DEF TypeOK, Config
    <3> QED
      BY <2>2, <3>1 DEF TunnelsGiven
  <2> QED
    BY <2>1, <2>2
<1> QED
  BY <1>1, <1>2, <1>3, <1>4, <1>5, <1>6, <1>7

LEMMA InvInit == Init => Inv
<1>1. ZeroConfig \in Config
  BY DEF ZeroConfig, Config, Intervals, BaudRates, Lists
<1> QED
  BY <1>1 DEF Init, Inv, TypeOK, StoredLoads, FileLoads, LoadedIsValid,
     RunningIsValid, TunnelsGiven, RunsKnownTunnels

(* The server's steps leave file and process alone, and nothing that was     *)
(* given is forgotten.                                                       *)
LEMMA ProcessUntouched ==
    ASSUME Inv, UNCHANGED <<file, processVars>>, given \subseteq given'
    PROVE  /\ FileLoads' /\ LoadedIsValid' /\ RunningIsValid' /\ RunsKnownTunnels'
           /\ file' # NoConfig => file'.tunnels \in given'
           /\ loaded' # NoConfig => loaded'.tunnels \in given'
  BY DEF Inv, processVars, FileLoads, LoadedIsValid, RunningIsValid, TunnelsGiven,
     RunsKnownTunnels

LEMMA InvStep == Inv /\ [Next]_vars => Inv'
<1> SUFFICES ASSUME Inv, [Next]_vars PROVE Inv'
  OBVIOUS
<1>0. TypeOK /\ StoredLoads /\ TunnelsGiven
  BY DEF Inv
<1>1. CASE CreateDrone
  <2>1. PICK list \in Lists \ {NoTunnels}, interval \in {2, 10} :
          LET c == ApplyDefaults([uuid |-> TRUE, url |-> TRUE, baudRate |-> 0,
                                  interval |-> interval, tunnels |-> list])
          IN  Validate(c) /\ config' = c /\ given' = given \cup {list}
    BY <1>1 DEF CreateDrone
  <2> DEFINE form == [uuid |-> TRUE, url |-> TRUE, baudRate |-> 0,
                      interval |-> interval, tunnels |-> list]
  <2>2. form \in Config /\ form.tunnels = list
    BY DEF Config, Intervals, BaudRates
  <2>3. config' = ApplyDefaults(form) /\ Validate(config')
    BY <2>1
  <2>4. /\ config' \in Config
        /\ ApplyDefaults(config') = config'
        /\ config'.tunnels = list
    BY <2>2, <2>3, DefaultsLemma
  <2>5. config'.tunnels \in given' /\ given \subseteq given'
    BY <2>1, <2>4
  <2>6. TypeOK'
    BY <1>0, <1>1, <2>1, <2>4 DEF CreateDrone, TypeOK, processVars
  <2>7. StoredLoads'
    BY <1>1, <2>3, <2>4 DEF CreateDrone, StoredLoads
  <2> QED
    BY <1>1, <2>5, <2>6, <2>7, ProcessUntouched DEF CreateDrone, Inv, TunnelsGiven
<1>2. CASE UpdateDeviceConfig
  <2>1. PICK body \in Config :
          LET c == ApplyDefaults([body EXCEPT !.uuid = TRUE, !.url = TRUE])
          IN  Validate(c) /\ config' = c /\ given' = given \cup {c.tunnels}
    BY <1>2 DEF UpdateDeviceConfig
  <2> DEFINE stamped == [body EXCEPT !.uuid = TRUE, !.url = TRUE]
  <2>2. stamped \in Config
    BY DEF Config
  <2>3. /\ config' = ApplyDefaults(stamped)
        /\ Validate(config')
        /\ given' = given \cup {config'.tunnels}
    BY <2>1
  <2>4. /\ config' \in Config
        /\ ApplyDefaults(config') = config'
        /\ config'.tunnels \in Lists
    BY <2>2, <2>3, DefaultsLemma
  <2>5. config'.tunnels \in given' /\ given \subseteq given'
    BY <2>3
  <2>6. TypeOK'
    BY <1>0, <1>2, <2>3, <2>4 DEF UpdateDeviceConfig, TypeOK, processVars
  <2>7. StoredLoads'
    BY <1>2, <2>3, <2>4 DEF UpdateDeviceConfig, StoredLoads
  <2> QED
    BY <1>2, <2>5, <2>6, <2>7, ProcessUntouched
    DEF UpdateDeviceConfig, Inv, TunnelsGiven
<1>3. CASE DeleteDrone
  <2>1. ZeroConfig \in Config
    BY DEF ZeroConfig, Config, Intervals, BaudRates, Lists
  <2>2. TypeOK' /\ StoredLoads'
    BY <1>0, <1>3, <2>1 DEF DeleteDrone, TypeOK, StoredLoads, processVars
  <2> QED
    BY <1>3, <2>2, ProcessUntouched DEF DeleteDrone, Inv, TunnelsGiven
<1>4. CASE Heartbeat
  <2>1. TypeOK' /\ StoredLoads'
    BY <1>0, <1>4 DEF Heartbeat, TypeOK, StoredLoads, processVars
  <2> QED
    BY <1>0, <1>4, <2>1, ProcessUntouched DEF Heartbeat, Inv, TunnelsGiven
<1>5. CASE Install
  <2>1. PICK c \in Served(FALSE) : file' = c /\ given' = given \cup {c.tunnels}
    BY <1>5 DEF Install
  <2>2. c \in Config /\ Loads(c)
    BY <1>0, <2>1, ServedLemma
  <2>3. c.tunnels \in Lists
    BY <2>2 DEF Config
  <2>4. file' \in Config /\ file'.tunnels \in given' /\ given \subseteq given'
    BY <2>1, <2>2
  <2>5. TypeOK' /\ StoredLoads'
    BY <1>0, <1>5, <2>1, <2>3, <2>4
    DEF Install, TypeOK, StoredLoads, serverVars, processVars
  <2> QED
    BY <1>5, <2>1, <2>2, <2>4, <2>5 DEF Install, Inv, FileLoads, LoadedIsValid,
       RunningIsValid, TunnelsGiven, RunsKnownTunnels, serverVars, processVars
<1>6. CASE InstallFails
  BY <1>6 DEF InstallFails, Inv, TypeOK, StoredLoads, FileLoads, LoadedIsValid,
     RunningIsValid, TunnelsGiven, RunsKnownTunnels, serverVars, processVars
<1>7. CASE Start
  <2>1. file \in Config /\ Loads(file) /\ file.tunnels \in given
    BY <1>0, <1>7 DEF Start, TypeOK, TunnelsGiven
  <2>2. /\ loaded' \in Config
        /\ Validate(loaded')
        /\ loaded'.tunnels \in given
    BY <1>7, <2>1, DefaultsLemma DEF Start, Loads
  <2> QED
    BY <1>7, <2>2 DEF Start, Inv, TypeOK, StoredLoads, FileLoads, LoadedIsValid,
       RunningIsValid, TunnelsGiven, RunsKnownTunnels, serverVars
<1>8. CASE Fetch
  <2>1. loaded \in Config /\ Validate(loaded) /\ loaded.tunnels \in given
    BY <1>8 DEF Fetch, Inv, TypeOK, LoadedIsValid, TunnelsGiven
  <2>2. \/ running' = loaded
        \/ \E c \in Served(TRUE) : Loads(c) /\ running' = ApplyDefaults(c)
    BY <1>8 DEF Fetch
  <2>3. /\ running' \in Config
        /\ Validate(running')
        /\ running'.tunnels \in given \cup {DefaultTunnels}
    <3>1. CASE running' = loaded
      BY <2>1, <3>1
    <3>2. ASSUME NEW c \in Served(TRUE), Loads(c), running' = ApplyDefaults(c)
          PROVE  /\ running' \in Config
                 /\ Validate(running')
                 /\ running'.tunnels \in given \cup {DefaultTunnels}
      <4>1. c \in Config /\ c.tunnels \in given \cup {DefaultTunnels}
        BY <1>0, <3>2, ServedLemma
      <4> QED
        BY <3>2, <4>1, DefaultsLemma DEF Loads
    <3> QED
      BY <2>2, <3>1, <3>2
  <2> QED
    BY <1>8, <2>3 DEF Fetch, Inv, TypeOK, StoredLoads, FileLoads, LoadedIsValid,
       RunningIsValid, TunnelsGiven, RunsKnownTunnels, serverVars
<1>9. CASE Exit
  BY <1>9 DEF Exit, Inv, TypeOK, StoredLoads, FileLoads, LoadedIsValid,
     RunningIsValid, TunnelsGiven, RunsKnownTunnels, serverVars
<1>10. CASE UNCHANGED vars
  BY <1>10 DEF vars, Inv, TypeOK, StoredLoads, FileLoads, LoadedIsValid,
     RunningIsValid, TunnelsGiven, RunsKnownTunnels, serverVars, processVars
<1> QED
  BY <1>1, <1>2, <1>3, <1>4, <1>5, <1>6, <1>7, <1>8, <1>9, <1>10 DEF Next

LEMMA InvCorrect == Spec => []Inv
  BY InvInit, InvStep, PTL DEF Spec

(* Every configuration the server has accepted loads on the device as it is. *)
THEOREM StoredLoadsCorrect == Spec => []StoredLoads
  BY InvCorrect, PTL DEF Inv

(* Whatever the installer found, its file starts the process.                *)
THEOREM FileLoadsCorrect == Spec => []FileLoads
  BY InvCorrect, PTL DEF Inv

(* No process runs with an invalid configuration.                            *)
THEOREM RunningIsValidCorrect == Spec => []RunningIsValid
  BY InvCorrect, PTL DEF Inv

(* No process runs tunnels that nobody gave its drone, but for the default   *)
(* one of a server that does not know or cannot read the drone.              *)
THEOREM RunsKnownTunnelsCorrect == Spec => []RunsKnownTunnels
  BY InvCorrect, PTL DEF Inv
=============================================================================
