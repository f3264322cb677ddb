---------------------------- MODULE TunnelRegistry ----------------------------
(***************************************************************************)
(* The device process: Run starts the configured tunnels and the stats     *)
(* reporter, waits for a signal, cancels the context and waits for every   *)
(* goroutine.  Each tunnel has a manager goroutine that connects and       *)
(* reconnects until it is cancelled, and that removes itself from the map  *)
(* tunnelManagers when it ends.  The stats reporter runs the start_tunnel  *)
(* and stop_tunnel commands the server answers its heartbeats with.        *)
(*                                                                         *)
(* tunnelMu makes one access to the map a step; the check of startTunnels  *)
(* and its insertion are two steps, and so are the lookup of stopTunnel    *)
(* and its cancel.                                                         *)
(***************************************************************************)
EXTENDS Integers, Sequences

CONSTANTS
    Endpoints,      \* config.tunnel.endpoints: a sequence of entries
    Batches,        \* what an answer to a heartbeat may hold: sequences of events
    Managers,       \* the TunnelManager objects that may exist at a time
    NoManager,      \* nil
    MAVLinkEnabled, \* config.mavlink.enabled
    StatsEnabled    \* config.stats.enabled

(* data.TunnelEntry; "" is an empty field.                                   *)
Entry == [type : STRING, port : STRING, label : STRING]
Event == [op : {"start", "stop"}, entry : Entry]

(* What a manager that does not run has for an entry.                        *)
NoEntry == [type |-> "", port |-> "", label |-> ""]

ASSUME RegistryAssumption ==
    /\ Endpoints \in Seq(Entry)
    /\ Batches \subseteq Seq(Event)
    /\ <<>> \in Batches
    /\ NoManager \notin Managers
    /\ MAVLinkEnabled \in BOOLEAN
    /\ StatsEnabled \in BOOLEAN

(* The goroutines that call startTunnels and stopTunnel.                     *)
Callers == {"main", "reporter"}

VARIABLES
    pc,             \* where Run and the stats reporter are
    work,           \* the events each of them has still to run
    target,         \* tm of stopTunnel: the manager looked up
    tunnelManagers, \* the map, NoManager for the IDs it does not hold
    manager,        \* where each manager's goroutine is
    entry,          \* the entry each manager was created for
    stopped,        \* whether each manager's own context was cancelled
    cancelled,      \* whether the context of Run is cancelled
    mavlink,        \* the goroutine that forwards MAVLink frames
    wg              \* the counter of the WaitGroup

registryVars == <<tunnelManagers, manager, entry, stopped>>
callerVars   == <<pc, work, target>>
vars == <<callerVars, registryVars, cancelled, mavlink, wg>>

(* makeTunnelID, without the device's UUID: every ID has it.  Entries of one *)
(* type without a label get one ID, and all but the first are skipped.       *)
TunnelID(e) == IF e.label = "" THEN e.type ELSE e.label

TunnelIDs ==
    {TunnelID(Endpoints[i]) : i \in DOMAIN Endpoints}
        \cup UNION {{TunnelID(s[i].entry) : i \in DOMAIN s} : s \in Batches}

(* endpointFactory: the entries it has a factory for.                        *)
HasFactory(e) == e.type = "cmd" \/ (e.type = "tcp" /\ e.port # "")

MainStates     == {"init", "next", "insert", "stop", "wait", "drain", "returned", "failed"}
ReporterStates == {"off", "select", "post", "next", "insert", "stop", "done"}
ManagerStates  == {"none", "top", "connected", "backoff", "pause", "exit", "deleted"}
Running        == {"top", "connected", "backoff", "pause"}

TypeOK ==
    /\ pc \in [Callers -> MainStates \cup ReporterStates]
    /\ pc["main"] \in MainStates
    /\ pc["reporter"] \in ReporterStates
    /\ work \in [Callers -> Seq(Event)]
    /\ target \in [Callers -> Managers \cup {NoManager}]
    /\ tunnelManagers \in [TunnelIDs -> Managers \cup {NoManager}]
    /\ manager \in [Managers -> ManagerStates]
    /\ entry \in [Managers -> Entry \cup {NoEntry}]
    /\ stopped \in [Managers -> BOOLEAN]
    /\ cancelled \in BOOLEAN
    /\ mavlink \in {"off", "running", "done"}
    /\ wg \in Nat

Init ==
    /\ pc = [c \in Callers |-> IF c = "main" THEN "init" ELSE "off"]
    /\ work = [c \in Callers |-> <<>>]
    /\ target = [c \in Callers |-> NoManager]
    /\ tunnelManagers = [id \in TunnelIDs |-> NoManager]
    /\ manager = [m \in Managers |-> "none"]
    /\ entry = [m \in Managers |-> NoEntry]
    /\ stopped = [m \in Managers |-> FALSE]
    /\ cancelled = FALSE
    /\ mavlink = "off"
    /\ wg = 0
-----------------------------------------------------------------------------
(***************************************************************************)
(* Run.                                                                    *)
(***************************************************************************)

(* Up to the call of startTunnels.  A serial port or TCP address that cannot *)
(* be opened makes Run return an error, and the process exits.               *)
RunInit ==
    /\ pc["main"] = "init"
    /\ \/ /\ pc' = [pc EXCEPT !["main"] = "next"]
          /\ work' = [work EXCEPT !["main"] =
                [i \in DOMAIN Endpoints |-> [op |-> "start", entry |-> Endpoints[i]]]]
          /\ IF MAVLinkEnabled
             THEN mavlink' = "running" /\ wg' = wg + 1
             ELSE UNCHANGED <<mavlink, wg>>
       \/ /\ MAVLinkEnabled
          /\ pc' = [pc EXCEPT !["main"] = "failed"]
          /\ UNCHANGED <<work, mavlink, wg>>
    /\ UNCHANGED <<target, registryVars, cancelled>>

(* Mutants of starting the reporter: before the tunnels, and not counted.    *)
StartReporterFirst ==
    /\ pc["main"] = "next" /\ pc["reporter"] = "off"
    /\ pc' = [pc EXCEPT !["main"] = IF work["main"] = <<>> THEN "wait" ELSE "next",
                        !["reporter"] = "select"]
    /\ wg' = wg + 1
    /\ UNCHANGED <<work, target, registryVars, cancelled, mavlink>>

StartReporterUncounted ==
    /\ pc["main"] = "next" /\ work["main"] = <<>>
    /\ pc' = [pc EXCEPT !["main"] = "wait",
                        !["reporter"] = IF StatsEnabled THEN "select" ELSE "off"]
    /\ UNCHANGED <<work, target, registryVars, cancelled, mavlink, wg>>

(* startTunnels is over; the stats reporter starts.                          *)
StartReporter ==
    /\ pc["main"] = "next" /\ work["main"] = <<>>
    /\ IF StatsEnabled
       THEN /\ pc' = [pc EXCEPT !["main"] = "wait", !["reporter"] = "select"]
            /\ wg' = wg + 1
       ELSE /\ pc' = [pc EXCEPT !["main"] = "wait"]
            /\ UNCHANGED wg
    /\ UNCHANGED <<work, target, registryVars, cancelled, mavlink>>

(* Mutant of the shutdown: cancel is only deferred to the end of Run.        *)
SignalOnlyWaits ==
    /\ pc["main"] = "wait"
    /\ pc' = [pc EXCEPT !["main"] = "drain"]
    /\ UNCHANGED <<work, target, registryVars, cancelled, mavlink, wg>>

(* SIGINT or SIGTERM, and cancel().                                          *)
Signal ==
    /\ pc["main"] = "wait"
    /\ pc' = [pc EXCEPT !["main"] = "drain"]
    /\ cancelled' = TRUE
    /\ UNCHANGED <<work, target, registryVars, mavlink, wg>>

(* Mutant: Run does not wait for its goroutines.                             *)
WaitReturnsAtOnce ==
    /\ pc["main"] = "drain"
    /\ pc' = [pc EXCEPT !["main"] = "returned"]
    /\ UNCHANGED <<work, target, registryVars, cancelled, mavlink, wg>>

(* wg.Wait() returns, and Run with it.                                       *)
WaitReturns ==
    /\ pc["main"] = "drain" /\ wg = 0
    /\ pc' = [pc EXCEPT !["main"] = "returned"]
    /\ UNCHANGED <<work, target, registryVars, cancelled, mavlink, wg>>

(* processMAVLinkEvents returns.                                             *)
MAVLinkDone ==
    /\ mavlink = "running" /\ cancelled
    /\ mavlink' = "done"
    /\ wg' = wg - 1
    /\ UNCHANGED <<callerVars, registryVars, cancelled>>
-----------------------------------------------------------------------------
(***************************************************************************)
(* startTunnels and stopTunnel, called by c for the event at the head of   *)
(* its work.                                                               *)
(***************************************************************************)
Current(c, op) == pc[c] = "next" /\ work[c] # <<>> /\ Head(work[c]).op = op
CurrentEntry(c) == Head(work[c]).entry

(* A tunnel in the map, or an entry without a factory, is skipped.           *)
StartCheck(c) ==
    /\ Current(c, "start")
    /\ IF \/ tunnelManagers[TunnelID(CurrentEntry(c))] # NoManager
          \/ ~HasFactory(CurrentEntry(c))
       THEN work' = [work EXCEPT ![c] = Tail(@)] /\ UNCHANGED pc
       ELSE pc' = [pc EXCEPT ![c] = "insert"] /\ UNCHANGED work
    /\ UNCHANGED <<target, registryVars, cancelled, mavlink, wg>>

(* A new manager is put into the map, counted and started.  No other        *)
(* goroutine can tell the three apart.                                      *)
StartInsert(c) ==
    /\ pc[c] = "insert"
    /\ \E m \in Managers :
          /\ manager[m] = "none"
          /\ tunnelManagers' = [tunnelManagers EXCEPT ![TunnelID(CurrentEntry(c))] = m]
          /\ manager' = [manager EXCEPT ![m] = "top"]
          /\ entry' = [entry EXCEPT ![m] = CurrentEntry(c)]
          /\ stopped' = [stopped EXCEPT ![m] = FALSE]
    /\ wg' = wg + 1
    /\ pc' = [pc EXCEPT ![c] = "next"]
    /\ work' = [work EXCEPT ![c] = Tail(@)]
    /\ UNCHANGED <<target, cancelled, mavlink>>

StopLookup(c) ==
    /\ Current(c, "stop")
    /\ LET m == tunnelManagers[TunnelID(CurrentEntry(c))] IN
       IF m = NoManager
       THEN work' = [work EXCEPT ![c] = Tail(@)] /\ UNCHANGED <<pc, target>>
       ELSE /\ pc' = [pc EXCEPT ![c] = "stop"]
            /\ target' = [target EXCEPT ![c] = m]
            /\ UNCHANGED work
    /\ UNCHANGED <<registryVars, cancelled, mavlink, wg>>

(* tm.Stop() cancels the manager's context and does not wait for its end.    *)
StopCancel(c) ==
    /\ pc[c] = "stop"
    /\ stopped' = [stopped EXCEPT ![target[c]] = TRUE]
    /\ target' = [target EXCEPT ![c] = NoManager]
    /\ pc' = [pc EXCEPT ![c] = "next"]
    /\ work' = [work EXCEPT ![c] = Tail(@)]
    /\ UNCHANGED <<tunnelManagers, manager, entry, cancelled, mavlink, wg>>
-----------------------------------------------------------------------------
(***************************************************************************)
(* The stats reporter.                                                     *)
(***************************************************************************)

(* The ticker's case of the select: the heartbeat is posted.                 *)
Tick ==
    /\ pc["reporter"] = "select"
    /\ pc' = [pc EXCEPT !["reporter"] = "post"]
    /\ UNCHANGED <<work, target, registryVars, cancelled, mavlink, wg>>

(* sendStats returns: with the commands of the answer, or with an error,     *)
(* which leaves processEvent nothing to run.                                 *)
Answer ==
    /\ pc["reporter"] = "post"
    /\ \E batch \in Batches : work' = [work EXCEPT !["reporter"] = batch]
    /\ pc' = [pc EXCEPT !["reporter"] = "next"]
    /\ UNCHANGED <<target, registryVars, cancelled, mavlink, wg>>

(* processEvent is through; back to the select.                              *)
BatchDone ==
    /\ pc["reporter"] = "next" /\ work["reporter"] = <<>>
    /\ pc' = [pc EXCEPT !["reporter"] = "select"]
    /\ UNCHANGED <<work, target, registryVars, cancelled, mavlink, wg>>

(* The other case of the select, ctx.Done().                                 *)
ReporterDone ==
    /\ pc["reporter"] = "select" /\ cancelled
    /\ pc' = [pc EXCEPT !["reporter"] = "done"]
    /\ wg' = wg - 1
    /\ UNCHANGED <<work, target, registryVars, cancelled, mavlink>>
-----------------------------------------------------------------------------
(***************************************************************************)
(* The goroutine of manager m.                                             *)
(***************************************************************************)
Done(m) == stopped[m] \/ cancelled      \* <-ctx.Done() does not block

GoTo(m, state) ==
    /\ manager' = [manager EXCEPT ![m] = state]
    /\ UNCHANGED <<callerVars, tunnelManagers, entry, stopped, cancelled, mavlink, wg>>

(* Mutant: the loop does not look at the context before it connects.         *)
ManagerTopUnchecked(m) ==
    /\ manager[m] = "top"
    /\ GoTo(m, "connected") \/ GoTo(m, "exit")

(* The head of the loop in Start.  An endpoint that cannot be created ends   *)
(* the manager for good.                                                     *)
ManagerTop(m) ==
    /\ manager[m] = "top"
    /\ \/ ~Done(m) /\ GoTo(m, "connected")
       \/ GoTo(m, "exit")

(* CreateWebSocketTunnel returns: with an error, or without.                 *)
TunnelCloses(m) ==
    /\ manager[m] = "connected"
    /\ GoTo(m, "backoff") \/ GoTo(m, "pause")

(* The pause before the next connection, cut short by the context.           *)
PauseOver(m) ==
    /\ manager[m] \in {"backoff", "pause"}
    /\ \/ GoTo(m, "top")
       \/ Done(m) /\ GoTo(m, "exit")

(* The deferred functions: delete from the map, by ID, and then wg.Done().   *)
ManagerDelete(m) ==
    /\ manager[m] = "exit"
    /\ manager' = [manager EXCEPT ![m] = "deleted"]
    /\ tunnelManagers' = [tunnelManagers EXCEPT ![TunnelID(entry[m])] = NoManager]
    /\ UNCHANGED <<callerVars, entry, stopped, cancelled, mavlink, wg>>

ManagerDone(m) ==
    /\ manager[m] = "deleted"
    /\ manager' = [manager EXCEPT ![m] = "none"]
    /\ entry' = [entry EXCEPT ![m] = NoEntry]
    /\ stopped' = [stopped EXCEPT ![m] = FALSE]
    /\ wg' = wg - 1
    /\ UNCHANGED <<callerVars, tunnelManagers, cancelled, mavlink>>
-----------------------------------------------------------------------------
CallerStep(c) == StartCheck(c) \/ StartInsert(c) \/ StopLookup(c) \/ StopCancel(c)

ManagerStep(m) ==
    \/ ManagerTop(m) \/ PauseOver(m) \/ ManagerDelete(m) \/ ManagerDone(m)

(* The process is over.                                                      *)
Terminated == pc["main"] \in {"returned", "failed"} /\ UNCHANGED vars

Next ==
    \/ RunInit \/ StartReporter \/ Signal \/ WaitReturns \/ MAVLinkDone
    \/ \E c \in Callers : CallerStep(c)
    \/ Tick \/ Answer \/ BatchDone \/ ReporterDone
    \/ \E m \in Managers : ManagerStep(m) \/ TunnelCloses(m)
    \/ Terminated

Spec == Init /\ [][Next]_vars

(* Goroutines run; a tunnel whose context is cancelled closes, and no tunnel *)
(* need close otherwise; a select does not ignore a ready case for ever,     *)
(* however often the ticker is ready too.  Nothing makes the server answer.  *)
Fairness ==
    /\ WF_vars(RunInit) /\ WF_vars(StartReporter) /\ WF_vars(WaitReturns)
    /\ WF_vars(MAVLinkDone)
    /\ \A c \in Callers : WF_vars(CallerStep(c))
    /\ WF_vars(Tick) /\ WF_vars(BatchDone) /\ SF_vars(ReporterDone)
    /\ \A m \in Managers : /\ WF_vars(ManagerStep(m))
                           /\ WF_vars(Done(m) /\ TunnelCloses(m))

FairSpec == Spec /\ Fairness

(* The same with a server that answers every heartbeat, be it with an error. *)
AnsweredSpec == FairSpec /\ WF_vars(Answer)
-----------------------------------------------------------------------------
(***************************************************************************)
(* Properties.                                                             *)
(***************************************************************************)

(* The map holds exactly the managers that have not ended, each under the ID *)
(* of its entry: no tunnel has two managers, although the check and the      *)
(* insertion of startTunnels are apart and a manager deletes by ID whatever  *)
(* it finds there.                                                           *)
RegistryExact ==
    /\ \A id \in TunnelIDs : tunnelManagers[id] # NoManager =>
          /\ manager[tunnelManagers[id]] \in Running \cup {"exit"}
          /\ TunnelID(entry[tunnelManagers[id]]) = id
    /\ \A m \in Managers : manager[m] \in Running \cup {"exit"} =>
          tunnelManagers[TunnelID(entry[m])] = m

(* When Run returns, no goroutine it started is left.                        *)
ReturnedMeansGone ==
    pc["main"] = "returned" =>
        /\ \A m \in Managers : manager[m] = "none"
        /\ pc["reporter"] \in {"off", "done"}
        /\ mavlink # "running"

(* Nobody calls wg.Add once wg.Wait could have returned: tunnels started by  *)
(* a batch that outlives the shutdown are counted before Run gets away.      *)
NoAddAfterWait == [][pc["main"] = "drain" /\ wg = 0 => wg' = 0]_vars

(* A manager whose context is cancelled - by a stop or by the shutdown -     *)
(* ends, whatever it was doing.                                              *)
CancelledEnds ==
    \A m \in Managers : (manager[m] # "none" /\ Done(m)) ~> manager[m] = "none"

(* After a signal Run returns, with a server that answers.                   *)
ShutdownCompletes == pc["main"] = "drain" ~> pc["main"] = "returned"

(* drone.go:92, "Cancel context to signal all goroutines to stop": under     *)
(* FairSpec it does not stop the reporter, whose http.Client has neither     *)
(* a timeout nor the context, and Run waits for it.                          *)
CancelStopsGoroutines == cancelled ~> pc["reporter"] \in {"off", "done"}

(* The step in which startTunnels skips the current event of c because the   *)
(* map holds a manager for its ID.                                           *)
Skips(c) ==
    /\ Current(c, "start")
    /\ HasFactory(CurrentEntry(c))
    /\ work'[c] = Tail(work[c])

(* drone.go:241, "already-running tunnels are skipped": so is a tunnel that  *)
(* was told to stop and has not ended yet, and the start is lost.            *)
OnlyRunningAreSkipped ==
    [][\A c \in Callers : Skips(c) =>
          ~stopped[tunnelManagers[TunnelID(CurrentEntry(c))]]]_<<work>>
=============================================================================
