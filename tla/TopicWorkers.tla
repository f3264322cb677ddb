----------------------------- MODULE TopicWorkers -----------------------------
(***************************************************************************)
(* The server's topic workers.  POST /device/{id}/worker opens a file and  *)
(* starts a goroutine that subscribes to a relay topic and writes every    *)
(* message to the file (manageWorker, FileWriterWorker, StartTopicWorker,  *)
(* runTopicWorker); DELETE stops the topic's worker and waits for its end  *)
(* (StopTopicWorker).  Requests run concurrently; the map workers is       *)
(* guarded by the RWMutex workersMu.                                       *)
(*                                                                         *)
(* Every POST is an identity of its own, and so are its file, its worker   *)
(* and the worker's connection.  A section under workersMu.Lock is a step; *)
(* the one under RLock, which other readers may enter, is two.             *)
(***************************************************************************)
CONSTANTS
    Topics,
    Posts,          \* the POST requests
    PostTopic,      \* the topic each one names
    Stops,          \* the DELETE requests
    StopTopic,      \* the topic each one names
    NoWorker        \* nil

ASSUME WorkersAssumption ==
    /\ PostTopic \in [Posts -> Topics]
    /\ StopTopic \in [Stops -> Topics]
    /\ NoWorker \notin Posts

VARIABLES
    post,       \* progress of manageWorker for each POST
    file,       \* its file
    workers,    \* the map: the POST whose worker is entered for each topic
    phase,      \* where each worker's goroutine is
    conn,       \* the worker's WebSocket
    watcher,    \* the goroutine that closes it when the context is cancelled
    cancelled,  \* whether the worker's context is cancelled
    stop,       \* progress of StopTopicWorker for each DELETE
    entry,      \* the entry it has looked up
    seen        \* the topic's workers at the time of its call (history)

workerVars == <<phase, conn, watcher>>
stopVars   == <<stop, entry, seen>>
vars == <<post, file, workers, workerVars, cancelled, stopVars>>

PostStates  == {"idle", "opened", "started", "refused", "failed"}
PhaseStates == {"none", "dial", "read", "teardown", "delete", "close", "over"}
StopStates  == {"idle", "locked", "cancel", "wait", "returned"}

(* The phases in which a worker occupies its topic.                          *)
Occupying == {"dial", "read", "teardown", "delete"}

TypeOK ==
    /\ post \in [Posts -> PostStates]
    /\ file \in [Posts -> {"none", "open", "closed"}]
    /\ workers \in [Topics -> Posts \cup {NoWorker}]
    /\ phase \in [Posts -> PhaseStates]
    /\ conn \in [Posts -> {"none", "open", "closed"}]
    /\ watcher \in [Posts -> {"none", "waiting", "gone"}]
    /\ cancelled \in [Posts -> BOOLEAN]
    /\ stop \in [Stops -> StopStates]
    /\ entry \in [Stops -> Posts \cup {NoWorker}]
    /\ seen \in [Stops -> SUBSET Posts]
    /\ \A s \in Stops : stop[s] \in {"cancel", "wait"} => entry[s] # NoWorker

Init ==
    /\ post = [p \in Posts |-> "idle"]
    /\ file = [p \in Posts |-> "none"]
    /\ workers = [t \in Topics |-> NoWorker]
    /\ phase = [p \in Posts |-> "none"]
    /\ conn = [p \in Posts |-> "none"]
    /\ watcher = [p \in Posts |-> "none"]
    /\ cancelled = [p \in Posts |-> FALSE]
    /\ stop = [s \in Stops |-> "idle"]
    /\ entry = [s \in Stops |-> NoWorker]
    /\ seen = [s \in Stops |-> {}]
-----------------------------------------------------------------------------
(* Mutant: StopTopicWorker defers RUnlock to its end.                        *)
RLockedUntilDone == {s \in Stops : stop[s] \in {"locked", "cancel", "wait"}}

(* The DELETEs that hold workersMu.RLock.                                    *)
RLocked == {s \in Stops : stop[s] = "locked"}

(* workersMu.Lock() does not block.                                          *)
Lockable == RLocked = {}
-----------------------------------------------------------------------------
(***************************************************************************)
(* POST.                                                                   *)
(***************************************************************************)

(* manageWorker up to FileWriterWorker, which creates and opens the file.    *)
OpenFile(p) ==
    /\ post[p] = "idle"
    /\ \/ /\ post' = [post EXCEPT ![p] = "opened"]
          /\ file' = [file EXCEPT ![p] = "open"]
       \/ /\ post' = [post EXCEPT ![p] = "failed"]
          /\ UNCHANGED file
    /\ UNCHANGED <<workers, workerVars, cancelled, stopVars>>

(* StartTopicWorker, all of it under Lock.  It refuses a topic that has a    *)
(* worker, and a base URL - it has the request's Host - that does not parse; *)
(* manageWorker answers 409 then and leaves the file as it is.               *)
StartTopicWorker(p) ==
    /\ post[p] = "opened"
    /\ Lockable
    /\ \/ /\ workers[PostTopic[p]] = NoWorker
          /\ workers' = [workers EXCEPT ![PostTopic[p]] = p]
          /\ phase' = [phase EXCEPT ![p] = "dial"]
          /\ post' = [post EXCEPT ![p] = "started"]
       \/ /\ post' = [post EXCEPT ![p] = "refused"]
          /\ UNCHANGED <<workers, phase>>
    /\ UNCHANGED <<file, conn, watcher, cancelled, stopVars>>
-----------------------------------------------------------------------------
(***************************************************************************)
(* The worker's goroutine.                                                 *)
(***************************************************************************)

(* Mutant: nobody closes the connection of a cancelled worker.               *)
DialUnwatched(p) ==
    /\ phase[p] = "dial"
    /\ phase' = [phase EXCEPT ![p] = "read"]
    /\ conn' = [conn EXCEPT ![p] = "open"]
    /\ UNCHANGED <<post, file, workers, watcher, cancelled, stopVars>>

(* DialContext connects, and the watcher starts; or it fails.                *)
Dial(p) ==
    /\ phase[p] = "dial"
    /\ \/ /\ phase' = [phase EXCEPT ![p] = "read"]
          /\ conn' = [conn EXCEPT ![p] = "open"]
          /\ watcher' = [watcher EXCEPT ![p] = "waiting"]
       \/ /\ phase' = [phase EXCEPT ![p] = "teardown"]
          /\ UNCHANGED <<conn, watcher>>
    /\ UNCHANGED <<post, file, workers, cancelled, stopVars>>

(* ReadMessage returns an error - the relay closed, the connection broke, or *)
(* the watcher closed it - and runTopicWorker returns.                       *)
ReadEnds(p) ==
    /\ phase[p] = "read"
    /\ phase' = [phase EXCEPT ![p] = "teardown"]
    /\ conn' = [conn EXCEPT ![p] = "closed"]
    /\ UNCHANGED <<post, file, workers, watcher, cancelled, stopVars>>

(* <-ctx.Done(); conn.Close().                                               *)
WatcherFires(p) ==
    /\ watcher[p] = "waiting"
    /\ cancelled[p]
    /\ watcher' = [watcher EXCEPT ![p] = "gone"]
    /\ conn' = [conn EXCEPT ![p] = "closed"]
    /\ UNCHANGED <<post, file, workers, phase, cancelled, stopVars>>

(* Mutant: the defers swapped, the entry goes before the file is closed.     *)
TeardownLast(p) ==
    /\ phase[p] = "teardown"
    /\ Lockable
    /\ workers' = [workers EXCEPT ![PostTopic[p]] = NoWorker]
    /\ phase' = [phase EXCEPT ![p] = "delete"]
    /\ UNCHANGED <<post, file, conn, watcher, cancelled, stopVars>>

(* The deferred functions: teardown closes the file, ...                     *)
Teardown(p) ==
    /\ phase[p] = "teardown"
    /\ file' = [file EXCEPT ![p] = "closed"]
    /\ phase' = [phase EXCEPT ![p] = "delete"]
    /\ UNCHANGED <<post, workers, conn, watcher, cancelled, stopVars>>

(* ... the topic's entry goes, whosever it is, ...                           *)
Delete(p) ==
    /\ phase[p] = "delete"
    /\ Lockable
    /\ workers' = [workers EXCEPT ![PostTopic[p]] = NoWorker]
    /\ phase' = [phase EXCEPT ![p] = "close"]
    /\ UNCHANGED <<post, file, conn, watcher, cancelled, stopVars>>

(* ... and close(done) wakes those who wait for the worker.                  *)
CloseDone(p) ==
    /\ phase[p] = "close"
    /\ phase' = [phase EXCEPT ![p] = "over"]
    /\ UNCHANGED <<post, file, workers, conn, watcher, cancelled, stopVars>>
-----------------------------------------------------------------------------
(***************************************************************************)
(* DELETE.                                                                 *)
(***************************************************************************)

StopRLock(s) ==
    /\ stop[s] = "idle"
    /\ stop' = [stop EXCEPT ![s] = "locked"]
    /\ seen' = [seen EXCEPT ![s] =
            {p \in Posts : PostTopic[p] = StopTopic[s] /\ phase[p] \in Occupying}]
    /\ UNCHANGED <<post, file, workers, workerVars, cancelled, entry>>

(* Mutants of the lookup: whether there is an entry is not looked at; the    *)
(* entry is taken out of the map right here.                                 *)
StopUnchecked(s) ==
    /\ stop[s] = "locked"
    /\ entry' = [entry EXCEPT ![s] = workers[StopTopic[s]]]
    /\ stop' = [stop EXCEPT ![s] = "cancel"]
    /\ UNCHANGED <<post, file, workers, workerVars, cancelled, seen>>

StopTakesEntry(s) ==
    /\ stop[s] = "locked"
    /\ entry' = [entry EXCEPT ![s] = workers[StopTopic[s]]]
    /\ stop' = [stop EXCEPT ![s] =
            IF workers[StopTopic[s]] = NoWorker THEN "returned" ELSE "cancel"]
    /\ workers' = [workers EXCEPT ![StopTopic[s]] = NoWorker]
    /\ UNCHANGED <<post, file, workerVars, cancelled, seen>>

(* The lookup and RUnlock; without an entry there is nothing to stop.        *)
StopLookup(s) ==
    /\ stop[s] = "locked"
    /\ entry' = [entry EXCEPT ![s] = workers[StopTopic[s]]]
    /\ stop' = [stop EXCEPT ![s] =
            IF workers[StopTopic[s]] = NoWorker THEN "returned" ELSE "cancel"]
    /\ UNCHANGED <<post, file, workers, workerVars, cancelled, seen>>

StopCancel(s) ==
    /\ stop[s] = "cancel"
    /\ cancelled' = [cancelled EXCEPT ![entry[s]] = TRUE]
    /\ stop' = [stop EXCEPT ![s] = "wait"]
    /\ UNCHANGED <<post, file, workers, workerVars, entry, seen>>

(* <-entry.done                                                              *)
StopReturns(s) ==
    /\ stop[s] = "wait"
    /\ phase[entry[s]] = "over"
    /\ stop' = [stop EXCEPT ![s] = "returned"]
    /\ UNCHANGED <<post, file, workers, workerVars, cancelled, entry, seen>>
-----------------------------------------------------------------------------
WorkerStep(p) == Teardown(p) \/ Delete(p) \/ CloseDone(p)
StopStep(s) == StopLookup(s) \/ StopCancel(s) \/ StopReturns(s)

Next ==
    \/ \E p \in Posts :
          OpenFile(p) \/ StartTopicWorker(p) \/ Dial(p) \/ ReadEnds(p)
            \/ WatcherFires(p) \/ WorkerStep(p)
    \/ \E s \in Stops : StopRLock(s) \/ StopStep(s)

Spec == Init /\ [][Next]_vars

(* Goroutines run, and one that waits for the mutex gets it (RWMutex lets a  *)
(* writer in before later readers).  DialContext returns when its context is *)
(* cancelled and ReadMessage when its connection is closed; nothing else     *)
(* makes either return, and nobody need send a request.                      *)
Fairness ==
    /\ \A p \in Posts : /\ SF_vars(WorkerStep(p))
                        /\ WF_vars(WatcherFires(p))
                        /\ WF_vars(cancelled[p] /\ Dial(p))
                        /\ WF_vars(conn[p] = "closed" /\ ReadEnds(p))
    /\ \A s \in Stops : WF_vars(StopStep(s))

FairSpec == Spec /\ Fairness
-----------------------------------------------------------------------------
(***************************************************************************)
(* Properties.                                                             *)
(***************************************************************************)

(* A topic has at most one worker, the one in the map, from its start until  *)
(* its file is closed - although a worker that ends deletes its topic's      *)
(* entry without looking whose it is.                                        *)
MapExact ==
    \A t \in Topics, p \in Posts :
        workers[t] = p <=> PostTopic[p] = t /\ phase[p] \in Occupying

(* When a DELETE is answered, every worker its topic had when it came has    *)
(* closed its file and left the map.  Another one may have come meanwhile.   *)
StopMeansStopped ==
    \A s \in Stops : stop[s] = "returned" =>
        \A p \in seen[s] : phase[p] \notin Occupying /\ file[p] = "closed"

(* Every DELETE is answered: the worker it waits for needs the mutex to end. *)
StopAnswered == \A s \in Stops : stop[s] = "locked" ~> stop[s] = "returned"

(* No watcher survives a worker that was stopped.                            *)
StoppedLeavesNothing ==
    \A p \in Posts : cancelled[p] ~> phase[p] = "over" /\ watcher[p] # "waiting"

(* worker.go:31, "teardown is deferred when the goroutine exits - use it to  *)
(* close resources opened during worker setup (e.g. a file handle)": a       *)
(* refused POST has opened its file and starts no goroutine.                 *)
OpenFilesHaveOwners ==
    \A p \in Posts : file[p] = "open" =>
        post[p] = "opened" \/ phase[p] \in {"dial", "read", "teardown"}
=============================================================================
