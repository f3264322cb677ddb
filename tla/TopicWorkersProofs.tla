-------------------------- MODULE TopicWorkersProofs --------------------------
(***************************************************************************)
(* Proofs about TopicWorkers, for any number of topics, POSTs and DELETEs. *)
(***************************************************************************)
EXTENDS TopicWorkers, TLAPS

(* A POST has a goroutine only once it was let through, and a worker closes  *)
(* its file before it leaves the map.                                        *)
Lifecycle ==
    \A p \in Posts :
        /\ post[p] # "started" => phase[p] = "none"
        /\ phase[p] \in {"delete", "close", "over"} => file[p] = "closed"

(* What a DELETE has seen when it came: while it holds the read lock, what   *)
(* the map still holds; then, the entry it has looked up; and in the end     *)
(* only workers that have left the map.                                      *)
SeenExact ==
    \A s \in Stops :
        /\ stop[s] = "idle" => seen[s] = {}
        /\ stop[s] = "locked" => \A p \in Posts : p \in seen[s] <=> workers[StopTopic[s]] = p
        /\ stop[s] \in {"cancel", "wait"} => seen[s] \subseteq {entry[s]}
        /\ stop[s] = "returned" => \A p \in seen[s] : phase[p] \in {"close", "over"}

Inv == TypeOK /\ Lifecycle /\ MapExact /\ SeenExact
-----------------------------------------------------------------------------
(***************************************************************************)
(* The invariant is inductive.                                             *)
(***************************************************************************)
LEMMA InvInit == Init => Inv
<1> SUFFICES ASSUME Init PROVE Inv
  OBVIOUS
<1>1. TypeOK
  BY DEF Init, TypeOK, PostStates, PhaseStates, StopStates
<1>2. MapExact
  BY WorkersAssumption DEF Init, MapExact, Occupying
<1> QED
  BY <1>1, <1>2 DEF Init, Inv, Lifecycle, SeenExact

(* A step of a worker that stays in the map, or that has left it.            *)
LEMMA WorkerMoves ==
    ASSUME Inv, NEW p \in Posts, NEW state \in PhaseStates,
           phase' = [phase EXCEPT ![p] = state], TypeOK',
           \/ phase[p] \in Occupying /\ state \in Occupying
           \/ phase[p] \notin Occupying \cup {"none"} /\ state \notin Occupying \cup {"none"},
           file' = file \/ file' = [file EXCEPT ![p] = "closed"],
           state \in {"delete", "close", "over"} => file'[p] = "closed",
           UNCHANGED <<post, workers, stopVars>>
    PROVE  Inv'
<1>1. \A q \in Posts : phase'[q] = IF q = p THEN state ELSE phase[q]
  BY DEF Inv, TypeOK
<1>2. \A q \in Posts : q # p => file'[q] = file[q]
  BY DEF Inv, TypeOK
<1>3. Lifecycle'
  BY <1>1, <1>2 DEF Inv, Lifecycle, Occupying
<1>4. MapExact'
  BY <1>1 DEF Inv, MapExact
<1>5. SeenExact'
  <2>1. \A q \in Posts : phase[q] \in {"close", "over"} => phase'[q] \in {"close", "over"}
    BY <1>1 DEF PhaseStates, Occupying
  <2> QED
    BY <2>1 DEF Inv, TypeOK, SeenExact, stopVars
<1> QED
  BY <1>3, <1>4, <1>5 DEF Inv

LEMMA InvStep == Inv /\ [Next]_vars => Inv'
<1> SUFFICES ASSUME Inv, [Next]_vars PROVE Inv'
  OBVIOUS
<1>1. ASSUME NEW p \in Posts, OpenFile(p) PROVE Inv'
  <2>1. TypeOK'
    BY <1>1 DEF OpenFile, Inv, TypeOK, PostStates, workerVars, stopVars
  <2>2. post[p] = "idle" /\ phase[p] = "none"
    BY <1>1 DEF OpenFile, Inv, Lifecycle
  <2>3. \A q \in Posts : q # p => post'[q] = post[q] /\ file'[q] = file[q]
    BY <1>1 DEF OpenFile, Inv, TypeOK
  <2>4. Lifecycle'
    BY <1>1, <2>2, <2>3 DEF OpenFile, Inv, Lifecycle, workerVars
  <2>5. MapExact' /\ SeenExact'
    BY <1>1 DEF OpenFile, Inv, MapExact, SeenExact, workerVars, stopVars
  <2> QED
    BY <2>1, <2>4, <2>5 DEF Inv
<1>2. ASSUME NEW p \in Posts, StartTopicWorker(p) PROVE Inv'
  <2>1. TypeOK'
    BY <1>2, WorkersAssumption DEF StartTopicWorker, Inv, TypeOK, PostStates, PhaseStates,
       stopVars
  <2>2. /\ post[p] = "opened" /\ phase[p] = "none" /\ \A s \in Stops : stop[s] # "locked"
        /\ UNCHANGED <<file, stopVars>>
    BY <1>2 DEF StartTopicWorker, Inv, Lifecycle, Lockable, RLocked
  <2>3. CASE /\ workers[PostTopic[p]] = NoWorker
             /\ workers' = [workers EXCEPT ![PostTopic[p]] = p]
             /\ phase' = [phase EXCEPT ![p] = "dial"]
             /\ post' = [post EXCEPT ![p] = "started"]
    <3>1. \A q \in Posts : /\ phase'[q] = IF q = p THEN "dial" ELSE phase[q]
                           /\ post'[q] = IF q = p THEN "started" ELSE post[q]
      BY <2>3 DEF Inv, TypeOK
    <3>2. \A t \in Topics : workers'[t] = IF t = PostTopic[p] THEN p ELSE workers[t]
      BY <2>3 DEF Inv, TypeOK
    <3>3. Lifecycle'
      BY <2>2, <3>1 DEF Inv, Lifecycle
    <3>4. MapExact'
      <4> SUFFICES ASSUME NEW t \in Topics, NEW q \in Posts
                   PROVE  workers'[t] = q <=> PostTopic[q] = t /\ phase'[q] \in Occupying
        BY DEF MapExact
      <4>1. workers[t] = q <=> PostTopic[q] = t /\ phase[q] \in Occupying
        BY DEF Inv, MapExact
      <4>2. PostTopic[p] \in Topics /\ NoWorker \notin Posts
        BY WorkersAssumption
      <4>3. CASE q = p
        BY <2>2, <3>1, <3>2, <4>1, <4>3 DEF Occupying
      <4>4. CASE q # p
        BY <2>3, <3>1, <3>2, <4>1, <4>2, <4>4
      <4> QED
        BY <4>3, <4>4
    <3>5. SeenExact'
      <4>1. \A q \in Posts : phase[q] \in {"close", "over"} => phase'[q] \in {"close", "over"}
        BY <2>2, <3>1
      <4> QED
        BY <2>2, <4>1 DEF Inv, TypeOK, SeenExact, stopVars
    <3> QED
      BY <2>1, <3>3, <3>4, <3>5 DEF Inv
  <2>4. CASE post' = [post EXCEPT ![p] = "refused"] /\ UNCHANGED <<workers, phase>>
    <3>1. Lifecycle'
      BY <2>2, <2>4 DEF Inv, TypeOK, Lifecycle
    <3>2. MapExact' /\ SeenExact'
      BY <2>2, <2>4 DEF Inv, MapExact, SeenExact, stopVars
    <3> QED
      BY <2>1, <3>1, <3>2 DEF Inv
  <2> QED
    BY <1>2, <2>3, <2>4 DEF StartTopicWorker
<1>3. ASSUME NEW p \in Posts, Dial(p) \/ ReadEnds(p) PROVE Inv'
  <2>1. TypeOK'
    BY <1>3 DEF Dial, ReadEnds, Inv, TypeOK, PhaseStates, stopVars
  <2>2. PICK state \in {"read", "teardown"} : phase' = [phase EXCEPT ![p] = state]
    BY <1>3 DEF Dial, ReadEnds
  <2>3. phase[p] \in Occupying /\ state \in Occupying /\ UNCHANGED <<post, file, workers, stopVars>>
    BY <1>3 DEF Dial, ReadEnds, Occupying
  <2> QED
    BY <2>1, <2>2, <2>3, WorkerMoves DEF PhaseStates
<1>4. ASSUME NEW p \in Posts, WatcherFires(p) PROVE Inv'
  BY <1>4 DEF WatcherFires, Inv, TypeOK, Lifecycle, MapExact, SeenExact, stopVars
<1>5. ASSUME NEW p \in Posts, Teardown(p) PROVE Inv'
  <2>1. TypeOK' /\ file'[p] = "closed"
    BY <1>5 DEF Teardown, Inv, TypeOK, PhaseStates, stopVars
  <2> QED
    BY <1>5, <2>1, WorkerMoves DEF Teardown, PhaseStates, Occupying
<1>6. ASSUME NEW p \in Posts, CloseDone(p) PROVE Inv'
  <2>1. TypeOK' /\ file[p] = "closed"
    BY <1>6 DEF CloseDone, Inv, TypeOK, Lifecycle, PhaseStates, stopVars
  <2> QED
    BY <1>6, <2>1, WorkerMoves DEF CloseDone, PhaseStates, Occupying
<1>7. ASSUME NEW p \in Posts, Delete(p) PROVE Inv'
  <2>1. /\ phase[p] = "delete" /\ file[p] = "closed" /\ post[p] = "started"
        /\ workers' = [workers EXCEPT ![PostTopic[p]] = NoWorker]
        /\ phase' = [phase EXCEPT ![p] = "close"]
        /\ \A s \in Stops : stop[s] # "locked"
        /\ UNCHANGED <<post, file, stopVars>>
    BY <1>7 DEF Delete, Lockable, RLocked, Inv, Lifecycle
  <2>2. TypeOK'
    BY <1>7 DEF Delete, Inv, TypeOK, PhaseStates, stopVars
  <2>3. \A q \in Posts : phase'[q] = IF q = p THEN "close" ELSE phase[q]
    BY <2>1 DEF Inv, TypeOK
  <2>4. \A t \in Topics : workers'[t] = IF t = PostTopic[p] THEN NoWorker ELSE workers[t]
    BY <2>1 DEF Inv, TypeOK
  <2>5. Lifecycle'
    BY <2>1, <2>3 DEF Inv, Lifecycle
  <2>6. MapExact'
    <3> SUFFICES ASSUME NEW t \in Topics, NEW q \in Posts
                 PROVE  workers'[t] = q <=> PostTopic[q] = t /\ phase'[q] \in Occupying
      BY DEF MapExact
    <3>1. /\ workers[t] = q <=> PostTopic[q] = t /\ phase[q] \in Occupying
          /\ workers[t] = p <=> PostTopic[p] = t /\ phase[p] \in Occupying
      BY DEF Inv, MapExact
    <3>2. NoWorker # q /\ phase[p] \in Occupying
      BY <2>1, WorkersAssumption DEF Occupying
    <3>3. CASE t = PostTopic[p]
      BY <2>3, <2>4, <3>1, <3>2, <3>3 DEF Occupying
    <3>4. CASE t # PostTopic[p]
      BY <2>3, <2>4, <3>1, <3>4 DEF Occupying
    <3> QED
      BY <3>3, <3>4
  <2>7. SeenExact'
    <3>1. \A q \in Posts : phase[q] \in {"close", "over"} => phase'[q] \in {"close", "over"}
      BY <2>3
    <3> QED
      BY <2>1, <3>1 DEF Inv, TypeOK, SeenExact, stopVars
  <2> QED
    BY <2>2, <2>5, <2>6, <2>7 DEF Inv
<1>8. ASSUME NEW s \in Stops, StopRLock(s) PROVE Inv'
  <2> DEFINE occupants == {p \in Posts : PostTopic[p] = StopTopic[s] /\ phase[p] \in Occupying}
  <2>1. /\ UNCHANGED <<post, file, workers, workerVars, cancelled, entry>>
        /\ stop' = [stop EXCEPT ![s] = "locked"] /\ seen' = [seen EXCEPT ![s] = occupants]
    BY <1>8 DEF StopRLock
  <2>2. TypeOK'
    <3>1. occupants \in SUBSET Posts
      OBVIOUS
    <3> QED
      BY <2>1, <3>1 DEF Inv, TypeOK, StopStates, workerVars
  <2>3. Lifecycle' /\ MapExact'
    BY <2>1 DEF Inv, Lifecycle, MapExact, workerVars
  <2>4. \A p \in Posts : p \in occupants <=> workers[StopTopic[s]] = p
    BY WorkersAssumption DEF Inv, MapExact
  <2>5. \A r \in Stops : /\ stop'[r] = IF r = s THEN "locked" ELSE stop[r]
                         /\ seen'[r] = IF r = s THEN occupants ELSE seen[r]
    BY <2>1 DEF Inv, TypeOK
  <2>6. SeenExact'
    <3> SUFFICES ASSUME NEW r \in Stops PROVE SeenExact!(r)'
      BY DEF SeenExact
    <3>1. CASE r = s
      <4>1. stop'[r] = "locked" /\ seen'[r] = occupants /\ workers' = workers
        BY <2>1, <2>5, <3>1
      <4> QED
        BY <2>4, <3>1, <4>1
    <3>2. CASE r # s
      BY <2>1, <2>5, <3>2 DEF Inv, SeenExact, workerVars
    <3> QED
      BY <3>1, <3>2
  <2> QED
    BY <2>2, <2>3, <2>6 DEF Inv
<1>9. ASSUME NEW s \in Stops, StopLookup(s) PROVE Inv'
  <2> DEFINE w == workers[StopTopic[s]]
  <2>1. /\ UNCHANGED <<post, file, workers, workerVars, cancelled, seen>>
        /\ stop[s] = "locked" /\ entry' = [entry EXCEPT ![s] = w]
        /\ stop' = [stop EXCEPT ![s] = IF w = NoWorker THEN "returned" ELSE "cancel"]
    BY <1>9 DEF StopLookup
  <2>2. w \in Posts \cup {NoWorker}
    BY WorkersAssumption DEF Inv, TypeOK
  <2>3. \A r \in Stops : /\ stop'[r] = IF r # s THEN stop[r]
                                       ELSE IF w = NoWorker THEN "returned" ELSE "cancel"
                         /\ entry'[r] = IF r = s THEN w ELSE entry[r]
    BY <2>1 DEF Inv, TypeOK
  <2>4. TypeOK'
    BY <2>1, <2>2, <2>3 DEF Inv, TypeOK, StopStates, workerVars
  <2>5. Lifecycle' /\ MapExact'
    BY <2>1 DEF Inv, Lifecycle, MapExact, workerVars
  <2>6. seen[s] \subseteq Posts /\ \A p \in Posts : p \in seen[s] <=> w = p
    BY <2>1 DEF Inv, TypeOK, SeenExact
  <2>7. SeenExact'
    BY <2>1, <2>3, <2>6, WorkersAssumption DEF Inv, SeenExact, workerVars
  <2> QED
    BY <2>4, <2>5, <2>7 DEF Inv
<1>10. ASSUME NEW s \in Stops, StopCancel(s) \/ StopReturns(s) PROVE Inv'
  <2>1. UNCHANGED <<post, file, workers, workerVars, entry, seen>>
    BY <1>10 DEF StopCancel, StopReturns
  <2>2. TypeOK'
    BY <1>10 DEF StopCancel, StopReturns, Inv, TypeOK, StopStates, workerVars
  <2>3. Lifecycle' /\ MapExact'
    BY <2>1 DEF Inv, Lifecycle, MapExact, workerVars
  <2>4. SeenExact'
    BY <1>10, <2>1 DEF StopCancel, StopReturns, Inv, TypeOK, SeenExact, workerVars
  <2> QED
    BY <2>2, <2>3, <2>4 DEF Inv
<1>11. CASE UNCHANGED vars
  BY <1>11 DEF vars, workerVars, stopVars, Inv, TypeOK, Lifecycle, MapExact, SeenExact
<1> QED
  BY <1>1, <1>2, <1>3, <1>4, <1>5, <1>6, <1>7, <1>8, <1>9, <1>10, <1>11
  DEF Next, WorkerStep, StopStep

LEMMA InvCorrect == Spec => []Inv
BY InvInit, InvStep, PTL DEF Spec
-----------------------------------------------------------------------------
(***************************************************************************)
(* Theorems.                                                               *)
(***************************************************************************)

(* Everything has its type; in particular a DELETE that goes on to cancel    *)
(* has found an entry.                                                       *)
THEOREM TypeCorrect == Spec => []TypeOK
BY InvCorrect, PTL DEF Inv

(* One worker a topic, the one in the map, although a worker that ends       *)
(* deletes by topic (worker.go:52).                                          *)
THEOREM MapExactCorrect == Spec => []MapExact
BY InvCorrect, PTL DEF Inv

(* A DELETE is answered only when every worker it came for has closed its    *)
(* file and left the map (worker.go:69).                                     *)
THEOREM StopMeansStoppedCorrect == Spec => []StopMeansStopped
<1>1. Inv => StopMeansStopped
  BY DEF Inv, TypeOK, Lifecycle, SeenExact, StopMeansStopped, Occupying
<1> QED
  BY <1>1, InvCorrect, PTL
-----------------------------------------------------------------------------
(***************************************************************************)
(* The safety half of StopAnswered: nobody waits for what cannot come.     *)
(***************************************************************************)

(* A DELETE has looked up a worker that exists, and has cancelled it before  *)
(* it waits; a worker that reads has a watcher to close its connection.      *)
Woken ==
    /\ \A s \in Stops :
          /\ stop[s] \in {"cancel", "wait"} => phase[entry[s]] # "none"
          /\ stop[s] = "wait" => cancelled[entry[s]]
    /\ \A p \in Posts : phase[p] = "read" => watcher[p] = "waiting" \/ conn[p] = "closed"

LEMMA WokenStep == ASSUME Inv, Woken, [Next]_vars PROVE Woken'
<1> USE DEF Inv
<1>1. ASSUME NEW p \in Posts, phase[p] # "none" PROVE phase'[p] # "none"
  <2>1. \A q \in Posts : OpenFile(q) => UNCHANGED phase
    BY DEF OpenFile, workerVars
  <2>2. \A q \in Posts : StartTopicWorker(q) => phase'[p] # "none"
    BY <1>1 DEF StartTopicWorker, TypeOK
  <2>3. \A q \in Posts : Dial(q) \/ ReadEnds(q) \/ WatcherFires(q) \/ WorkerStep(q) =>
            phase'[p] # "none"
    BY <1>1 DEF Dial, ReadEnds, WatcherFires, WorkerStep, Teardown, Delete, CloseDone, TypeOK
  <2>4. \A s \in Stops : StopRLock(s) \/ StopStep(s) => UNCHANGED phase
    BY DEF StopRLock, StopStep, StopLookup, StopCancel, StopReturns, workerVars
  <2> QED
    BY <1>1, <2>1, <2>2, <2>3, <2>4 DEF Next, vars, workerVars
<1>2. ASSUME NEW p \in Posts, phase'[p] = "read"
      PROVE  watcher'[p] = "waiting" \/ conn'[p] = "closed"
  <2>1. ASSUME phase[p] = "read", UNCHANGED <<watcher, conn>>
        PROVE  watcher'[p] = "waiting" \/ conn'[p] = "closed"
    BY <2>1 DEF Woken
  <2>2. \A q \in Posts : OpenFile(q) \/ StartTopicWorker(q) \/ WorkerStep(q) =>
            phase[p] = "read" /\ UNCHANGED <<watcher, conn>>
    BY <1>2 DEF OpenFile, StartTopicWorker, WorkerStep, Teardown, Delete, CloseDone, TypeOK,
       workerVars
  <2>3. \A q \in Posts : Dial(q) \/ ReadEnds(q) \/ WatcherFires(q) =>
            watcher'[p] = "waiting" \/ conn'[p] = "closed"
    BY <1>2 DEF Dial, ReadEnds, WatcherFires, TypeOK, Woken
  <2>4. (\E s \in Stops : StopRLock(s) \/ StopStep(s)) \/ UNCHANGED vars =>
            phase[p] = "read" /\ UNCHANGED <<watcher, conn>>
    BY <1>2 DEF StopRLock, StopStep, StopLookup, StopCancel, StopReturns, workerVars, vars
  <2> QED
    BY <2>1, <2>2, <2>3, <2>4 DEF Next
<1>3. ASSUME NEW s \in Stops
      PROVE  /\ stop'[s] \in {"cancel", "wait"} => phase'[entry'[s]] # "none"
             /\ stop'[s] = "wait" => cancelled'[entry'[s]]
  <2>1. CASE /\ stop'[s] = stop[s] /\ entry'[s] = entry[s]
             /\ \A p \in Posts : cancelled[p] => cancelled'[p]
    <3>1. stop[s] \in {"cancel", "wait"} => entry[s] \in Posts
      BY DEF TypeOK
    <3> QED
      BY <1>1, <2>1, <3>1 DEF Woken
  <2>2. ASSUME NEW r \in Stops, StopRLock(r) \/ StopReturns(r)
        PROVE  /\ stop'[s] \in {"cancel", "wait"} => phase'[entry'[s]] # "none"
               /\ stop'[s] = "wait" => cancelled'[entry'[s]]
    BY <2>2 DEF StopRLock, StopReturns, TypeOK, Woken, workerVars
  <2>3. ASSUME NEW r \in Stops, StopLookup(r)
        PROVE  /\ stop'[s] \in {"cancel", "wait"} => phase'[entry'[s]] # "none"
               /\ stop'[s] = "wait" => cancelled'[entry'[s]]
    <3>1. CASE r = s
      <4>1. /\ UNCHANGED phase /\ entry'[s] = workers[StopTopic[s]]
            /\ stop'[s] = IF entry'[s] = NoWorker THEN "returned" ELSE "cancel"
        BY <2>3, <3>1 DEF StopLookup, TypeOK, workerVars
      <4>2. workers[StopTopic[s]] \in Posts \cup {NoWorker} /\ StopTopic[s] \in Topics
        BY WorkersAssumption DEF TypeOK
      <4>3. entry'[s] # NoWorker => phase[entry'[s]] \in Occupying
        BY <4>1, <4>2 DEF MapExact
      <4> QED
        BY <4>1, <4>3 DEF Occupying
    <3>2. CASE r # s
      BY <2>3, <3>2 DEF StopLookup, TypeOK, Woken, workerVars
    <3> QED
      BY <3>1, <3>2
  <2>4. ASSUME NEW r \in Stops, StopCancel(r)
        PROVE  /\ stop'[s] \in {"cancel", "wait"} => phase'[entry'[s]] # "none"
               /\ stop'[s] = "wait" => cancelled'[entry'[s]]
    BY <2>4 DEF StopCancel, TypeOK, Woken, workerVars
  <2>5. (\E p \in Posts : OpenFile(p) \/ StartTopicWorker(p) \/ Dial(p) \/ ReadEnds(p)
                           \/ WatcherFires(p) \/ WorkerStep(p)) \/ UNCHANGED vars =>
            UNCHANGED <<stop, entry, cancelled>>
    BY DEF OpenFile, StartTopicWorker, Dial, ReadEnds, WatcherFires, WorkerStep, Teardown,
       Delete, CloseDone, stopVars, vars
  <2> QED
    BY <2>1, <2>2, <2>3, <2>4, <2>5 DEF Next, StopStep
<1> QED
  BY <1>2, <1>3 DEF Woken

(* A DELETE that waits for done has cancelled a worker whose goroutine runs  *)
(* or is over; if it is in ReadMessage, which knows no context, its watcher  *)
(* is there to close the connection under it, or has done so (worker.go:91). *)
THEOREM WaitsForCancelled ==
    Spec => [](\A s \in Stops : stop[s] = "wait" =>
                  LET p == entry[s] IN
                  /\ phase[p] # "none" /\ cancelled[p]
                  /\ phase[p] = "read" => watcher[p] = "waiting" \/ conn[p] = "closed")
<1> DEFINE Awaited == \A s \in Stops : stop[s] = "wait" =>
                  LET p == entry[s] IN
                  /\ phase[p] # "none" /\ cancelled[p]
                  /\ phase[p] = "read" => watcher[p] = "waiting" \/ conn[p] = "closed"
<1>1. Init => Woken
  BY DEF Init, Woken
<1>2. Inv /\ Woken /\ [Next]_vars => Woken'
  BY WokenStep
<1>3. Inv /\ Woken => Awaited
  <2>1. Inv => \A s \in Stops : stop[s] = "wait" => entry[s] \in Posts
    BY DEF Inv, TypeOK
  <2> QED
    BY <2>1 DEF Woken
<1> QED
  BY <1>1, <1>2, <1>3, InvCorrect, PTL DEF Spec
=============================================================================
