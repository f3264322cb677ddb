------------------------- MODULE DroneCommandsProofs -------------------------
(***************************************************************************)
(* Proofs about DroneCommands, for every number of devices, commands and   *)
(* concurrent heartbeats and for every set of faults.                      *)
(***************************************************************************)
EXTENDS DroneCommands, TLAPS

(* Every variable keeps its type whatever the handlers, devices and faults   *)
(* of DroneCommands do.                                                      *)
LEMMA TypeStep == TypeOK /\ [Next]_vars => TypeOK'
<1> SUFFICES ASSUME TypeOK, [Next]_vars PROVE TypeOK'
  OBVIOUS
<1> USE CommandsAssumption DEF TypeOK, BeatStates, CreateStates, vars,
        operatorVars, handlerVars, deviceVars
<1>1. ASSUME NEW c \in Commands, CreateFind(c) \/ CreateInsert(c) PROVE TypeOK'
  BY <1>1 DEF CreateFind, CreateInsert
<1>2. ASSUME NEW d \in Drones, DeleteDrone(d) PROVE TypeOK'
  BY <1>2 DEF DeleteDrone
<1>3. ASSUME NEW b \in Beats, StatusUpsert(b) PROVE TypeOK'
  BY <1>3 DEF StatusUpsert
<1>4. ASSUME NEW b \in Beats, StatusFind(b) PROVE TypeOK'
  BY <1>4 DEF StatusFind, PendingFor
<1>5. ASSUME NEW b \in Beats, StatusReply(b) PROVE TypeOK'
  BY <1>5 DEF StatusReply
<1>6. ASSUME NEW b \in Beats, ReplyDiscarded(b) PROVE TypeOK'
  BY <1>6 DEF ReplyDiscarded, Free
<1>7. ASSUME NEW b \in Beats, NEW c \in Commands, StatusMark(b, c) PROVE TypeOK'
  BY <1>7 DEF StatusMark
<1>8. ASSUME NEW d \in Drones, Receive(d) PROVE TypeOK'
  <2>1. waiting[d] \in Beats
    BY <1>8 DEF Receive
  <2> QED
    BY <1>8, <2>1 DEF Receive, Free
<1>9. ASSUME NEW d \in Drones, NEW b \in Beats, SendBeat(d, b) PROVE TypeOK'
  BY <1>9 DEF SendBeat
<1>10. ASSUME NEW d \in Drones, NEW c \in Commands, ProcessEvent(d, c) PROVE TypeOK'
  BY <1>10 DEF ProcessEvent
<1>11. ASSUME NEW d \in Drones, ConnectionLost(d) \/ DeviceRestart(d) PROVE TypeOK'
  BY <1>11 DEF ConnectionLost, DeviceRestart
<1>12. CASE ServerRestart
  BY <1>12 DEF ServerRestart, Free
<1>13. CASE UNCHANGED vars
  BY <1>13
<1> QED
  BY <1>1, <1>2, <1>3, <1>4, <1>5, <1>6, <1>7, <1>8, <1>9, <1>10, <1>11, <1>12,
     <1>13 DEF Next, HandlerStep, DeviceStep

(* The type invariant of the command channel.                                *)
THEOREM TypeCorrect == Spec => []TypeOK
<1>1. Init => TypeOK
  BY CommandsAssumption DEF Init, TypeOK, BeatStates, CreateStates
<1> QED
  BY <1>1, TypeStep, PTL DEF Spec
-----------------------------------------------------------------------------
(* Every step preserves the order mark, hand over, run.                      *)
LEMMA HandOverStep == TypeOK /\ HandOver /\ [Next]_vars => HandOver'
<1> SUFFICES ASSUME TypeOK, HandOver, [Next]_vars PROVE HandOver'
  OBVIOUS
<1> USE CommandsAssumption DEF HandOver, OneRequest, InboxFresh, AnswerFresh,
        Marked, History, Awaited, TypeOK, BeatStates, CreateStates, vars,
        operatorVars, handlerVars, deviceVars
<1>1. ASSUME NEW c \in Commands, CreateFind(c) PROVE HandOver'
  BY <1>1 DEF CreateFind
<1>2. ASSUME NEW c \in Commands, CreateInsert(c) PROVE HandOver'
  <2>1. /\ commands[c] = "absent"
        /\ \A e \in Commands : e # c => commands'[e] = commands[e]
                                     /\ create'[e] = create[e]
        /\ create'[c] \in {"created", "failed"}
    BY <1>2 DEF CreateInsert
  <2>2. UNCHANGED <<waiting, beat, found, todo, inbox, executed>>
    BY <1>2 DEF CreateInsert
  <2>3. OneRequest' /\ InboxFresh'
    BY <2>1, <2>2
  <2>4. AnswerFresh' /\ Marked'
    BY <2>1, <2>2
  <2>5. History'
    BY <2>1, <2>2
  <2> QED
    BY <2>3, <2>4, <2>5
<1>3. ASSUME NEW d \in Drones, DeleteDrone(d) PROVE HandOver'
  BY <1>3 DEF DeleteDrone
<1>4. ASSUME NEW b \in Beats, StatusUpsert(b) PROVE HandOver'
  BY <1>4 DEF StatusUpsert
<1>5. ASSUME NEW b \in Beats, StatusFind(b) PROVE HandOver'
  BY <1>5 DEF StatusFind, PendingFor
<1>6. ASSUME NEW b \in Beats, StatusReply(b) PROVE HandOver'
  BY <1>6 DEF StatusReply
<1>7. ASSUME NEW b \in Beats, ReplyDiscarded(b) PROVE HandOver'
  BY <1>7 DEF ReplyDiscarded, Free
<1>8. ASSUME NEW b \in Beats, NEW c \in Commands, StatusMark(b, c) PROVE HandOver'
  <2>1. /\ \A e \in Commands : commands'[e] \in {commands[e], "done"}
        /\ commands' = commands \/ commands' = [commands EXCEPT ![c] = "done"]
        /\ UNCHANGED <<create, found, waiting, inbox, executed>>
    BY <1>8 DEF StatusMark
  <2>2. \/ UNCHANGED beat /\ commands'[c] = "done" /\ todo' = [todo EXCEPT ![b] = @ \ {c}]
        \/ UNCHANGED todo /\ beat' = [beat EXCEPT ![b] = "error"]
    BY <1>8 DEF StatusMark
  <2>3. beat[b] = "mark"
    BY <1>8 DEF StatusMark
  <2>4. OneRequest' /\ InboxFresh'
    BY <2>1, <2>2
  <2>5. AnswerFresh'
    BY <2>1, <2>2
  <2>6. Marked'
    BY <2>1, <2>2, <2>3
  <2>7. History'
    <3>1. c \in found[b]
      BY <1>8 DEF StatusMark
    <3>2. commands[c] # "absent"
      BY <3>1
    <3> QED
      BY <2>1, <3>2
  <2> QED
    BY <2>4, <2>5, <2>6, <2>7
<1>9. ASSUME NEW d \in Drones, Receive(d) PROVE HandOver'
  BY <1>9 DEF Receive, Free
<1>10. ASSUME NEW d \in Drones, NEW b \in Beats, SendBeat(d, b) PROVE HandOver'
  BY <1>10 DEF SendBeat
<1>11. ASSUME NEW d \in Drones, NEW c \in Commands, ProcessEvent(d, c) PROVE HandOver'
  BY <1>11 DEF ProcessEvent
<1>12. ASSUME NEW d \in Drones, ConnectionLost(d) PROVE HandOver'
  BY <1>12 DEF ConnectionLost
<1>13. ASSUME NEW d \in Drones, DeviceRestart(d) PROVE HandOver'
  BY <1>13 DEF DeviceRestart
<1>14. CASE ServerRestart
  BY <1>14 DEF ServerRestart, Free
<1>15. CASE UNCHANGED vars
  BY <1>15
<1> QED
  BY <1>1, <1>2, <1>3, <1>4, <1>5, <1>6, <1>7, <1>8, <1>9, <1>10, <1>11, <1>12,
     <1>13, <1>14, <1>15 DEF Next, HandlerStep, DeviceStep

LEMMA HandOverInit == Init => HandOver
  BY CommandsAssumption DEF Init, HandOver, OneRequest, InboxFresh, AnswerFresh,
     Marked, History, Awaited

(* The inductive invariant of the command channel.                           *)
THEOREM HandOverCorrect == Spec => [](TypeOK /\ HandOver)
  BY TypeCorrect, HandOverInit, HandOverStep, PTL DEF Spec

(* No device runs a command twice: not when heartbeats overlap, when the     *)
(* database fails between two marks, nor across restarts of either side.     *)
THEOREM AtMostOnceCorrect == Spec => []AtMostOnce
<1>1. TypeOK /\ HandOver => AtMostOnce
  BY DEF TypeOK, HandOver, History, AtMostOnce
<1> QED
  BY <1>1, HandOverCorrect, PTL

(* No device gets a command of another one.                                  *)
THEOREM OnlyOwnCommandsCorrect == Spec => []OnlyOwnCommands
<1>1. TypeOK /\ HandOver => OnlyOwnCommands
  BY DEF TypeOK, HandOver, InboxFresh, AnswerFresh, OnlyOwnCommands, Awaited
<1> QED
  BY <1>1, HandOverCorrect, PTL
-----------------------------------------------------------------------------
(***************************************************************************)
(* Without a fault no command is lost.                                     *)
(***************************************************************************)

(* Somebody waits for every handler, and none gives up.                      *)
AllAwaited == \A b \in Beats : beat[b] # "idle" =>
                  beat[b] # "error" /\ waiting[BeatDrone[b]] = b

LEMMA AwaitedStep ==
    ASSUME Faults = {}, TypeOK, HandOver, AllAwaited, [Next]_vars PROVE AllAwaited'
<1> USE CommandsAssumption DEF AllAwaited, TypeOK
<1>1. ASSUME UNCHANGED <<beat, waiting>> PROVE AllAwaited'
  BY <1>1
<1>2. ASSUME NEW b \in Beats, HandlerStep(b) PROVE AllAwaited'
  BY <1>2 DEF HandlerStep, StatusUpsert, StatusFind, StatusReply, ReplyDiscarded, StatusMark,
     deviceVars
<1>3. ASSUME NEW d \in Drones, NEW b \in Beats, SendBeat(d, b) PROVE AllAwaited'
  BY <1>3 DEF SendBeat
<1>4. ASSUME NEW d \in Drones, Receive(d) PROVE AllAwaited'
  BY <1>4 DEF Receive, Free, HandOver, OneRequest
<1>5. ASSUME NEW d \in Drones, NEW c \in Commands, ProcessEvent(d, c) PROVE AllAwaited'
  BY <1>1, <1>5 DEF ProcessEvent, handlerVars
<1>6. ASSUME NEW c \in Commands, CreateFind(c) \/ CreateInsert(c) PROVE AllAwaited'
  BY <1>1, <1>6 DEF CreateFind, CreateInsert, handlerVars, deviceVars
<1>7. ASSUME NEW d \in Drones, DeleteDrone(d) PROVE AllAwaited'
  BY <1>1, <1>7 DEF DeleteDrone, handlerVars, deviceVars
<1>8. CASE UNCHANGED vars
  BY <1>1, <1>8 DEF vars, handlerVars, deviceVars
<1> QED
  BY <1>2, <1>3, <1>4, <1>5, <1>6, <1>7, <1>8 DEF Next, DeviceStep, ConnectionLost,
     DeviceRestart, ServerRestart

LEMMA NotLostStep ==
    ASSUME Faults = {}, TypeOK, HandOver, AllAwaited, QueuedIsNotLost, [Next]_vars
    PROVE  QueuedIsNotLost'
<1> SUFFICES ASSUME NEW c \in Commands, commands'[c] = "done"
             PROVE  executed'[c] = 1 \/ InHand(c)'
  BY DEF QueuedIsNotLost
<1> USE CommandsAssumption DEF TypeOK
<1>1. commands[c] = "done" => executed[c] = 1 \/ InHand(c)
  BY DEF QueuedIsNotLost
<1>2. ASSUME UNCHANGED <<commands, beat, found, waiting, inbox, executed>>
      PROVE  executed'[c] = 1 \/ InHand(c)'
  BY <1>1, <1>2 DEF InHand, Awaited
<1>3. ASSUME NEW e \in Commands, CreateFind(e) \/ CreateInsert(e)
      PROVE  executed'[c] = 1 \/ InHand(c)'
  BY <1>1, <1>3 DEF CreateFind, CreateInsert, handlerVars, deviceVars, InHand, Awaited
<1>4. ASSUME NEW b \in Beats, HandlerStep(b) PROVE executed'[c] = 1 \/ InHand(c)'
  <2>1. UNCHANGED <<waiting, inbox, executed>>
    BY <1>4 DEF HandlerStep, StatusUpsert, StatusFind, StatusReply, ReplyDiscarded,
       StatusMark, deviceVars
  <2>2. CASE StatusUpsert(b) \/ StatusFind(b) \/ StatusReply(b)
    BY <1>1, <2>1, <2>2 DEF StatusUpsert, StatusFind, StatusReply, InHand, Awaited
  <2>3. CASE ReplyDiscarded(b)
    BY <2>3 DEF ReplyDiscarded, AllAwaited
  <2>4. ASSUME NEW e \in Commands, StatusMark(b, e) PROVE executed'[c] = 1 \/ InHand(c)'
    <3>1. /\ beat[b] = "mark" /\ e \in found[b] /\ UNCHANGED <<beat, found>>
          /\ commands' = [commands EXCEPT ![e] = "done"]
      BY <2>4 DEF StatusMark, HandOver, Marked
    <3>2. b \in Awaited(BeatDrone[b]) /\ DroneOf[e] = BeatDrone[b]
      BY <3>1 DEF AllAwaited, Awaited, HandOver, AnswerFresh
    <3>3. InHand(e)
      BY <3>1, <3>2 DEF InHand
    <3>4. executed[c] = 1 \/ InHand(c)
      BY <1>1, <3>1, <3>3
    <3> QED
      BY <2>1, <3>1, <3>4 DEF InHand, Awaited
  <2> QED
    BY <1>4, <2>2, <2>3, <2>4 DEF HandlerStep
<1>5. ASSUME NEW d \in Drones, NEW b \in Beats, SendBeat(d, b)
      PROVE  executed'[c] = 1 \/ InHand(c)'
  BY <1>1, <1>5 DEF SendBeat, InHand, Awaited
<1>6. ASSUME NEW d \in Drones, Receive(d) PROVE executed'[c] = 1 \/ InHand(c)'
  <2>1. /\ waiting[d] \in Beats /\ beat[waiting[d]] = "replied" /\ inbox[d] = {}
        /\ BeatDrone[waiting[d]] = d
        /\ inbox' = [inbox EXCEPT ![d] = found[waiting[d]]]
        /\ waiting' = [waiting EXCEPT ![d] = NoBeat]
        /\ UNCHANGED <<commands, executed>>
    BY <1>6 DEF Receive, AllAwaited, HandOver, OneRequest
  <2>2. ASSUME InHand(c) PROVE InHand(c)'
    <3>1. CASE DroneOf[c] = d
      BY <2>1, <2>2, <3>1 DEF InHand, Awaited
    <3>2. CASE DroneOf[c] # d
      <4>1. \A b \in Awaited(DroneOf[c]) : b # waiting[d] /\ b \in Awaited(DroneOf[c])'
                                          /\ found'[b] = found[b]
        BY <1>6, <2>1, <3>2 DEF Awaited, Receive, Free, HandOver, OneRequest
      <4> QED
        BY <2>1, <2>2, <3>2, <4>1 DEF InHand
    <3> QED
      BY <3>1, <3>2
  <2> QED
    BY <1>1, <2>1, <2>2
<1>7. ASSUME NEW d \in Drones, NEW e \in Commands, ProcessEvent(d, e)
      PROVE  executed'[c] = 1 \/ InHand(c)'
  <2>1. executed[e] = 0 /\ DroneOf[e] = d
    BY <1>7 DEF ProcessEvent, HandOver, InboxFresh
  <2> QED
    BY <1>1, <1>7, <2>1 DEF ProcessEvent, handlerVars, InHand, Awaited
<1>8. ASSUME NEW d \in Drones, DeleteDrone(d) PROVE executed'[c] = 1 \/ InHand(c)'
  BY <1>2, <1>8 DEF DeleteDrone, handlerVars, deviceVars
<1>9. CASE UNCHANGED vars
  BY <1>2, <1>9 DEF vars, handlerVars, deviceVars
<1> QED
  BY <1>3, <1>4, <1>5, <1>6, <1>7, <1>8, <1>9 DEF Next, DeviceStep, ConnectionLost,
     DeviceRestart, ServerRestart

(* What the dashboard tells the operator is true of every run in which no    *)
(* database call fails, no connection breaks and neither side is restarted:  *)
(* what is marked done has been run or is on its way, although a handler     *)
(* marks first and answers afterwards (routes.go:491).  With "net" alone it  *)
(* is not, see QueuedIsNotLost.                                              *)
THEOREM NothingLostWithoutFaults == Faults = {} => (Spec => []QueuedIsNotLost)
<1> SUFFICES ASSUME Faults = {} PROVE Spec => []QueuedIsNotLost
  OBVIOUS
<1>1. Init => AllAwaited /\ QueuedIsNotLost
  BY DEF Init, AllAwaited, QueuedIsNotLost
<1>2. TypeOK /\ HandOver /\ AllAwaited /\ QueuedIsNotLost /\ [Next]_vars =>
          AllAwaited' /\ QueuedIsNotLost'
  BY AwaitedStep, NotLostStep
<1> QED
  BY <1>1, <1>2, HandOverCorrect, PTL DEF Spec
-----------------------------------------------------------------------------
(***************************************************************************)
(* The refinement.                                                         *)
(***************************************************************************)

(* A step that only loses commands, or none, is a step of CommandOnce.       *)
LEMMA LosesOrStutters ==
    (\A c \in Commands : \/ commandStatus'[c] = commandStatus[c]
                         \/ commandStatus[c] = "queued" /\ commandStatus'[c] = "lost")
    => [Once!Next]_commandStatus
<1> SUFFICES ASSUME \A c \in Commands :
                      \/ commandStatus'[c] = commandStatus[c]
                      \/ commandStatus[c] = "queued" /\ commandStatus'[c] = "lost"
             PROVE  [Once!Next]_commandStatus
  OBVIOUS
<1> DEFINE S == {c \in Commands : commandStatus'[c] # commandStatus[c]}
<1>1. commandStatus' = [c \in Commands |->
                          IF c \in S THEN "lost" ELSE commandStatus[c]]
  BY DEF commandStatus
<1>2. CASE S = {}
  BY <1>1, <1>2 DEF commandStatus
<1>3. CASE S # {}
  <2>1. Once!Lose(S)
    BY <1>1, <1>3 DEF Once!Lose, Once!Move
  <2> QED
    BY <2>1 DEF Once!Next
<1> QED
  BY <1>2, <1>3

(* A step that runs nothing, inserts nothing and hands over nothing that was *)
(* not in hand before.                                                       *)
LEMMA NothingGained ==
    /\ UNCHANGED executed
    /\ \A c \in Commands :
          /\ \/ commands'[c] = commands[c]
             \/ commands[c] = "pending" /\ commands'[c] = "done"
          /\ commands[c] = "done" /\ InHand(c)' => InHand(c)
    => [Once!Next]_commandStatus
<1> SUFFICES ASSUME UNCHANGED executed,
                    \A c \in Commands :
                        /\ \/ commands'[c] = commands[c]
                           \/ commands[c] = "pending" /\ commands'[c] = "done"
                        /\ commands[c] = "done" /\ InHand(c)' => InHand(c)
             PROVE  [Once!Next]_commandStatus
  OBVIOUS
<1>1. ASSUME NEW c \in Commands
      PROVE  \/ commandStatus'[c] = commandStatus[c]
             \/ commandStatus[c] = "queued" /\ commandStatus'[c] = "lost"
  BY DEF commandStatus
<1> QED
  BY <1>1, LosesOrStutters

LEMMA OnceInit == Init => Once!Init
  BY DEF Init, Once!Init, commandStatus

LEMMA OnceStep == TypeOK /\ HandOver /\ [Next]_vars => [Once!Next]_commandStatus
<1> SUFFICES ASSUME TypeOK, HandOver, [Next]_vars PROVE [Once!Next]_commandStatus
  OBVIOUS
<1> USE CommandsAssumption DEF HandOver, OneRequest, InboxFresh, AnswerFresh,
        Marked, History, Awaited, InHand, TypeOK, BeatStates, CreateStates, vars,
        operatorVars, handlerVars, deviceVars
<1>1. ASSUME NEW c \in Commands, CreateFind(c) PROVE [Once!Next]_commandStatus
  BY <1>1, NothingGained DEF CreateFind
<1>2. ASSUME NEW c \in Commands, CreateInsert(c) PROVE [Once!Next]_commandStatus
  <2>1. /\ commands[c] = "absent"
        /\ executed[c] = 0
        /\ UNCHANGED <<waiting, beat, found, inbox, executed>>
    BY <1>2 DEF CreateInsert
  <2>2. CASE commands' = [commands EXCEPT ![c] = "absent"]
    BY <2>1, <2>2, NothingGained
  <2>3. CASE commands' = [commands EXCEPT ![c] = "pending"]
    <3>1. commandStatus[c] = "absent"
      BY <2>1 DEF commandStatus
    <3>2. \A e \in Commands :
            commandStatus'[e] = IF e \in {c} THEN "queued" ELSE commandStatus[e]
      BY <2>1, <2>3 DEF commandStatus
    <3>3. commandStatus' = [e \in Commands |->
                              IF e \in {c} THEN "queued" ELSE commandStatus[e]]
      BY <3>2 DEF commandStatus
    <3>4. Once!Queue(c)
      BY <3>1, <3>3 DEF Once!Queue, Once!Move
    <3> QED
      BY <3>4 DEF Once!Next
  <2> QED
    BY <1>2, <2>2, <2>3 DEF CreateInsert
<1>3. ASSUME NEW d \in Drones, DeleteDrone(d) PROVE [Once!Next]_commandStatus
  BY <1>3, NothingGained DEF DeleteDrone
<1>4. ASSUME NEW b \in Beats, StatusUpsert(b) PROVE [Once!Next]_commandStatus
  BY <1>4, NothingGained DEF StatusUpsert
<1>5. ASSUME NEW b \in Beats, StatusFind(b) PROVE [Once!Next]_commandStatus
  BY <1>5, NothingGained DEF StatusFind, PendingFor
<1>6. ASSUME NEW b \in Beats, StatusReply(b) PROVE [Once!Next]_commandStatus
  BY <1>6, NothingGained DEF StatusReply
<1>7. ASSUME NEW b \in Beats, ReplyDiscarded(b) PROVE [Once!Next]_commandStatus
  BY <1>7, NothingGained DEF ReplyDiscarded, Free
<1>8. ASSUME NEW b \in Beats, NEW c \in Commands, StatusMark(b, c)
      PROVE  [Once!Next]_commandStatus
  <2>1. commands[c] # "absent"
    BY <1>8 DEF StatusMark
  <2>2. \A e \in Commands : \/ commands'[e] = commands[e]
                            \/ commands[e] = "pending" /\ commands'[e] = "done"
    BY <1>8, <2>1 DEF StatusMark
  <2>3. \A a \in Beats : beat'[a] \in {"mark", "replied"} => beat[a] \in {"mark", "replied"}
    BY <1>8 DEF StatusMark
  <2>4. UNCHANGED <<waiting, found, inbox, executed>>
    BY <1>8 DEF StatusMark
  <2>5. \A e \in Commands : InHand(e)' => InHand(e)
    BY <2>3, <2>4
  <2> QED
    BY <2>2, <2>4, <2>5, NothingGained DEF HandOver
<1>9. ASSUME NEW d \in Drones, Receive(d) PROVE [Once!Next]_commandStatus
  BY <1>9, NothingGained DEF Receive, Free
<1>10. ASSUME NEW d \in Drones, NEW b \in Beats, SendBeat(d, b)
       PROVE  [Once!Next]_commandStatus
  BY <1>10, NothingGained DEF SendBeat
<1>11. ASSUME NEW d \in Drones, NEW c \in Commands, ProcessEvent(d, c)
       PROVE  [Once!Next]_commandStatus
  <2>1. /\ c \in inbox[d] /\ DroneOf[c] = d
        /\ commands[c] = "done" /\ executed[c] = 0
        /\ executed'[c] # 0
        /\ \A e \in Commands : e # c => executed'[e] = executed[e]
        /\ \A e \in Commands : e # c => (InHand(e)' <=> InHand(e))
        /\ UNCHANGED commands
    BY <1>11 DEF ProcessEvent
  <2>2. commandStatus[c] = "queued"
    BY <2>1 DEF commandStatus
  <2>3. \A e \in Commands :
          commandStatus'[e] = IF e \in {c} THEN "executed" ELSE commandStatus[e]
    BY <2>1 DEF commandStatus
  <2>4. commandStatus' = [e \in Commands |->
                            IF e \in {c} THEN "executed" ELSE commandStatus[e]]
    BY <2>3 DEF commandStatus
  <2>5. Once!Execute(c)
    BY <2>2, <2>4 DEF Once!Execute, Once!Move
  <2> QED
    BY <2>5 DEF Once!Next
<1>12. ASSUME NEW d \in Drones, ConnectionLost(d) PROVE [Once!Next]_commandStatus
  BY <1>12, NothingGained DEF ConnectionLost
<1>13. ASSUME NEW d \in Drones, DeviceRestart(d) PROVE [Once!Next]_commandStatus
  BY <1>13, NothingGained DEF DeviceRestart
<1>14. CASE ServerRestart
  BY <1>14, NothingGained DEF ServerRestart, Free
<1>15. CASE UNCHANGED vars
  BY <1>15, NothingGained
<1> QED
  BY <1>1, <1>2, <1>3, <1>4, <1>5, <1>6, <1>7, <1>8, <1>9, <1>10, <1>11, <1>12,
     <1>13, <1>14, <1>15 DEF Next, HandlerStep, DeviceStep

(* The channel implements CommandOnce: a command is run at most once, and    *)
(* one that was lost is never run after all.                                 *)
THEOREM Implements == Spec => ImplementsCommandOnce
  BY HandOverCorrect, OnceInit, OnceStep, PTL
     DEF Spec, ImplementsCommandOnce, Once!Spec

=============================================================================
