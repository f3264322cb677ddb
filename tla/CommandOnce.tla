----------------------------- MODULE CommandOnce -----------------------------
(***************************************************************************)
(* What the command channel between the dashboard and a device promises,   *)
(* free of handlers, requests and databases: a command that is queued is   *)
(* executed at most once.  It may also be lost - the channel gives no      *)
(* delivery guarantee - and what is executed or lost stays so.             *)
(*                                                                         *)
(* DroneCommands.tla implements this specification.                        *)
(***************************************************************************)
CONSTANT Commands       \* the identities of the commands operators issue

VARIABLE status         \* what has become of each command

Status == {"absent", "queued", "executed", "lost"}

TypeOK == status \in [Commands -> Status]

Init == status = [c \in Commands |-> "absent"]

(* The commands of the non-empty set S, all in state from, move to state to. *)
Move(S, from, to) ==
    /\ S # {}
    /\ \A c \in S : status[c] = from
    /\ status' = [c \in Commands |-> IF c \in S THEN to ELSE status[c]]

Queue(c)   == Move({c}, "absent", "queued")
Execute(c) == Move({c}, "queued", "executed")
Lose(S)    == Move(S, "queued", "lost")

Next ==
    \/ \E c \in Commands : Queue(c) \/ Execute(c)
    \/ \E S \in SUBSET Commands : Lose(S)

Spec == Init /\ [][Next]_status
=============================================================================
