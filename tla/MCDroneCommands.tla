--------------------------- MODULE MCDroneCommands ---------------------------
(***************************************************************************)
(* d1 has two slots, so a heartbeat abandoned with its connection overlaps *)
(* with the next one, and two commands, so a handler can stop between two  *)
(* marks.  d2 only has a command, which must not get to d1.                *)
(***************************************************************************)
EXTENDS DroneCommands

CONSTANTS d1, d2, c1, c2, e1, b1, b2

MCDroneOf == [c \in Commands |-> IF c = e1 THEN d2 ELSE d1]
MCBeatDrone == [b \in Beats |-> d1]
=============================================================================
