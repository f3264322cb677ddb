---------------------------- MODULE MCDroneConfig ----------------------------
(***************************************************************************)
(* Two lists of tunnels besides the default one and none.                  *)
(***************************************************************************)
EXTENDS DroneConfig

CONSTANTS a, b
=============================================================================
