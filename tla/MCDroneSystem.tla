---------------------------- MODULE MCDroneSystem ----------------------------
(***************************************************************************)
(* Tunnel a is configured, and is stopped and started by commands, issued  *)
(* in either order.                                                        *)
(***************************************************************************)
EXTENDS DroneSystem

CONSTANTS d, stopA, startA, b1, m1, m2

A == [type |-> "tcp", port |-> "5760", label |-> "a"]

OneEndpoint == <<A>>
MCEventOf == [c \in Commands |-> [op |-> IF c = stopA THEN "stop" ELSE "start",
                                  entry |-> A]]
=============================================================================
