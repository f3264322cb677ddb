--------------------------- MODULE MCTunnelRegistry ---------------------------
(***************************************************************************)
(* Tunnel a is configured and both a and b are started and stopped by      *)
(* commands; a stop and a start of a may come in one answer.  Broken has   *)
(* no port and so no factory.                                              *)
(***************************************************************************)
EXTENDS TunnelRegistry

CONSTANTS m1, m2, m3

A == [type |-> "tcp", port |-> "5760", label |-> "a"]
B == [type |-> "cmd", port |-> "", label |-> "b"]
Broken == [type |-> "tcp", port |-> "", label |-> "b"]

Start(e) == [op |-> "start", entry |-> e]
Stop(e) == [op |-> "stop", entry |-> e]

OneEndpoint == <<A>>
MCBatches == {<<>>, <<Start(A)>>, <<Stop(A)>>, <<Stop(A), Start(A)>>,
              <<Start(B), Stop(A)>>, <<Stop(B), Start(Broken)>>}

NoBatches == {<<>>}
=============================================================================
