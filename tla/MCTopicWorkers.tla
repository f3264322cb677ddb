---------------------------- MODULE MCTopicWorkers ----------------------------
(***************************************************************************)
(* Three POSTs for one topic, so that a worker ends, a second one starts   *)
(* and a third is refused, and two DELETEs that race with them.            *)
(***************************************************************************)
EXTENDS TopicWorkers

CONSTANTS t, p1, p2, p3, s1, s2

MCPostTopic == [p \in Posts |-> t]
MCStopTopic == [s \in Stops |-> t]
=============================================================================
