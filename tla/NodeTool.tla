------------------------------- MODULE NodeTool -------------------------------
(***************************************************************************)
(* pkg/cassandra/nodetool: what a Cassandra node tells of its ring through *)
(* Jolokia, and the status and state of a node that are derived from it.   *)
(* No two hosts have one id, so that a host stands for its id.             *)
(***************************************************************************)

\* The attributes of the StorageService bean that Status uses: sets of hosts.
Attributes == {"HostIdMap", "LiveNodes", "UnreachableNodes",
               "LeavingNodes", "JoiningNodes", "MovingNodes"}

setsIntersect(a, b) == a \cap b # {}

\* Some node is reported in more than one status or in more than one state.
Unexpected(ss) ==
  \/ setsIntersect(ss.LiveNodes, ss.UnreachableNodes)
  \/ setsIntersect(ss.LeavingNodes, ss.JoiningNodes)
  \/ setsIntersect(ss.LeavingNodes, ss.MovingNodes)
  \/ setsIntersect(ss.JoiningNodes, ss.MovingNodes)

NodeStatus(ss, host) ==
  IF host \in ss.LiveNodes THEN "Up"
  ELSE IF host \in ss.UnreachableNodes THEN "Down"
  ELSE "Unknown"

NodeState(ss, host) ==
  IF host \in ss.LeavingNodes THEN "Leaving"
  ELSE IF host \in ss.JoiningNodes THEN "Joining"
  ELSE IF host \in ss.MovingNodes THEN "Moving"
  ELSE "Normal"

\* The node that was asked, when it is among those that have reported their id.
LocalNode(ss, local) == ss.HostIdMap \cap {local}

\* LivenessCheck of the Cassandra pilot: Status returns no error.
StatusKnown(ss) == ~Unexpected(ss)

\* ReadinessCheck of the Cassandra pilot, on the local host.
localNodeUpAndNormal(ss, local) ==
  /\ StatusKnown(ss)
  /\ LocalNode(ss, local) # {}
  /\ \A node \in LocalNode(ss, local) :
       NodeStatus(ss, node) = "Up" /\ NodeState(ss, node) = "Normal"
=============================================================================
