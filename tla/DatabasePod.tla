------------------------------ MODULE DatabasePod ------------------------------
(***************************************************************************)
(* One pod of a node pool: the pilot of its database, which prepares the   *)
(* container and starts the database, the two probes that the controllers  *)
(* put in the pod, and the kubelet that sends them and restarts the        *)
(* container.                                                              *)
(*                                                                         *)
(* A Cassandra node reads the attributes of its bean one after another, in *)
(* any order, while its ring goes on changing.                             *)
(***************************************************************************)
EXTENDS NodeTool, Naturals

CONSTANTS Databases,  \* what the pod may run: "cassandra", "elasticsearch"
          Files,      \* files that the pilot has to write
          Plugins,    \* plugins that the pilot has to install
          Self,       \* the host of this node
          Peers,      \* the other hosts of its ring
          MaxFaults,  \* steps that fail, exits of the database
          MaxChanges  \* changes of the ring

VARIABLES
  db,              \* the database
  pilot,           \* what the pilot does
  todo,            \* files or plugins that are left for the hook that runs
  files, plugins,  \* of the container
  node,            \* the database: its state in the ring, once it answers
  client,          \* the pilot has a client of Elasticsearch
  live,            \* hosts that the node takes for live
  probe,           \* the probe that the kubelet has sent, or "none"
  got, asked,      \* attributes in the answer to it, and those read so far
  seen, heard,     \* history: states of the node and live hosts meanwhile
  result, ready,   \* of each probe: its last result and how often in a row
  answer,          \* history: the last answer, and if the node just joined then
  faults, changes  \* how many are left

containerVars == <<pilot, todo, files, plugins, client>>
ringVars      == <<node, live, seen, heard>>
readVars      == <<probe, got, asked>>
kubeletVars   == <<result, ready, answer>>
vars == <<db, containerVars, ringVars, readVars, kubeletVars, faults, changes>>

Hosts   == Peers \cup {Self}
Members == {"joining", "normal", "moving", "leaving"}
Answers == Members \cup {"left"}
Probes  == {"ReadinessProbe", "LivenessProbe"}

\* serveHealthz: the check behind each port.
Listener(port) == IF port = 12001 THEN "ReadinessCheck" ELSE "LivenessCheck"

\* The probes in the pods of each database.
ProbeSpec ==
  [cassandra |->
     [ReadinessProbe |-> [port |-> 12000, success |-> 3, failure |-> 1],
      LivenessProbe  |-> [port |-> 12001, success |-> 1, failure |-> 6]],
   elasticsearch |->
     [ReadinessProbe |-> [port |-> 12001, success |-> 1, failure |-> 3],
      LivenessProbe  |-> [port |-> 12000, success |-> 1, failure |-> 5]]]

NoResult == [ok |-> FALSE, times |-> 0]
Nothing  == [a \in Attributes |-> {}]

Init ==
  /\ db \in Databases
  /\ pilot = "down" /\ todo = {} /\ client = FALSE
  /\ files = [f \in Files |-> "image"] /\ plugins = {}
  /\ node = "off" /\ live = Hosts /\ seen = {} /\ heard = {}
  /\ probe = "none" /\ got = Nothing /\ asked = {}
  /\ result = [p \in Probes |-> NoResult] /\ ready = FALSE
  /\ answer = [of |-> "none", ok |-> FALSE, starting |-> FALSE]
  /\ faults = MaxFaults /\ changes = MaxChanges

Fault == faults > 0 /\ faults' = faults - 1

Meanwhile(history, new) == IF probe = "none" THEN history ELSE history \cup {new}

-----------------------------------------------------------------------------
(* The pilot.                                                              *)

PilotLeaves == UNCHANGED <<db, ringVars, readVars, kubeletVars, changes>>

\* The container starts on the file system of its image.
StartContainer ==
  /\ pilot = "down"
  /\ pilot' = "new" /\ todo' = {} /\ client' = FALSE
  /\ files' = [f \in Files |-> "image"] /\ plugins' = {}
  /\ PilotLeaves /\ UNCHANGED faults

\* The Cassandra pilot rewrites its file before anything else and gives up if it
\* cannot; the hooks of the Elasticsearch pilot come later.
NewPilot ==
  /\ pilot = "new"
  /\ \/ /\ db = "cassandra"
        /\ files' = [f \in Files |-> "pilot"] /\ pilot' = "start"
        /\ UNCHANGED <<todo, faults>>
     \/ /\ db = "cassandra" /\ Fault
        /\ \E broken \in SUBSET Files :
             files' = [f \in Files |-> IF f \in broken THEN "part" ELSE files[f]]
        /\ pilot' = "down" /\ UNCHANGED todo
     \/ /\ db = "elasticsearch"
        /\ pilot' = "config" /\ todo' = Files
        /\ UNCHANGED <<files, faults>>
  /\ PilotLeaves /\ UNCHANGED <<plugins, client>>

\* Copies one file, and moves on to the plugins after the last.  A hook that
\* fails starts from its beginning with the next sync.
WriteConfig ==
  /\ pilot = "config"
  /\ \/ /\ todo = {} /\ pilot' = "plugins"
        /\ UNCHANGED <<todo, files, faults>>
     \/ \E f \in todo :
          /\ files' = [files EXCEPT ![f] = "pilot"] /\ todo' = todo \ {f}
          /\ UNCHANGED <<pilot, faults>>
     \/ /\ Fault /\ todo' = Files
        /\ files' \in {files} \cup {[files EXCEPT ![f] = "part"] : f \in todo}
        /\ UNCHANGED pilot
  /\ PilotLeaves /\ UNCHANGED <<plugins, client>>

getInstalledPlugins ==
  /\ pilot = "plugins"
  /\ \/ pilot' = "install" /\ todo' = Plugins \ plugins /\ UNCHANGED faults
     \/ Fault /\ UNCHANGED <<pilot, todo>>
  /\ PilotLeaves /\ UNCHANGED <<files, plugins, client>>

\* What is installed cannot be installed again.
InstallPlugins ==
  /\ pilot = "install"
  /\ \/ /\ todo = {} /\ pilot' = "start"
        /\ UNCHANGED <<todo, plugins, faults>>
     \/ \E p \in todo \ plugins :
          /\ plugins' = plugins \cup {p} /\ todo' = todo \ {p}
          /\ UNCHANGED <<pilot, faults>>
     \/ /\ todo # {} /\ Fault
        /\ pilot' = "plugins" /\ UNCHANGED <<todo, plugins>>
  /\ PilotLeaves /\ UNCHANGED <<files, client>>

Start ==
  /\ pilot = "start"
  /\ \/ /\ pilot' = "running"
        /\ node' = "silent" /\ seen' = Meanwhile(seen, "silent")
        /\ UNCHANGED faults
     \/ Fault /\ UNCHANGED <<pilot, node, seen>>
  /\ UNCHANGED <<db, todo, files, plugins, client, live, heard, readVars,
                 kubeletVars, changes>>

\* The goroutine of the Elasticsearch pilot that tries until it is answered.
Connect ==
  /\ db = "elasticsearch" /\ ~client /\ node \in Answers
  /\ client' = TRUE
  /\ PilotLeaves /\ UNCHANGED <<pilot, todo, files, plugins, faults>>

\* The database is gone and its pilot with it; the kubelet starts to count anew.
Gone ==
  /\ pilot' = "down" /\ node' = "off"
  /\ probe' = "none" /\ got' = Nothing /\ asked' = {}
  /\ seen' = {} /\ heard' = {}
  /\ result' = [p \in Probes |-> NoResult] /\ ready' = FALSE
  /\ UNCHANGED <<db, todo, files, plugins, client, live, changes>>

Exit == pilot = "running" /\ Fault /\ Gone /\ UNCHANGED answer

-----------------------------------------------------------------------------
(* The database.                                                           *)

Moves == {<<"silent", "joining">>, <<"silent", "normal">>,
          <<"joining", "normal">>, <<"normal", "moving">>,
          <<"moving", "normal">>, <<"normal", "leaving">>, <<"leaving", "left">>}

RingLeaves == UNCHANGED <<db, containerVars, readVars, kubeletVars, faults>>

\* Elasticsearch only starts to answer.
Move ==
  /\ \E s \in Answers :
       /\ <<node, s>> \in Moves
       /\ db = "elasticsearch" => node = "silent" /\ s = "normal"
       /\ node' = s /\ seen' = Meanwhile(seen, s)
  /\ changes > 0 /\ changes' = changes - 1
  /\ RingLeaves /\ UNCHANGED <<live, heard>>

\* Another set of hosts is live for the node.
Gossip ==
  /\ db = "cassandra" /\ node \in Answers
  /\ \E hosts \in SUBSET Hosts :
       live' = hosts /\ heard' = Meanwhile(heard, hosts)
  /\ changes > 0 /\ changes' = changes - 1
  /\ RingLeaves /\ UNCHANGED <<node, seen>>

\* An attribute as the bean has it in state s of the node with hosts live.
Attribute(a, s, hosts) ==
  LET If(t) == IF s = t THEN {Self} ELSE {}
  IN CASE a = "HostIdMap"        -> IF s \in Members THEN Hosts ELSE Hosts \ {Self}
       [] a = "LiveNodes"        -> hosts
       [] a = "UnreachableNodes" -> Hosts \ hosts
       [] a = "LeavingNodes"     -> If("leaving")
       [] a = "JoiningNodes"     -> If("joining")
       [] OTHER                  -> If("moving")

-----------------------------------------------------------------------------
(* The probes.                                                             *)

check(p) == Listener(ProbeSpec[db][p].port)

BeginProbe ==
  /\ pilot # "down" /\ probe = "none"
  /\ probe' \in Probes
  /\ got' = Nothing /\ asked' = {} /\ seen' = {node} /\ heard' = {live}
  /\ UNCHANGED <<db, containerVars, node, live, kubeletVars, faults, changes>>

StorageService ==
  /\ probe # "none" /\ db = "cassandra" /\ node \in Answers
  /\ \E a \in Attributes \ asked :
       /\ got' = [got EXCEPT ![a] = Attribute(a, node, live)]
       /\ asked' = asked \cup {a}
  /\ UNCHANGED <<db, containerVars, ringVars, probe, kubeletVars, faults, changes>>

\* Nothing changes in the ring while the probe is on its way.
Steady == (\A s, t \in seen : s = t) /\ (\A h, k \in heard : h = k)

\* The container is killed when its liveness probe has failed often enough.
Answered(ok) ==
  LET spec == ProbeSpec[db][probe]
      last == result[probe]
      need == IF ok THEN spec.success ELSE spec.failure
      n    == IF last.ok # ok THEN 1
              ELSE IF last.times < need THEN last.times + 1 ELSE need
  IN /\ answer' = [of |-> probe, ok |-> ok,
                   starting |-> db = "cassandra" /\ seen = {"joining"} /\ Steady]
     /\ IF probe = "LivenessProbe" /\ ~ok /\ n = need
        THEN Gone
        ELSE /\ result' = [result EXCEPT ![probe] = [ok |-> ok, times |-> n]]
             /\ ready' = IF probe = "ReadinessProbe" /\ n = need THEN ok ELSE ready
             /\ probe' = "none" /\ got' = Nothing /\ asked' = {}
             /\ seen' = {} /\ heard' = {}
             /\ UNCHANGED <<db, containerVars, node, live, changes>>
     /\ UNCHANGED faults

\* Nobody listens yet, or the database does not answer the check.
CheckFails ==
  /\ probe # "none"
  /\ \/ pilot \in {"down", "new"}
     \/ /\ node \notin Answers
        /\ (db = "cassandra" \/ check(probe) = "ReadinessCheck")
  /\ Answered(FALSE)

CassandraChecks ==
  /\ probe # "none" /\ db = "cassandra" /\ asked = Attributes
  /\ Answered(IF check(probe) = "ReadinessCheck"
              THEN localNodeUpAndNormal(got, Self) ELSE StatusKnown(got))

\* LivenessCheck is content with anything; ReadinessCheck panics, and the
\* server closes the connection, as long as there is no client.
ElasticsearchChecks ==
  /\ probe # "none" /\ db = "elasticsearch"
  /\ pilot \notin {"down", "new"}
  /\ \/ check(probe) = "LivenessCheck" /\ Answered(TRUE)
     \/ check(probe) = "ReadinessCheck" /\ node \in Answers /\ Answered(client)

-----------------------------------------------------------------------------
Next ==
  \/ StartContainer \/ NewPilot \/ WriteConfig \/ getInstalledPlugins
  \/ InstallPlugins \/ Start \/ Connect \/ Exit
  \/ Move \/ Gossip
  \/ BeginProbe \/ StorageService
  \/ CheckFails \/ CassandraChecks \/ ElasticsearchChecks

Spec == Init /\ [][Next]_vars

-----------------------------------------------------------------------------

\* The database runs on what its pilot prepared, whatever failed before: no
\* file is missing or written in part, and every plugin is installed.
RunsPrepared ==
  node # "off" => /\ \A f \in Files : files[f] = "pilot"
                  /\ db = "elasticsearch" => Plugins \subseteq plugins

Complete == probe # "none" /\ db = "cassandra" /\ asked = Attributes

\* localNodeUpAndNormal reports no node that was not live, and none that was not
\* normal, at some moment while it was asked, although its answer mixes moments
\* and a node may leave the ring between them.
ReadyWasNormal ==
  Complete /\ localNodeUpAndNormal(got, Self) =>
    /\ \E hosts \in heard : Self \in hosts
    /\ "normal" \in seen \/ {"leaving", "left"} \subseteq seen

\* The assertions of Status find nothing unexpected in a ring that does not
\* change while it is asked, whatever state the node is in.
SteadyIsKnown ==
  Complete /\ Steady => StatusKnown(got)

\* pkg/pilot/cassandra/v3/pilot.go: "If a node is recovering, or still starting
\* up, the readiness probe should fail but liveness should pass."
StartingNodeSpared ==
  answer.starting => answer.ok = (answer.of = "LivenessProbe")
=============================================================================
