--------------------------- MODULE DatabasePodProofs ---------------------------
(***************************************************************************)
(* What holds of DatabasePod for any files, plugins, hosts, faults and     *)
(* changes of the ring.                                                    *)
(***************************************************************************)
EXTENDS DatabasePod, TLAPS

-----------------------------------------------------------------------------
(* The container.                                                          *)

\* What the pilot has done so far at each of its steps.  RunsPrepared alone is
\* not inductive: it does not tell what Start finds.
Prepared ==
  /\ files \in [Files -> {"image", "part", "pilot"}]
  /\ node # "off" => pilot = "running"
  /\ pilot = "config" => \A f \in Files \ todo : files[f] = "pilot"
  /\ pilot \in {"plugins", "install", "start", "running"} =>
       \A f \in Files : files[f] = "pilot"
  /\ pilot = "install" => Plugins \subseteq plugins \cup todo
  /\ pilot \in {"start", "running"} /\ db = "elasticsearch" =>
       Plugins \subseteq plugins

\* A pod starts with its pilot down and nothing done.
LEMMA PreparedInit == Init => Prepared
BY SMT, Z3, Zenon DEF Init, Prepared

\* Whatever a hook, a start or a kill by the kubelet does, the pilot knows what
\* it has done: no step of Next breaks Prepared.
LEMMA PreparedKept == Prepared /\ [Next]_vars => Prepared'
<1> SUFFICES ASSUME Prepared, [Next]_vars PROVE Prepared'
  OBVIOUS
<1> USE DEF Prepared
<1>1. CASE StartContainer
  BY <1>1 DEF StartContainer, PilotLeaves, ringVars
<1>2. CASE NewPilot
  BY <1>2 DEF NewPilot, PilotLeaves, ringVars
<1>3. CASE WriteConfig
  BY <1>3 DEF WriteConfig, PilotLeaves, ringVars
<1>4. CASE getInstalledPlugins
  BY <1>4 DEF getInstalledPlugins, PilotLeaves, ringVars
<1>5. CASE InstallPlugins
  BY <1>5 DEF InstallPlugins, PilotLeaves, ringVars
<1>6. CASE Start
  BY <1>6 DEF Start
<1>7. CASE Connect
  BY <1>7 DEF Connect, PilotLeaves, ringVars
<1>8. CASE Exit
  BY <1>8 DEF Exit, Gone
<1>9. CASE Move
  BY <1>9 DEF Move, RingLeaves, containerVars, Moves
<1>10. CASE Gossip
  BY <1>10 DEF Gossip, RingLeaves, containerVars
<1>11. CASE BeginProbe
  BY <1>11 DEF BeginProbe, containerVars
<1>12. CASE StorageService
  BY <1>12, SMT, Z3, Zenon DEF StorageService, containerVars, ringVars
<1>13. ASSUME NEW ok, Answered(ok) PROVE Prepared'
  BY <1>13 DEF Answered, Gone, containerVars
<1>14. CASE CheckFails
  BY <1>13, <1>14, Zenon DEF CheckFails
<1>15. CASE CassandraChecks
  BY <1>13, <1>15 DEF CassandraChecks
<1>16. CASE ElasticsearchChecks
  BY <1>13, <1>16, Zenon DEF ElasticsearchChecks
<1>17. CASE UNCHANGED vars
  BY <1>17 DEF vars, containerVars, ringVars
<1> QED
  BY <1>1, <1>2, <1>3, <1>4, <1>5, <1>6, <1>7, <1>8, <1>9, <1>10, <1>11, <1>12,
     <1>14, <1>15, <1>16, <1>17 DEF Next

\* WriteConfig, InstallPlugins and the rewriting of cassandra.yaml in NewPilot
\* may fail at any file or plugin and be repeated, and the container may be
\* restarted at any time: the database never runs on less than all of it.
THEOREM AlwaysPrepared == Spec => []RunsPrepared
<1>1. Prepared => RunsPrepared
  BY DEF Prepared, RunsPrepared
<1> QED
  BY <1>1, PreparedInit, PreparedKept, PTL DEF Spec

-----------------------------------------------------------------------------
(* The probes of a Cassandra node.                                         *)

\* Where the node may have been without having been normal.
Away == {{"off", "silent", "joining"}, {"moving"}, {"leaving", "left"}}

\* The answer that is being put together: each attribute in it is the bean's at
\* some moment since the probe was sent.
Mixed ==
  /\ node \in {"off", "silent"} \cup Answers
  /\ got \in [Attributes -> SUBSET Hosts]
  /\ live \subseteq Hosts
  /\ probe # "none" =>
       /\ node \in seen /\ live \in heard
       /\ \A a \in asked : \E s \in seen \cap Answers, h \in heard :
            h \subseteq Hosts /\ got[a] = Attribute(a, s, h)
       /\ "normal" \notin seen => \E places \in Away : seen \subseteq places

\* What the bean tells is about the hosts of its ring.
LEMMA AttributeHosts ==
  ASSUME NEW a, NEW s, NEW h \in SUBSET Hosts
  PROVE  Attribute(a, s, h) \subseteq Hosts
BY DEF Attribute, Hosts

\* The attributes that the checks look at, one by one.
LEMMA AttributeValues ==
  ASSUME NEW s, NEW h
  PROVE  /\ Attribute("HostIdMap", s, h) = IF s \in Members THEN Hosts ELSE Hosts \ {Self}
         /\ Attribute("LiveNodes", s, h) = h
         /\ Attribute("UnreachableNodes", s, h) = Hosts \ h
         /\ Attribute("LeavingNodes", s, h) = IF s = "leaving" THEN {Self} ELSE {}
         /\ Attribute("JoiningNodes", s, h) = IF s = "joining" THEN {Self} ELSE {}
         /\ Attribute("MovingNodes", s, h) = IF s = "moving" THEN {Self} ELSE {}
BY DEF Attribute

\* A probe that is over leaves nothing to be answered.
LEMMA ProbeOver ==
  ASSUME Mixed, probe' = "none", got' = Nothing, live' = live,
         node' \in {node, "off"}
  PROVE  Mixed'
BY DEF Mixed, Nothing

\* The ring may change at any moment of a probe, and the container with it.
LEMMA MixedKept == Prepared /\ Mixed /\ [Next]_vars => Mixed'
<1> SUFFICES ASSUME Prepared, Mixed, [Next]_vars PROVE Mixed'
  OBVIOUS
<1>1. ASSUME UNCHANGED <<ringVars, readVars>> PROVE Mixed'
  BY <1>1 DEF Mixed, ringVars, readVars
<1>2. CASE StartContainer \/ NewPilot \/ WriteConfig \/ getInstalledPlugins
           \/ InstallPlugins \/ Connect
  BY <1>1, <1>2 DEF StartContainer, NewPilot, WriteConfig, getInstalledPlugins,
                    InstallPlugins, Connect, PilotLeaves
<1>3. CASE Start
  <2>1. CASE UNCHANGED <<node, seen>>
    BY <1>1, <1>3, <2>1 DEF Start, ringVars
  <2>2. CASE node' = "silent" /\ seen' = Meanwhile(seen, "silent")
    <3>1. node = "off" /\ UNCHANGED <<live, heard, probe, got, asked>>
      BY <1>3 DEF Start, Prepared, readVars
    <3> QED
      BY <2>2, <3>1 DEF Meanwhile, Mixed, Away
  <2> QED
    BY <1>3, <2>1, <2>2 DEF Start
<1>4. CASE Exit
  BY <1>4, ProbeOver DEF Exit, Gone
<1>5. CASE Move
  <2> PICK s \in Answers : <<node, s>> \in Moves /\ node' = s
                            /\ seen' = Meanwhile(seen, s)
    BY <1>5 DEF Move
  <2>1. UNCHANGED <<live, heard, probe, got, asked>>
    BY <1>5 DEF Move, RingLeaves, readVars
  <2> QED
    BY <2>1 DEF Mixed, Meanwhile, Moves, Away, Answers, Members
<1>6. CASE Gossip
  <2> PICK hosts \in SUBSET Hosts : live' = hosts /\ heard' = Meanwhile(heard, hosts)
    BY <1>6 DEF Gossip
  <2>1. UNCHANGED <<node, seen, probe, got, asked>>
    BY <1>6 DEF Gossip, RingLeaves, readVars
  <2> QED
    BY <2>1 DEF Mixed, Meanwhile
<1>7. CASE BeginProbe
  <2>1. /\ got' = Nothing /\ asked' = {} /\ seen' = {node} /\ heard' = {live}
        /\ UNCHANGED <<node, live>>
    BY <1>7 DEF BeginProbe
  <2> QED
    BY <2>1 DEF Mixed, Nothing, Away, Answers, Members
<1>8. CASE StorageService
  <2> PICK a \in Attributes \ asked :
             got' = [got EXCEPT ![a] = Attribute(a, node, live)] /\ asked' = asked \cup {a}
    BY <1>8, Zenon DEF StorageService
  <2>1. node \in Answers /\ UNCHANGED <<node, live, seen, heard, probe>> /\ probe # "none"
    BY <1>8 DEF StorageService, ringVars
  <2>2. got' \in [Attributes -> SUBSET Hosts]
    BY AttributeHosts DEF Mixed
  <2>3. ASSUME NEW b \in asked'
        PROVE  \E s \in seen \cap Answers, h \in heard :
                 h \subseteq Hosts /\ got'[b] = Attribute(b, s, h)
    <3>1. CASE b = a
      BY <2>1, <3>1 DEF Mixed
    <3>2. CASE b # a
      BY <2>1, <2>3, <3>2 DEF Mixed
    <3> QED
      BY <3>1, <3>2
  <2> QED
    BY <2>1, <2>2, <2>3 DEF Mixed
<1>9. ASSUME NEW ok, Answered(ok) PROVE Mixed'
  BY <1>9, ProbeOver DEF Answered, Gone
<1>10. CASE CheckFails \/ CassandraChecks \/ ElasticsearchChecks
  BY <1>9, <1>10, Zenon DEF CheckFails, CassandraChecks, ElasticsearchChecks
<1>11. CASE UNCHANGED vars
  BY <1>1, <1>11 DEF vars
<1> QED
  BY <1>2, <1>3, <1>4, <1>5, <1>6, <1>7, <1>8, <1>10, <1>11 DEF Next

\* The bean starts with nothing asked.
LEMMA MixedInit == Init => Mixed
BY DEF Init, Mixed, Nothing, Hosts

\* A node that the check finds up and normal was live at some moment of the
\* probe, and it was normal at some moment, or else it left the ring meanwhile:
\* the attributes that are read one by one cannot make up a normal node.
LEMMA ReadyFromMixed == Mixed => ReadyWasNormal
<1> SUFFICES ASSUME Mixed, Complete, localNodeUpAndNormal(got, Self)
             PROVE  /\ \E hosts \in heard : Self \in hosts
                    /\ "normal" \in seen \/ {"leaving", "left"} \subseteq seen
  BY DEF ReadyWasNormal
<1>1. \A a \in Attributes : \E s \in seen \cap Answers, h \in heard :
        got[a] = Attribute(a, s, h)
  BY Zenon DEF Mixed, Complete
<1>2. /\ Self \in got.HostIdMap /\ Self \in got.LiveNodes
      /\ Self \notin got.LeavingNodes /\ Self \notin got.JoiningNodes
      /\ Self \notin got.MovingNodes
  BY DEF localNodeUpAndNormal, LocalNode, NodeStatus, NodeState
<1>3. \E hosts \in heard : Self \in hosts
  BY <1>1, <1>2, AttributeValues DEF Attributes
<1>4. PICK idMap, leaving, joining, moving \in seen \cap Answers :
        idMap \in Members /\ leaving # "leaving"
        /\ joining # "joining" /\ moving # "moving"
  <2>1. \E s \in seen \cap Answers : s \in Members
    BY <1>1, <1>2, AttributeValues DEF Attributes
  <2>2. \E s \in seen \cap Answers : s # "leaving"
    BY <1>1, <1>2, AttributeValues DEF Attributes
  <2>3. \E s \in seen \cap Answers : s # "joining"
    BY <1>1, <1>2, AttributeValues DEF Attributes
  <2>4. \E s \in seen \cap Answers : s # "moving"
    BY <1>1, <1>2, AttributeValues DEF Attributes
  <2> QED
    BY <2>1, <2>2, <2>3, <2>4
<1>5. ASSUME "normal" \notin seen PROVE {"leaving", "left"} \subseteq seen
  <2>1. PICK places \in Away : seen \subseteq places
    BY <1>5 DEF Mixed, Complete
  <2> QED
    BY <1>4, <2>1 DEF Away, Answers, Members
<1> QED
  BY <1>3, <1>5

\* In a ring that stands still the attributes are all of one moment, and the
\* bean has no node in two of the sets that Status compares.
LEMMA KnownFromMixed == Mixed => SteadyIsKnown
<1> SUFFICES ASSUME Mixed, Complete, Steady PROVE StatusKnown(got)
  BY DEF SteadyIsKnown
<1>1. \A a \in Attributes : got[a] = Attribute(a, node, live)
  BY Zenon DEF Mixed, Complete, Steady
<1> QED
  BY <1>1, AttributeValues DEF Attributes, StatusKnown, Unexpected, setsIntersect

\* The readiness of a Cassandra node (localNodeUpAndNormal) is never made up
\* from attributes of different moments, however the ring changes meanwhile.
THEOREM ReadinessIsReal == Spec => []ReadyWasNormal
BY MixedInit, PreparedInit, PreparedKept, MixedKept, ReadyFromMixed, PTL DEF Spec

\* The assertions of nodetool's Status (nodes in two states or statuses) fail
\* on no ring that stands still.
THEOREM SteadyRingKnown == Spec => []SteadyIsKnown
BY MixedInit, PreparedInit, PreparedKept, MixedKept, KnownFromMixed, PTL DEF Spec
=============================================================================
