--------------------------- MODULE MCElasticsearch ---------------------------
(* Instances of ElasticsearchCluster for TLC.                              *)
EXTENDS ElasticsearchCluster

Request(pools, replicas, version, paused) ==
  [pools |-> pools, replicas |-> replicas, version |-> version,
   paused |-> paused]

Changes(specs) == {e \in specs \X specs : e[1] # e[2]}

Names  == <<"configMap1", "configMap2">>

First  == {1}
Second == {2}

\* A pool of masters is upgraded, or goes on after a pause.
Masters(n, version) == Request({1}, <<n, 0>>, version, FALSE)
Paused              == Request({1}, <<1, 0>>, 1, TRUE)

\* Next to a master, a pool of data nodes is shrunk, removed and added.
DataNodes(n)     == Request({1, 2}, <<1, n>>, 1, FALSE)
WithoutDataNodes == Request({1}, <<1, 0>>, 1, FALSE)

AllEdits == UNION {Changes({Masters(n, 1), Masters(n, 2)}) : n \in 1 .. 2}
              \cup {<<Paused, Masters(1, 1)>>}
              \cup Changes({DataNodes(1), WithoutDataNodes})
              \cup {<<DataNodes(2), DataNodes(1)>>}

Ours       == [r \in Resources |-> "this"]
Incomplete == [Ours EXCEPT !["roleBinding"] = "none", !["configMap2"] = "none"]
Taken      == [Ours EXCEPT !["role"] = "other"]

Start(spec, o, l, edits, moves, errors) ==
  [spec |-> spec, objs |-> o, labelled |-> l,
   budget |-> [edits |-> edits, moves |-> moves,
               errors |-> errors]]

AllScenarios ==
  {Start(Masters(2, 1), Ours, TRUE, 1, 0, 0),
   Start(Masters(1, 1), Ours, TRUE, 1, 1, 0),
   Start(Paused, Ours, TRUE, 1, 1, 0),
   Start(Masters(1, 1), Ours, FALSE, 1, 0, 0),
   Start(DataNodes(2), Ours, TRUE, 1, 0, 0),
   Start(DataNodes(1), Ours, TRUE, 1, 0, 0),
   Start(WithoutDataNodes, Incomplete, FALSE, 1, 0, 1),
   Start(DataNodes(1), Taken, TRUE, 1, 0, 0)}

\* A pool without nodes is upgraded before the pool of a master.
NoNodesYet(version) == Request({1, 2}, <<0, 1>>, version, FALSE)
EmptyPool           == {Start(NoNodesYet(1), Ours, FALSE, 1, 0, 0)}
EmptyPoolEdits      == Changes({NoNodesYet(1), NoNodesYet(2)})
=============================================================================
