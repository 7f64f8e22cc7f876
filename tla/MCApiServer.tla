------------------------------ MODULE MCApiServer ------------------------------
(***************************************************************************)
(* Objects of each kind with a value in every field, and edits of them.    *)
(***************************************************************************)
EXTENDS ApiServer

\* A tree of type t, for a field n, in which the fields of Zeros are left out.
RECURSIVE Fill(_, _, _)

Fill(n, t, Zeros) ==
  IF IsText(t) THEN <<n, IF n \in Zeros THEN 0 ELSE 1>>
  ELSE [m \in Names(V1alpha1, t) |->
          LET f == Field(V1alpha1, t, m)
          IN IF f.form # "ref" THEN Fill(m, f.of, Zeros)
             ELSE IF m \in Zeros THEN <<>> ELSE <<Fill(m, f.of, Zeros)>>]

Optional == {"Replicas", "Rack", "Datacenter", "Persistence", "NodeSelector",
             "PullPolicy", "Image", "Plugins", "MinimumMasters", "RunAsUser",
             "NodePools", "Conditions", "Health", "Elasticsearch", "Cassandra"}
Always   == {"Paused", "d", "semver"}

Full(t)  == Fill(t, t, Always)
Bare(t)  == LET o == Fill(t, t, Always \cup Optional)
            IN [o EXCEPT !.Spec.NodePools = <<Fill("NodePools",
                                               t \o "NodePool", Always \cup Optional)>>]

Pool(o, f, v)  == [o EXCEPT !.Spec.NodePools[1][f] = v]
Twice(o)       == [o EXCEPT !.Spec.NodePools = @ \o @]
Pause(o)       == [o EXCEPT !.Spec.NavigatorClusterConfig.Paused = <<"Paused", 1>>]
Masters(o)     == Pool(o, "Roles", One("Roles", Master))
Electable(o,n) == [Masters(o) EXCEPT !.Spec.NodePools[1].Replicas = One("Replicas", n)]
Minimum(o, n)  == [o EXCEPT !.Spec.MinimumMasters = One("MinimumMasters", n)]

Cass == "CassandraCluster"
ES   == "ElasticsearchCluster"

Scenario(k, db, bodies, n) ==
  [kind |-> k, database |-> db, bodies |-> bodies, submissions |-> n, ns |-> "active",
   nsMoves |-> FALSE, controller |-> TRUE, standalone |-> FALSE]

CassBodies == LET o == Full(Cass) IN
  {o, Bare(Cass), Pause(Pool(o, "Persistence", <<>>)),
   Twice(Pool(o, "Rack", One("Rack", 2)))}

ESBodies == LET o == Masters(Full(ES)) IN
  {o, Masters(Bare(ES)), Pool(o, "Roles", One("Roles", 1)),
   Electable(Bare(ES), 2), Minimum(Electable(Bare(ES), 2), 1),
   Pause(Minimum(Electable(o, 3), 2))}

PilotBody == Fill("Pilot", "Pilot", Always \cup Optional)

Standalone(s) == [s EXCEPT !.standalone = TRUE]

AllScenarios ==
  {Standalone(Scenario(Cass, "none", CassBodies, 2)),
   Standalone(Scenario(ES, "none", ESBodies, 2)),
   Standalone(Scenario("Pilot", "Cassandra", {PilotBody}, 2)),
   Standalone(Scenario("Pilot", "Elasticsearch", {PilotBody}, 1)),
   Scenario("Pilot", "Cassandra", {Full("Pilot")}, 1),
   [Scenario("Pilot", "none", {PilotBody}, 1)
      EXCEPT !.nsMoves = TRUE, !.controller = FALSE, !.ns = "absent"]}
=============================================================================
