------------------------------ MODULE MCCassandra -----------------------------
(* Instances of CassandraCluster for TLC. *)
EXTENDS CassandraCluster

\* Initial states of the services, service account, role and role binding
Ours        == [r \in Resources |-> "this"]
NothingYet  == [r \in Resources |-> "none"]
NoRoleYet   == [Ours EXCEPT !["role"] = "none"]
RoleForeign == [Ours EXCEPT !["role"] = "other"]

Budget(edits, deletes, failures, errors, crashes) ==
  [f \in Faults |-> CASE f = "edits"    -> edits
                      [] f = "deletes"  -> deletes
                      [] f = "failures" -> failures
                      [] f = "errors"   -> errors
                      [] f = "crashes"  -> crashes]

\* A new cluster with nothing there yet.
New(pools, desired, budget_) ==
  [pools |-> pools, desired |-> desired, established |-> FALSE, foreign |-> {},
   objs |-> NothingYet, budget |-> budget_]

\* A complete cluster.
Complete(desired, budget_) ==
  [New({1}, desired, budget_) EXCEPT !.established = TRUE, !.objs = Ours]

\* A failing call and a restart while two pools are brought up; two of edits, a
\* lost pod and a failing call for a complete pool beside a foreign StatefulSet.
Safety ==
  {New({1, 2}, 2, Budget(0, 0, 0, 1, 1))}
    \cup {[Complete(1, b) EXCEPT !.foreign = {2}, !.objs = o] :
             o \in {Ours, RoleForeign},
             b \in {Budget(2, 0, 1, 0, 0), Budget(1, 0, 1, 1, 0)}}

\* An edit or a lost pod and a restart while a pool is brought up, an edit and a
\* lost pod after that; the deletion of an empty cluster.
Progress ==
  {New({1}, 1, b) : b \in {Budget(1, 0, 0, 0, 1), Budget(0, 0, 1, 0, 1)}}
    \cup {Complete(1, Budget(1, 0, 1, 0, 0)),
          [Complete(0, Budget(0, 1, 0, 0, 0)) EXCEPT !.objs = NoRoleYet]}

SeedFails == {New({1}, 1, Budget(0, 0, 0, 1, 0))}
=============================================================================
