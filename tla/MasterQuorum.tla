----------------------------- MODULE MasterQuorum ------------------------------
(***************************************************************************)
(* The number of master nodes an Elasticsearch cluster needs to elect a    *)
(* master: what the API server accepts as Spec.MinimumMasters and what the *)
(* controller writes as minimum_master_nodes.  An optional number is a     *)
(* sequence of at most one number.                                         *)
(***************************************************************************)
EXTENDS Integers, Sequences

\* Mutant: half of the nodes are taken for a majority.
CalculateHalf(num) == IF num \in {0, 1} THEN num ELSE (num + 1) \div 2

CalculateQuorum(num) ==
  IF num = 0 THEN 0 ELSE IF num = 1 THEN 1 ELSE (num \div 2) + 1

\* The switch in ValidateElasticsearchClusterSpec.
ValidMinimumMasters(minimum, masters) ==
  /\ masters # 0
  /\ minimum # <<>> => /\ minimum[1] # 0
                       /\ minimum[1] >= CalculateQuorum(masters)
                       /\ minimum[1] <= masters

\* generateConfig
MinimumMasterNodes(minimum, masters) ==
  IF minimum = <<>> THEN CalculateQuorum(masters) ELSE minimum[1]
=============================================================================
