------------------------------- MODULE Capacity -------------------------------
(***************************************************************************)
(* The transition ceilings of crates/execution/src/workflow/capacity.rs    *)
(* for a workflow given as the reducer's constants.                        *)
(***************************************************************************)
EXTENDS Naturals, FiniteSets, FiniteSetsExt

\* 3 workflow transitions without finalizers, 6 with them, and `weight` for
\* every node and every recovery round.
WeightedBound(nodes, finalizers, weight) ==
  weight * nodes + (IF finalizers = 0 THEN 3 ELSE 6)

RecoveryRounds(nodes, retries) == MapThenSumSet(LAMBDA n : retries[n], nodes)

WeightedNodesUnrecovered(nodes, retries) == Cardinality(nodes)

WeightedNodes(nodes, retries) ==
  Cardinality(nodes) + RecoveryRounds(nodes, retries)

\* The ceiling of a local run.
GeneralCeiling(nodes, finalizers, retries) ==
  WeightedBound(WeightedNodes(nodes, retries), Cardinality(finalizers), 5)

\* The ceiling of a run under a cloud assignment.
CloudCeiling(nodes, finalizers, retries, handlers) ==
  WeightedBound(WeightedNodes(nodes, retries), Cardinality(finalizers), 4)
    + RecoveryRounds(nodes \cap handlers, retries)
=============================================================================
