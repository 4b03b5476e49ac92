-------------------------- MODULE MCWorkflowRuntime --------------------------
(***************************************************************************)
(* Small workflows for the runs over WorkflowRuntime.  Each .cfg file picks*)
(* one of them and the transition ceiling it is admitted with.             *)
(***************************************************************************)
EXTENDS WorkflowRuntime, Capacity

MCGeneral == GeneralCeiling(Node, Finalizer, Retries)
MCCloud == CloudCeiling(Node, Finalizer, Retries, Handler)

\* From(R)[n]: the nodes that n takes from by R, a set of <<taker, giver>>.
From(R) == [n \in Node |-> {p \in Node : <<n, p>> \in R}]
NoEdge == From({})
Rounds(R) == [n \in Node |-> IF \E r \in R : r[1] = n
                             THEN (CHOOSE r \in R : r[1] = n)[2] ELSE 0]
NoRetry == Rounds({})
Starts(R) == [n \in Node |-> IF \E r \in R : r[1] = n
                             THEN (CHOOSE r \in R : r[1] = n)[2]
                             ELSE "Pending"]
AllPending == {Starts({})}

\* Graph: the condition of 3 reads an output of 2 and the disposition of the
\* advisory 1, on which 3 depends; 4 depends on 3, reads an output of 3 and has
\* a condition on the disposition of 5, an independent advisory step with a condition on
\* the workflow's inputs, which is checked again once when it fails.
GraphControl == From({<<3, 1>>, <<4, 3>>})
GraphBody == From({<<4, 3>>})
GraphCondition == From({<<3, 2>>})
GraphDisposition == From({<<3, 1>>, <<4, 5>>})
GraphRetries == Rounds({<<5, 1>>})
GraphSeed == {Starts({}), Starts({<<2, "InheritedSucceeded">>}),
              Starts({<<1, "InheritedSkipped">>, <<5, "InheritedSucceeded">>})}

\* One step, or step 1, has two rounds of recovery through a handler.
HandlerRetries == Rounds({<<1, 2>>})

\* Finalizers: 3 always runs if its condition on step 1 allows, 4 reads an
\* output of 3, 5 cleans up after 3 when the run did not succeed.
FinalBody == From({<<4, 3>>})
FinalControl == From({<<5, 3>>})
FinalCondition == From({<<3, 1>>})
FinalWhen == [n \in Node |-> CASE n = 3 -> Triggers
                               [] n = 4 -> {"Succeeded"}
                               [] n = 5 -> {"Failed", "Cancelled"}
                               [] OTHER -> {}]

\* Stopped: 3 reads an output of 2 and has a condition on an output of 1.
StoppedBody == From({<<3, 2>>})
StoppedCondition == From({<<3, 1>>})
=============================================================================
