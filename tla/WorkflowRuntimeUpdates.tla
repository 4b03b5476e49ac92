----------------------- MODULE WorkflowRuntimeUpdates -----------------------
(***************************************************************************)
(* The updates a reduction is made of, and what each of them preserves.    *)
(*                                                                         *)
(* A reduction is a composition of loops over elementary updates.  Inv is  *)
(* an invariant of every elementary update, hence of a reduction, and      *)
(* Advances is a transitive relation between a state and any later one.    *)
(* Settles and Moves add what holds only inside a reduction.               *)
(***************************************************************************)
EXTENDS WorkflowRuntime, LoopTheorems, FiniteSetTheorems

\* The gate, the reason and the primary issue of a phase fit together.
GateInv(s) ==
  /\ s.workflow = "Executing" =>
       /\ s.gate # "Settled"
       /\ s.gate = "Open" => s.primary_issue = NoNode
       /\ s.gate = "Cancelling" <=> s.reason # "None"
  /\ s.workflow = "Finalizing" =>
       /\ s.gate # "Settled"
       /\ s.trigger # "None"
       /\ s.ordinary_reason # "None" => s.trigger \in {"Failed", "Cancelled"}

\* A finalizer waits while the ordinary phase executes, and for ever after the
\* ordinary phase was force-aborted.
FinalizerInv(s) ==
  /\ s.workflow = "Executing" =>
       \A f \in Finalizer : s.state[f] = "Pending" /\ s.target_execution[f] = 0
  /\ s.force_abort = "Ordinary" =>
       /\ s.gate \in {"Cancelling", "Settled"}
       /\ \A f \in Finalizer :
            /\ s.target_execution[f] = 0
            /\ s.state[f] \in {"Pending", "NotRun", "Cancelled"}
            /\ s.state[f] = "Cancelled" => s.detail[f] = "ForceAbort"

Inv(s) ==
  /\ s \in State
  /\ Cardinality(ActiveNodes(s)) <= MaxParallel
  /\ GateInv(s)
  /\ FinalizerInv(s)

\* The cancellation reason that a run will report for its ordinary phase.
Carried(s) == IF s.workflow = "Finalizing" THEN s.ordinary_reason ELSE s.reason

Advances(s, t) ==
  /\ \A n \in Node : /\ Terminal(s, n) => t.state[n] = s.state[n]
                     /\ t.state[n] = "Pending" => s.state[n] = "Pending"
  /\ s.primary_issue # NoNode => t.primary_issue = s.primary_issue
  /\ \/ t.workflow = s.workflow
     \/ s.workflow = "Executing"
     \/ s.workflow = "Finalizing" /\ Over(t)
  /\ s.gate = "Cancelling" /\ t.workflow = s.workflow
       => t.gate = "Cancelling" /\ t.reason = s.reason
  /\ Carried(s) # "None" => Carried(t) = Carried(s)

\* A reduction changes force_abort only when it accepts a force abort; most of
\* its updates leave the phase alone, too.
Settles(s, t) == Inv(t) /\ Advances(s, t) /\ t.force_abort = s.force_abort
Moves(s, t) == Settles(s, t) /\ t.workflow = s.workflow

-----------------------------------------------------------------------------
(* The relations.                                                          *)

\* An update that changes nothing advances.
LEMMA AdvancesReflexive ==
  ASSUME NEW s
  PROVE  Advances(s, s)
BY DEF Advances

\* Two updates in a row advance if each does.
LEMMA AdvancesTransitive ==
  ASSUME NEW s \in State, NEW t \in State, NEW u \in State,
         Advances(s, t), Advances(t, u)
  PROVE  Advances(s, u)
<1>1. \A n \in Node : /\ Terminal(s, n) => u.state[n] = s.state[n]
                      /\ u.state[n] = "Pending" => s.state[n] = "Pending"
  BY DEF Advances, Terminal
<1>2. s.primary_issue # NoNode => u.primary_issue = s.primary_issue
  BY DEF Advances
<1>3. \/ u.workflow = s.workflow
      \/ s.workflow = "Executing"
      \/ s.workflow = "Finalizing" /\ Over(u)
  BY DEF Advances, Over
<1>4. u.workflow = s.workflow => t.workflow = s.workflow
  BY DEF Advances, Over
<1>5. s.gate = "Cancelling" /\ u.workflow = s.workflow
        => u.gate = "Cancelling" /\ u.reason = s.reason
  BY <1>4 DEF Advances
<1>6. Carried(s) # "None" => Carried(u) = Carried(s)
  BY DEF Advances
<1> QED BY <1>1, <1>2, <1>3, <1>5, <1>6 DEF Advances

\* A loop with nothing to do settles and moves.
LEMMA SettlesReflexive ==
  ASSUME NEW s, Inv(s)
  PROVE  Settles(s, s) /\ Moves(s, s)
BY AdvancesReflexive DEF Settles, Moves

\* Updates that settle compose.
LEMMA SettlesTransitive ==
  ASSUME NEW s, NEW t, NEW u, Inv(s), Settles(s, t), Settles(t, u)
  PROVE  Settles(s, u)
<1>1. s \in State /\ t \in State /\ u \in State
  BY DEF Settles, Inv
<1>2. Advances(s, u)
  BY <1>1, AdvancesTransitive DEF Settles
<1> QED BY <1>2 DEF Settles

\* Updates that move compose.
LEMMA MovesTransitive ==
  ASSUME NEW s, NEW t, NEW u, Inv(s), Moves(s, t), Moves(t, u)
  PROVE  Moves(s, u)
BY SettlesTransitive DEF Moves

-----------------------------------------------------------------------------
(* Loops.                                                                  *)

\* The rounds a loop is given are a natural number.
LEMMA FuelType == 2 * Cardinality(Node) + 3 \in Nat
BY NodeAssumption, FS_CardinalityType

\* A loop moves if its body moves from every state of the same phase.
LEMMA LoopMoves ==
  ASSUME NEW s, Inv(s), NEW f,
         \A t \in State : /\ Inv(t)
                          /\ t.workflow = s.workflow
                          /\ t.force_abort = s.force_abort
                          => Moves(t, f[t])
  PROVE  Moves(s, Repeat(f, s))
<1> DEFINE T == {t \in State : Moves(s, t)}
<1>1. T \in SUBSET State
  OBVIOUS
<1>2. \A t \in T : f[t] \in T
  <2> TAKE t \in T
  <2>1. Moves(s, t) /\ Inv(t) /\ t \in State
    BY DEF Moves, Settles
  <2>2. Moves(t, f[t])
    BY <2>1 DEF Moves, Settles
  <2>3. Moves(s, f[t])
    BY <2>1, <2>2, MovesTransitive
  <2> QED BY <2>3 DEF Moves, Settles, Inv
<1>3. s \in T
  BY SettlesReflexive DEF Inv
<1> HIDE DEF T
<1>4. While(State, f)[2 * Cardinality(Node) + 3][s] \in T
  BY <1>1, <1>2, <1>3, FuelType, WhilePreserves
<1> QED BY <1>4 DEF T, Repeat

\* A loop settles if its body does.
LEMMA LoopSettles ==
  ASSUME NEW s, Inv(s), NEW f,
         \A t \in State : Inv(t) => Settles(t, f[t])
  PROVE  Settles(s, Repeat(f, s))
<1> DEFINE T == {t \in State : Settles(s, t)}
<1>1. T \in SUBSET State
  OBVIOUS
<1>2. \A t \in T : f[t] \in T
  <2> TAKE t \in T
  <2>1. Settles(s, t) /\ Inv(t) /\ t \in State
    BY DEF Settles
  <2>2. Settles(t, f[t])
    BY <2>1
  <2>3. Settles(s, f[t])
    BY <2>1, <2>2, SettlesTransitive
  <2> QED BY <2>3 DEF Settles, Inv
<1>3. s \in T
  BY SettlesReflexive DEF Inv
<1> HIDE DEF T
<1>4. While(State, f)[2 * Cardinality(Node) + 3][s] \in T
  BY <1>1, <1>2, <1>3, FuelType, WhilePreserves
<1> QED BY <1>4 DEF T, Repeat

\* The first of a set of nodes, in the order of the id-keyed maps, is one of
\* them.
LEMMA FirstIn ==
  ASSUME NEW S \in SUBSET Node, S # {}
  PROVE  First(S) \in S
<1>1. S \in SUBSET Nat
  BY NodeAssumption
<1>2. \E n \in S : \A m \in S : n <= m
  BY <1>1, LeastNatural
<1> QED BY <1>2 DEF First

-----------------------------------------------------------------------------
(* Elementary updates.                                                     *)

SamePhase(s, t) ==
  /\ t.workflow = s.workflow /\ t.gate = s.gate /\ t.reason = s.reason
  /\ t.primary_issue = s.primary_issue /\ t.trigger = s.trigger
  /\ t.ordinary_reason = s.ordinary_reason /\ t.force_abort = s.force_abort

SameNodes(s, t) ==
  /\ t.state = s.state /\ t.target_execution = s.target_execution
  /\ t.detail = s.detail

\* The active nodes can be counted against maximum_parallel_steps.
LEMMA ActiveNodesFinite ==
  ASSUME NEW s
  PROVE  /\ IsFiniteSet(ActiveNodes(s))
         /\ Cardinality(ActiveNodes(s)) \in Nat
BY NodeAssumption, FS_Subset, FS_CardinalityType DEF ActiveNodes

\* An update of records that the invariant does not read.
LEMMA QuietMove ==
  ASSUME NEW s, Inv(s), NEW t \in State, SamePhase(s, t), SameNodes(s, t)
  PROVE  Moves(s, t)
<1>1. ActiveNodes(t) = ActiveNodes(s)
  BY DEF ActiveNodes, SameNodes
<1>2. GateInv(t)
  BY DEF Inv, GateInv, SamePhase
<1>3. FinalizerInv(t)
  BY DEF Inv, FinalizerInv, SamePhase, SameNodes
<1>4. Advances(s, t)
  BY DEF Advances, SamePhase, SameNodes, Carried
<1> QED BY <1>1, <1>2, <1>3, <1>4 DEF Moves, Settles, Inv, SamePhase

\* One node leaves an unsettled state.
LEMMA NodeMove ==
  ASSUME NEW s, Inv(s), NEW t \in State, NEW n \in Node, NEW to \in StepState,
         SamePhase(s, t),
         t.state = [s.state EXCEPT ![n] = to],
         \A m \in Node \ {n} : /\ t.target_execution[m] = s.target_execution[m]
                               /\ t.detail[m] = s.detail[m],
         ~Terminal(s, n), to # "Pending",
         \/ to \notin Active
         \/ s.state[n] \in Active
         \/ Cardinality(ActiveNodes(s)) < MaxParallel,
         n \in Finalizer => s.workflow # "Executing",
         n \in Finalizer /\ s.force_abort = "Ordinary" =>
           /\ t.target_execution[n] = 0
           /\ \/ to = "NotRun"
              \/ to = "Cancelled" /\ t.detail[n] = "ForceAbort"
  PROVE  Moves(s, t)
<1>0. s \in State /\ s.state \in [Node -> StepState]
  BY DEF Inv, State
<1>1. Cardinality(ActiveNodes(t)) <= MaxParallel
  <2>1. ActiveNodes(t) \subseteq ActiveNodes(s) \cup {n}
    BY <1>0 DEF ActiveNodes
  <2>2. Cardinality(ActiveNodes(s)) <= MaxParallel /\ MaxParallel \in Nat
    BY LimitAssumption DEF Inv
  <2>3. CASE to \notin Active \/ s.state[n] \in Active
    <3>1. ActiveNodes(t) \subseteq ActiveNodes(s)
      BY <1>0, <2>3 DEF ActiveNodes
    <3>2. Cardinality(ActiveNodes(t)) <= Cardinality(ActiveNodes(s))
      BY <3>1, ActiveNodesFinite, FS_Subset
    <3> QED BY <3>2, <2>2, ActiveNodesFinite
  <2>4. CASE Cardinality(ActiveNodes(s)) < MaxParallel
    <3>1. /\ IsFiniteSet(ActiveNodes(s) \cup {n})
          /\ Cardinality(ActiveNodes(s) \cup {n})
               <= Cardinality(ActiveNodes(s)) + 1
      <4>1. /\ IsFiniteSet(ActiveNodes(s) \cup {n})
            /\ \/ Cardinality(ActiveNodes(s) \cup {n})
                    = Cardinality(ActiveNodes(s))
               \/ Cardinality(ActiveNodes(s) \cup {n})
                    = Cardinality(ActiveNodes(s)) + 1
        BY ActiveNodesFinite, FS_AddElement, Zenon
      <4> QED BY <4>1, ActiveNodesFinite
    <3>2. Cardinality(ActiveNodes(t))
            <= Cardinality(ActiveNodes(s) \cup {n})
      BY <2>1, <3>1, FS_Subset
    <3>3. Cardinality(ActiveNodes(s) \cup {n}) \in Nat
      BY <3>1, FS_CardinalityType
    <3> QED BY <3>1, <3>2, <3>3, <2>2, <2>4, ActiveNodesFinite
  <2> QED BY <2>3, <2>4
<1>2. GateInv(t)
  BY DEF Inv, GateInv, SamePhase
<1>3. FinalizerInv(t)
  <2>1. ASSUME t.workflow = "Executing", NEW f \in Finalizer
        PROVE  t.state[f] = "Pending" /\ t.target_execution[f] = 0
    <3>1. f # n /\ f \in Node
      BY <2>1, NodeAssumption DEF SamePhase
    <3> QED BY <1>0, <2>1, <3>1 DEF Inv, FinalizerInv, SamePhase
  <2>2. ASSUME t.force_abort = "Ordinary"
        PROVE  t.gate \in {"Cancelling", "Settled"}
    BY <2>2 DEF Inv, FinalizerInv, SamePhase
  <2>3. ASSUME t.force_abort = "Ordinary", NEW f \in Finalizer
        PROVE  /\ t.target_execution[f] = 0
               /\ t.state[f] \in {"Pending", "NotRun", "Cancelled"}
               /\ t.state[f] = "Cancelled" => t.detail[f] = "ForceAbort"
    <3>1. CASE f = n
      BY <1>0, <2>3, <3>1 DEF SamePhase
    <3>2. CASE f # n
      <4>1. f \in Node \ {n}
        BY <3>2, NodeAssumption
      <4> QED BY <1>0, <2>3, <4>1 DEF Inv, FinalizerInv, SamePhase
    <3> QED BY <3>1, <3>2
  <2> QED BY <2>1, <2>2, <2>3 DEF FinalizerInv
<1>4. Advances(s, t)
  BY <1>0 DEF Advances, SamePhase, Carried, Terminal
<1> QED BY <1>1, <1>2, <1>3, <1>4 DEF Moves, Settles, Inv, SamePhase

\* Numbering a transition touches neither phase nor nodes, also at the
\* ceiling.
LEMMA NextSequenceFacts ==
  ASSUME NEW s \in State
  PROVE  /\ NextSequence(s) \in State
         /\ SamePhase(s, NextSequence(s))
         /\ SameNodes(s, NextSequence(s))
<1>1. CASE s.sequence + 1 > MaxTransitions
  <2>1. NextSequence(s) = [s EXCEPT !.exceeded = TRUE]
    BY <1>1 DEF NextSequence
  <2>2. [s EXCEPT !.exceeded = TRUE] \in State
    BY Zenon DEF State
  <2>3. SamePhase(s, [s EXCEPT !.exceeded = TRUE])
    BY DEF State, SamePhase
  <2>4. SameNodes(s, [s EXCEPT !.exceeded = TRUE])
    BY DEF State, SameNodes
  <2> QED BY <2>1, <2>2, <2>3, <2>4
<1>2. CASE ~(s.sequence + 1 > MaxTransitions)
  <2>1. NextSequence(s) = [s EXCEPT !.sequence = @ + 1]
    BY <1>2 DEF NextSequence
  <2>2. [s EXCEPT !.sequence = @ + 1] \in State
    BY DEF State
  <2>3. SamePhase(s, [s EXCEPT !.sequence = @ + 1])
    BY DEF State, SamePhase
  <2>4. SameNodes(s, [s EXCEPT !.sequence = @ + 1])
    BY DEF State, SameNodes
  <2> QED BY <2>1, <2>2, <2>3, <2>4
<1> QED BY <1>1, <1>2

\* transition_step changes the state of its node and nothing else a property
\* reads.
LEMMA TransitionStepFacts ==
  ASSUME NEW s \in State, NEW n \in Node, NEW to \in StepState,
         NEW a \in ActionId
  PROVE  /\ TransitionStep(s, n, to, a) \in State
         /\ SamePhase(s, TransitionStep(s, n, to, a))
         /\ TransitionStep(s, n, to, a).state = [s.state EXCEPT ![n] = to]
         /\ TransitionStep(s, n, to, a).target_execution = s.target_execution
         /\ TransitionStep(s, n, to, a).detail = s.detail
<1> DEFINE r == NextSequence(s)
           t == [r EXCEPT !.state[n] = to, !.current_action[n] = a]
<1>1. r \in State /\ SamePhase(s, r) /\ SameNodes(s, r)
  BY NextSequenceFacts
<1> HIDE DEF r
<1>2. t \in State
  BY Zenon, <1>1 DEF State
<1>3. /\ SamePhase(r, t) /\ t.state = [r.state EXCEPT ![n] = to]
      /\ t.target_execution = r.target_execution /\ t.detail = r.detail
  BY <1>1 DEF State, SamePhase
<1>4. SamePhase(s, t)
  BY <1>1, <1>3 DEF SamePhase
<1>5. /\ t.state = [s.state EXCEPT ![n] = to]
      /\ t.target_execution = s.target_execution /\ t.detail = s.detail
  BY <1>1, <1>3 DEF SameNodes
<1> HIDE DEF t
<1>6. TransitionStep(s, n, to, a) = t
  BY DEF TransitionStep, r, t
<1> QED BY <1>2, <1>4, <1>5, <1>6

\* Pending, active and settled step states are told apart.
LEMMA StateNames ==
  /\ Executing \subseteq Active /\ Active \subseteq StepState
  /\ "Cancelling" \in Active
  /\ Settled \subseteq StepState
  /\ "Pending" \in StepState /\ "Pending" \notin Active
  /\ "Pending" \notin Settled
  /\ \A x \in Settled : x \notin Active
  /\ {"Succeeded", "Failed", "Blocked", "Skipped", "NotRun", "Cancelled"}
       \subseteq Settled
  /\ {"Starting", "Running", "CapturingOutputs", "RecoveringStarting",
      "RecoveringRunning"} \subseteq Executing
BY DEF Executing, Active, Settled, StepState, Inherited

\* The ids given to actions are action ids.
LEMMA ActionIds ==
  /\ NoAction \in ActionId
  /\ \A s \in State : Latest(s) \in ActionId
BY DEF NoAction, ActionId, Latest, State

\* A node that a reduction may still move, whatever it moves it to.
Movable(s, n) ==
  /\ ~Terminal(s, n)
  /\ n \in Finalizer => s.workflow # "Executing" /\ s.force_abort # "Ordinary"

\* transition_step moves a movable node to any state but Pending that takes
\* no new slot.
LEMMA TransitionMoves ==
  ASSUME NEW s, Inv(s), NEW n \in Node, Movable(s, n),
         NEW to \in StepState, to # "Pending",
         to \notin Active \/ s.state[n] \in Active,
         NEW a \in ActionId
  PROVE  Moves(s, TransitionStep(s, n, to, a))
<1> DEFINE t == TransitionStep(s, n, to, a)
<1>1. s \in State
  BY DEF Inv
<1>2. /\ t \in State /\ SamePhase(s, t) /\ t.state = [s.state EXCEPT ![n] = to]
      /\ t.target_execution = s.target_execution /\ t.detail = s.detail
  BY <1>1, TransitionStepFacts
<1> HIDE DEF t
<1>3. Moves(s, t)
  BY <1>2, NodeMove DEF Movable
<1> QED BY <1>3 DEF t

\* Forgetting the active invocation of a node moves.
LEMMA ClearActiveInvocationMoves ==
  ASSUME NEW s, Inv(s), NEW n \in Node
  PROVE  Moves(s, ClearActiveInvocation(s, n))
<1> DEFINE t == [s EXCEPT !.active_invocation[n] = "None"]
<1>1. s \in State
  BY DEF Inv
<1>2. t \in State /\ SamePhase(s, t) /\ SameNodes(s, t)
  BY Zenon, <1>1 DEF State, SamePhase, SameNodes
<1> QED BY <1>2, QuietMove DEF ClearActiveInvocation

\* A required failure of a step closes an open gate and never replaces a
\* primary issue.
LEMMA CloseOrdinaryGateMoves ==
  ASSUME NEW s, Inv(s), NEW n \in Node
  PROVE  Moves(s, CloseOrdinaryGateForFailure(s, n))
<1> DEFINE r == NextSequence(s)
           t == [r EXCEPT !.gate = "FailureStopped", !.primary_issue = n]
<1>1. s \in State
  BY DEF Inv
<1>2. r \in State /\ SamePhase(s, r) /\ SameNodes(s, r)
  BY <1>1, NextSequenceFacts
<1>3. CASE s.workflow = "Executing" /\ s.gate = "Open"
  <2> HIDE DEF r
  <2>1. t \in State
    BY Zenon, <1>2 DEF State
  <2>2. /\ SameNodes(s, t)
        /\ t.workflow = s.workflow /\ t.force_abort = s.force_abort
        /\ t.reason = s.reason /\ t.ordinary_reason = s.ordinary_reason
        /\ t.trigger = s.trigger
        /\ t.gate = "FailureStopped" /\ t.primary_issue = n
    BY <1>2 DEF State, SamePhase, SameNodes
  <2> HIDE DEF t
  <2>3. ActiveNodes(t) = ActiveNodes(s)
    BY <2>2 DEF SameNodes, ActiveNodes
  <2>4. GateInv(t)
    BY <1>3, <2>2 DEF GateInv, Inv
  <2>5. FinalizerInv(t)
    BY <1>3, <2>2 DEF FinalizerInv, Inv, SameNodes
  <2>6. Advances(s, t)
    BY <1>3, <2>2 DEF Advances, Inv, GateInv, SameNodes, Carried
  <2>7. Moves(s, t)
    BY <2>1, <2>2, <2>3, <2>4, <2>5, <2>6 DEF Moves, Settles, Inv
  <2> QED BY <1>3, <2>7 DEF CloseOrdinaryGateForFailure, t, r
<1>4. CASE ~(s.workflow = "Executing" /\ s.gate = "Open")
  BY <1>4, SettlesReflexive DEF CloseOrdinaryGateForFailure
<1> QED BY <1>3, <1>4

\* A required failure of a finalizer never replaces a primary issue.
LEMMA SelectFinalizerPrimaryIssueMoves ==
  ASSUME NEW s, Inv(s), NEW n \in Node
  PROVE  Moves(s, SelectFinalizerPrimaryIssue(s, n))
<1> DEFINE r == NextSequence(s)
           t == [r EXCEPT !.primary_issue = n]
           c == /\ s.workflow = "Finalizing" /\ s.gate = "Open"
                /\ s.primary_issue = NoNode /\ s.trigger = "Succeeded"
<1>1. s \in State
  BY DEF Inv
<1>2. r \in State /\ SamePhase(s, r) /\ SameNodes(s, r)
  BY <1>1, NextSequenceFacts
<1>3. CASE c
  <2> HIDE DEF r
  <2>1. t \in State
    BY <1>2 DEF State
  <2>2. /\ SameNodes(s, t)
        /\ t.workflow = s.workflow /\ t.force_abort = s.force_abort
        /\ t.reason = s.reason /\ t.ordinary_reason = s.ordinary_reason
        /\ t.trigger = s.trigger /\ t.gate = s.gate
    BY <1>2 DEF State, SamePhase, SameNodes
  <2> HIDE DEF t
  <2>3. ActiveNodes(t) = ActiveNodes(s)
    BY <2>2 DEF SameNodes, ActiveNodes
  <2>4. GateInv(t)
    BY <1>3, <2>2 DEF GateInv, Inv
  <2>5. FinalizerInv(t)
    BY <1>3, <2>2 DEF FinalizerInv, Inv, SameNodes
  <2>6. Advances(s, t)
    BY <1>3, <2>2 DEF Advances, SameNodes, Carried
  <2>7. Moves(s, t)
    BY <2>1, <2>2, <2>3, <2>4, <2>5, <2>6 DEF Moves, Settles, Inv
  <2> QED BY <1>3, <2>7 DEF SelectFinalizerPrimaryIssue, t, r
<1>4. CASE ~c
  BY <1>4, SettlesReflexive DEF SelectFinalizerPrimaryIssue
<1> QED BY <1>3, <1>4

\* A required issue is committed in either phase by a move.
LEMMA CommitRequiredIssueMoves ==
  ASSUME NEW s, Inv(s), NEW n \in Node
  PROVE  Moves(s, CommitRequiredIssue(s, n))
BY SettlesReflexive, CloseOrdinaryGateMoves, SelectFinalizerPrimaryIssueMoves
   DEF CommitRequiredIssue

\* Settling a node as Failed moves.
LEMMA SettleTargetFailureMoves ==
  ASSUME NEW s, Inv(s), NEW n \in Node, Movable(s, n)
  PROVE  Moves(s, SettleTargetFailure(s, n))
<1> DEFINE t == TransitionStep(s, n, "Failed", NoAction)
           u == ClearActiveInvocation(t, n)
<1>1. Moves(s, t) /\ Inv(t)
  BY TransitionMoves, StateNames, ActionIds DEF Moves, Settles
<1> HIDE DEF t
<1>2. Moves(t, u) /\ Inv(u)
  BY <1>1, ClearActiveInvocationMoves DEF Moves, Settles
<1> HIDE DEF u
<1>3. Moves(u, CommitRequiredIssue(u, n))
  BY <1>2, CommitRequiredIssueMoves
<1>4. Moves(s, CommitRequiredIssue(u, n))
  BY <1>1, <1>2, <1>3, MovesTransitive
<1> QED BY <1>4 DEF SettleTargetFailure, u, t

\* Settling a node as Blocked moves.
LEMMA SettleBlockedMoves ==
  ASSUME NEW s, Inv(s), NEW n \in Node, Movable(s, n)
  PROVE  Moves(s, SettleBlocked(s, n))
<1> DEFINE t == TransitionStep(s, n, "Blocked", NoAction)
<1>1. Moves(s, t) /\ Inv(t)
  BY TransitionMoves, StateNames, ActionIds DEF Moves, Settles
<1> HIDE DEF t
<1>2. Moves(t, CommitRequiredIssue(t, n))
  BY <1>1, CommitRequiredIssueMoves
<1>3. Moves(s, CommitRequiredIssue(t, n))
  BY <1>1, <1>2, MovesTransitive
<1> QED BY <1>3 DEF SettleBlocked, t

\* Under a force abort of the ordinary phase a finalizer may only be cancelled
\* as force-aborted.
LEMMA SettleCancelledMoves ==
  ASSUME NEW s, Inv(s), NEW n \in Node, NEW r \in AnyReason \cup {"None"},
         ~Terminal(s, n),
         n \in Finalizer => s.workflow # "Executing",
         n \in Finalizer /\ s.force_abort = "Ordinary" => r = "ForceAbort"
  PROVE  Moves(s, SettleCancelled(s, n, r))
<1> DEFINE u == TransitionStep(s, n, "Cancelled", NoAction)
           t == [u EXCEPT !.detail[n] = r]
<1>1. s \in State
  BY DEF Inv
<1>2. /\ u \in State /\ SamePhase(s, u)
      /\ u.state = [s.state EXCEPT ![n] = "Cancelled"]
      /\ u.target_execution = s.target_execution /\ u.detail = s.detail
  BY <1>1, TransitionStepFacts, StateNames, ActionIds
<1> HIDE DEF u
<1>3. t \in State
  BY Zenon, <1>2 DEF State
<1>4. /\ SamePhase(u, t) /\ t.state = u.state
      /\ t.target_execution = u.target_execution
      /\ t.detail = [u.detail EXCEPT ![n] = r]
  BY <1>2 DEF State, SamePhase
<1> HIDE DEF t
<1>5. SamePhase(s, t)
  BY <1>2, <1>4 DEF SamePhase
<1>6. s.detail \in [Node -> AnyReason \cup {"None"}]
  BY <1>1 DEF State
<1>7. /\ \A m \in Node \ {n} : /\ t.target_execution[m] = s.target_execution[m]
                               /\ t.detail[m] = s.detail[m]
      /\ t.detail[n] = r
      /\ t.target_execution[n] = s.target_execution[n]
  BY <1>2, <1>4, <1>6
<1>8. n \in Finalizer /\ s.force_abort = "Ordinary"
        => t.target_execution[n] = 0
  BY <1>7 DEF Inv, FinalizerInv
<1>9. "Cancelled" \in StepState /\ "Cancelled" \notin Active
  BY StateNames
<1>10. t.state = [s.state EXCEPT ![n] = "Cancelled"]
  BY <1>2, <1>4
<1>11. n \in Finalizer /\ s.force_abort = "Ordinary" =>
         /\ t.target_execution[n] = 0
         /\ \/ "Cancelled" = "NotRun"
            \/ "Cancelled" = "Cancelled" /\ t.detail[n] = "ForceAbort"
  BY <1>7, <1>8
<1>12. Moves(s, t)
  BY <1>3, <1>5, <1>7, <1>9, <1>10, <1>11, NodeMove
<1> QED BY <1>12 DEF SettleCancelled, t, u

\* Starting an execution moves if the node holds a slot or one is free.
LEMMA AuthorizeTargetMoves ==
  ASSUME NEW s, Inv(s), NEW n \in Node, Movable(s, n), NEW e \in Nat,
         s.state[n] \in Active \/ Cardinality(ActiveNodes(s)) < MaxParallel
  PROVE  Moves(s, AuthorizeTarget(s, n, e))
<1> DEFINE u == TransitionStep(s, n, "Starting", NoAction)
           t == [u EXCEPT !.target_execution[n]  = e,
                          !.target_invocation[n] = Latest(u),
                          !.active_invocation[n] = "Target",
                          !.current_action[n]    = Latest(u)]
<1>1. s \in State
  BY DEF Inv
<1>0. "Starting" \in StepState /\ "Starting" # "Pending"
  BY StateNames
<1>2. /\ u \in State /\ SamePhase(s, u)
      /\ u.state = [s.state EXCEPT ![n] = "Starting"]
      /\ u.target_execution = s.target_execution /\ u.detail = s.detail
  BY <1>0, <1>1, TransitionStepFacts, ActionIds
<1> HIDE DEF u
<1>3. Latest(u) \in ActionId
  BY <1>2, ActionIds
<1>4. t \in State
  BY Zenon, <1>2, <1>3 DEF State
<1>5. /\ SamePhase(u, t) /\ t.state = u.state
      /\ t.target_execution = [u.target_execution EXCEPT ![n] = e]
      /\ t.detail = u.detail
  BY <1>2 DEF State, SamePhase
<1> HIDE DEF t
<1>6. SamePhase(s, t)
  BY <1>2, <1>5 DEF SamePhase
<1>7. s.target_execution \in [Node -> Nat]
  BY <1>1 DEF State
<1>8. \A m \in Node \ {n} : /\ t.target_execution[m] = s.target_execution[m]
                            /\ t.detail[m] = s.detail[m]
  BY <1>2, <1>5, <1>7
<1>9. t.state = [s.state EXCEPT ![n] = "Starting"]
  BY <1>2, <1>5
<1>10. Moves(s, t)
  BY <1>0, <1>4, <1>6, <1>8, <1>9, NodeMove DEF Movable
<1> QED BY <1>10 DEF AuthorizeTarget, t, u

-----------------------------------------------------------------------------
(* Recovery.                                                               *)

\* Recording how a recovery ended moves no node.
LEMMA RecoveryDispositionMoves ==
  ASSUME NEW s, Inv(s), NEW n \in Node,
         NEW d \in {"Recovered", "Exhausted", "GaveUp", "HandlerFailed",
                    "Cancelled"}
  PROVE  /\ Moves(s, RecoveryDisposition(s, n, d))
         /\ RecoveryDisposition(s, n, d).state = s.state
<1> DEFINE t == [s EXCEPT !.disposition[n] = d]
<1>1. s \in State
  BY DEF Inv
<1>2. t \in State
  BY Zenon, <1>1 DEF State
<1>5. SamePhase(s, t) /\ SameNodes(s, t)
  BY <1>1 DEF State, SamePhase, SameNodes
<1>3. Moves(s, t) /\ t.state = s.state
  BY Zenon, <1>2, <1>5, QuietMove DEF SameNodes
<1> HIDE DEF t
<1>4. RecoveryDisposition(s, n, d) \in {s, t}
  BY DEF RecoveryDisposition, t
<1> QED BY <1>3, <1>4, SettlesReflexive

\* Moves and the frame of the node states keep a node movable.
LEMMA MovableKept ==
  ASSUME NEW s, NEW t, NEW n \in Node, Movable(s, n), Moves(s, t),
         t.state[n] = s.state[n]
  PROVE  Movable(t, n)
BY DEF Movable, Moves, Settles, Terminal

\* Opening a recovery round keeps the slot its node already holds.
LEMMA ActivateRecoveryRoundMoves ==
  ASSUME NEW s, Inv(s), NEW n \in Node, Movable(s, n), s.state[n] \in Active
  PROVE  Moves(s, ActivateRecoveryRound(s, n))
<1> DEFINE r == [s EXCEPT !.rounds[n] = @ + 1, !.handler[n] = "None"]
           t == TransitionStep(r, n, "RecoveringStarting", NoAction)
           u == [t EXCEPT !.active_invocation[n] = "RecoveryHandler",
                          !.handler[n]           = "Starting",
                          !.current_action[n]    = Latest(t)]
<1>1. s \in State
  BY DEF Inv
<1>2. r \in State
  <2> DEFINE k == s.rounds[n] + 1
  <2>1. k \in Nat
    BY <1>1 DEF State
  <2>2. r = [s EXCEPT !.rounds[n] = k, !.handler[n] = "None"]
    OBVIOUS
  <2> HIDE DEF k
  <2>3. [s EXCEPT !.rounds[n] = k, !.handler[n] = "None"] \in State
    BY Zenon, <1>1, <2>1 DEF State
  <2> QED BY <2>2, <2>3
<1>7. SamePhase(s, r) /\ SameNodes(s, r)
  BY <1>1 DEF State, SamePhase, SameNodes
<1> HIDE DEF r
<1>3. Moves(s, r) /\ Inv(r) /\ r.state = s.state
  BY <1>2, <1>7, QuietMove DEF Moves, Settles, SameNodes
<1>4. Movable(r, n) /\ r.state[n] \in Active
  BY <1>3, MovableKept
<1>5. CASE n \in Handler
  <2>1. "RecoveringStarting" \in StepState
    BY StateNames
  <2>2. Moves(r, t) /\ Inv(t) /\ t \in State
    BY <1>3, <1>4, <2>1, ActionIds, TransitionMoves DEF Moves, Settles, Inv
  <2> HIDE DEF t
  <2>3. Latest(t) \in ActionId
    BY <2>2, ActionIds
  <2>4. u \in State
    BY Zenon, <2>2, <2>3 DEF State
  <2>5. SamePhase(t, u) /\ SameNodes(t, u)
    BY <2>2 DEF State, SamePhase, SameNodes
  <2>6. Moves(t, u)
    BY <2>2, <2>4, <2>5, QuietMove
  <2> HIDE DEF u
  <2>7. Moves(s, u)
    BY <1>3, <2>2, <2>6, MovesTransitive
  <2>8. ActivateRecoveryRound(s, n) = u
    BY <1>5 DEF ActivateRecoveryRound, u, t, r
  <2> QED BY <2>7, <2>8
<1>6. CASE n \notin Handler
  <2>1. s.target_execution[n] + 1 \in Nat
    BY <1>1 DEF State
  <2>2. Moves(r, AuthorizeTarget(r, n, s.target_execution[n] + 1))
    BY <1>3, <1>4, <2>1, AuthorizeTargetMoves
  <2>3. Moves(s, AuthorizeTarget(r, n, s.target_execution[n] + 1))
    BY <1>3, <2>2, MovesTransitive
  <2> QED BY <1>6, <2>3 DEF ActivateRecoveryRound, r
<1> QED BY <1>5, <1>6

\* A failed execution moves, whether it opens a round, rechecks at once or
\* settles.
LEMMA ApplyStepFailureMoves ==
  ASSUME NEW s, Inv(s), NEW n \in Node, Movable(s, n), s.state[n] \in Active
  PROVE  Moves(s, ApplyStepFailure(s, n))
<1> DEFINE t == RecoveryDisposition(s, n, "Exhausted")
<1>1. Moves(s, t) /\ Inv(t) /\ t.state = s.state
  BY RecoveryDispositionMoves DEF Moves, Settles
<1> HIDE DEF t
<1>2. Movable(t, n)
  BY <1>1, MovableKept
<1>3. Moves(s, SettleTargetFailure(t, n))
  BY <1>1, <1>2, SettleTargetFailureMoves, MovesTransitive
<1>4. Moves(s, ActivateRecoveryRound(s, n))
  BY ActivateRecoveryRoundMoves
<1> QED BY <1>3, <1>4 DEF ApplyStepFailure, t

\* A failed handler settles its node by a move.
LEMMA ApplyHandlerFailureMoves ==
  ASSUME NEW s, Inv(s), NEW n \in Node, Movable(s, n)
  PROVE  Moves(s, ApplyHandlerFailure(s, n))
<1> DEFINE t == [s EXCEPT !.handler[n] = "Failed",
                          !.disposition[n] = "HandlerFailed"]
<1>1. s \in State
  BY DEF Inv
<1>2. t \in State /\ SamePhase(s, t) /\ SameNodes(s, t)
  BY Zenon, <1>1 DEF State, SamePhase, SameNodes
<1> HIDE DEF t
<1>3. Moves(s, t) /\ Inv(t) /\ t.state = s.state
  BY <1>2, QuietMove DEF Moves, Settles, SameNodes
<1>4. Movable(t, n)
  BY <1>3, MovableKept
<1>5. Moves(s, SettleTargetFailure(t, n))
  BY <1>3, <1>4, SettleTargetFailureMoves, MovesTransitive
<1> QED BY <1>5 DEF ApplyHandlerFailure, t

-----------------------------------------------------------------------------
(* Stabilisation.                                                          *)

\* A pending step may be moved, a pending finalizer only in a finalizing
\* phase that was not suppressed.
LEMMA PendingMovable ==
  ASSUME NEW s, NEW n \in Node, s.state[n] = "Pending",
         \/ n \in Ordinary
         \/ s.workflow # "Executing" /\ s.force_abort # "Ordinary"
  PROVE  Movable(s, n)
BY StateNames DEF Movable, Terminal, Ordinary

\* One round of propagate_ordinary moves.
LEMMA SettleOneOrdinaryMoves ==
  ASSUME NEW s, Inv(s)
  PROVE  Moves(s, SettleOneOrdinary(s))
<1> DEFINE Blocked == {n \in Ordinary : /\ s.state[n] = "Pending"
                                        /\ OrdinaryBlockers(s, n) # {}}
           Stopped == {n \in Ordinary : /\ s.gate = "FailureStopped"
                                        /\ OrdinaryReady(s, n)}
           n == First(Blocked \cup Stopped)
<1>1. CASE Blocked \cup Stopped = {}
  BY <1>1, SettlesReflexive DEF SettleOneOrdinary
<1>2. CASE Blocked \cup Stopped # {}
  <2>1. n \in Blocked \cup Stopped
    BY Zenon, <1>2, FirstIn DEF Ordinary
  <2>2. n \in Node /\ n \in Ordinary /\ s.state[n] = "Pending"
    BY <2>1 DEF Ordinary, OrdinaryReady
  <2>3. Movable(s, n)
    BY Zenon, <2>2, PendingMovable
  <2>4. Moves(s, SettleBlocked(s, n))
    BY <2>2, <2>3, SettleBlockedMoves
  <2>5. Moves(s, TransitionStep(s, n, "NotRun", NoAction))
    BY <2>2, <2>3, TransitionMoves, StateNames, ActionIds
  <2> QED BY <1>2, <2>4, <2>5 DEF SettleOneOrdinary
<1> QED BY <1>1, <1>2

\* One evaluated condition moves.
LEMMA EvaluateOneMoves ==
  ASSUME NEW s, Inv(s)
  PROVE  Moves(s, EvaluateOne(s))
<1> DEFINE Ready == {n \in Node : ConditionGateReady(s, n)}
           n == First(Ready)
           t == [s EXCEPT !.condition_passed[n] = TRUE]
<1>1. CASE Ready = {}
  BY <1>1, SettlesReflexive DEF EvaluateOne
<1>2. CASE Ready # {}
  <2>1. n \in Ready
    BY <1>2, FirstIn
  <2> HIDE DEF n
  <2>2. /\ n \in Node /\ s.state[n] = "Pending"
        /\ \/ n \in Ordinary
           \/ s.workflow # "Executing" /\ s.force_abort # "Ordinary"
    BY <2>1 DEF ConditionGateReady, PhaseGateOpen, Inv, FinalizerInv
  <2>3. Movable(s, n)
    BY <2>2, PendingMovable
  <2>4. Moves(s, SettleTargetFailure(s, n))
    BY <2>2, <2>3, SettleTargetFailureMoves
  <2>5. Moves(s, TransitionStep(s, n, "Skipped", NoAction))
    BY <2>2, <2>3, TransitionMoves, StateNames, ActionIds
  <2>6. Moves(s, t)
    <3>1. s \in State
      BY DEF Inv
    <3>2. t \in State
      BY Zenon, <2>2, <3>1 DEF State
    <3>3. SamePhase(s, t) /\ SameNodes(s, t)
      BY <3>1 DEF State, SamePhase, SameNodes
    <3> QED BY <3>2, <3>3, QuietMove
  <2> QED BY <1>2, <2>4, <2>5, <2>6 DEF EvaluateOne, n
<1> QED BY <1>1, <1>2

\* A finalizer its trigger does not select is settled by a move.
LEMMA SettleOneUnselectedMoves ==
  ASSUME NEW s, Inv(s), s.workflow = "Finalizing"
  PROVE  Moves(s, SettleOneUnselected(s))
<1> DEFINE Unselected == {n \in Finalizer : /\ s.state[n] = "Pending"
                                            /\ s.trigger \notin When[n]}
           n == First(Unselected)
           t == TransitionStep(s, n, "NotRun", NoAction)
<1>1. CASE Unselected = {}
  BY <1>1, SettlesReflexive DEF SettleOneUnselected
<1>2. CASE Unselected # {}
  <2>1. n \in Unselected
    BY <1>2, FirstIn, NodeAssumption
  <2>2. n \in Node /\ ~Terminal(s, n)
    BY Zenon, <2>1, StateNames, NodeAssumption DEF Terminal
  <2>3. /\ t \in State /\ SamePhase(s, t)
        /\ t.state = [s.state EXCEPT ![n] = "NotRun"]
        /\ t.target_execution = s.target_execution /\ t.detail = s.detail
    BY <2>2, TransitionStepFacts, StateNames, ActionIds DEF Inv
  <2>4. n \in Finalizer /\ s.force_abort = "Ordinary"
          => t.target_execution[n] = 0
    BY <2>3 DEF Inv, FinalizerInv
  <2>5. "NotRun" \in StepState /\ "NotRun" \notin Active
    BY StateNames
  <2> HIDE DEF t, n
  <2>6. Moves(s, t)
    BY <2>2, <2>3, <2>4, <2>5, NodeMove
  <2> QED BY <1>2, <2>6 DEF SettleOneUnselected, t, n
<1> QED BY <1>1, <1>2

\* A finalizer whose condition lost an input is blocked by a move.
LEMMA BlockOneConditionMoves ==
  ASSUME NEW s, Inv(s)
  PROVE  Moves(s, BlockOneCondition(s))
<1> DEFINE Blocked == {n \in Finalizer : /\ ConditionPending(s, n)
                                         /\ s.state[n] = "Pending"
                                         /\ PhaseGateOpen(s, n)
                                         /\ ConditionBlockers(s, n) # {}}
           n == First(Blocked)
<1>1. CASE Blocked = {}
  BY <1>1, SettlesReflexive DEF BlockOneCondition
<1>2. CASE Blocked # {}
  <2>1. n \in Blocked
    BY Zenon, <1>2, FirstIn, NodeAssumption
  <2>2. /\ n \in Node /\ s.state[n] = "Pending"
        /\ s.workflow # "Executing" /\ s.force_abort # "Ordinary"
    BY Zenon, <2>1, NodeAssumption DEF PhaseGateOpen, Ordinary, Inv, FinalizerInv
  <2>3. Moves(s, SettleBlocked(s, n))
    BY Zenon, <2>2, PendingMovable, SettleBlockedMoves
  <2> QED BY <1>2, <2>3 DEF BlockOneCondition
<1> QED BY <1>1, <1>2

\* A finalizer whose body lost an input is blocked by a move.
LEMMA BlockOneInputMoves ==
  ASSUME NEW s, Inv(s), s.force_abort # "Ordinary"
  PROVE  Moves(s, BlockOneInput(s))
<1> DEFINE Blocked == {n \in Finalizer : /\ FinalizerReady(s, n)
                                         /\ ~ConditionPending(s, n)
                                         /\ InputsUnavailable(s, n)}
           n == First(Blocked)
<1>1. CASE Blocked = {}
  BY <1>1, SettlesReflexive DEF BlockOneInput
<1>2. CASE Blocked # {}
  <2>1. n \in Blocked
    BY <1>2, FirstIn, NodeAssumption
  <2>2. n \in Node /\ s.state[n] = "Pending" /\ s.workflow # "Executing"
    BY Zenon, <2>1, NodeAssumption DEF FinalizerReady
  <2>3. Moves(s, SettleBlocked(s, n))
    BY <2>2, PendingMovable, SettleBlockedMoves
  <2> QED BY <1>2, <2>3 DEF BlockOneInput
<1> QED BY <1>1, <1>2

\* Suppressing a finalizer after a force abort moves.
LEMMA CancelOnePendingMoves ==
  ASSUME NEW s, Inv(s), s.workflow = "Finalizing"
  PROVE  Moves(s, CancelOnePending(s))
<1> DEFINE Pending == {n \in Finalizer : s.state[n] = "Pending"}
           n == First(Pending)
<1>1. CASE Pending = {}
  BY <1>1, SettlesReflexive DEF CancelOnePending
<1>2. CASE Pending # {}
  <2>1. n \in Pending
    BY <1>2, FirstIn, NodeAssumption
  <2>2. n \in Node /\ ~Terminal(s, n) /\ "ForceAbort" \in AnyReason
    BY Zenon, <2>1, NodeAssumption, StateNames DEF Terminal, AnyReason
  <2>3. Moves(s, SettleCancelled(s, n, "ForceAbort"))
    BY <2>2, SettleCancelledMoves
  <2> QED BY <1>2, <2>3 DEF CancelOnePending
<1> QED BY <1>1, <1>2

\* select_ready_nodes starts a node only in a free slot.
LEMMA StartOneMoves ==
  ASSUME NEW s, Inv(s)
  PROVE  Moves(s, StartOne(s))
<1> DEFINE Ready == {n \in Node :
                       /\ s.gate = "Open"
                       /\ \/ s.workflow = "Executing" /\ OrdinaryReady(s, n)
                          \/ /\ s.workflow = "Finalizing"
                             /\ FinalizerReady(s, n)
                             /\ ~InputsUnavailable(s, n)}
           n == First(Ready)
<1>1. CASE Cardinality(ActiveNodes(s)) >= MaxParallel \/ Ready = {}
  BY <1>1, SettlesReflexive DEF StartOne
<1>2. CASE ~(Cardinality(ActiveNodes(s)) >= MaxParallel \/ Ready = {})
  <2>1. n \in Ready
    BY <1>2, FirstIn
  <2> HIDE DEF n
  <2>2. /\ n \in Node /\ s.state[n] = "Pending"
        /\ \/ n \in Ordinary
           \/ s.workflow # "Executing" /\ s.force_abort # "Ordinary"
    BY <2>1 DEF OrdinaryReady, FinalizerReady, Inv, FinalizerInv
  <2>3. Movable(s, n)
    BY <2>2, PendingMovable
  <2>4. Cardinality(ActiveNodes(s)) < MaxParallel
    BY <1>2, ActiveNodesFinite, LimitAssumption
  <2>5. Moves(s, AuthorizeTarget(s, n, 1))
    BY <2>2, <2>3, <2>4, AuthorizeTargetMoves
  <2> QED BY <1>2, <2>5 DEF StartOne, n
<1> QED BY <1>1, <1>2

\* The loops shared by the passes of stabilize move.
LEMMA LoopsMove ==
  ASSUME NEW s, Inv(s)
  PROVE  /\ Moves(s, PropagateOrdinary(s))
         /\ Moves(s, EvaluateReadyConditions(s))
         /\ Moves(s, SelectReadyNodes(s))
         /\ s.workflow = "Finalizing" => Moves(s, PropagateTrigger(s))
<1>1. Moves(s, PropagateOrdinary(s))
  BY SettleOneOrdinaryMoves, LoopMoves DEF PropagateOrdinary
<1>2. Moves(s, EvaluateReadyConditions(s))
  BY EvaluateOneMoves, LoopMoves DEF EvaluateReadyConditions
<1>3. Moves(s, SelectReadyNodes(s))
  BY StartOneMoves, LoopMoves DEF SelectReadyNodes
<1>4. ASSUME s.workflow = "Finalizing" PROVE Moves(s, PropagateTrigger(s))
  BY <1>4, SettleOneUnselectedMoves, LoopMoves DEF PropagateTrigger
<1> QED BY <1>1, <1>2, <1>3, <1>4

\* The propagation of the finalizing phase moves.
LEMMA PropagateFinalizerMoves ==
  ASSUME NEW s, Inv(s), s.workflow = "Finalizing", s.force_abort # "Ordinary"
  PROVE  Moves(s, PropagateFinalizer(s))
<1> DEFINE t == PropagateTrigger(s)
           u == Repeat([x \in State |-> BlockOneCondition(x)], t)
           v == Repeat([x \in State |-> BlockOneInput(x)], u)
<1>1. /\ Moves(s, t) /\ Inv(t) /\ t.workflow = "Finalizing"
      /\ t.force_abort # "Ordinary"
  BY LoopsMove DEF Moves, Settles
<1> HIDE DEF t
<1>2. Moves(t, u)
  BY <1>1, BlockOneConditionMoves, LoopMoves
<1>3. Inv(u) /\ u.force_abort # "Ordinary"
  BY <1>1, <1>2 DEF Moves, Settles
<1> HIDE DEF u
<1>4. Moves(u, v)
  BY <1>3, BlockOneInputMoves, LoopMoves
<1> HIDE DEF v
<1>5. Moves(s, v)
  BY <1>1, <1>2, <1>4, MovesTransitive DEF Moves, Settles
<1> QED BY <1>5 DEF PropagateFinalizer, v, u, t

\* The ordinary outcome is one of the three triggers.
LEMMA OutcomeType ==
  ASSUME NEW s \in State
  PROVE  OrdinaryOutcome(s) \in Triggers
BY DEF OrdinaryOutcome, Triggers

\* Ending the run keeps the reason its ordinary phase carries.
LEMMA FinishRunSettles ==
  ASSUME NEW s, Inv(s), s.workflow \in {"Executing", "Finalizing"},
         NEW outcome \in Triggers, NEW r \in AnyReason \cup {"None"},
         Carried(s) # "None" => r = Carried(s)
  PROVE  Settles(s, FinishRun(s, outcome, r))
<1> DEFINE q == NextSequence(s)
           t == [q EXCEPT !.workflow = outcome, !.gate = "Settled", !.reason = r]
<1>1. s \in State
  BY DEF Inv
<1>2. q \in State /\ SamePhase(s, q) /\ SameNodes(s, q)
  BY <1>1, NextSequenceFacts
<1> HIDE DEF q
<1>3. t \in State
  <2>1. outcome \in {"Executing", "Finalizing", "Succeeded", "Failed",
                     "Cancelled"}
    BY DEF Triggers
  <2> DEFINE a == [q EXCEPT !.workflow = outcome]
             b == [a EXCEPT !.gate = "Settled"]
  <2>2. a \in State
    BY Zenon, <1>2, <2>1 DEF State
  <2> HIDE DEF a
  <2>3. b \in State
    BY Zenon, <2>2 DEF State
  <2> HIDE DEF b
  <2>4. [b EXCEPT !.reason = r] \in State
    BY <2>3 DEF State
  <2>5. t = [b EXCEPT !.reason = r]
    BY DEF a, b
  <2> QED BY <2>4, <2>5
<1>4. /\ SameNodes(s, t)
      /\ t.workflow = outcome /\ t.gate = "Settled" /\ t.reason = r
      /\ t.primary_issue = s.primary_issue /\ t.force_abort = s.force_abort
  BY <1>2 DEF State, SamePhase, SameNodes
<1> HIDE DEF t
<1>5. Over(t) /\ t.workflow \notin {"Executing", "Finalizing"}
  BY <1>4 DEF Over, Triggers
<1>6. ActiveNodes(t) = ActiveNodes(s)
  BY <1>4 DEF SameNodes, ActiveNodes
<1>7. GateInv(t)
  BY <1>5 DEF GateInv
<1>8. FinalizerInv(t)
  BY <1>4, <1>5 DEF FinalizerInv, Inv, SameNodes
<1>9. Advances(s, t)
  BY <1>4, <1>5 DEF Advances, SameNodes, Carried
<1>10. Settles(s, t)
  BY <1>3, <1>4, <1>6, <1>7, <1>8, <1>9 DEF Settles, Inv
<1>11. FinishRun(s, outcome, r) \in {s, t}
  BY DEF FinishRun, t, q
<1> QED BY <1>10, <1>11, SettlesReflexive

\* Entering finalization hands the ordinary reason over and reopens the gate
\* only if the phase was not force-aborted.
LEMMA EnterFinalizationSettles ==
  ASSUME NEW s, Inv(s), s.workflow = "Executing"
  PROVE  Settles(s, EnterFinalization(s))
<1> DEFINE q == NextSequence(s)
           o == OrdinaryOutcome(s)
           g == IF s.force_abort = "Ordinary" THEN "Cancelling" ELSE "Open"
           r == IF s.force_abort = "Ordinary" THEN "ForceAbort" ELSE "None"
           t == [q EXCEPT !.workflow = "Finalizing", !.trigger = o,
                          !.ordinary_reason = s.reason,
                          !.gate = g, !.reason = r]
<1>1. s \in State /\ s.reason \in AnyReason \cup {"None"}
  BY DEF Inv, State
<1>2. q \in State /\ SamePhase(s, q) /\ SameNodes(s, q)
  BY <1>1, NextSequenceFacts
<1>3. /\ o \in Triggers /\ g \in {"Open", "Cancelling"}
      /\ r \in AnyReason \cup {"None"}
      /\ s.force_abort = "Ordinary" => g = "Cancelling"
      /\ s.reason # "None" => o \in {"Failed", "Cancelled"}
  BY <1>1, OutcomeType DEF AnyReason, OrdinaryOutcome, Inv, GateInv
<1> HIDE DEF q, o, g, r
<1>4. t \in State
  <2>1. /\ g \in {"Open", "FailureStopped", "Cancelling", "Settled"}
        /\ o \in Triggers \cup {"None"}
    BY <1>3
  <2> DEFINE a == [q EXCEPT !.workflow = "Finalizing"]
             b == [a EXCEPT !.trigger = o]
             c == [b EXCEPT !.ordinary_reason = s.reason]
             d == [c EXCEPT !.gate = g]
  <2>2. a \in State
    BY <1>2 DEF State
  <2> HIDE DEF a
  <2>3. b \in State
    BY <2>1, <2>2 DEF State
  <2> HIDE DEF b
  <2>4. c \in State
    BY Zenon, <1>1, <2>3 DEF State
  <2> HIDE DEF c
  <2>5. d \in State
    BY <2>1, <2>4 DEF State
  <2> HIDE DEF d
  <2>6. [d EXCEPT !.reason = r] \in State
    BY <1>3, <2>5 DEF State
  <2>7. t = [d EXCEPT !.reason = r]
    BY DEF a, b, c, d
  <2> QED BY <2>6, <2>7
<1>5. /\ SameNodes(s, t)
      /\ t.workflow = "Finalizing" /\ t.gate = g /\ t.reason = r
      /\ t.trigger = o /\ t.ordinary_reason = s.reason
      /\ t.primary_issue = s.primary_issue /\ t.force_abort = s.force_abort
  BY <1>2 DEF State, SamePhase, SameNodes
<1> HIDE DEF t
<1>6. ActiveNodes(t) = ActiveNodes(s)
  BY <1>5 DEF SameNodes, ActiveNodes
<1>7. GateInv(t)
  BY <1>3, <1>5 DEF GateInv, Triggers
<1>8. FinalizerInv(t)
  BY <1>3, <1>5 DEF FinalizerInv, Inv, SameNodes
<1>9. Advances(s, t)
  BY <1>5 DEF Advances, SameNodes, Carried
<1>10. Settles(s, t)
  BY <1>4, <1>5, <1>6, <1>7, <1>8, <1>9 DEF Settles, Inv
<1>11. EnterFinalization(s) = t
  BY DEF EnterFinalization, t, q, o, g, r
<1> QED BY <1>10, <1>11

\* Leaving the ordinary phase, if every step is settled, settles.
LEMMA EnterFinalizationOrFinishSettles ==
  ASSUME NEW s, Inv(s)
  PROVE  Settles(s, EnterFinalizationOrFinish(s))
<1>1. CASE s.workflow # "Executing"
  BY <1>1, SettlesReflexive DEF EnterFinalizationOrFinish
<1>2. CASE s.workflow = "Executing"
  <2>1. s \in State /\ s.reason \in AnyReason \cup {"None"}
    BY DEF Inv, State
  <2>2. Carried(s) # "None" => s.reason = Carried(s)
    BY <1>2 DEF Carried
  <2>3. Settles(s, FinishRun(s, OrdinaryOutcome(s), s.reason))
    BY <1>2, <2>1, <2>2, OutcomeType, FinishRunSettles
  <2>4. Settles(s, EnterFinalization(s))
    BY <1>2, EnterFinalizationSettles
  <2> QED BY <2>3, <2>4, SettlesReflexive DEF EnterFinalizationOrFinish
<1> QED BY <1>1, <1>2

\* Leaving finalization, if every finalizer is settled, settles.
LEMMA FinishFinalizationSettles ==
  ASSUME NEW s, Inv(s)
  PROVE  Settles(s, FinishFinalization(s))
<1>1. CASE s.workflow # "Finalizing"
  BY <1>1, SettlesReflexive DEF FinishFinalization
<1>2. CASE s.workflow = "Finalizing"
  <2>1. /\ s \in State /\ s.reason \in AnyReason \cup {"None"}
        /\ s.ordinary_reason \in AnyReason \cup {"None"}
        /\ s.trigger \in Triggers \cup {"None"}
    BY DEF Inv, State
  <2>2. Carried(s) # "None" => FinalReason(s) = Carried(s)
    BY <1>2 DEF Carried, FinalReason, Inv, GateInv
  <2>3. FinalReason(s) \in AnyReason \cup {"None"}
    BY <2>1 DEF FinalReason
  <2>4. FinalOutcome(s) \in Triggers
    BY <1>2, <2>1, OutcomeType DEF FinalOutcome, Inv, GateInv
  <2>5. Settles(s, FinishRun(s, FinalOutcome(s), FinalReason(s)))
    BY <1>2, <2>2, <2>3, <2>4, FinishRunSettles
  <2> QED BY <2>5, SettlesReflexive DEF FinishFinalization
<1> QED BY <1>1, <1>2

\* A pass of the ordinary phase settles.
LEMMA ExecutingPassSettles ==
  ASSUME NEW s, Inv(s)
  PROVE  Settles(s, ExecutingPass(s))
<1> DEFINE a == PropagateOrdinary(s)
           b == EvaluateReadyConditions(a)
           c == PropagateOrdinary(b)
           d == SelectReadyNodes(c)
<1>1. Settles(s, a) /\ Inv(a)
  BY LoopsMove DEF Moves, Settles
<1> HIDE DEF a
<1>2. Settles(a, b) /\ Inv(b)
  BY <1>1, LoopsMove DEF Moves, Settles
<1> HIDE DEF b
<1>3. Settles(b, c) /\ Inv(c)
  BY <1>2, LoopsMove DEF Moves, Settles
<1> HIDE DEF c
<1>4. Settles(c, d) /\ Inv(d)
  BY <1>3, LoopsMove DEF Moves, Settles
<1> HIDE DEF d
<1>5. Settles(d, EnterFinalizationOrFinish(d))
  BY <1>4, EnterFinalizationOrFinishSettles
<1>6. Settles(s, c)
  BY <1>1, <1>2, <1>3, SettlesTransitive
<1>7. Settles(s, EnterFinalizationOrFinish(d))
  BY <1>6, <1>4, <1>5, SettlesTransitive
<1> QED BY <1>7 DEF ExecutingPass, a, b, c, d

\* A pass of a finalization suppressed by a force abort settles.
LEMMA SuppressedPassSettles ==
  ASSUME NEW s, Inv(s), s.workflow = "Finalizing"
  PROVE  Settles(s, SuppressedPass(s))
<1> DEFINE a == PropagateTrigger(s)
           b == Repeat([x \in State |-> CancelOnePending(x)], a)
           c == EvaluateReadyConditions(b)
           d == SelectReadyNodes(c)
<1>1. Settles(s, a) /\ Inv(a) /\ a.workflow = "Finalizing"
  BY LoopsMove DEF Moves, Settles
<1> HIDE DEF a
<1>2. Moves(a, b)
  BY <1>1, CancelOnePendingMoves, LoopMoves
<1> HIDE DEF b
<1>3. Settles(a, b) /\ Inv(b)
  BY <1>2 DEF Moves, Settles
<1>4. Settles(b, c) /\ Inv(c)
  BY <1>3, LoopsMove DEF Moves, Settles
<1> HIDE DEF c
<1>5. Settles(c, d) /\ Inv(d)
  BY <1>4, LoopsMove DEF Moves, Settles
<1> HIDE DEF d
<1>6. Settles(d, FinishFinalization(d))
  BY <1>5, FinishFinalizationSettles
<1>7. Settles(s, c)
  BY <1>1, <1>3, <1>4, SettlesTransitive
<1>8. Settles(s, FinishFinalization(d))
  BY <1>5, <1>6, <1>7, SettlesTransitive
<1> QED BY <1>8 DEF SuppressedPass, a, b, c, d

\* A pass of an ordinary finalization settles.
LEMMA FinalizingPassSettles ==
  ASSUME NEW s, Inv(s), s.workflow = "Finalizing", s.force_abort # "Ordinary"
  PROVE  Settles(s, FinalizingPass(s))
<1> DEFINE a == PropagateFinalizer(s)
           b == EvaluateReadyConditions(a)
           c == PropagateFinalizer(b)
           d == SelectReadyNodes(c)
<1>1. /\ Settles(s, a) /\ Inv(a) /\ a.workflow = "Finalizing"
      /\ a.force_abort # "Ordinary"
  BY PropagateFinalizerMoves DEF Moves, Settles
<1> HIDE DEF a
<1>2. /\ Settles(a, b) /\ Inv(b) /\ b.workflow = "Finalizing"
      /\ b.force_abort # "Ordinary"
  BY <1>1, LoopsMove DEF Moves, Settles
<1> HIDE DEF b
<1>3. Settles(b, c) /\ Inv(c)
  BY <1>2, PropagateFinalizerMoves DEF Moves, Settles
<1> HIDE DEF c
<1>4. Settles(c, d) /\ Inv(d)
  BY <1>3, LoopsMove DEF Moves, Settles
<1> HIDE DEF d
<1>5. Settles(d, FinishFinalization(d))
  BY <1>4, FinishFinalizationSettles
<1>6. Settles(s, c)
  BY <1>1, <1>2, <1>3, SettlesTransitive
<1>7. Settles(s, FinishFinalization(d))
  BY <1>4, <1>5, <1>6, SettlesTransitive
<1> QED BY <1>7 DEF FinalizingPass, a, b, c, d

\* Every pass of stabilize settles.
LEMMA PassSettles ==
  ASSUME NEW s, Inv(s)
  PROVE  Settles(s, Pass(s))
BY ExecutingPassSettles, SuppressedPassSettles, FinalizingPassSettles,
   SettlesReflexive DEF Pass

\* Whatever an occurrence did, stabilising the state it left preserves the
\* invariant and only advances the run.
LEMMA StabilizeSettles ==
  ASSUME NEW s, Inv(s)
  PROVE  Settles(s, Stabilize(s))
<1> DEFINE f == [x \in State |-> AdvancingPass(x)]
           t == Repeat(f, s)
<1>1. \A x \in State : Inv(x) => Settles(x, f[x])
  BY PassSettles, SettlesReflexive DEF AdvancingPass
<1> HIDE DEF f
<1>2. Settles(s, t) /\ Inv(t)
  BY <1>1, LoopSettles DEF Settles
<1> HIDE DEF t
<1>3. Settles(s, Pass(t))
  BY <1>2, PassSettles, SettlesTransitive
<1> QED BY <1>3 DEF Stabilize, t, f

-----------------------------------------------------------------------------
(* Cancellation.                                                           *)

\* Cancelling, containing or settling one node of the phase moves.
LEMMA CancelOneMoves ==
  ASSUME NEW s, Inv(s), NEW role \in SUBSET Node,
         NEW r \in AnyReason, NEW op \in Nat,
         \/ role = Ordinary
         \/ s.workflow # "Executing" /\ s.force_abort # "Ordinary"
  PROVE  Moves(s, CancelOne(s, role, r, op))
<1> DEFINE Todo == {n \in role : Cancellable(s, n, op)}
           n == First(Todo)
           id(x) == IF op = 0 THEN Latest(x)
                    ELSE <<op, Cardinality(Contained(s, role, op)) + 1>>
           t == TransitionStep(s, n, "Cancelling", NoAction)
           h == IF s.active_invocation[n] = "RecoveryHandler"
                THEN "Cancelled" ELSE t.handler[n]
           u == [t EXCEPT !.current_action[n] = id(t), !.detail[n] = r,
                          !.handler[n] = h]
           v == [s EXCEPT !.current_action[n] = id(s)]
<1>1. s \in State
  BY DEF Inv
<1>2. CASE Todo = {}
  BY <1>2, SettlesReflexive DEF CancelOne
<1>3. CASE Todo # {}
  <2>1. n \in Todo
    BY <1>3, FirstIn
  <2> HIDE DEF n
  <2>2. /\ n \in Node
        /\ \/ n \in Ordinary
           \/ s.workflow # "Executing" /\ s.force_abort # "Ordinary"
        /\ \/ s.state[n] = "Pending"
           \/ s.state[n] \in Executing
           \/ s.state[n] = "Cancelling"
    BY <2>1 DEF Cancellable
  <2>3. Movable(s, n)
    BY <2>2, StateNames DEF Movable, Terminal, Ordinary
  <2>4. \A x \in State : id(x) \in ActionId
    <3>1. Cardinality(Contained(s, role, op)) \in Nat
      BY NodeAssumption, FS_Subset, FS_CardinalityType DEF Contained
    <3> QED BY <3>1, ActionIds DEF ActionId
  <2> HIDE DEF id
  <2>5. CASE s.state[n] = "Pending"
    <3>1. Moves(s, SettleCancelled(s, n, r))
      BY <2>2, <2>3, SettleCancelledMoves DEF Movable
    <3> QED BY <1>3, <2>5, <3>1 DEF CancelOne, n
  <2>6. CASE s.state[n] = "Cancelling"
    <3>1. v \in State
      BY Zenon, <1>1, <2>2, <2>4 DEF State
    <3>2. SamePhase(s, v) /\ SameNodes(s, v)
      BY <1>1 DEF State, SamePhase, SameNodes
    <3>3. Moves(s, v)
      BY <3>1, <3>2, QuietMove
    <3>4. CancelOne(s, role, r, op) = v
      BY <1>3, <2>6 DEF CancelOne, n, id
    <3> QED BY <3>3, <3>4
  <2>7. CASE s.state[n] \in Executing
    <3>1. /\ t \in State /\ SamePhase(s, t)
          /\ t.state = [s.state EXCEPT ![n] = "Cancelling"]
          /\ t.target_execution = s.target_execution /\ t.detail = s.detail
      BY <1>1, <2>2, StateNames, ActionIds, TransitionStepFacts
    <3> HIDE DEF t
    <3>2. id(t) \in ActionId
      BY <2>4, <3>1
    <3>3. h \in {"None", "Starting", "Running", "Recheck", "GaveUp", "Failed",
                 "Cancelled"}
      BY <2>2, <3>1 DEF State
    <3>4. r \in AnyReason \cup {"None"}
      OBVIOUS
    <3> HIDE DEF h
    <3>5. u \in State
      BY Zenon, <2>2, <3>1, <3>2, <3>3, <3>4 DEF State
    <3>6. /\ SamePhase(t, u) /\ u.state = t.state
          /\ u.target_execution = t.target_execution
          /\ u.detail = [t.detail EXCEPT ![n] = r]
      BY <3>1 DEF State, SamePhase
    <3> HIDE DEF u
    <3>7. SamePhase(s, u)
      BY <3>1, <3>6 DEF SamePhase
    <3>8. u.state = [s.state EXCEPT ![n] = "Cancelling"]
      BY <3>1, <3>6
    <3>9. \A m \in Node \ {n} :
            /\ u.target_execution[m] = s.target_execution[m]
            /\ u.detail[m] = s.detail[m]
      <4>1. t.detail \in [Node -> AnyReason \cup {"None"}]
        BY <3>1 DEF State
      <4> QED BY <3>1, <3>6, <4>1
    <3>10. "Cancelling" \in StepState /\ s.state[n] \in Active
      BY <2>7, StateNames
    <3>11. Moves(s, u)
      BY <2>2, <2>3, <3>5, <3>7, <3>8, <3>9, <3>10, NodeMove DEF Movable
    <3>12. s.state[n] # "Pending" /\ s.state[n] # "Cancelling"
      BY <2>7, StateNames DEF Executing
    <3>13. CancelOne(s, role, r, op) = u
      BY <1>3, <3>12 DEF CancelOne, n, id, t, u, h
    <3> QED BY <3>11, <3>13
  <2> QED BY <2>2, <2>5, <2>6, <2>7
<1> QED BY <1>2, <1>3

\* Cancelling all nodes of a role moves.
LEMMA CancelNodesMoves ==
  ASSUME NEW s, Inv(s), NEW role \in SUBSET Node,
         NEW r \in AnyReason, NEW op \in Nat,
         \/ role = Ordinary
         \/ s.workflow # "Executing" /\ s.force_abort # "Ordinary"
  PROVE  Moves(s, CancelNodes(s, role, r, op))
<1> DEFINE f == [x \in State |-> CancelOne(x, role, r, op)]
<1>1. \A x \in State : /\ Inv(x)
                       /\ x.workflow = s.workflow
                       /\ x.force_abort = s.force_abort
                       => Moves(x, f[x])
  BY CancelOneMoves
<1> HIDE DEF f
<1>2. Moves(s, Repeat(f, s))
  BY <1>1, LoopMoves
<1> QED BY <1>2 DEF CancelNodes, f

\* The phase is cancelled while it is not being cancelled already.
LEMMA PhaseCancellationMoves ==
  ASSUME NEW s, Inv(s), NEW r \in AnyReason, ~Over(s), s.gate # "Cancelling"
  PROVE  Moves(s, [NextSequence(s) EXCEPT !.gate = "Cancelling", !.reason = r])
<1> DEFINE q == NextSequence(s)
           t == [q EXCEPT !.gate = "Cancelling", !.reason = r]
<1>1. s \in State
  BY DEF Inv
<1>2. q \in State /\ SamePhase(s, q) /\ SameNodes(s, q)
  BY <1>1, NextSequenceFacts
<1> HIDE DEF q
<1>3. t \in State
  <2>1. r \in AnyReason \cup {"None"}
    OBVIOUS
  <2> QED BY Zenon, <1>2, <2>1 DEF State
<1>4. /\ SameNodes(s, t)
      /\ t.workflow = s.workflow /\ t.gate = "Cancelling" /\ t.reason = r
      /\ t.trigger = s.trigger /\ t.ordinary_reason = s.ordinary_reason
      /\ t.primary_issue = s.primary_issue /\ t.force_abort = s.force_abort
  BY <1>2 DEF State, SamePhase, SameNodes
<1> HIDE DEF t
<1>5. r # "None"
  BY LimitAssumption DEF AnyReason
<1>6. s.workflow \in {"Executing", "Finalizing"}
  BY <1>1 DEF State, Over
<1>7. ActiveNodes(t) = ActiveNodes(s)
  BY <1>4 DEF SameNodes, ActiveNodes
<1>8. GateInv(t)
  BY <1>4, <1>5 DEF GateInv, Inv
<1>9. FinalizerInv(t)
  BY <1>4, <1>6 DEF FinalizerInv, GateInv, Inv, SameNodes
<1>10. Advances(s, t)
  BY <1>4, <1>6 DEF Advances, SameNodes, Carried, GateInv, Inv
<1>11. Moves(s, t)
  BY <1>3, <1>4, <1>7, <1>8, <1>9, <1>10 DEF Moves, Settles, Inv
<1> QED BY <1>11 DEF t, q

\* Both roles are sets of nodes.
LEMMA RoleTypes == Ordinary \in SUBSET Node /\ Finalizer \in SUBSET Node
BY NodeAssumption DEF Ordinary

\* A graceful cancellation of the ordinary phase moves.
LEMMA OrdinaryCancellationMoves ==
  ASSUME NEW s, Inv(s), NEW r \in AnyReason, ~Over(s), s.gate # "Cancelling"
  PROVE  Moves(s, ApplyOrdinaryCancellation(s, r))
<1> DEFINE t == [NextSequence(s) EXCEPT !.gate = "Cancelling", !.reason = r]
<1>1. Moves(s, t) /\ Inv(t)
  BY Zenon, PhaseCancellationMoves DEF Moves, Settles
<1> HIDE DEF t
<1>2. Moves(t, CancelNodes(t, Ordinary, r, 0))
  BY <1>1, RoleTypes, CancelNodesMoves
<1>3. Moves(s, CancelNodes(t, Ordinary, r, 0))
  BY <1>1, <1>2, MovesTransitive
<1> QED BY <1>3 DEF ApplyOrdinaryCancellation, t

\* A graceful cancellation of finalization moves.
LEMMA FinalizationCancellationMoves ==
  ASSUME NEW s, Inv(s), NEW r \in AnyReason, ~Over(s),
         s.workflow # "Executing", s.gate # "Cancelling"
  PROVE  Moves(s, ApplyFinalizationCancellation(s, r))
<1> DEFINE t == [NextSequence(s) EXCEPT !.gate = "Cancelling", !.reason = r]
<1>1. Moves(s, t) /\ Inv(t)
  BY Zenon, PhaseCancellationMoves DEF Moves, Settles
<1> HIDE DEF t
<1>2. s.force_abort # "Ordinary"
  BY DEF Inv, FinalizerInv, GateInv, State, Over
<1>3. t.workflow # "Executing" /\ t.force_abort # "Ordinary"
  BY <1>1, <1>2 DEF Moves, Settles
<1>4. Moves(t, CancelNodes(t, Finalizer, r, 0))
  BY <1>1, <1>3, RoleTypes, CancelNodesMoves
<1>5. Moves(s, CancelNodes(t, Finalizer, r, 0))
  BY <1>1, <1>4, MovesTransitive
<1> QED BY <1>5 DEF ApplyFinalizationCancellation, t

\* What an accepted force abort records before it contains the active nodes.
Aborted(s, phase, op) ==
  [NextSequence(s) EXCEPT
     !.force_abort = phase, !.last_operation = op,
     !.reason = ForceAbortReason(s), !.gate = "Cancelling"]

\* Recording a force abort keeps Inv and a reason that was already there.
LEMMA ForceAbortRecorded ==
  ASSUME NEW s, Inv(s), ~Over(s), s.force_abort = "None", NEW op \in Nat,
         NEW phase \in {"Ordinary", "Finalization"},
         phase = "Ordinary" => s.workflow = "Executing"
  PROVE  /\ Inv(Aborted(s, phase, op))
         /\ Advances(s, Aborted(s, phase, op))
         /\ Aborted(s, phase, op).workflow = s.workflow
         /\ Aborted(s, phase, op).force_abort = phase
<1> DEFINE q == NextSequence(s)
           r == ForceAbortReason(s)
           t == [q EXCEPT !.force_abort = phase, !.last_operation = op,
                          !.reason = r, !.gate = "Cancelling"]
<1>1. s \in State
  BY DEF Inv
<1>2. q \in State /\ SamePhase(s, q) /\ SameNodes(s, q)
  BY <1>1, NextSequenceFacts
<1>3. /\ r \in AnyReason \cup {"None"}
      /\ s.gate = "Cancelling" => r = s.reason
      /\ s.gate # "Cancelling" => r = "ForceAbort"
  BY <1>1 DEF ForceAbortReason, AnyReason, State
<1> HIDE DEF q, r
<1>5. phase \in {"None", "Ordinary", "Finalization"}
  OBVIOUS
<1>6. t \in State
  <2> DEFINE a == [q EXCEPT !.force_abort = phase]
             b == [a EXCEPT !.last_operation = op]
             c == [b EXCEPT !.reason = r]
  <2>1. a \in State
    BY <1>2, <1>5 DEF State
  <2> HIDE DEF a
  <2>2. b \in State
    BY <2>1 DEF State
  <2> HIDE DEF b
  <2>3. c \in State
    BY <1>3, <2>2 DEF State
  <2> HIDE DEF c
  <2>4. [c EXCEPT !.gate = "Cancelling"] \in State
    BY <2>3 DEF State
  <2>5. t = [c EXCEPT !.gate = "Cancelling"]
    BY DEF a, b, c
  <2> QED BY <2>4, <2>5
<1>7. /\ SameNodes(s, t)
      /\ t.workflow = s.workflow /\ t.gate = "Cancelling" /\ t.reason = r
      /\ t.trigger = s.trigger /\ t.ordinary_reason = s.ordinary_reason
      /\ t.primary_issue = s.primary_issue /\ t.force_abort = phase
  BY <1>2 DEF State, SamePhase, SameNodes
<1> HIDE DEF t
<1>8. s.workflow \in {"Executing", "Finalizing"}
  BY <1>1 DEF State, Over
<1>9. ActiveNodes(t) = ActiveNodes(s)
  BY <1>7 DEF SameNodes, ActiveNodes
<1>10. GateInv(t)
  BY <1>3, <1>7 DEF GateInv, Inv
<1>11. FinalizerInv(t)
  BY <1>7 DEF FinalizerInv, Inv, SameNodes
<1>12. Advances(s, t)
  BY <1>3, <1>7, <1>8 DEF Advances, SameNodes, Carried, GateInv, Inv
<1>13. Inv(t)
  BY <1>6, <1>9, <1>10, <1>11 DEF Inv
<1>14. Aborted(s, phase, op) = t
  BY DEF Aborted, t, q, r
<1> QED BY <1>7, <1>12, <1>13, <1>14

\* A force abort, with the containment of its phase, advances.
LEMMA ForceAbortAdvances ==
  ASSUME NEW s, Inv(s), ~Over(s), s.force_abort = "None", NEW op \in Nat
  PROVE  /\ Inv(ApplyForceAbort(s, op))
         /\ Advances(s, ApplyForceAbort(s, op))
<1> DEFINE phase == IF s.workflow = "Executing" THEN "Ordinary"
                    ELSE "Finalization"
           role == IF s.workflow = "Executing" THEN Ordinary ELSE Finalizer
           t == Aborted(s, phase, op)
           u == CancelNodes(t, role, "ForceAbort", op)
<1>0. /\ phase \in {"Ordinary", "Finalization"}
      /\ phase = "Ordinary" => s.workflow = "Executing"
  OBVIOUS
<1>1. /\ Inv(t) /\ Advances(s, t)
      /\ t.workflow = s.workflow /\ t.force_abort = phase
  <2> HIDE DEF phase
  <2> QED BY <1>0, ForceAbortRecorded
<1>2. /\ role \in SUBSET Node
      /\ \/ role = Ordinary
         \/ t.workflow # "Executing" /\ t.force_abort # "Ordinary"
      /\ "ForceAbort" \in AnyReason
  <2>1. \/ role = Ordinary
        \/ s.workflow # "Executing" /\ phase # "Ordinary"
    OBVIOUS
  <2> HIDE DEF t
  <2> QED BY <1>1, <2>1, RoleTypes DEF AnyReason
<1>3. ApplyForceAbort(s, op) = u
  BY DEF ApplyForceAbort, Aborted
<1> HIDE DEF t, role
<1>4. Moves(t, u)
  BY <1>1, <1>2, CancelNodesMoves
<1> HIDE DEF u
<1>5. Inv(u) /\ Advances(t, u)
  BY <1>4 DEF Moves, Settles
<1>6. Advances(s, u)
  BY <1>1, <1>5, AdvancesTransitive DEF Inv
<1> QED BY <1>3, <1>5, <1>6
=============================================================================
