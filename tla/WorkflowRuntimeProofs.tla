------------------------ MODULE WorkflowRuntimeProofs ------------------------
(***************************************************************************)
(* Safety of the reducer for every workflow, every parallelism limit and   *)
(* every transition ceiling: each occurrence is an update that preserves   *)
(* Inv and advances the run, followed by stabilisation, which does too.    *)
(***************************************************************************)
EXTENDS WorkflowRuntimeUpdates

-----------------------------------------------------------------------------
(* Occurrences.                                                            *)

\* Stabilising after an update that advances the run advances it.
LEMMA ReductionAdvances ==
  ASSUME NEW s, NEW t, Inv(s), Inv(t), Advances(s, t)
  PROVE  Inv(Stabilize(t)) /\ Advances(s, Stabilize(t))
<1>1. Settles(t, Stabilize(t))
  BY StabilizeSettles
<1> QED BY <1>1, AdvancesTransitive DEF Settles, Inv

\* An occurrence whose own update moves is a reduction that advances once
\* stabilize has run.
LEMMA MoveReduction ==
  ASSUME NEW s, NEW t, Inv(s), Moves(s, t)
  PROVE  Inv(Stabilize(t)) /\ Advances(s, Stabilize(t))
BY ReductionAdvances DEF Moves, Settles

\* A node the driver is working on may be moved: it is not settled, and if it
\* is a finalizer the finalizing phase has begun and was not suppressed.
LEMMA ActiveMovable ==
  ASSUME NEW s, Inv(s), NEW n \in Node, s.state[n] \in Active
  PROVE  Movable(s, n)
<1>1. ~Terminal(s, n)
  BY StateNames DEF Terminal
<1>2. s.state[n] \notin {"Pending", "NotRun", "Cancelled"}
  BY StateNames
<1> QED BY <1>1, <1>2 DEF Movable, Inv, FinalizerInv

\* Recording what a handler does moves no node.
LEMMA HandlerNoted ==
  ASSUME NEW s, Inv(s), NEW n \in Node,
         NEW h \in {"Running", "Recheck"}
  PROVE  /\ Moves(s, [s EXCEPT !.handler[n] = h])
         /\ Inv([s EXCEPT !.handler[n] = h])
         /\ [s EXCEPT !.handler[n] = h].state = s.state
<1> DEFINE t == [s EXCEPT !.handler[n] = h]
<1>1. s \in State
  BY DEF Inv
<1>2. h \in {"None", "Starting", "Running", "Recheck", "GaveUp", "Failed",
             "Cancelled"}
  OBVIOUS
<1>3. t \in State
  BY Zenon, <1>1, <1>2 DEF State
<1>4. SamePhase(s, t) /\ SameNodes(s, t)
  BY <1>1 DEF State, SamePhase, SameNodes
<1> HIDE DEF t
<1>5. Moves(s, t) /\ Inv(t) /\ t.state = s.state
  BY <1>3, <1>4, QuietMove DEF Moves, Settles, SameNodes
<1> QED BY <1>5 DEF t

\* A completed execution settles its node as Succeeded.
LEMMA SucceedMoves ==
  ASSUME NEW s, Inv(s), NEW n \in Node, Movable(s, n)
  PROVE  Moves(s, Succeed(s, n))
<1> DEFINE a == RecoveryDisposition(s, n, "Recovered")
           b == TransitionStep(a, n, "Succeeded", NoAction)
<1>1. Moves(s, a) /\ Inv(a) /\ a.state = s.state
  BY RecoveryDispositionMoves DEF Moves, Settles
<1> HIDE DEF a
<1>2. Movable(a, n)
  BY <1>1, MovableKept
<1>3. Moves(a, b) /\ Inv(b)
  BY <1>1, <1>2, TransitionMoves, StateNames, ActionIds DEF Moves, Settles
<1> HIDE DEF b
<1>4. Moves(b, ClearActiveInvocation(b, n))
  BY <1>3, ClearActiveInvocationMoves
<1>5. Moves(s, ClearActiveInvocation(b, n))
  BY <1>1, <1>3, <1>4, MovesTransitive
<1> QED BY <1>5 DEF Succeed, b, a

\* StepExecutionCompleted either captures outputs or succeeds at once.
LEMMA CompletionMoves ==
  ASSUME NEW s, Inv(s), NEW n \in Node, s.state[n] = "Running"
  PROVE  LET t == TransitionStep(s, n, "CapturingOutputs", NoAction)
         IN  Moves(s, IF n \in Declares
                      THEN [t EXCEPT !.current_action[n] = Latest(t)]
                      ELSE Succeed(t, n))
<1> DEFINE t == TransitionStep(s, n, "CapturingOutputs", NoAction)
           u == [t EXCEPT !.current_action[n] = Latest(t)]
<1>1. Movable(s, n) /\ s.state[n] \in Active
  BY ActiveMovable, StateNames
<1>2. "CapturingOutputs" \in StepState /\ "CapturingOutputs" \in Active
  BY StateNames
<1>3. Moves(s, t) /\ Inv(t) /\ t \in State
  BY <1>1, <1>2, TransitionMoves, ActionIds DEF Moves, Settles, Inv
<1>4. t.state = [s.state EXCEPT ![n] = "CapturingOutputs"]
  BY <1>2, TransitionStepFacts, ActionIds DEF Inv
<1>5. t.state[n] \in Active
  BY <1>2, <1>4 DEF Inv, State
<1> HIDE DEF t
<1>6. Moves(s, Succeed(t, n))
  BY <1>3, <1>5, ActiveMovable, SucceedMoves, MovesTransitive
<1>7. Latest(t) \in ActionId
  BY <1>3, ActionIds
<1>8. u \in State
  BY Zenon, <1>3, <1>7 DEF State
<1>9. SamePhase(t, u) /\ SameNodes(t, u)
  BY <1>3 DEF State, SamePhase, SameNodes
<1>10. Moves(t, u)
  BY <1>3, <1>8, <1>9, QuietMove
<1> HIDE DEF u
<1>11. Moves(s, u)
  BY <1>3, <1>10, MovesTransitive
<1> QED BY <1>6, <1>11 DEF t, u

\* StepQuiesced settles a cancelling node and its recovery as Cancelled.
LEMMA QuiesceMoves ==
  ASSUME NEW s, Inv(s), NEW n \in Node, s.state[n] = "Cancelling",
         NEW r \in AnyReason \cup {"None"}
  PROVE  Moves(s, ClearActiveInvocation(
                    SettleCancelled(RecoveryDisposition(s, n, "Cancelled"),
                                    n, r), n))
<1> DEFINE a == RecoveryDisposition(s, n, "Cancelled")
           b == SettleCancelled(a, n, r)
<1>1. Moves(s, a) /\ Inv(a) /\ a.state = s.state
  BY RecoveryDispositionMoves DEF Moves, Settles
<1>2. Movable(s, n)
  BY ActiveMovable, StateNames
<1> HIDE DEF a
<1>3. Movable(a, n)
  BY <1>1, <1>2, MovableKept
<1>4. Moves(a, b) /\ Inv(b)
  BY <1>1, <1>3, SettleCancelledMoves DEF Movable, Moves, Settles
<1> HIDE DEF b
<1>5. Moves(b, ClearActiveInvocation(b, n))
  BY <1>4, ClearActiveInvocationMoves
<1>6. Moves(s, ClearActiveInvocation(b, n))
  BY <1>1, <1>4, <1>5, MovesTransitive
<1> QED BY <1>6 DEF b, a

\* Every answer of the driver is a reduction that advances: one step per
\* occurrence kind.
LEMMA ReplyAdvances ==
  ASSUME Inv(rt), NEW n \in Node, Reply(n)
  PROVE  Inv(rt') /\ Advances(rt, rt')
<1> DEFINE a == rt.current_action[n]
           round == rt.rounds[n]
<1>0. rt \in State /\ a \in ActionId /\ round + 1 \in Nat
  BY DEF Inv, State
<1> HIDE DEF a, round
<1>1. CASE StepStarted(n, a)
  <2>1. rt.state[n] \in Active /\ rt' = Stabilize(TransitionStep(rt, n, "Running", a))
    BY <1>1, StateNames DEF StepStarted, StepAccepts
  <2>2. Moves(rt, TransitionStep(rt, n, "Running", a))
    BY <1>0, <2>1, ActiveMovable, TransitionMoves, StateNames
  <2> QED BY <2>1, <2>2, MoveReduction
<1>2. CASE StepStartFailed(n, a) \/ StepExecutionFailed(n, a)
             \/ OutputCaptureFailed(n, a)
  <2>1. rt.state[n] \in Active /\ rt' = Stabilize(ApplyStepFailure(rt, n))
    BY <1>2, StateNames
       DEF StepStartFailed, StepExecutionFailed, OutputCaptureFailed, StepAccepts
  <2>2. Moves(rt, ApplyStepFailure(rt, n))
    BY <2>1, ActiveMovable, ApplyStepFailureMoves
  <2> QED BY <2>1, <2>2, MoveReduction
<1>3. CASE StepExecutionCompleted(n, a)
  <2> DEFINE t == TransitionStep(rt, n, "CapturingOutputs", NoAction)
             u == IF n \in Declares
                  THEN [t EXCEPT !.current_action[n] = Latest(t)]
                  ELSE Succeed(t, n)
  <2>1. rt.state[n] = "Running" /\ rt' = Stabilize(u)
    BY <1>3 DEF StepExecutionCompleted, StepAccepts
  <2>2. Moves(rt, u)
    BY <2>1, CompletionMoves
  <2> HIDE DEF u
  <2> QED BY <2>1, <2>2, MoveReduction
<1>4. CASE OutputsCaptured(n, a)
  <2>1. rt.state[n] \in Active /\ rt' = Stabilize(Succeed(rt, n))
    BY <1>4, StateNames DEF OutputsCaptured, StepAccepts
  <2>2. Moves(rt, Succeed(rt, n))
    BY <2>1, ActiveMovable, SucceedMoves
  <2> QED BY <2>1, <2>2, MoveReduction
<1>5. CASE RecoveryHandlerStarted(n, round, a)
  <2> DEFINE t == [rt EXCEPT !.handler[n] = "Running"]
             u == TransitionStep(t, n, "RecoveringRunning", a)
  <2>1. rt.state[n] \in Active /\ rt' = Stabilize(u)
    BY <1>5, StateNames DEF RecoveryHandlerStarted, HandlerAccepts
  <2>2. Moves(rt, t) /\ Inv(t) /\ t.state = rt.state
    BY Zenon, HandlerNoted
  <2> HIDE DEF t
  <2>3. Moves(t, u)
    BY <1>0, <2>1, <2>2, ActiveMovable, TransitionMoves, StateNames
  <2> HIDE DEF u
  <2>4. Moves(rt, u)
    BY <2>2, <2>3, MovesTransitive
  <2> QED BY <2>1, <2>4, MoveReduction
<1>6. CASE RecoveryHandlerStartFailed(n, round, a)
             \/ RecoveryHandlerExecutionFailed(n, round, a)
  <2>1. rt.state[n] \in Active /\ rt' = Stabilize(ApplyHandlerFailure(rt, n))
    BY <1>6, StateNames
       DEF RecoveryHandlerStartFailed, RecoveryHandlerExecutionFailed,
           HandlerAccepts
  <2>2. Moves(rt, ApplyHandlerFailure(rt, n))
    BY <2>1, ActiveMovable, ApplyHandlerFailureMoves
  <2> QED BY <2>1, <2>2, MoveReduction
<1>7. CASE RecoveryHandlerRecheck(n, round, a)
  <2> DEFINE t == [rt EXCEPT !.handler[n] = "Recheck"]
             u == AuthorizeTarget(t, n, rt.rounds[n] + 1)
  <2>1. rt.state[n] \in Active /\ rt' = Stabilize(u)
    BY <1>7, StateNames DEF RecoveryHandlerRecheck, HandlerAccepts
  <2>2. Moves(rt, t) /\ Inv(t) /\ t.state = rt.state
    BY Zenon, HandlerNoted
  <2> HIDE DEF t
  <2>3. Moves(t, u)
    BY <1>0, <2>1, <2>2, ActiveMovable, AuthorizeTargetMoves DEF round
  <2> HIDE DEF u
  <2>4. Moves(rt, u)
    BY <2>2, <2>3, MovesTransitive
  <2> QED BY <2>1, <2>4, MoveReduction
<1>8. CASE RecoveryHandlerGaveUp(n, round, a)
  <2> DEFINE t == [rt EXCEPT !.handler[n] = "GaveUp", !.disposition[n] = "GaveUp"]
             u == SettleTargetFailure(t, n)
  <2>1. rt.state[n] \in Active /\ rt' = Stabilize(u)
    BY <1>8, StateNames DEF RecoveryHandlerGaveUp, HandlerAccepts
  <2>2. t \in State
    BY Zenon, <1>0 DEF State
  <2>3. SamePhase(rt, t) /\ SameNodes(rt, t)
    BY <1>0 DEF State, SamePhase, SameNodes
  <2> HIDE DEF t
  <2>4. Moves(rt, t) /\ Inv(t) /\ t.state = rt.state
    BY <2>2, <2>3, QuietMove DEF Moves, Settles, SameNodes
  <2>5. Moves(t, u)
    BY <2>1, <2>4, ActiveMovable, SettleTargetFailureMoves
  <2> HIDE DEF u
  <2>6. Moves(rt, u)
    BY <2>4, <2>5, MovesTransitive
  <2> QED BY <2>1, <2>6, MoveReduction
<1>9. CASE StepQuiesced(n, a)
  <2> DEFINE r == IF a[1] # 0 THEN "ForceAbort" ELSE rt.detail[n]
             u == ClearActiveInvocation(
                    SettleCancelled(RecoveryDisposition(rt, n, "Cancelled"),
                                    n, r), n)
  <2>1. rt.state[n] = "Cancelling" /\ rt' = Stabilize(u)
    BY <1>9 DEF StepQuiesced, StepAccepts
  <2>2. r \in AnyReason \cup {"None"}
    BY <1>0 DEF State, AnyReason
  <2> HIDE DEF r
  <2>3. Moves(rt, u)
    BY <2>1, <2>2, QuiesceMoves
  <2> HIDE DEF u
  <2> QED BY <2>1, <2>3, MoveReduction
<1> QED BY <1>1, <1>2, <1>3, <1>4, <1>5, <1>6, <1>7, <1>8, <1>9
        DEF Reply, a, round

\* Recording the operation id of a request moves no node and no gate.
LEMMA OperationNoted ==
  ASSUME NEW s, Inv(s), NEW op \in Nat
  PROVE  /\ Moves(s, [s EXCEPT !.last_operation = op])
         /\ Inv([s EXCEPT !.last_operation = op])
         /\ [s EXCEPT !.last_operation = op].gate = s.gate
<1> DEFINE t == [s EXCEPT !.last_operation = op]
<1>1. s \in State
  BY DEF Inv
<1>2. t \in State
  BY <1>1 DEF State
<1>3. SamePhase(s, t) /\ SameNodes(s, t)
  BY <1>1 DEF State, SamePhase, SameNodes
<1> HIDE DEF t
<1>4. Moves(s, t) /\ Inv(t) /\ t.gate = s.gate
  BY <1>2, <1>3, QuietMove DEF Moves, Settles, SamePhase
<1> QED BY <1>4 DEF t

\* Every accepted cancellation request is a reduction that advances.
LEMMA CancelAdvances ==
  ASSUME Inv(rt), Cancel
  PROVE  Inv(rt') /\ Advances(rt, rt')
<1>1. PICK op \in 1..MaxOperation :
        \/ \E r \in Reason : \/ CancellationOperationRequested(op, r)
                             \/ OrdinaryCancellationOperationRequested(op, r)
        \/ ForceAbortRequested(op)
  BY DEF Cancel
<1> DEFINE s == [rt EXCEPT !.last_operation = op]
<1>2. op \in Nat
  BY LimitAssumption
<1>3. /\ Moves(rt, s) /\ Inv(s) /\ s.gate = rt.gate
      /\ s.workflow = rt.workflow
  BY <1>2, OperationNoted DEF Moves
<1>4. ASSUME NEW r \in Reason, CancellationOperationRequested(op, r)
      PROVE  Inv(rt') /\ Advances(rt, rt')
  <2> DEFINE u == IF rt.workflow = "Executing"
                  THEN ApplyOrdinaryCancellation(s, r)
                  ELSE ApplyFinalizationCancellation(s, r)
  <2>1. ~Over(rt) /\ rt.gate # "Cancelling" /\ rt' = Stabilize(u)
    BY <1>4 DEF CancellationOperationRequested
  <2> HIDE DEF s
  <2>2. ~Over(s) /\ r \in AnyReason
    BY <1>3, <2>1 DEF Over, AnyReason
  <2>3. Moves(s, u)
    BY <1>3, <2>1, <2>2, OrdinaryCancellationMoves,
       FinalizationCancellationMoves
  <2> HIDE DEF u
  <2>4. Moves(rt, u)
    BY <1>3, <2>3, MovesTransitive
  <2> QED BY <2>1, <2>4, MoveReduction
<1>5. ASSUME NEW r \in Reason, OrdinaryCancellationOperationRequested(op, r)
      PROVE  Inv(rt') /\ Advances(rt, rt')
  <2> DEFINE u == IF rt.workflow = "Executing"
                  THEN ApplyOrdinaryCancellation(s, r) ELSE s
  <2>1. /\ ~Over(rt) /\ rt' = Stabilize(u)
        /\ rt.workflow = "Executing" => rt.gate # "Cancelling"
    BY <1>5 DEF OrdinaryCancellationOperationRequested
  <2> HIDE DEF s
  <2>2. ~Over(s) /\ r \in AnyReason
    BY <1>3, <2>1 DEF Over, AnyReason
  <2>3. Moves(s, u)
    BY <1>3, <2>1, <2>2, OrdinaryCancellationMoves, SettlesReflexive
  <2> HIDE DEF u
  <2>4. Moves(rt, u)
    BY <1>3, <2>3, MovesTransitive
  <2> QED BY <2>1, <2>4, MoveReduction
<1>6. ASSUME ForceAbortRequested(op)
      PROVE  Inv(rt') /\ Advances(rt, rt')
  <2>1. /\ ~Over(rt) /\ rt.force_abort = "None"
        /\ rt' = Stabilize(ApplyForceAbort(rt, op))
    BY <1>6 DEF ForceAbortRequested
  <2>2. /\ Inv(ApplyForceAbort(rt, op))
        /\ Advances(rt, ApplyForceAbort(rt, op))
    BY <1>2, <2>1, ForceAbortAdvances
  <2> QED BY <2>1, <2>2, ReductionAdvances
<1> QED BY <1>1, <1>4, <1>5, <1>6

\* A fresh run satisfies the invariant before anything is started.
LEMMA FreshInv ==
  ASSUME NEW seed \in Seed,
         NEW predicate \in [Node -> {"Passed", "False", "Failed"}]
  PROVE  /\ Inv(Fresh(seed, predicate))
         /\ ~Over(Fresh(seed, predicate))
         /\ Fresh(seed, predicate).gate = "Open"
         /\ Fresh(seed, predicate).force_abort = "None"
<1> DEFINE s == Fresh(seed, predicate)
<1>1. seed \in [Node -> StepState]
  BY GraphAssumption DEF StepState, Settled
<1>2. s \in State
  BY <1>1, ActionIds DEF Fresh, State, NoNode, Triggers, AnyReason
<1>3. /\ s.workflow = "Executing" /\ s.gate = "Open" /\ s.reason = "None"
      /\ s.primary_issue = NoNode /\ s.force_abort = "None" /\ s.state = seed
      /\ s.target_execution = [n \in Node |-> 0]
  BY DEF Fresh
<1>4. ActiveNodes(s) = {}
  <2>1. \A n \in Node : seed[n] \in {"Pending"} \cup Inherited
    BY GraphAssumption
  <2>2. \A x \in {"Pending"} \cup Inherited : x \notin Active
    BY DEF Inherited, Active, Executing
  <2> QED BY <1>3, <2>1, <2>2 DEF ActiveNodes
<1>5. Cardinality(ActiveNodes(s)) <= MaxParallel
  BY <1>4, FS_EmptySet, LimitAssumption
<1> HIDE DEF s
<1>6. GateInv(s)
  BY <1>3 DEF GateInv
<1>7. FinalizerInv(s)
  BY <1>3, GraphAssumption, NodeAssumption DEF FinalizerInv
<1> QED BY <1>2, <1>3, <1>5, <1>6, <1>7 DEF Inv, Over, s

\* The first reduction of a run, with a pending cancellation or without, ends
\* in a state of Inv.
LEMMA InitInv ==
  ASSUME Init
  PROVE  Inv(rt)
<1>1. PICK seed \in Seed, predicate \in [Node -> {"Passed", "False", "Failed"}] :
        LET s == Fresh(seed, predicate)
        IN  \/ rt = Stabilize(s)
            \/ \E r \in Reason : rt = Stabilize(ApplyOrdinaryCancellation(
                                        [s EXCEPT !.last_operation = 1], r))
            \/ rt = Stabilize(ApplyForceAbort(s, 1))
  BY DEF Init
<1> DEFINE s == Fresh(seed, predicate)
           t == [s EXCEPT !.last_operation = 1]
<1>2. /\ Inv(s) /\ ~Over(s) /\ s.gate = "Open" /\ s.force_abort = "None"
  BY FreshInv
<1> HIDE DEF s
<1>3. Inv(t) /\ t.gate = "Open" /\ t.workflow = s.workflow
  BY <1>2, OperationNoted DEF Moves
<1>4. ~Over(t)
  BY <1>2, <1>3 DEF Over
<1> HIDE DEF t
<1>5. ASSUME NEW r \in Reason
      PROVE  Inv(Stabilize(ApplyOrdinaryCancellation(t, r)))
  <2>1. r \in AnyReason
    BY DEF AnyReason
  <2>2. Moves(t, ApplyOrdinaryCancellation(t, r))
    BY <1>3, <1>4, <2>1, OrdinaryCancellationMoves
  <2> QED BY <1>3, <2>2, MoveReduction
<1>6. Inv(Stabilize(ApplyForceAbort(s, 1)))
  BY <1>2, ForceAbortAdvances, ReductionAdvances
<1>7. Inv(Stabilize(s))
  BY <1>2, StabilizeSettles DEF Settles
<1> QED BY <1>1, <1>5, <1>6, <1>7 DEF t, s

\* Every step of the reducer keeps Inv and advances.
LEMMA NextAdvances ==
  ASSUME Inv(rt), [Next]_rt
  PROVE  Inv(rt') /\ Advances(rt, rt')
<1>1. CASE \E n \in Node : Reply(n)
  BY <1>1, ReplyAdvances
<1>2. CASE Cancel
  BY <1>2, CancelAdvances
<1>3. CASE Discard \/ UNCHANGED rt
  <2>1. rt' = rt
    BY <1>3 DEF Discard
  <2> QED BY <2>1, AdvancesReflexive
<1> QED BY <1>1, <1>2, <1>3 DEF Next

-----------------------------------------------------------------------------
(* What a run of any workflow guarantees.                                  *)

\* The invariant that the safety theorems rest on holds in every run.
THEOREM Invariance == Spec => []Inv(rt)
<1>1. Init => Inv(rt)
  BY InitInv
<1>2. Inv(rt) /\ [Next]_rt => Inv(rt)'
  BY NextAdvances
<1> QED BY <1>1, <1>2, PTL DEF Spec

\* Every state the reducer commits is a RuntimeState.
THEOREM TypeCorrect == Spec => []TypeOK
<1>1. Inv(rt) => TypeOK
  BY DEF Inv, TypeOK
<1> QED BY <1>1, Invariance, PTL

\* No run has more active nodes than maximum_parallel_steps, recoveries and
\* cancellations included.
THEOREM ParallelismBounded == Spec => []ParallelismBound
<1>1. Inv(rt) => ParallelismBound
  BY DEF Inv, ParallelismBound
<1> QED BY <1>1, Invariance, PTL

\* After a force abort of the ordinary phase no finalizer ever starts, and the
\* ones it cancels are recorded as force-aborted.
THEOREM AbortSuppresses == Spec => []ForceAbortSuppressesFinalizers
<1>1. Inv(rt) => ForceAbortSuppressesFinalizers
  BY NodeAssumption
     DEF Inv, FinalizerInv, ForceAbortSuppressesFinalizers, Started
<1> QED BY <1>1, Invariance, PTL

\* A settled node never changes again and no node becomes pending again.
THEOREM SettledForGood == Spec => NodeSettlesOnce
<1>1. Inv(rt) /\ [Next]_rt
        => [\A n \in Node :
              /\ Terminal(rt, n) => rt'.state[n] = rt.state[n]
              /\ rt'.state[n] = "Pending" => rt.state[n] = "Pending"]_rt
  BY NextAdvances DEF Advances
<1> QED BY <1>1, Invariance, PTL DEF Spec, NodeSettlesOnce

\* The first required issue stays the primary issue.
THEOREM PrimaryIssueKept == Spec => PrimaryIssueStable
<1>1. Inv(rt) /\ [Next]_rt
        => [rt.primary_issue # NoNode
              => rt'.primary_issue = rt.primary_issue]_rt
  BY NextAdvances DEF Advances
<1> QED BY <1>1, Invariance, PTL DEF Spec, PrimaryIssueStable

\* The reason that first cancelled a phase survives every later request and is
\* the one a run with a cancelled ordinary phase reports.
THEOREM ReasonKept == Spec => ReasonStable
<1>1. Inv(rt) /\ [Next]_rt
        => [/\ rt.gate = "Cancelling" /\ rt'.workflow = rt.workflow
                 => rt'.reason = rt.reason
            /\ rt.workflow = "Executing" /\ rt.gate = "Cancelling" /\ Over(rt')
                 => rt'.reason = rt.reason
            /\ rt.workflow = "Finalizing" /\ rt.ordinary_reason # "None"
               /\ Over(rt')
                 => rt'.reason = rt.ordinary_reason]_rt
  BY NextAdvances DEF Advances, Carried, Over, Inv, GateInv
<1> QED BY <1>1, Invariance, PTL DEF Spec, ReasonStable
=============================================================================
