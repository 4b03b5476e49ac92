--------------------------- MODULE WorkflowRuntime ---------------------------
(***************************************************************************)
(* The workflow reducer of crates/execution/src/workflow/runtime.rs: one   *)
(* admitted workflow (ordinary steps and finalizers), the occurrences that *)
(* drive it and the stabilisation that follows every accepted occurrence.  *)
(*                                                                         *)
(* An occurrence that the reducer rejects leaves its state unchanged, so   *)
(* it is a stuttering step: every action below is one accepted occurrence, *)
(* its guard the conditions of acceptance.  The action ids a driver        *)
(* answers with are arguments of the actions, so that a composition can    *)
(* deliver late answers; Next delivers the current ones.                   *)
(***************************************************************************)
EXTENDS Naturals, FiniteSets, Loops

CONSTANTS
  Node,          \* node ids, integers in the order of the id-keyed maps
  Finalizer,     \* the nodes of role Finalizer; the others are steps
  Advisory,      \* the nodes of failure policy Advisory; the others Required
  Conditional,   \* the nodes that declare a condition
  Declares,      \* the nodes that declare outputs
  Control,       \* Control[n]: producers in `dependsOn` / `after` of n
  Body,          \* Body[n]: producers of outputs that n's body reads
  ConditionData, \* ConditionData[n]: producers of outputs its condition reads
  Disposition,   \* Disposition[n]: nodes whose disposition its condition reads
  Retries,       \* Retries[n]: configured recovery rounds, 0 for none
  Handler,       \* the nodes whose recovery runs a handler
  When,          \* When[n]: the triggers that select finalizer n
  Export,        \* the nodes the workflow's exports name
  Seed,          \* the node states a run may start from: Pending or inherited
  MaxParallel,   \* maximum_parallel_steps
  MaxTransitions,\* maximum_transitions, the admitted ceiling
  Reason,        \* the cancellation reasons other than ForceAbort
  MaxOperation   \* bound on the cancellation operation ids

Ordinary == Node \ Finalizer
Triggers == {"Succeeded", "Failed", "Cancelled"}

Executing == {"Starting", "Running", "CapturingOutputs",
              "RecoveringStarting", "RecoveringRunning"}
Active == Executing \cup {"Cancelling"}
Inherited == {"InheritedSucceeded", "InheritedSkipped"}
Settled == {"Succeeded", "Failed", "Blocked", "Skipped", "NotRun",
            "Cancelled"} \cup Inherited
StepState == {"Pending"} \cup Active \cup Settled

ASSUME NodeAssumption ==
  /\ Node \subseteq Nat \ {0} /\ IsFiniteSet(Node)
  /\ Finalizer \subseteq Node /\ Advisory \subseteq Node
  /\ Conditional \subseteq Node /\ Declares \subseteq Node
  /\ Handler \subseteq Node /\ Export \subseteq Node

ASSUME GraphAssumption ==
  /\ Control \in [Node -> SUBSET Node]
  /\ Body \in [Node -> SUBSET Node]
  /\ ConditionData \in [Node -> SUBSET Node]
  /\ Disposition \in [Node -> SUBSET Node]
  /\ Retries \in [Node -> Nat]
  /\ When \in [Node -> SUBSET Triggers]
  /\ Seed \subseteq [Node -> {"Pending"} \cup Inherited]
  /\ \A seed \in Seed, n \in Finalizer : seed[n] = "Pending"

ASSUME LimitAssumption ==
  /\ MaxParallel \in Nat \ {0}
  /\ MaxTransitions \in Nat
  /\ MaxOperation \in Nat
  /\ "ForceAbort" \notin Reason /\ "None" \notin Reason

VARIABLE rt   \* RuntimeState

NoNode == 0
NoAction == <<0, 0>>

\* An action id names the transition that requested the action, <<0, sequence>>,
\* or the containment action of a force abort, <<operation, index>>.
ActionId == Nat \X Nat

AnyReason == Reason \cup {"ForceAbort"}

\* One node's RuntimeState is spread over functions on Node.  handler is the
\* outcome of the latest recovery round's handler; predicate is the result the
\* node's condition will have when it is evaluated.  In a terminal workflow
\* gate is "Settled" and reason the cancellation the outcome records.
State ==
  [ state             : [Node -> StepState],
    current_action    : [Node -> ActionId],
    target_execution  : [Node -> Nat],
    target_invocation : [Node -> ActionId],
    active_invocation : [Node -> {"None", "Target", "RecoveryHandler"}],
    rounds            : [Node -> Nat],
    handler           : [Node -> {"None", "Starting", "Running", "Recheck",
                                  "GaveUp", "Failed", "Cancelled"}],
    disposition       : [Node -> {"None", "Recovered", "Exhausted", "GaveUp",
                                  "HandlerFailed", "Cancelled"}],
    detail            : [Node -> AnyReason \cup {"None"}],
    condition_passed  : [Node -> BOOLEAN],
    predicate         : [Node -> {"Passed", "False", "Failed"}],
    workflow          : {"Executing", "Finalizing", "Succeeded", "Failed",
                         "Cancelled"},
    gate              : {"Open", "FailureStopped", "Cancelling", "Settled"},
    reason            : AnyReason \cup {"None"},
    primary_issue     : Node \cup {NoNode},
    trigger           : Triggers \cup {"None"},
    ordinary_reason   : AnyReason \cup {"None"},
    force_abort       : {"None", "Ordinary", "Finalization"},
    last_operation    : Nat,
    sequence          : Nat,
    exceeded          : BOOLEAN ]

-----------------------------------------------------------------------------
(* Reading the state.                                                      *)

First(S) == CHOOSE n \in S : \A m \in S : n <= m

Over(s) == s.workflow \in {"Succeeded", "Failed", "Cancelled"}
Terminal(s, n) == s.state[n] \in Settled
DataAvailable(s, n) == s.state[n] \in {"Succeeded", "InheritedSucceeded"}

ControlSatisfied(s, n) ==
  \/ s.state[n] \in {"Succeeded", "Skipped"} \cup Inherited
  \/ n \in Advisory /\ s.state[n] \in {"Failed", "Blocked"}

\* The producers of n's own role, which are n's direct prerequisites; a
\* finalizer may also read outputs of ordinary steps.
Data(n) == Body[n] \cup ConditionData[n]
Peers(n) == IF n \in Finalizer THEN Finalizer ELSE Ordinary
Prerequisites(n) ==
  Control[n] \cup Disposition[n] \cup (Data(n) \cap Peers(n))

OrdinaryPrerequisitesSatisfied(s, n) ==
  /\ \A p \in Control[n] : ControlSatisfied(s, p)
  /\ \A p \in Data(n) : DataAvailable(s, p)
  /\ \A p \in Disposition[n] : Terminal(s, p)

ConditionBlockers(s, n) ==
  {p \in Node : /\ Terminal(s, p)
                /\ \/ n \in Ordinary /\ p \in Control[n]
                                     /\ ~ControlSatisfied(s, p)
                   \/ p \in ConditionData[n] /\ ~DataAvailable(s, p)}

ConditionPending(s, n) == n \in Conditional /\ ~s.condition_passed[n]

OrdinaryBlockers(s, n) ==
  IF ConditionPending(s, n)
  THEN ConditionBlockers(s, n)
  ELSE {p \in Node : /\ Terminal(s, p)
                     /\ \/ p \in Control[n] /\ ~ControlSatisfied(s, p)
                        \/ p \in Body[n] /\ ~DataAvailable(s, p)}

PhaseGateOpen(s, n) ==
  /\ s.gate = "Open"
  /\ \/ s.workflow = "Executing" /\ n \in Ordinary
     \/ s.workflow = "Finalizing" /\ n \in Finalizer /\ s.trigger \in When[n]

ConditionGateReady(s, n) ==
  /\ ConditionPending(s, n)
  /\ s.state[n] = "Pending"
  /\ PhaseGateOpen(s, n)
  /\ ConditionBlockers(s, n) = {}
  /\ \A p \in Control[n] :
        IF n \in Ordinary THEN ControlSatisfied(s, p) ELSE Terminal(s, p)
  /\ \A p \in Disposition[n] : Terminal(s, p)
  /\ \A p \in ConditionData[n] : DataAvailable(s, p)

OrdinaryReadyUnlessBlocked(s, n) ==
  /\ n \in Ordinary
  /\ s.state[n] = "Pending"
  /\ OrdinaryBlockers(s, n) = {}

OrdinaryReady(s, n) ==
  /\ n \in Ordinary
  /\ s.state[n] = "Pending"
  /\ OrdinaryPrerequisitesSatisfied(s, n)

FinalizerReady(s, n) ==
  /\ n \in Finalizer
  /\ s.workflow # "Executing"
  /\ s.state[n] = "Pending"
  /\ s.trigger \in When[n]
  /\ \A p \in Prerequisites(n) : Terminal(s, p)

InputsUnavailable(s, n) == \E p \in Body[n] : ~DataAvailable(s, p)

StepAccepts(s, n, kind, a) == s.state[n] = kind /\ s.current_action[n] = a

HandlerAccepts(s, n, round, kind, a) ==
  /\ s.current_action[n] = a
  /\ s.active_invocation[n] = "RecoveryHandler"
  /\ s.rounds[n] = round
  /\ s.state[n] = kind

StaleOperation(s, op) == op <= s.last_operation

-----------------------------------------------------------------------------
(* Elementary updates.                                                     *)

NextSequence(s) ==
  IF s.sequence + 1 > MaxTransitions
  THEN [s EXCEPT !.exceeded = TRUE]
  ELSE [s EXCEPT !.sequence = @ + 1]

\* The id of the action requested by the latest transition.
Latest(s) == <<0, s.sequence>>

TransitionStep(s, n, to, a) ==
  [NextSequence(s) EXCEPT !.state[n] = to, !.current_action[n] = a]

ClearActiveInvocation(s, n) == [s EXCEPT !.active_invocation[n] = "None"]

AuthorizeTarget(s, n, execution) ==
  LET t == TransitionStep(s, n, "Starting", NoAction)
  IN  [t EXCEPT !.target_execution[n]  = execution,
                !.target_invocation[n] = Latest(t),
                !.active_invocation[n] = "Target",
                !.current_action[n]    = Latest(t)]

CloseOrdinaryGateForFailure(s, n) ==
  IF s.workflow = "Executing" /\ s.gate = "Open"
  THEN [NextSequence(s) EXCEPT !.gate = "FailureStopped",
                               !.primary_issue = n]
  ELSE s

SelectFinalizerPrimaryIssue(s, n) ==
  IF /\ s.workflow = "Finalizing" /\ s.gate = "Open"
     /\ s.primary_issue = NoNode /\ s.trigger = "Succeeded"
  THEN [NextSequence(s) EXCEPT !.primary_issue = n]
  ELSE s

CommitRequiredIssue(s, n) ==
  IF n \in Advisory THEN s
  ELSE IF n \in Finalizer THEN SelectFinalizerPrimaryIssue(s, n)
       ELSE CloseOrdinaryGateForFailure(s, n)

SettleTargetFailure(s, n) ==
  CommitRequiredIssue(
    ClearActiveInvocation(TransitionStep(s, n, "Failed", NoAction), n), n)

SettleBlocked(s, n) ==
  CommitRequiredIssue(TransitionStep(s, n, "Blocked", NoAction), n)

SettleCancelled(s, n, r) ==
  [TransitionStep(s, n, "Cancelled", NoAction) EXCEPT !.detail[n] = r]

-----------------------------------------------------------------------------
(* Recovery.                                                               *)

\* The disposition of a recovery that ran at least one round.
RecoveryDisposition(s, n, d) ==
  IF s.rounds[n] > 0 THEN [s EXCEPT !.disposition[n] = d] ELSE s

\* A recovery round is opened for a failed execution of a step while rounds
\* are left: it starts the handler, or the next execution at once.
RecoveryRoundExtra(s, n) ==
  /\ n \in Ordinary
  /\ s.target_execution[n] > 0
  /\ s.rounds[n] <= Retries[n]
  /\ s.rounds[n] + 1 = s.target_execution[n]

RecoveryRoundAvailable(s, n) ==
  /\ n \in Ordinary
  /\ s.target_execution[n] > 0
  /\ s.rounds[n] < Retries[n]
  /\ s.rounds[n] + 1 = s.target_execution[n]

ActivateRecoveryRound(s, n) ==
  LET r == [s EXCEPT !.rounds[n] = @ + 1, !.handler[n] = "None"]
      t == TransitionStep(r, n, "RecoveringStarting", NoAction)
  IN  IF n \in Handler
      THEN [t EXCEPT !.active_invocation[n] = "RecoveryHandler",
                     !.handler[n]           = "Starting",
                     !.current_action[n]    = Latest(t)]
      ELSE AuthorizeTarget(r, n, s.target_execution[n] + 1)

ApplyStepFailure(s, n) ==
  IF RecoveryRoundAvailable(s, n)
  THEN ActivateRecoveryRound(s, n)
  ELSE SettleTargetFailure(RecoveryDisposition(s, n, "Exhausted"), n)

ApplyHandlerFailure(s, n) ==
  SettleTargetFailure([s EXCEPT !.handler[n] = "Failed",
                                !.disposition[n] = "HandlerFailed"], n)

-----------------------------------------------------------------------------
(* Stabilisation.  Each loop visits nodes in id order; its body is written *)
(* as one visit, which returns its argument when no node is left to visit. *)

Repeat(f, s) == While(State, f)[2 * Cardinality(Node) + 3][s]

SettleOnlyBlocked(s) ==
  LET Blocked == {n \in Ordinary : /\ s.state[n] = "Pending"
                                   /\ OrdinaryBlockers(s, n) # {}}
  IN  IF Blocked = {} THEN s ELSE SettleBlocked(s, First(Blocked))

SettleOneOrdinary(s) ==
  LET Blocked == {n \in Ordinary : /\ s.state[n] = "Pending"
                                   /\ OrdinaryBlockers(s, n) # {}}
      Stopped == {n \in Ordinary : /\ s.gate = "FailureStopped"
                                   /\ OrdinaryReady(s, n)}
      n == First(Blocked \cup Stopped)
  IN  IF Blocked \cup Stopped = {} THEN s
      ELSE IF n \in Blocked THEN SettleBlocked(s, n)
           ELSE TransitionStep(s, n, "NotRun", NoAction)

PropagateOrdinary(s) == Repeat([t \in State |-> SettleOneOrdinary(t)], s)

\* The predicate itself reads only values and dispositions of settled nodes;
\* its result is the one s.predicate holds for the node.
EvaluateOne(s) ==
  LET Ready == {n \in Node : ConditionGateReady(s, n)}
      n == First(Ready)
  IN  IF Ready = {} THEN s
      ELSE IF s.predicate[n] = "Passed"
           THEN [s EXCEPT !.condition_passed[n] = TRUE]
           ELSE IF s.predicate[n] = "False"
                THEN TransitionStep(s, n, "Skipped", NoAction)
                ELSE SettleTargetFailure(s, n)

EvaluateReadyConditions(s) == Repeat([t \in State |-> EvaluateOne(t)], s)

SettleOneUnselected(s) ==
  LET Unselected == {n \in Finalizer : /\ s.state[n] = "Pending"
                                       /\ s.trigger \notin When[n]}
  IN  IF Unselected = {} THEN s
      ELSE TransitionStep(s, First(Unselected), "NotRun", NoAction)

PropagateTrigger(s) == Repeat([t \in State |-> SettleOneUnselected(t)], s)

BlockOneCondition(s) ==
  LET Blocked == {n \in Finalizer : /\ ConditionPending(s, n)
                                    /\ s.state[n] = "Pending"
                                    /\ PhaseGateOpen(s, n)
                                    /\ ConditionBlockers(s, n) # {}}
  IN  IF Blocked = {} THEN s ELSE SettleBlocked(s, First(Blocked))

BlockOneInput(s) ==
  LET Blocked == {n \in Finalizer : /\ FinalizerReady(s, n)
                                    /\ ~ConditionPending(s, n)
                                    /\ InputsUnavailable(s, n)}
  IN  IF Blocked = {} THEN s ELSE SettleBlocked(s, First(Blocked))

PropagateFinalizer(s) ==
  Repeat([t \in State |-> BlockOneInput(t)],
         Repeat([t \in State |-> BlockOneCondition(t)], PropagateTrigger(s)))

CancelOnePendingAsRun(s) ==
  LET Pending == {n \in Finalizer : s.state[n] = "Pending"}
  IN  IF Pending = {} THEN s
      ELSE SettleCancelled(s, First(Pending), s.ordinary_reason)

CancelOnePending(s) ==
  LET Pending == {n \in Finalizer : s.state[n] = "Pending"}
  IN  IF Pending = {} THEN s
      ELSE SettleCancelled(s, First(Pending), "ForceAbort")

\* A started node is no longer Pending and settles nothing, so starting the
\* first ready node while a slot is free starts the first `slots` ready nodes.
ActiveNodes(s) == {n \in Node : s.state[n] \in Active}

StartOne(s) ==
  LET Ready == {n \in Node :
                  /\ s.gate = "Open"
                  /\ \/ s.workflow = "Executing" /\ OrdinaryReady(s, n)
                     \/ /\ s.workflow = "Finalizing"
                        /\ FinalizerReady(s, n) /\ ~InputsUnavailable(s, n)}
  IN  IF Cardinality(ActiveNodes(s)) >= MaxParallel \/ Ready = {} THEN s
      ELSE AuthorizeTarget(s, First(Ready), 1)

SelectReadyNodes(s) == Repeat([t \in State |-> StartOne(t)], s)

\* The outcome an ordinary phase ends with, from the gate it ends with.
OrdinaryOutcome(s) ==
  IF s.primary_issue # NoNode THEN "Failed"
  ELSE IF s.gate = "Cancelling" THEN "Cancelled" ELSE "Succeeded"

FinishRun(s, outcome, r) ==
  IF \A n \in Export : Terminal(s, n)
  THEN [NextSequence(s) EXCEPT !.workflow = outcome, !.gate = "Settled",
                               !.reason = r]
  ELSE s

EnterFinalization(s) ==
  [NextSequence(s) EXCEPT
     !.workflow        = "Finalizing",
     !.trigger         = OrdinaryOutcome(s),
     !.ordinary_reason = s.reason,
     !.gate   = IF s.force_abort = "Ordinary" THEN "Cancelling" ELSE "Open",
     !.reason = IF s.force_abort = "Ordinary" THEN "ForceAbort" ELSE "None"]

EnterFinalizationEarly(s) ==
  IF \/ s.workflow # "Executing"
     \/ \E n \in Ordinary : s.state[n] \in {"Pending"} \cup Executing
  THEN s
  ELSE IF Finalizer = {} THEN FinishRun(s, OrdinaryOutcome(s), s.reason)
       ELSE EnterFinalization(s)

EnterFinalizationOrFinish(s) ==
  IF s.workflow # "Executing" \/ \E n \in Ordinary : ~Terminal(s, n) THEN s
  ELSE IF Finalizer = {} THEN FinishRun(s, OrdinaryOutcome(s), s.reason)
       ELSE EnterFinalization(s)

\* compose_final_outcome: what the ordinary phase decided stands; a finalizer
\* or a cancellation of finalization decides only after ordinary success.
FinalOutcomeCancelFirst(s) ==
  IF s.gate = "Cancelling" THEN "Cancelled"
  ELSE IF s.trigger # "Succeeded" THEN s.trigger ELSE OrdinaryOutcome(s)

FinalOutcome(s) ==
  IF s.trigger # "Succeeded" THEN s.trigger ELSE OrdinaryOutcome(s)

FinalReason(s) ==
  IF \/ s.trigger = "Cancelled"
     \/ s.trigger = "Failed" /\ s.ordinary_reason # "None"
  THEN s.ordinary_reason
  ELSE s.reason

FinishFinalization(s) ==
  IF s.workflow # "Finalizing" \/ \E n \in Finalizer : ~Terminal(s, n) THEN s
  ELSE FinishRun(s, FinalOutcome(s), FinalReason(s))

ExecutingPassOnePropagation(s) ==
  EnterFinalizationOrFinish(
    SelectReadyNodes(EvaluateReadyConditions(PropagateOrdinary(s))))

ExecutingPass(s) ==
  EnterFinalizationOrFinish(
    SelectReadyNodes(
      PropagateOrdinary(EvaluateReadyConditions(PropagateOrdinary(s)))))

SuppressedPass(s) ==
  FinishFinalization(
    SelectReadyNodes(
      EvaluateReadyConditions(
        Repeat([t \in State |-> CancelOnePending(t)], PropagateTrigger(s)))))

FinalizingPass(s) ==
  FinishFinalization(
    SelectReadyNodes(
      PropagateFinalizer(EvaluateReadyConditions(PropagateFinalizer(s)))))

Pass(s) ==
  IF s.workflow = "Executing" THEN ExecutingPass(s)
  ELSE IF s.workflow = "Finalizing"
       THEN IF s.force_abort = "Ordinary" THEN SuppressedPass(s)
            ELSE FinalizingPass(s)
       ELSE s

\* Passes run until one leaves the transition sequence where it was.
AdvancingPass(s) == IF Pass(s).sequence = s.sequence THEN s ELSE Pass(s)

Stabilize(s) == Pass(Repeat([t \in State |-> AdvancingPass(t)], s))

-----------------------------------------------------------------------------
(* Cancellation.  A force abort carries its operation id op > 0 to the     *)
(* containment actions; a graceful cancellation cancels with op = 0.       *)

Contained(s, role, op) ==
  {n \in role : s.current_action[n][1] = op /\ s.state[n] = "Cancelling"}

CancellableOnce(s, n, op) ==
  \/ s.state[n] = "Pending"
  \/ s.state[n] \in Executing /\ s.active_invocation[n] # "None"

CancellableBlocked(s, n, op) ==
  \/ s.state[n] \in {"Pending", "Blocked"}
  \/ s.state[n] \in Executing /\ s.active_invocation[n] # "None"
  \/ s.state[n] = "Cancelling" /\ op # 0 /\ s.current_action[n][1] # op

\* A force abort also takes over the nodes that are already cancelling.
Cancellable(s, n, op) ==
  \/ s.state[n] = "Pending"
  \/ s.state[n] \in Executing /\ s.active_invocation[n] # "None"
  \/ s.state[n] = "Cancelling" /\ op # 0 /\ s.current_action[n][1] # op

CancelOne(s, role, r, op) ==
  LET Todo == {n \in role : Cancellable(s, n, op)}
      n == First(Todo)
      id(t) == IF op = 0 THEN Latest(t)
               ELSE <<op, Cardinality(Contained(s, role, op)) + 1>>
      t == TransitionStep(s, n, "Cancelling", NoAction)
  IN  IF Todo = {} THEN s
      ELSE IF s.state[n] = "Pending" THEN SettleCancelled(s, n, r)
      ELSE IF s.state[n] = "Cancelling"
           THEN [s EXCEPT !.current_action[n] = id(s)]
           ELSE [t EXCEPT !.current_action[n] = id(t),
                          !.detail[n] = r,
                          !.handler[n] =
                             IF s.active_invocation[n] = "RecoveryHandler"
                             THEN "Cancelled" ELSE @]

CancelNodes(s, role, r, op) ==
  Repeat([t \in State |-> CancelOne(t, role, r, op)], s)

ApplyOrdinaryCancellation(s, r) ==
  CancelNodes([NextSequence(s) EXCEPT !.gate = "Cancelling", !.reason = r],
              Ordinary, r, 0)

ApplyFinalizationCancellation(s, r) ==
  CancelNodes([NextSequence(s) EXCEPT !.gate = "Cancelling", !.reason = r],
              Finalizer, r, 0)

ForceAbortReason(s) == IF s.gate = "Cancelling" THEN s.reason ELSE "ForceAbort"

ApplyForceAbort(s, op) ==
  LET phase == IF s.workflow = "Executing" THEN "Ordinary" ELSE "Finalization"
      role  == IF s.workflow = "Executing" THEN Ordinary ELSE Finalizer
  IN  CancelNodes(
        [NextSequence(s) EXCEPT
           !.force_abort = phase, !.last_operation = op,
           !.reason = ForceAbortReason(s),
           !.gate = "Cancelling"],
        role, "ForceAbort", op)

-----------------------------------------------------------------------------
(* Occurrences.                                                            *)

Fresh(seed, predicate) ==
  [ state             |-> seed,
    current_action    |-> [n \in Node |-> NoAction],
    target_execution  |-> [n \in Node |-> 0],
    target_invocation |-> [n \in Node |-> NoAction],
    active_invocation |-> [n \in Node |-> "None"],
    rounds            |-> [n \in Node |-> 0],
    handler           |-> [n \in Node |-> "None"],
    disposition       |-> [n \in Node |-> "None"],
    detail            |-> [n \in Node |-> "None"],
    condition_passed  |-> [n \in Node |-> FALSE],
    predicate         |-> predicate,
    workflow          |-> "Executing",
    gate              |-> "Open",
    reason            |-> "None",
    primary_issue     |-> NoNode,
    trigger           |-> "None",
    ordinary_reason   |-> "None",
    force_abort       |-> "None",
    last_operation    |-> 0,
    sequence          |-> 0,
    exceeded          |-> FALSE ]

\* A run starts with the nodes it inherits and with the cancellation that was
\* already pending when it was admitted, if any.
Init ==
  \E seed \in Seed :
  \E predicate \in [Node -> {"Passed", "False", "Failed"}] :
    LET s == Fresh(seed, predicate)
    IN  /\ \A n \in Node \ Conditional : predicate[n] = "Passed"
        /\ \/ rt = Stabilize(s)
           \/ \E r \in Reason : rt = Stabilize(ApplyOrdinaryCancellation(
                                       [s EXCEPT !.last_operation = 1], r))
           \/ rt = Stabilize(ApplyForceAbort(s, 1))

StepStarted(n, a) ==
  /\ ~Over(rt)
  /\ StepAccepts(rt, n, "Starting", a)
  /\ rt' = Stabilize(TransitionStep(rt, n, "Running", a))

StepStartFailed(n, a) ==
  /\ ~Over(rt)
  /\ StepAccepts(rt, n, "Starting", a)
  /\ rt' = Stabilize(ApplyStepFailure(rt, n))

\* A completion with the outputs captured: the recovery, if there was one,
\* succeeded.
Succeed(s, n) ==
  ClearActiveInvocation(
    TransitionStep(RecoveryDisposition(s, n, "Recovered"),
                   n, "Succeeded", NoAction), n)

StepExecutionCompleted(n, a) ==
  LET t == TransitionStep(rt, n, "CapturingOutputs", NoAction)
  IN  /\ ~Over(rt)
      /\ StepAccepts(rt, n, "Running", a)
      /\ rt' = Stabilize(IF n \in Declares
                         THEN [t EXCEPT !.current_action[n] = Latest(t)]
                         ELSE Succeed(t, n))

StepExecutionFailed(n, a) ==
  /\ ~Over(rt)
  /\ StepAccepts(rt, n, "Running", a)
  /\ rt' = Stabilize(ApplyStepFailure(rt, n))

OutputsCaptured(n, a) ==
  /\ ~Over(rt)
  /\ StepAccepts(rt, n, "CapturingOutputs", a)
  /\ rt' = Stabilize(Succeed(rt, n))

OutputCaptureFailed(n, a) ==
  /\ ~Over(rt)
  /\ StepAccepts(rt, n, "CapturingOutputs", a)
  /\ rt' = Stabilize(ApplyStepFailure(rt, n))

RecoveryHandlerStarted(n, round, a) ==
  /\ ~Over(rt)
  /\ HandlerAccepts(rt, n, round, "RecoveringStarting", a)
  /\ rt' = Stabilize(TransitionStep([rt EXCEPT !.handler[n] = "Running"],
                                    n, "RecoveringRunning", a))

RecoveryHandlerStartFailed(n, round, a) ==
  /\ ~Over(rt)
  /\ HandlerAccepts(rt, n, round, "RecoveringStarting", a)
  /\ rt' = Stabilize(ApplyHandlerFailure(rt, n))

\* The latest failed execution is the one the current round was opened for,
\* and its number is the round's.
RecoveryHandlerRecheck(n, round, a) ==
  /\ ~Over(rt)
  /\ HandlerAccepts(rt, n, round, "RecoveringRunning", a)
  /\ rt' = Stabilize(AuthorizeTarget([rt EXCEPT !.handler[n] = "Recheck"],
                                     n, rt.rounds[n] + 1))

RecoveryHandlerGaveUp(n, round, a) ==
  /\ ~Over(rt)
  /\ HandlerAccepts(rt, n, round, "RecoveringRunning", a)
  /\ rt' = Stabilize(SettleTargetFailure(
                       [rt EXCEPT !.handler[n] = "GaveUp",
                                  !.disposition[n] = "GaveUp"], n))

RecoveryHandlerExecutionFailed(n, round, a) ==
  /\ ~Over(rt)
  /\ HandlerAccepts(rt, n, round, "RecoveringRunning", a)
  /\ rt' = Stabilize(ApplyHandlerFailure(rt, n))

CancellationOperationRequested(op, r) ==
  LET s == [rt EXCEPT !.last_operation = op]
  IN  /\ ~Over(rt)
      /\ ~StaleOperation(rt, op)
      /\ rt.gate # "Cancelling"
      /\ rt' = Stabilize(IF rt.workflow = "Executing"
                         THEN ApplyOrdinaryCancellation(s, r)
                         ELSE ApplyFinalizationCancellation(s, r))

\* Once finalization has begun the request only records its operation.
OrdinaryCancellationOperationRequested(op, r) ==
  LET s == [rt EXCEPT !.last_operation = op]
  IN  /\ ~Over(rt)
      /\ ~StaleOperation(rt, op)
      /\ rt.workflow = "Executing" => rt.gate # "Cancelling"
      /\ rt' = Stabilize(IF rt.workflow = "Executing"
                         THEN ApplyOrdinaryCancellation(s, r)
                         ELSE s)

ForceAbortRequested(op) ==
  /\ ~Over(rt)
  /\ ~StaleOperation(rt, op)
  /\ rt.force_abort = "None"
  /\ rt' = Stabilize(ApplyForceAbort(rt, op))

\* The cancellation reason of a contained node is the force abort's.
StepQuiesced(n, a) ==
  LET r == IF a[1] # 0 THEN "ForceAbort" ELSE rt.detail[n]
  IN  /\ ~Over(rt)
      /\ StepAccepts(rt, n, "Cancelling", a)
      /\ rt.active_invocation[n] # "None"
      /\ rt' = Stabilize(ClearActiveInvocation(
                 SettleCancelled(RecoveryDisposition(rt, n, "Cancelled"), n, r),
                 n))

\* A finished run discards what still arrives.
Discard == Over(rt) /\ UNCHANGED rt

-----------------------------------------------------------------------------
(* The reducer under a driver that answers the current action of a node.   *)

Reply(n) ==
  LET a == rt.current_action[n]
      round == rt.rounds[n]
  IN  \/ StepStarted(n, a) \/ StepStartFailed(n, a)
      \/ StepExecutionCompleted(n, a) \/ StepExecutionFailed(n, a)
      \/ OutputsCaptured(n, a) \/ OutputCaptureFailed(n, a)
      \/ RecoveryHandlerStarted(n, round, a)
      \/ RecoveryHandlerStartFailed(n, round, a)
      \/ RecoveryHandlerRecheck(n, round, a)
      \/ RecoveryHandlerGaveUp(n, round, a)
      \/ RecoveryHandlerExecutionFailed(n, round, a)
      \/ StepQuiesced(n, a)

Cancel ==
  \E op \in 1..MaxOperation :
    \/ \E r \in Reason : \/ CancellationOperationRequested(op, r)
                         \/ OrdinaryCancellationOperationRequested(op, r)
    \/ ForceAbortRequested(op)

Next == (\E n \in Node : Reply(n)) \/ Cancel \/ Discard

Spec == Init /\ [][Next]_rt

\* Every invocation the driver was asked for is answered in the end.
FairSpec == Spec /\ \A n \in Node : WF_rt(Reply(n))

-----------------------------------------------------------------------------
(* Properties.                                                             *)

\* The reducer's state is a RuntimeState (the types of runtime.rs).
TypeOK == rt \in State

Required == Node \ Advisory
Issue(n) == rt.state[n] \in {"Failed", "Blocked"}
Started(n) == rt.target_execution[n] > 0

\* select_ready_nodes: no more nodes are active, recovering and cancelling ones
\* included, than maximum_parallel_steps allows.
ParallelismBound == Cardinality(ActiveNodes(rt)) <= MaxParallel

\* resolved_action_inputs never hands out ActionInput::Unavailable: a node that
\* was ever started, in a later recovery execution too, has every output its
\* body reads, and an ordinary step's control prerequisites were satisfied. Its
\* condition was evaluated to true before, although select_ready_nodes does not
\* look at condition_passed.
InputsPresent ==
  \A n \in Node : Started(n) =>
    /\ \A p \in Body[n] : DataAvailable(rt, p)
    /\ n \in Ordinary => \A p \in Control[n] : ControlSatisfied(rt, p)
    /\ n \in Conditional => rt.condition_passed[n] /\ rt.predicate[n] = "Passed"

\* A committed state is a fixed point of stabilize: breaking its loop when the
\* transition sequence stands still leaves nothing startable, blocked or
\* finished behind.
Quiescent == rt.exceeded \/ Pass(rt) = rt

\* While a run is not over some node is active, so an occurrence that can move
\* the run on is still to come: the reducer never waits for nothing.
NeverStuck == Over(rt) \/ ActiveNodes(rt) # {}

\* next_sequence never exceeds the admitted ceiling, so the coordinator never
\* abandons a run with TransitionCapacityExceeded.
CeilingSuffices == ~rt.exceeded

\* A finished run reports Failed exactly when a required step failed or was
\* blocked, or after ordinary success a required finalizer was; the reported
\* primary issue is such a node; a cancelled run carries a reason; a succeeded
\* one carries none; and every node is settled.
OutcomeReflectsNodes ==
  Over(rt) =>
    LET culprits == {n \in Required : /\ Issue(n)
                                      /\ \/ n \in Ordinary
                                         \/ rt.trigger = "Succeeded"}
    IN  /\ rt.workflow = "Failed" <=> culprits # {}
        /\ rt.workflow = "Failed" => rt.primary_issue \in culprits
        /\ rt.workflow = "Cancelled" => rt.reason # "None"
        /\ rt.workflow = "Succeeded" => rt.reason = "None"
        /\ \A n \in Node : Terminal(rt, n)

\* A finalizer starts only when every ordinary step is settled, for a trigger
\* it is declared for, and the trigger is the ordinary outcome: Failed exactly
\* when a required step failed or was blocked.
FinalizersAfterOrdinary ==
  \A f \in Finalizer : Started(f) =>
    /\ \A n \in Ordinary : Terminal(rt, n)
    /\ rt.trigger \in When[f]
    /\ rt.trigger = "Failed" <=> \E n \in Required \cap Ordinary : Issue(n)

\* A force abort of the ordinary phase suppresses finalization: no finalizer
\* ever starts, and the selected ones are cancelled as force-aborted.
ForceAbortSuppressesFinalizers ==
  rt.force_abort = "Ordinary" =>
    \A f \in Finalizer :
      /\ ~Started(f)
      /\ rt.state[f] \in {"Pending", "NotRun", "Cancelled"}
      /\ rt.state[f] = "Cancelled" => rt.detail[f] = "ForceAbort"

\* After a force abort every node that is still being cancelled in its phase
\* waits for the answer to a containment action of that abort, not for the
\* graceful one it replaced.
ForceAbortContains ==
  rt.force_abort # "None" =>
    \A n \in Node : rt.state[n] = "Cancelling" =>
      rt.current_action[n] \in (1..rt.last_operation) \X (1..Cardinality(Node))

\* The recovery record tells the truth: rounds stay within the configured
\* retries, the executions are one more than the rounds that led to one, and a
\* settled node's terminal disposition is the reason its recovery ended.
RecoveryLedger ==
  \A n \in Node :
    /\ rt.rounds[n] <= Retries[n]
    /\ rt.target_execution[n] \in {rt.rounds[n], rt.rounds[n] + 1}
    /\ rt.state[n] \in {"RecoveringStarting", "RecoveringRunning"}
         => rt.target_execution[n] = rt.rounds[n] /\ n \in Handler
    /\ rt.rounds[n] > 0 =>
         /\ Terminal(rt, n) <=> rt.disposition[n] # "None"
         /\ rt.state[n] = "Succeeded" <=> rt.disposition[n] = "Recovered"
         /\ rt.state[n] = "Cancelled" <=> rt.disposition[n] = "Cancelled"
         /\ rt.disposition[n] = "Exhausted"
              => /\ rt.rounds[n] = Retries[n]
                 /\ rt.target_execution[n] = Retries[n] + 1
         /\ rt.disposition[n] = "GaveUp" <=> rt.handler[n] = "GaveUp"
         /\ rt.disposition[n] = "HandlerFailed" <=> rt.handler[n] = "Failed"

\* A settled node is settled for good, and a node never goes back to Pending.
NodeSettlesOnce ==
  [][\A n \in Node : /\ Terminal(rt, n) => rt'.state[n] = rt.state[n]
                     /\ rt'.state[n] = "Pending" => rt.state[n] = "Pending"]_rt

\* The first required issue of a run stays its primary issue.
PrimaryIssueStable ==
  [][rt.primary_issue # NoNode => rt'.primary_issue = rt.primary_issue]_rt

\* The reason a phase was first cancelled for is the one it keeps, whatever is
\* requested later, and a run whose ordinary phase was cancelled reports it.
ReasonStable ==
  [][/\ rt.gate = "Cancelling" /\ rt'.workflow = rt.workflow
          => rt'.reason = rt.reason
     /\ rt.workflow = "Executing" /\ rt.gate = "Cancelling" /\ Over(rt')
          => rt'.reason = rt.reason
     /\ rt.workflow = "Finalizing" /\ rt.ordinary_reason # "None" /\ Over(rt')
          => rt'.reason = rt.ordinary_reason]_rt

\* docs/workflow-v1.md: a required failure "fails the ordinary outcome": once
\* the gate is stopped by one, the ordinary phase is left in the end.
FailureFailsOrdinaryOutcome ==
  rt.gate = "FailureStopped" ~> rt.gate # "FailureStopped"
=============================================================================
