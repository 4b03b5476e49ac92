----------------------------- MODULE StepRuntime -----------------------------
(***************************************************************************)
(* The coordinator (crates/execution/src/workflow/coordinator.rs) and the  *)
(* step runtime it drives (step_runtime.rs), around the reducer of         *)
(* WorkflowRuntime.  The coordinator reads cancellation operations and the *)
(* occurrences of a bounded channel, reduces one at a time, commits, and   *)
(* only then releases the requested actions.  Every released start becomes *)
(* a task that prepares, launches and settles a command or an agent; one   *)
(* worker captures outputs; a cancellation meets each of them at any of    *)
(* its steps.  A step of a task ends where it gives up the registry's lock *)
(* or waits.                                                               *)
(*                                                                         *)
(* A task never finds its own registry entry gone, since only the task     *)
(* removes it, so the `Gone` branches are left out, and so is              *)
(* `known_actions`, since the reducer never repeats an action id           *)
(* (NoRepeatedReport).                                                     *)
(***************************************************************************)
EXTENDS WorkflowRuntime, Sequences, Functions, TLC

CONSTANTS
  AgentStep,      \* the nodes whose body is an agent; the others are commands
  AgentHandler,   \* the nodes whose recovery handler is an agent
  CommitMayFail   \* whether the commit port may fail

ASSUME DriverAssumption ==
  /\ AgentStep \subseteq Node /\ AgentHandler \subseteq Node
  /\ CommitMayFail \in BOOLEAN

VARIABLES
  source,          \* the cancellation source: operations, the next one to read,
                   \* the phase's graceful request and the force abort
  coordinator,     \* where the coordinator is, and what it holds
  channel,         \* the bounded occurrence channel
  task,            \* the step tasks by action id, with their registry entries
  capture,         \* CaptureWorkRegistry and the capture worker's queue
  cancelled_steps, \* CommandWorkRegistry::cancelled_steps
  staged           \* the nodes whose agent staging is still held

driver == <<source, coordinator, channel, task, capture, cancelled_steps, staged>>
vars == <<rt, driver>>

-----------------------------------------------------------------------------
(* Tasks and occurrences.                                                  *)

\* round is 0 for a target execution and the recovery round for a handler;
\* tell is the occurrence the task reports next, control what was done to the
\* process that the registry knows.  A task that is Sending has left the
\* registry.
Task ==
  [ node    : Node,
    round   : Nat,
    at      : {"Preparing", "StartFailing", "Arming", "Launching", "Recording",
               "Reporting", "Running", "Settling", "Claiming", "Offered",
               "Claimed", "Quiescing", "Finishing", "Sending",
               "Invoking", "Joining", "Invoked", "Waiting"},
    cancel  : ActionId,
    woken   : BOOLEAN,
    process : {"None", "Live", "Dead"},
    control : {"None", "Recorded", "Interrupt", "Force"},
    started : BOOLEAN,
    tell    : STRING ]

NewTask(n, round, at, tell) ==
  [ node |-> n, round |-> round, at |-> at, cancel |-> NoAction,
    woken |-> FALSE, process |-> "None", control |-> "None",
    started |-> FALSE, tell |-> tell ]

IsAgent(t) == t.node \in (IF t.round = 0 THEN AgentStep ELSE AgentHandler)
HoldsStaging(t) == t.round = 0 /\ t.node \in AgentStep

Without(f, a) == Restrict(f, DOMAIN f \ {a})

\* The registry entry of a step: CommandWorkRegistry::active_by_step.
Registered(n) == {a \in DOMAIN task : task[a].node = n /\ task[a].at # "Sending"}
Capturing(n) == {a \in DOMAIN capture : capture[a].node = n}

Occurrence(kind, n, round, a, from) ==
  [kind |-> kind, node |-> n, round |-> round, action |-> a, from |-> from]

\* Completions are claimed, capture results acknowledged, the rest is ready.
Claims == {"StepExecutionCompleted", "StepExecutionFailed",
           "HandlerRecheck", "HandlerGaveUp", "HandlerFailed"}
Acknowledged == {"OutputsCaptured", "OutputCaptureFailed"}

Closed == coordinator.closed

Room == ~Closed /\ Len(channel) < MaxParallel

-----------------------------------------------------------------------------
(* The reducer, as the coordinator calls it.                               *)

Accepts(o) ==
  LET n == o.node
      a == o.action
  IN  \/ /\ o.kind \in {"StepStarted", "StepStartFailed"}
         /\ StepAccepts(rt, n, "Starting", a)
      \/ /\ o.kind \in {"StepExecutionCompleted", "StepExecutionFailed"}
         /\ StepAccepts(rt, n, "Running", a)
      \/ /\ o.kind \in Acknowledged
         /\ StepAccepts(rt, n, "CapturingOutputs", a)
      \/ /\ o.kind \in {"HandlerStarted", "HandlerStartFailed"}
         /\ HandlerAccepts(rt, n, o.round, "RecoveringStarting", a)
      \/ /\ o.kind \in {"HandlerRecheck", "HandlerGaveUp", "HandlerFailed"}
         /\ HandlerAccepts(rt, n, o.round, "RecoveringRunning", a)
      \/ /\ o.kind = "StepQuiesced"
         /\ StepAccepts(rt, n, "Cancelling", a)
         /\ rt.active_invocation[n] # "None"

Apply(o) ==
  LET n == o.node
      a == o.action
      round == o.round
  IN  \/ o.kind = "StepStarted" /\ StepStarted(n, a)
      \/ o.kind = "StepStartFailed" /\ StepStartFailed(n, a)
      \/ o.kind = "StepExecutionCompleted" /\ StepExecutionCompleted(n, a)
      \/ o.kind = "StepExecutionFailed" /\ StepExecutionFailed(n, a)
      \/ o.kind = "OutputsCaptured" /\ OutputsCaptured(n, a)
      \/ o.kind = "OutputCaptureFailed" /\ OutputCaptureFailed(n, a)
      \/ o.kind = "HandlerStarted" /\ RecoveryHandlerStarted(n, round, a)
      \/ o.kind = "HandlerStartFailed" /\ RecoveryHandlerStartFailed(n, round, a)
      \/ o.kind = "HandlerRecheck" /\ RecoveryHandlerRecheck(n, round, a)
      \/ o.kind = "HandlerGaveUp" /\ RecoveryHandlerGaveUp(n, round, a)
      \/ o.kind = "HandlerFailed" /\ RecoveryHandlerExecutionFailed(n, round, a)
      \/ o.kind = "StepQuiesced" /\ StepQuiesced(n, a)

\* The actions a reduction from s to t requests, least id first; the staging of
\* a completion that no capture takes over is returned before anything starts.
Requested(s, t) ==
  LET kind(n) == CASE t.state[n] = "Starting" -> "StartStep"
                   [] t.state[n] = "RecoveringStarting" -> "StartRecoveryHandler"
                   [] t.state[n] = "CapturingOutputs" -> "CaptureOutputs"
                   [] t.state[n] = "Cancelling" /\ t.current_action[n][1] = 0
                        -> "CancelStep"
                   [] OTHER -> "ForceAbortStep"
  IN  {[kind |-> kind(n), node |-> n, id |-> t.current_action[n],
        round |-> t.rounds[n]] :
         n \in {m \in Node : /\ t.state[m] \in Active
                             /\ t.current_action[m] # s.current_action[m]}}

ReleaseStagingLast(o, accepted) ==
  IF /\ o.kind = "StepExecutionCompleted" /\ o.node \in staged
     /\ ~(accepted /\ o.node \in Declares)
  THEN {[kind |-> "ReleaseStepResources", node |-> o.node,
         id |-> <<MaxOperation + 1, 0>>, round |-> 0]}
  ELSE {}

ReleaseStaging(o, accepted) ==
  IF /\ o.kind = "StepExecutionCompleted" /\ o.node \in staged
     /\ ~(accepted /\ o.node \in Declares)
  THEN {[kind |-> "ReleaseStepResources", node |-> o.node, id |-> NoAction,
         round |-> 0]}
  ELSE {}

Precedes(x, y) ==
  \/ x.id[1] < y.id[1]
  \/ x.id[1] = y.id[1] /\ x.id[2] <= y.id[2]
Least(S) == CHOOSE x \in S : \A y \in S : Precedes(x, y)

-----------------------------------------------------------------------------
(* The coordinator.                                                        *)

NothingRequested == [current_action |-> [n \in Node |-> NoAction]]

\* The first reduction is committed and its actions are to be released.
DriverInit ==
  /\ Init
  /\ source = [queue  |-> IF rt.last_operation = 1 THEN <<"Read">> ELSE <<>>,
               next   |-> rt.last_operation + 1,
               reason |-> rt.gate = "Cancelling" \/ rt.workflow = "Cancelled",
               forced |-> rt.force_abort # "None"]
  /\ coordinator = [at |-> "Releasing", closed |-> Over(rt), pending |-> <<>>,
                    claim |-> NoAction, todo |-> Requested(NothingRequested, rt),
                    wake |-> NoAction, observed |-> {}]
  /\ channel = <<>>
  /\ task = <<>>
  /\ capture = <<>>
  /\ cancelled_steps = {}
  /\ staged = {}

RequestCancellation ==
  /\ ~Closed /\ Len(source.queue) < MaxOperation
  /\ ~source.reason /\ ~source.forced
  /\ source' = [source EXCEPT !.queue = Append(@, "Graceful"), !.reason = TRUE]
  /\ UNCHANGED <<rt, coordinator, channel, task, capture, cancelled_steps, staged>>

RequestForceAbort ==
  /\ ~Closed /\ Len(source.queue) < MaxOperation
  /\ ~source.forced
  /\ source' = [source EXCEPT !.queue = Append(@, "ForceAbort"),
                              !.reason = TRUE, !.forced = TRUE]
  /\ UNCHANGED <<rt, coordinator, channel, task, capture, cancelled_steps, staged>>

Operation == source.next <= Len(source.queue)

\* The phase's reason is cleared when a commit enters finalization.
ArmFinalization(s) ==
  IF rt.workflow = "Executing" /\ rt'.workflow = "Finalizing"
  THEN [s EXCEPT !.reason = FALSE] ELSE s

Committed(c, todo) ==
  [c EXCEPT !.at = "Releasing", !.todo = todo, !.closed = Over(rt')]

\* A commit that fails, like a reduction beyond the transition ceiling, ends
\* the run with the state of before, and none of its actions is released.
CommitFailed(c) == [c EXCEPT !.at = "Failed", !.closed = TRUE]

ReduceOperation(op, kind) ==
  LET graceful == \E r \in Reason : CancellationOperationRequested(op, r)
  IN  IF kind = "Graceful"
      THEN IF rt.gate # "Cancelling" THEN graceful ELSE UNCHANGED rt
      ELSE IF rt.force_abort = "None" THEN ForceAbortRequested(op)
           ELSE UNCHANGED rt

\* An operation goes before every driver occurrence; one that was received
\* before the queue was read again is kept aside for the next round.
ReadOperation ==
  /\ coordinator.at = "Selecting" /\ Operation
  /\ \E keep \in BOOLEAN :
       LET received == keep /\ coordinator.pending = <<>> /\ channel # <<>>
           c == IF received
                THEN [coordinator EXCEPT !.pending = <<Head(channel)>>]
                ELSE coordinator
           s == [source EXCEPT !.next = @ + 1]
       IN  /\ keep => received
           /\ channel' = IF received THEN Tail(channel) ELSE channel
           /\ \/ /\ ReduceOperation(source.next, source.queue[source.next])
                 /\ coordinator' = Committed(c, Requested(rt, rt'))
                 /\ source' = ArmFinalization(s)
              \/ /\ CommitMayFail
                 /\ coordinator' = CommitFailed(c)
                 /\ source' = s
                 /\ UNCHANGED rt
  /\ UNCHANGED <<task, capture, cancelled_steps, staged>>

Input == coordinator.pending \o channel

Received(c) == [c EXCEPT !.pending = <<>>]

RestOfChannel ==
  IF coordinator.pending = <<>> THEN Tail(channel) ELSE channel

\* select(): the claim's task learns that its occurrence was chosen, and the
\* coordinator waits for it to publish or discard.
SelectClaim ==
  LET o == Head(Input)
  IN  /\ coordinator.at = "Selecting" /\ ~Operation
      /\ Input # <<>> /\ o.kind \in Claims
      /\ task' = [task EXCEPT ![o.from].at = "Claimed"]
      /\ coordinator' = [Received(coordinator) EXCEPT !.at = "Claiming",
                                                      !.claim = o.from]
      /\ channel' = RestOfChannel
      /\ UNCHANGED <<rt, source, capture, cancelled_steps, staged>>

Identity(o) ==
  <<o.action, IF o.kind \in {"HandlerRecheck", "HandlerGaveUp"}
              THEN "HandlerCompleted" ELSE o.kind>>

\* Reduce and commit one resolved occurrence.  A repeated identity is committed
\* without effect; a new one beyond the ceiling ends the run.
Resolve(o, c) ==
  LET accepted == Accepts(o) /\ Identity(o) \notin c.observed
      seen == [c EXCEPT !.observed = @ \cup {Identity(o)}]
  IN  IF /\ Identity(o) \notin c.observed
         /\ Cardinality(c.observed) >= MaxTransitions
      THEN /\ coordinator' = [c EXCEPT !.at = "Exhausted", !.closed = TRUE]
           /\ staged' = staged \ {x.node : x \in ReleaseStaging(o, FALSE)}
           /\ UNCHANGED <<rt, source, capture>>
      ELSE \/ /\ IF accepted THEN Apply(o) ELSE UNCHANGED rt
              /\ LET done == Committed(seen, Requested(rt, rt')
                                             \cup ReleaseStaging(o, accepted))
                 IN  coordinator' =
                       IF o.kind \in Acknowledged
                       THEN [done EXCEPT !.at = "Finalizing",
                                         !.closed = c.closed]
                       ELSE done
              /\ capture' = IF o.kind \in Acknowledged
                            THEN [capture EXCEPT ![o.from].at =
                                    IF accepted THEN "Accepted" ELSE "Rejected"]
                            ELSE capture
              /\ source' = ArmFinalization(source)
              /\ UNCHANGED staged
           \/ /\ CommitMayFail
              /\ coordinator' = CommitFailed(seen)
              /\ staged' = IF o.kind = "StepExecutionCompleted"
                           THEN staged \ {o.node} ELSE staged
              /\ UNCHANGED <<rt, source, capture>>

SelectReady ==
  LET o == Head(Input)
  IN  /\ coordinator.at = "Selecting" /\ ~Operation
      /\ Input # <<>> /\ o.kind \notin Claims
      /\ Resolve(o, Received(coordinator))
      /\ channel' = RestOfChannel
      /\ UNCHANGED <<task, cancelled_steps>>

-----------------------------------------------------------------------------
(* ActionPort::release, one action at a time.                              *)

Action == Least(coordinator.todo)
Released == [coordinator EXCEPT !.todo = @ \ {Action}]

Releasing(kinds) ==
  /\ coordinator.at = "Releasing"
  /\ coordinator.todo # {} /\ Action.kind \in kinds

\* register_start refuses a step that was cancelled or is busy.
Refuses(n) == n \in cancelled_steps \/ Registered(n) # {}

ReleaseStart ==
  LET x == Action
      round == IF x.kind = "StartStep" THEN 0 ELSE x.round
  IN  /\ Releasing({"StartStep", "StartRecoveryHandler"})
      /\ task' = IF Refuses(x.node) THEN task
                 ELSE (x.id :> NewTask(x.node, round, "Preparing", "None")) @@ task
      /\ coordinator' = Released
      /\ UNCHANGED <<rt, source, channel, capture, cancelled_steps, staged>>

\* register_capture.
ReleaseCapture ==
  LET x == Action
      free == Capturing(x.node) = {}
  IN  /\ Releasing({"CaptureOutputs"})
      /\ capture' = IF free
                    THEN (x.id :> [node |-> x.node, at |-> "Queued",
                                   cancel |-> NoAction, result |-> "None"])
                         @@ capture
                    ELSE capture
      /\ staged' = IF free THEN staged ELSE staged \ {x.node}
      /\ coordinator' = Released
      /\ UNCHANGED <<rt, source, channel, task, cancelled_steps>>

ReleaseResources ==
  /\ Releasing({"ReleaseStepResources"})
  /\ staged' = staged \ {Action.node}
  /\ coordinator' = Released
  /\ UNCHANGED <<rt, source, channel, task, capture, cancelled_steps>>

\* schedule_quiesced_report, and the report of a revoked capture.
QuiescedReport(n, cancel) ==
  [NewTask(n, 0, "Sending", "StepQuiesced") EXCEPT !.cancel = cancel]

\* A capture is revoked; a registered task gets the cancellation, which a force
\* abort replaces; a step with neither is reported quiesced at once.  A process
\* that is recorded is interrupted or killed; the wake follows as a step of its
\* own.
ReleaseCancel ==
  LET x == Action
      n == x.node
      force == x.kind = "ForceAbortStep"
      revoked(w) == IF w.cancel = NoAction \/ force
                    THEN [w EXCEPT !.cancel = x.id] ELSE w
      withdrawn(t) ==
        IF force
        THEN [t EXCEPT !.cancel = x.id,
                       !.control = IF @ = "None" THEN @ ELSE "Force"]
        ELSE IF t.cancel # NoAction THEN t
        ELSE [t EXCEPT !.cancel = x.id,
                       !.control = IF @ = "Recorded" THEN "Interrupt" ELSE @]
  IN  /\ Releasing({"CancelStep", "ForceAbortStep"})
      /\ IF Capturing(n) # {}
         THEN /\ capture' = [a \in DOMAIN capture |->
                               IF a \in Capturing(n) THEN revoked(capture[a])
                               ELSE capture[a]]
              /\ coordinator' = Released
              /\ UNCHANGED <<task, cancelled_steps>>
         ELSE /\ cancelled_steps' = cancelled_steps \cup {n}
              /\ IF Registered(n) = {}
                 THEN /\ task' = (x.id :> QuiescedReport(n, x.id)) @@ task
                      /\ coordinator' = Released
                 ELSE LET a == CHOOSE b \in Registered(n) : TRUE
                      IN  /\ task' = [task EXCEPT ![a] = withdrawn(@)]
                          /\ coordinator' = [coordinator EXCEPT !.at = "Waking",
                                                                !.wake = a]
              /\ UNCHANGED capture
      /\ UNCHANGED <<rt, source, channel, staged>>

\* The task may have moved on meanwhile, or be gone.
Wake ==
  LET a == coordinator.wake
  IN  /\ coordinator.at = "Waking"
      /\ task' = IF a \in DOMAIN task THEN [task EXCEPT ![a].woken = TRUE] ELSE task
      /\ coordinator' = [Released EXCEPT !.at = "Releasing", !.wake = NoAction]
      /\ UNCHANGED <<rt, source, channel, capture, cancelled_steps, staged>>

\* All actions are released: the next round, or the end of run().
EndRound ==
  /\ coordinator.at = "Releasing" /\ coordinator.todo = {}
  /\ coordinator' = [coordinator EXCEPT !.at = IF Over(rt) THEN "Over"
                                               ELSE "Selecting"]
  /\ UNCHANGED <<rt, source, channel, task, capture, cancelled_steps, staged>>

\* quiesce_active_work: every registered task and capture is revoked and woken;
\* then shutdown waits for all of them.
QuiesceActiveWork ==
  /\ coordinator.at = "Failed"
  /\ source' = [source EXCEPT !.reason = TRUE]
  /\ task' = [a \in DOMAIN task |->
                IF task[a].at = "Sending" THEN task[a]
                ELSE [task[a] EXCEPT !.cancel = IF @ = NoAction THEN a ELSE @,
                                     !.woken = TRUE]]
  /\ capture' = [a \in DOMAIN capture |->
                   [capture[a] EXCEPT !.cancel = IF @ = NoAction THEN a ELSE @]]
  /\ cancelled_steps' = cancelled_steps \cup
                        {task[a].node : a \in {b \in DOMAIN task :
                                                 task[b].at # "Sending"}}
  /\ coordinator' = [coordinator EXCEPT !.at = "Over"]
  /\ UNCHANGED <<rt, channel, staged>>

-----------------------------------------------------------------------------
(* A step task.                                                            *)

Goto(a, at) == task' = [task EXCEPT ![a].at = at]
Quiet == UNCHANGED <<rt, source, coordinator, channel, capture, cancelled_steps>>

Kind(t, target, handler) == IF t.round = 0 THEN target ELSE handler

\* The outcomes a completed or failed invocation may report.
Completion(t) == IF t.round = 0 THEN {"StepExecutionCompleted"}
                 ELSE {"HandlerRecheck", "HandlerGaveUp"}
Failure(t) == Kind(t, "StepExecutionFailed", "HandlerFailed")

\* Preparation, or a panic before it, and begin_launch.
Prepare(a) ==
  LET t == task[a]
  IN  /\ t.at = "Preparing"
      /\ \/ Goto(a, "StartFailing") /\ UNCHANGED staged
         \/ /\ t.cancel # NoAction
            /\ Goto(a, "Finishing") /\ UNCHANGED staged
         \/ /\ t.cancel = NoAction
            /\ Goto(a, IF IsAgent(t) THEN "Recording" ELSE "Arming")
            /\ staged' = IF HoldsStaging(t) THEN staged \cup {t.node} ELSE staged
      /\ Quiet

\* settle_unlaunched: claim_completion leaves the registry before the report.
FailStart(a) ==
  LET t == task[a]
  IN  /\ t.at = "StartFailing"
      /\ IF t.cancel # NoAction THEN Goto(a, "Finishing")
         ELSE task' = [task EXCEPT ![a].at = "Sending",
                         ![a].tell = Kind(t, "StepStartFailed",
                                          "HandlerStartFailed")]
      /\ Quiet /\ UNCHANGED staged

\* arm_launch_cancellation.
Arm(a) ==
  /\ task[a].at = "Arming"
  /\ Goto(a, IF task[a].cancel # NoAction THEN "Finishing" ELSE "Launching")
  /\ Quiet /\ UNCHANGED staged

\* The launch fails, its child stopped, or it releases the child: also when the
\* cancellation came too late to stop it.
Launch(a) ==
  LET t == task[a]
  IN  /\ t.at = "Launching"
      /\ \/ Goto(a, IF t.cancel # NoAction THEN "Finishing" ELSE "StartFailing")
         \/ task' = [task EXCEPT ![a].at = "Recording", ![a].process = "Live"]
      /\ Quiet /\ UNCHANGED staged

\* record_launch, and record_agent_launch, after which the agent is invoked.
Record(a) ==
  LET t == task[a]
      recorded == [t EXCEPT !.control = "Recorded"]
  IN  /\ t.at = "Recording"
      /\ task' = [task EXCEPT ![a] =
           IF IsAgent(t)
           THEN [recorded EXCEPT !.at = IF t.cancel # NoAction THEN "Finishing"
                                        ELSE "Invoking"]
           ELSE [recorded EXCEPT !.at = IF t.cancel # NoAction THEN "Quiescing"
                                        ELSE "Reporting"]]
      /\ staged' = IF IsAgent(t) /\ t.cancel # NoAction THEN staged \ {t.node}
                   ELSE staged
      /\ Quiet

\* report_started: a wake is polled before the send.  After a closed channel the
\* command is stopped, the agent awaited.
ReportStarted(a) ==
  LET t == task[a]
  IN  /\ t.at = "Reporting"
      /\ UNCHANGED <<rt, source, coordinator, capture, cancelled_steps>>
      /\ \/ /\ t.woken
            /\ Goto(a, IF IsAgent(t) THEN "Joining" ELSE "Quiescing")
            /\ UNCHANGED <<channel, staged>>
         \/ /\ ~t.woken /\ Room
            /\ channel' = Append(channel,
                 Occurrence(Kind(t, "StepStarted", "HandlerStarted"), t.node,
                            t.round, a, a))
            /\ task' = [task EXCEPT ![a].at = "Running", ![a].started = TRUE]
            /\ UNCHANGED staged
         \/ /\ ~t.woken /\ Closed
            /\ IsAgent(t) => t.process = "Dead"
            /\ task' = Without(task, a)
            /\ staged' = staged \ {t.node}
            /\ UNCHANGED channel

\* The wait of a command is interrupted by a wake; the wait for an agent is not.
Wait(a) ==
  LET t == task[a]
  IN  /\ t.at = "Running"
      /\ \/ /\ ~IsAgent(t) /\ t.woken
            /\ Goto(a, "Quiescing")
         \/ /\ t.process = "Dead" /\ ~(~IsAgent(t) /\ t.woken)
            /\ Goto(a, IF IsAgent(t) THEN "Invoked" ELSE "Settling")
      /\ Quiet /\ UNCHANGED staged

\* The agent dispatcher's task: the process is spawned, says it has started and
\* ends; report_invocation makes any outcome Cancelled under a reason.
SpawnAgent(a) ==
  LET t == task[a]
  IN  /\ t.at = "Invoking" /\ t.process = "None"
      /\ task' = [task EXCEPT ![a].process = "Live"]
      /\ Quiet /\ UNCHANGED staged

AgentStarted(a) ==
  /\ task[a].at = "Invoking" /\ task[a].process = "Live"
  /\ Goto(a, "Reporting")
  /\ Quiet /\ UNCHANGED staged

\* A process ends, by itself or because it was killed.
ProcessEnds(a) ==
  LET t == task[a]
      outcomes == IF source.reason THEN {"Cancelled"}
                  ELSE IF t.process = "None" THEN {"Failed"}
                  ELSE {"Completed", "Failed"}
  IN  /\ t.process = "Live" \/ (t.at = "Invoking" /\ t.process = "None")
      /\ IF IsAgent(t)
         THEN \E outcome \in outcomes :
                task' = [task EXCEPT ![a].process = "Dead", ![a].tell = outcome]
         ELSE task' = [task EXCEPT ![a].process = "Dead"]
      /\ Quiet /\ UNCHANGED staged

AgentDeadlineOnceStarted(a) ==
  LET t == task[a]
  IN  /\ IsAgent(t) /\ t.control = "Interrupt" /\ t.process # "Dead"
      /\ t.started
      /\ task' = [task EXCEPT ![a].control = "Force"]
      /\ Quiet /\ UNCHANGED staged

\* The agent's cancellation deadline task asks the supervisor to kill.
AgentDeadline(a) ==
  LET t == task[a]
  IN  /\ IsAgent(t) /\ t.control = "Interrupt" /\ t.process # "Dead"
      /\ task' = [task EXCEPT ![a].control = "Force"]
      /\ Quiet /\ UNCHANGED staged

\* An invocation that ended before the agent said it had started.
EndInvocation(a) ==
  /\ task[a].at = "Invoking" /\ task[a].process = "Dead"
  /\ Goto(a, "Invoked")
  /\ Quiet /\ UNCHANGED staged

\* A start report that gave way to a cancellation waits for the agent first.
Join(a) ==
  /\ task[a].at = "Joining" /\ task[a].process = "Dead"
  /\ Goto(a, "Finishing")
  /\ staged' = staged \ {task[a].node}
  /\ Quiet

\* A cancelled outcome waits for the cancellation when the phase has a reason.
SettleInvocation(a) ==
  LET t == task[a]
      failed == IF t.started
                THEN [t EXCEPT !.at = "Settling", !.tell = Failure(t)]
                ELSE [t EXCEPT !.at = "StartFailing"]
  IN  /\ t.at = "Invoked"
      /\ \/ /\ t.tell = "Completed" /\ t.started
            /\ \E kind \in Completion(t) :
                 task' = [task EXCEPT ![a].at = "Settling", ![a].tell = kind]
            /\ UNCHANGED staged
         \/ /\ task' = [task EXCEPT ![a] =
                 IF t.tell = "Cancelled" /\ source.reason
                 THEN [t EXCEPT !.at = "Waiting"] ELSE failed]
            /\ staged' = staged \ {t.node}
      /\ Quiet

AwaitCancellation(a) ==
  /\ task[a].at = "Waiting" /\ task[a].cancel # NoAction
  /\ Goto(a, "Finishing")
  /\ Quiet /\ UNCHANGED staged

\* begin_completion, after the outcome of a command is read.
BeginCompletion(a) ==
  LET t == task[a]
      tells == IF IsAgent(t) THEN {t.tell} ELSE Completion(t) \cup {Failure(t)}
  IN  /\ t.at = "Settling"
      /\ IF t.cancel # NoAction
         THEN Goto(a, "Finishing") /\ staged' = staged \ {t.node}
         ELSE /\ \E kind \in tells :
                   task' = [task EXCEPT ![a].at = "Claiming", ![a].tell = kind]
              /\ UNCHANGED staged
      /\ Quiet

\* claim: the occurrence is queued, and observed when it is selected.
Claim(a) ==
  LET t == task[a]
  IN  /\ t.at = "Claiming" /\ Room
      /\ channel' = Append(channel, Occurrence(t.tell, t.node, t.round, a, a))
      /\ Goto(a, "Offered")
      /\ UNCHANGED <<rt, source, coordinator, capture, cancelled_steps, staged>>

AbandonClaimUnsent(a) ==
  /\ task[a].at = "Claiming" /\ Closed
  /\ task' = Without(task, a)
  /\ staged' = staged \ {task[a].node}
  /\ Quiet

AbandonClaimKeepingStaging(a) ==
  /\ task[a].at \in {"Claiming", "Offered"} /\ Closed
  /\ task' = Without(task, a)
  /\ Quiet /\ UNCHANGED staged

\* The channel closed before the claim was selected.
AbandonClaim(a) ==
  /\ task[a].at \in {"Claiming", "Offered"} /\ Closed
  /\ task' = Without(task, a)
  /\ staged' = staged \ {task[a].node}
  /\ Quiet

PublishClaimThenRemove(a) ==
  LET t == task[a]
  IN  /\ t.at = "Claimed" /\ t.cancel = NoAction
      /\ Goto(a, "Finishing")
      /\ Resolve(Occurrence(t.tell, t.node, t.round, a, a),
                 [coordinator EXCEPT !.claim = NoAction])
      /\ UNCHANGED <<channel, cancelled_steps>>

\* finish_completion: publish, which resolves the coordinator's wait, unless a
\* cancellation came first.
PublishClaim(a) ==
  LET t == task[a]
  IN  /\ t.at = "Claimed" /\ t.cancel = NoAction
      /\ task' = Without(task, a)
      /\ Resolve(Occurrence(t.tell, t.node, t.round, a, a),
                 [coordinator EXCEPT !.claim = NoAction])
      /\ UNCHANGED <<channel, cancelled_steps>>

DiscardClaim(a) ==
  LET t == task[a]
  IN  /\ t.at = "Claimed" /\ t.cancel # NoAction
      /\ Goto(a, "Finishing")
      /\ staged' = staged \ {t.node}
      /\ coordinator' = [coordinator EXCEPT !.at = "Selecting", !.claim = NoAction]
      /\ UNCHANGED <<rt, source, channel, capture, cancelled_steps>>

QuiesceWithoutStop(a) ==
  /\ task[a].at = "Quiescing"
  /\ Goto(a, "Finishing")
  /\ Quiet /\ UNCHANGED staged

\* cancel_launched: the process exits, or the deadline stops it.
Quiesce(a) ==
  /\ task[a].at = "Quiescing"
  /\ task' = [task EXCEPT ![a].at = "Finishing", ![a].process = "Dead"]
  /\ Quiet /\ UNCHANGED staged

\* finish_cancellation answers the cancellation that is registered now.
FinishCancellation(a) ==
  /\ task[a].at = "Finishing"
  /\ task' = [task EXCEPT ![a].at = "Sending", ![a].tell = "StepQuiesced"]
  /\ Quiet /\ UNCHANGED staged

SendUntilClosed(a) ==
  LET t == task[a]
      id == IF t.tell = "StepQuiesced" THEN t.cancel ELSE a
  IN  /\ t.at = "Sending"
      /\ \/ /\ Room
            /\ channel' = Append(channel,
                                 Occurrence(t.tell, t.node, t.round, id, a))
            /\ UNCHANGED task
         \/ Closed /\ UNCHANGED channel /\ task' = Without(task, a)
      /\ UNCHANGED <<rt, source, coordinator, capture, cancelled_steps, staged>>

Send(a) ==
  LET t == task[a]
      id == IF t.tell = "StepQuiesced" THEN t.cancel ELSE a
  IN  /\ t.at = "Sending"
      /\ \/ /\ Room
            /\ channel' = Append(channel,
                                 Occurrence(t.tell, t.node, t.round, id, a))
         \/ Closed /\ UNCHANGED channel
      /\ task' = Without(task, a)
      /\ UNCHANGED <<rt, source, coordinator, capture, cancelled_steps, staged>>

-----------------------------------------------------------------------------
(* Captures: one worker copies in the order of registration and hands each *)
(* result to a settlement task before it takes the next.                   *)

WorkerBusy == \E a \in DOMAIN capture : capture[a].at \in {"Copying", "Copied"}
FirstQueued ==
  LET queued == {a \in DOMAIN capture : capture[a].at = "Queued"}
  IN  CHOOSE a \in queued : \A b \in queued : a[2] <= b[2]

\* settle_cancelled: the registry says which cancellation is answered.
QuiesceCapture(a) ==
  /\ capture' = Without(capture, a)
  /\ task' = (a :> QuiescedReport(capture[a].node, capture[a].cancel)) @@ task
  /\ staged' = staged \ {capture[a].node}

BeginCapture(a) ==
  /\ capture[a].at = "Queued" /\ ~WorkerBusy /\ a = FirstQueued
  /\ IF capture[a].cancel # NoAction THEN QuiesceCapture(a)
     ELSE /\ capture' = [capture EXCEPT ![a].at = "Copying"]
          /\ UNCHANGED <<task, staged>>
  /\ UNCHANGED <<rt, source, coordinator, channel, cancelled_steps>>

\* The copy stops at a cancellation only where it looks for one.
Copy(a) ==
  /\ capture[a].at = "Copying"
  /\ \E result \in Acknowledged \cup {"Cancelled"} :
       /\ result = "Cancelled" => capture[a].cancel # NoAction
       /\ capture' = [capture EXCEPT ![a].at = "Copied", ![a].result = result]
  /\ UNCHANGED <<rt, source, coordinator, channel, task, cancelled_steps, staged>>

\* settle: a revoked capture is dropped, any other is being delivered.
SettleCapture(a) ==
  /\ capture[a].at = "Copied"
  /\ IF capture[a].cancel # NoAction THEN QuiesceCapture(a)
     ELSE /\ capture' = [capture EXCEPT ![a].at = "Delivering"]
          /\ UNCHANGED <<task, staged>>
  /\ UNCHANGED <<rt, source, coordinator, channel, cancelled_steps>>

\* send_acknowledged.
DeliverCapture(a) ==
  /\ capture[a].at = "Delivering" /\ Room
  /\ channel' = Append(channel, Occurrence(capture[a].result, capture[a].node,
                                           0, a, a))
  /\ capture' = [capture EXCEPT ![a].at = "Delivered"]
  /\ UNCHANGED <<rt, source, coordinator, task, cancelled_steps, staged>>

AbandonCapture(a) ==
  /\ capture[a].at \in {"Delivering", "Delivered"} /\ Closed
  /\ capture' = Without(capture, a)
  /\ staged' = staged \ {capture[a].node}
  /\ UNCHANGED <<rt, source, coordinator, channel, task, cancelled_steps>>

FinalizeCaptureSilently(a) ==
  LET w == capture[a]
  IN  /\ w.at \in {"Accepted", "Rejected"}
      /\ capture' = Without(capture, a)
      /\ staged' = staged \ {w.node}
      /\ coordinator' = [coordinator EXCEPT !.at = "Releasing",
                                            !.closed = Over(rt)]
      /\ UNCHANGED <<rt, source, channel, task, cancelled_steps>>

\* The decision is carried out before the coordinator goes on: the candidates
\* are kept or dropped, the registry entry and the staging released.
FinalizeCapture(a) ==
  LET w == capture[a]
  IN  /\ w.at \in {"Accepted", "Rejected"}
      /\ capture' = Without(capture, a)
      /\ staged' = staged \ {w.node}
      /\ coordinator' = [coordinator EXCEPT !.at = "Releasing",
                                            !.closed = Over(rt)]
      /\ task' = IF w.at = "Rejected" /\ w.cancel # NoAction
                 THEN (a :> QuiescedReport(w.node, w.cancel)) @@ task ELSE task
      /\ UNCHANGED <<rt, source, channel, cancelled_steps>>

-----------------------------------------------------------------------------

CoordinatorStep ==
  \/ ReadOperation \/ SelectClaim \/ SelectReady \/ EndRound
  \/ ReleaseStart \/ ReleaseCapture \/ ReleaseResources \/ ReleaseCancel
  \/ Wake \/ QuiesceActiveWork

\* What the driver's own task for a does without waiting for a child process.
TaskStep(a) ==
  \/ Prepare(a) \/ FailStart(a) \/ Arm(a) \/ Launch(a) \/ Record(a)
  \/ ReportStarted(a) \/ Wait(a) \/ AgentDeadline(a) \/ EndInvocation(a)
  \/ Join(a) \/ SettleInvocation(a) \/ AwaitCancellation(a)
  \/ BeginCompletion(a) \/ Claim(a) \/ AbandonClaim(a) \/ PublishClaim(a)
  \/ DiscardClaim(a) \/ Quiesce(a) \/ FinishCancellation(a) \/ Send(a)

AgentStarting(a) == SpawnAgent(a) \/ AgentStarted(a)

CaptureStep(a) ==
  \/ BeginCapture(a) \/ Copy(a) \/ SettleCapture(a) \/ DeliverCapture(a)
  \/ AbandonCapture(a) \/ FinalizeCapture(a)

\* shutdown: the capture queue is empty and every owned task has ended.
Returned ==
  /\ coordinator.at \in {"Over", "Exhausted"}
  /\ task = <<>> /\ capture = <<>>

Return == Returned /\ UNCHANGED vars

DriverNext ==
  \/ CoordinatorStep
  \/ RequestCancellation \/ RequestForceAbort
  \/ \E a \in DOMAIN task : TaskStep(a) \/ AgentStarting(a) \/ ProcessEnds(a)
  \/ \E a \in DOMAIN capture : CaptureStep(a)
  \/ Return

DriverSpec == DriverInit /\ [][DriverNext]_vars

\* The runtime polls every task, a launch and a copy end, deadlines pass, and a
\* killed process dies.
Scheduled ==
  /\ WF_vars(CoordinatorStep)
  /\ \A n \in Node :
       /\ WF_vars(\E a \in DOMAIN task : task[a].node = n /\ TaskStep(a))
       /\ WF_vars(\E a \in DOMAIN task : /\ task[a].node = n
                                         /\ task[a].control = "Force"
                                         /\ ProcessEnds(a))
  /\ WF_vars(\E a \in DOMAIN capture : CaptureStep(a))

\* Child processes end by themselves.
ChildrenEnd ==
  \A n \in Node :
    WF_vars(\E a \in DOMAIN task : task[a].node = n /\ ProcessEnds(a))

ScheduledSpec == DriverSpec /\ Scheduled

-----------------------------------------------------------------------------
(* Properties.                                                             *)

\* The registry holds the invocation the committed state says is active, and no
\* other: nothing runs that was not committed, nothing outlives its settlement.
RegistryMatchesState ==
  \A n \in Node : \A a \in Registered(n) :
    /\ Registered(n) = {a}
    /\ rt.state[n] \in Active
    /\ IF task[a].round = 0
       THEN rt.active_invocation[n] = "Target" /\ rt.target_invocation[n] = a
       ELSE /\ rt.active_invocation[n] = "RecoveryHandler"
            /\ rt.rounds[n] = task[a].round

\* A step is committed as settled only after its process has ended, however it
\* was cancelled, and execute_workflow returns with no process left.
ProcessesEndFirst ==
  \A a \in DOMAIN task :
    task[a].process = "Live" => /\ rt.state[task[a].node] \in Active
                                /\ task[a].at # "Sending"

\* No occurrence identity is reported twice, so OccurrenceConflict and the exact
\* replay of an occurrence cannot happen.
NoRepeatedReport ==
  /\ \A i \in 1..Len(Input) : Identity(Input[i]) \notin coordinator.observed
  /\ \A i, j \in 1..Len(Input) : Identity(Input[i]) = Identity(Input[j]) => i = j

\* "Resource release must precede any dependent starts": while a step is being
\* prepared, the staging of its prerequisites has been returned.
StagingReturnedFirst ==
  \A a \in DOMAIN task :
    task[a].at = "Preparing" => Prerequisites(task[a].node) \cap staged = {}

\* Nothing is held when execute_workflow returns, after a failed commit either.
NothingHeld == Returned => staged = {}

\* The coordinator and the step runtime are the driver the reducer is specified
\* with: when child processes end by themselves every invocation is answered, past
\* claims, acknowledgements, full channels and cancellations, and the run ends, by
\* its result or by a failed commit.
RunEnds == ChildrenEnd => <>(coordinator.at \in {"Over", "Failed"})

\* A node that is being cancelled settles, even when its process ignores every
\* interrupt; a force abort that overtakes the graceful cancellation is answered
\* in its stead.
CancellationSettles ==
  \A n \in Node :
    rt.state[n] = "Cancelling" ~> (rt.state[n] # "Cancelling" \/ Closed)

\* execute_workflow returns once the coordinator has ended, after a failed commit
\* too, where processes still run: they are revoked and their tasks are joined.
\* An agent is waited for but not interrupted (revoke_all).
ShutdownReturns ==
  ( /\ coordinator.at \in {"Over", "Failed"}
    /\ \A a \in DOMAIN task : IsAgent(task[a]) => task[a].process = "Dead" )
  ~> Returned
=============================================================================
