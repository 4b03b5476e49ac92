------------------------- MODULE AssignmentManager -------------------------
(***************************************************************************)
(* The runner's assignment manager (crates/runner/src/service/             *)
(* assignment.rs) with its observation outbox, the workers that report to  *)
(* it as manager events, the execution job, and the connection to the      *)
(* cloud, which repeats every effect whose receipt it has not seen         *)
(* (connection.rs).  The runner holds one assignment at a time in a slot:  *)
(*                                                                         *)
(*   Preparing -> Accepted -> Running -> Finishing -> Releasing -> Idle    *)
(*                                                                         *)
(* Every handler of the code drains the channel of manager events before   *)
(* it reads the manager's state, so here an event is handled in the step   *)
(* that raises it.  In the same way an effect is issued in the step that   *)
(* first delivers it: nothing the runner does can tell how long it was on  *)
(* its way, and effects come in the order in which they were issued.       *)
(*                                                                         *)
(* Not modelled here: lease grants and renewals (module ExecutionLease),   *)
(* failures of the lease clock, the capacities of the outbox (1344) and of *)
(* the retained decisions (256), effects that contradict an earlier one    *)
(* with the same identity, artifact observations.                          *)
(***************************************************************************)
EXTENDS Naturals, Sequences, FiniteSets, SequencesExt

CONSTANTS
    Assignment,          \* 1..n, in the order in which the cloud offers them
    Cancels,             \* the cancellation requests the cloud may make
    Releases,            \* the releases the cloud may order
    Starts,              \* the assignments the cloud starts once accepted
    Window,              \* observations in flight at most (OBSERVATION_WINDOW)
    MaxOrders,           \* bound: how many of these it issues
    MaxReconnects,       \* bound: how often the connection breaks
    MaxDisturbances,     \* bound: how many of both together
    MayShutDown,         \* whether the service may be told to stop
    LosesPrepareReceipts \* whether the receipt of a prepare can be lost

Modes == {"Graceful", "Force"}
ReleaseReasons == {"LeaseExpired", "OfferExpired"}

ASSUME AssignmentAssumption ==
    /\ Assignment = 1..Cardinality(Assignment)
    /\ Cancels \subseteq Assignment \X Modes
    /\ Releases \subseteq Assignment \X ReleaseReasons
    /\ Starts \subseteq Assignment
    /\ Window \in Nat \ {0}
    /\ MaxOrders \in Nat /\ MaxReconnects \in Nat /\ MaxDisturbances \in Nat
    /\ MayShutDown \in BOOLEAN /\ LosesPrepareReceipts \in BOOLEAN

VARIABLES
    m,           \* the manager, its outbox, its workers and its job
    effects,     \* what the cloud has issued and has no receipt for
    delivered,   \* how many of these have come over this connection
    wire,        \* frames sent over this connection, not yet received
    known,       \* the observations the cloud has received
    issued,      \* every effect the cloud has ever issued
    reconnects

vars == <<m, effects, delivered, wire, known, issued, reconnects>>

(***************************************************************************)
(* State of the manager                                                    *)
(***************************************************************************)
None == 0

Slot(phase, a) ==
    [phase |-> phase, id |-> a, cancelled |-> FALSE, root |-> FALSE,
     prepared |-> FALSE, after |-> "Idle"]

Idle == Slot("Idle", None)

\* The execution job of an assignment: where it is, whether it has the start
\* authority, whether its engine ever ran, and what its last word is.
NoJob == [at |-> "None", authority |-> FALSE, ran |-> FALSE,
          report |-> FALSE, quiescent |-> TRUE]

Init ==
    /\ m = [slot |-> Idle,
            deferred |-> None,
            reporting |-> None,
            cleanupReport |-> None,
            shuttingDown |-> FALSE,
            cleanupFailed |-> FALSE,
            conflict |-> FALSE,
            decision |-> [a \in Assignment |->
                [response |-> "None", started |-> FALSE, authorized |-> FALSE]],
            cancellations |-> << >>,
            releases |-> {},
            outbox |-> << >>,
            work |-> {},
            roots |-> {},
            job |-> [a \in Assignment |-> NoJob]]
    /\ effects = << >>
    /\ delivered = 0
    /\ wire = << >>
    /\ known = {}
    /\ issued = {}
    /\ reconnects = 0

(***************************************************************************)
(* The outbox.  An observation is a pair of an assignment and a kind.      *)
(***************************************************************************)
Entry(a, kind) == [id |-> a, kind |-> kind, replayable |-> TRUE, sent |-> FALSE]

Holds(s, a, kind) ==
    \E i \in DOMAIN s.outbox : s.outbox[i].id = a /\ s.outbox[i].kind = kind

\* A second terminal report of an assignment is refused.
CanEnqueue(s, a, kind) == kind = "Terminal" => ~Holds(s, a, kind)

Enqueue(s, a, kind) ==
    IF CanEnqueue(s, a, kind)
    THEN [s EXCEPT !.outbox = Append(@, Entry(a, kind))]
    ELSE s

\* fence_assignment: nothing of the assignment is sent any more.  What is on
\* the wire stays until the connection is over.
RetireObservations(s, a) ==
    LET Fenced(e) == IF e.id = a THEN [e EXCEPT !.replayable = FALSE] ELSE e
        Stays(e) == e.replayable \/ e.sent
        fenced == [i \in DOMAIN s.outbox |-> Fenced(s.outbox[i])]
    IN  [s EXCEPT !.outbox = SelectSeq(fenced, Stays)]

\* finish_transport: what was fenced goes, the rest will be sent again.
FinishTransport(s) ==
    LET Stays(e) == e.replayable
        left == SelectSeq(s.outbox, Stays)
    IN  [s EXCEPT !.outbox = [i \in DOMAIN left |->
                                [left[i] EXCEPT !.sent = FALSE]]]

ObligationsDispatched(s) ==
    \A i \in DOMAIN s.outbox : s.outbox[i].replayable => s.outbox[i].sent

(***************************************************************************)
(* Decisions, cancellations and the release of an assignment's root        *)
(***************************************************************************)
RetainDecision(s, a, response) ==
    Enqueue([s EXCEPT !.decision[a].response = response], a, response)

Reject(s, a) == RetainDecision(s, a, "Rejected")

\* begin_assignment_finalization: a blocking task releases the root.
BeginFinalization(s, a, after) ==
    [s EXCEPT !.slot = [Slot("Releasing", a) EXCEPT !.after = after],
              !.work = @ \cup {[do |-> "Cleanup", id |-> a, arg |-> "None"]}]

\* A retained cancellation has no application ("Ignored"), one that waits for
\* the root to be released ("Pending"), or one that is reported ("Ready").
RetainCancellation(s, c, state, disposition) ==
    [s EXCEPT !.cancellations =
        Append(@, [command |-> c, state |-> state, disposition |-> disposition])]

Retained(s, c) == \E i \in DOMAIN s.cancellations : s.cancellations[i].command = c

\* The retained cancellations of an assignment in one of the given states.
InState(s, a, states) ==
    {i \in DOMAIN s.cancellations :
        s.cancellations[i].command[1] = a /\ s.cancellations[i].state \in states}

HasPendingPreExecutionCancellation(s, a) == InState(s, a, {"Pending"}) # {}

EffectiveMode(s, c) ==
    IF \E i \in InState(s, c[1], {"Pending", "Ready"}) :
           s.cancellations[i].command[2] = "Force"
    THEN "Force" ELSE c[2]

Disposition(s, c, terminal) ==
    IF c[2] = "Graceful" /\ EffectiveMode(s, c) = "Force" THEN "Superseded"
    ELSE IF terminal THEN "ExecutionTerminal"
    ELSE "PreExecutionStopped"

EmitApplication(s, i) ==
    LET c == s.cancellations[i].command
    IN  Enqueue([s EXCEPT !.cancellations[i].state = "Ready"], c[1], c[2])

RetainPending(s, c) ==
    RetainCancellation(s, c, "Pending", Disposition(s, c, FALSE))

RetainReady(s, c, disposition) ==
    LET kept == RetainCancellation(s, c, "Ready", disposition)
    IN  EmitApplication(kept, Len(kept.cancellations))

\* complete_pre_execution_cancellation: the root is released, so the pending
\* applications are reported in the order of their arrival, then the
\* interruption.
CompletePreExecutionCancellation(s, a) ==
    LET Step(t, i) == IF i \in InState(s, a, {"Pending"})
                      THEN EmitApplication(t, i) ELSE t
        told == FoldLeftDomain(Step, s, s.cancellations)
    IN  IF CanEnqueue(told, a, "Terminal")
        THEN [Enqueue(told, a, "Terminal") EXCEPT !.reporting = a]
        ELSE RetireObservations([told EXCEPT !.cleanupFailed = TRUE], a)

StartGraceNever(s, a, continue) == s

StartGrace(s, a, continue) ==
    [s EXCEPT !.work = @ \cup {[do |-> "Grace", id |-> a,
                               arg |-> IF continue THEN "Continue" ELSE "None"]}]

ReleaseCalledOffQuietly(s, a) == BeginFinalization(s, a, "Idle")

\* release the root of a preparation that was called off
ReleaseCalledOff(s, a) ==
    BeginFinalization(s, a, IF HasPendingPreExecutionCancellation(s, a)
                            THEN "Cancellation" ELSE "Idle")

\* finish_without_reporting
FinishWithoutReporting(s, a) ==
    BeginFinalization(RetireObservations(s, a), a, "Idle")

\* finish_before_execution: the assignment is over before its engine ran.
FinishBeforeExecution(s, a) ==
    StartGrace([Enqueue(s, a, "Terminal") EXCEPT !.slot = Slot("Finishing", a)],
               a, TRUE)

(***************************************************************************)
(* Effects of the cloud.  A handler maps the manager's state to the next.  *)
(***************************************************************************)
Conflict(s) == [s EXCEPT !.conflict = TRUE]

ApplyRejectedFences(s, a) ==
    LET Step(t, b) == IF b # a /\ s.decision[b].response = "Rejected"
                      THEN RetireObservations(t, b) ELSE t
    IN  FoldLeft(Step, s, [b \in Assignment |-> b])

\* apply_successor_fences: a predecessor that only reports, and every
\* assignment that was rejected, has nothing more to say.
ApplySuccessorFences(s, a) ==
    LET reporter == IF s.reporting \in {None, a} THEN s
                    ELSE [RetireObservations(s, s.reporting) EXCEPT !.reporting = None]
        Step(t, b) == IF b # a /\ s.decision[b].response = "Rejected"
                      THEN RetireObservations(t, b) ELSE t
    IN  FoldLeft(Step, reporter, [b \in Assignment |-> b])

BeginPreparationAnnounced(s, a) ==
    [Enqueue(s, a, "Preparing") EXCEPT
        !.slot = Slot("Preparing", a),
        !.work = @ \cup {[do |-> "Root", id |-> a, arg |-> "Pending"]}]

BeginPreparation(s, a) ==
    [s EXCEPT !.slot = Slot("Preparing", a),
              !.work = @ \cup {[do |-> "Root", id |-> a, arg |-> "Pending"]}]

KnownOffer(s, a) ==
    \/ s.slot.phase = "Preparing" /\ s.slot.id = a
    \/ s.decision[a].response # "None"
    \/ s.deferred = a
    \/ InState(s, a, {"Pending", "Ready"}) # {}

HandleOffer(s, a) ==
    IF KnownOffer(s, a) THEN s
    ELSE IF s.cleanupFailed THEN Reject(s, a)
    ELSE IF s.slot.phase = "Releasing" /\ s.deferred = None THEN
            [s EXCEPT !.deferred = a]
    ELSE IF s.slot.phase = "Releasing" THEN Reject(s, a)
    ELSE IF s.slot.phase = "Finishing" /\ s.slot.id # a THEN
            [FinishWithoutReporting(s, s.slot.id) EXCEPT !.deferred = a]
    ELSE IF s.shuttingDown THEN Reject(s, a)
    ELSE
            LET fenced == ApplySuccessorFences(s, a)
            IN  IF s.slot.phase # "Idle" THEN Reject(fenced, a)
                ELSE BeginPreparation(fenced, a)

\* handle_prepare takes the slot and gives it back only while it prepares.
HandlePrepare(s, a, expired) ==
    IF s.slot.phase # "Preparing" THEN [s EXCEPT !.slot = Idle]
    ELSE IF s.slot.id # a THEN Conflict(s)
    ELSE IF s.slot.prepared THEN s
    ELSE IF ~s.slot.root THEN Conflict(s)
    ELSE IF expired THEN BeginFinalization(s, a, "Idle")
    ELSE
            \* begin_source_admission puts a new cancellation into the slot
            [s EXCEPT !.slot = [Slot("Preparing", a) EXCEPT !.prepared = TRUE],
                      !.work = @ \cup {[do |-> "Admission", id |-> a, arg |-> "None"]}]

HandleStart(s, a, leaseLost) ==
    LET noted == [s EXCEPT !.decision[a].started = TRUE]
    IN  IF s.decision[a].response = "None" \/ s.decision[a].started THEN s
        ELSE IF s.slot.phase # "Accepted" \/ s.slot.id # a THEN noted
        ELSE IF leaseLost THEN FinishBeforeExecution(noted, a)
        ELSE [noted EXCEPT !.slot = Slot("Running", a),
                                    !.job[a].at = "Starting"]

HandleStartAuthorizedAlways(s, a) ==
    LET noted == [s EXCEPT !.decision[a].authorized = TRUE]
    IN  IF s.decision[a].authorized \/ s.decision[a].response = "None" THEN s
        ELSE IF ~s.decision[a].started THEN Conflict(s)
        ELSE IF s.slot.phase = "Running" /\ s.slot.id = a THEN
                [noted EXCEPT !.job[a].authority = TRUE]
        ELSE noted

HandleStartAuthorized(s, a) ==
    LET noted == [s EXCEPT !.decision[a].authorized = TRUE]
    IN  IF s.decision[a].authorized \/ s.decision[a].response = "None" THEN s
        ELSE IF ~s.decision[a].started THEN Conflict(s)
        ELSE IF s.slot.phase = "Running" /\ s.slot.id = a
                /\ ~HasPendingPreExecutionCancellation(s, a) THEN
                [noted EXCEPT !.job[a].authority = TRUE]
        ELSE noted

\* An exact repetition of a cancellation reports its application again when
\* that report is no longer in the outbox.
RepeatCancellation(s, c) ==
    LET again == {i \in InState(s, c[1], {"Ready"}) :
                    s.cancellations[i].command = c /\ ~Holds(s, c[1], c[2])}
    IN  IF again = {} THEN s ELSE EmitApplication(s, CHOOSE i \in again : TRUE)

CancelPreparing(s, c) ==
    LET called == [RetainPending(s, c) EXCEPT !.slot.cancelled = TRUE]
    IN  IF s.slot.root THEN BeginFinalization(called, c[1], "Cancellation")
        ELSE called

EngineTerminal(s, a) == s.job[a].at \in {"Terminal", "Reported", "Ended"} /\ s.job[a].ran

CancelRunning(s, c) ==
    IF EngineTerminal(s, c[1]) THEN RetainReady(s, c, Disposition(s, c, TRUE))
    ELSE IF ~s.job[c[1]].authority THEN RetainPending(s, c)
    ELSE RetainReady(s, c,
            IF Disposition(s, c, TRUE) = "Superseded" THEN "Superseded"
            ELSE "Cancelling")

HandleCancel(s, c) ==
    LET a == c[1]
        here == s.slot.id = a
        accepted == s.decision[a].response = "Accepted"
    IN  IF Retained(s, c) THEN RepeatCancellation(s, c)
        ELSE IF here /\ s.slot.phase = "Preparing" THEN CancelPreparing(s, c)
        ELSE IF here /\ s.slot.phase = "Accepted" THEN
                BeginFinalization(RetainPending(s, c), a, "Cancellation")
        ELSE IF here /\ s.slot.phase = "Running" THEN CancelRunning(s, c)
        ELSE IF here /\ s.slot.phase = "Releasing" /\ s.slot.after = "Cancellation" THEN
                RetainPending(s, c)
        ELSE IF accepted \/ (here /\ s.slot.phase = "Finishing") THEN
                RetainReady(s, c, Disposition(s, c, TRUE))
        ELSE RetainCancellation(s, c, "Ignored", "None")

ReleasePreparingAtOnce(s, a) ==
    LET refused == RetireObservations(
                       Reject([s EXCEPT !.slot.cancelled = TRUE], a), a)
    IN  IF s.slot.root THEN BeginFinalization(refused, a, "Idle")
        ELSE [refused EXCEPT !.slot = Idle]

\* A released preparation keeps the slot until its worker gives the root back.
ReleasePreparing(s, a) ==
    LET refused == RetireObservations(
                       Reject([s EXCEPT !.slot.cancelled = TRUE], a), a)
    IN  IF s.slot.root THEN BeginFinalization(refused, a, "Idle") ELSE refused

HandleReleaseOfRunning(s, r) ==
    LET a == r[1]
        kept == [s EXCEPT !.releases = @ \cup {r}]
    IN  IF r \in s.releases \/ s.slot.id # a THEN kept
        ELSE IF s.slot.phase = "Preparing" THEN ReleasePreparing(kept, a)
        ELSE IF s.slot.phase \in {"Accepted", "Running"} THEN FinishWithoutReporting(kept, a)
        ELSE kept

\* Revoking the lease of a running job shows in the job's own steps, which may
\* lose the lease at any time.
HandleRelease(s, r) ==
    LET a == r[1]
        kept == [s EXCEPT !.releases = @ \cup {r}]
    IN  IF r \in s.releases \/ s.slot.id # a THEN kept
        ELSE IF s.slot.phase = "Preparing" THEN ReleasePreparing(kept, a)
        ELSE IF s.slot.phase = "Accepted" THEN FinishWithoutReporting(kept, a)
        ELSE kept

\* What handling an effect may lead to; the clock decides about the deadlines.
Handled(s, e) ==
    CASE e.kind = "Offer"     -> {HandleOffer(s, e.of)}
      [] e.kind = "Prepare"   -> {HandlePrepare(s, e.of, x) : x \in BOOLEAN}
      [] e.kind = "Start"     -> {HandleStart(s, e.of, x) : x \in BOOLEAN}
      [] e.kind = "Authorize" -> {HandleStartAuthorized(s, e.of)}
      [] e.kind = "Cancel"    -> {HandleCancel(s, e.of)}
      [] e.kind = "Release"   -> {HandleRelease(s, e.of)}

(***************************************************************************)
(* Manager events                                                          *)
(***************************************************************************)
PreparingHere(s, a) == s.slot.phase = "Preparing" /\ s.slot.id = a

Unclaimed(s, a) ==
    [s EXCEPT !.slot = IF @.phase = "Preparing" THEN @ ELSE Idle,
              !.roots = @ \ {a}]

WorkspacePrepared(s, a, result) ==
    IF ~PreparingHere(s, a) THEN Unclaimed(s, a)
    ELSE IF result = "Ok" /\ s.slot.cancelled THEN ReleaseCalledOff(s, a)
    ELSE IF result = "Ok" THEN
            [Enqueue(s, a, "Preparing") EXCEPT !.slot.root = TRUE]
    ELSE
            LET freed == [s EXCEPT !.slot = Idle,
                                   !.cleanupFailed = @ \/ result = "CleanupFailed"]
            IN  IF ~s.slot.cancelled THEN Reject(freed, a)
                ELSE IF result # "CleanupFailed"
                        /\ HasPendingPreExecutionCancellation(s, a) THEN
                        CompletePreExecutionCancellation(freed, a)
                ELSE freed

Prepared(s, a, result, expired) ==
    IF ~PreparingHere(s, a) THEN
            [s EXCEPT !.slot = IF @.phase = "Preparing" THEN @ ELSE Idle]
    ELSE IF s.slot.cancelled \/ expired THEN ReleaseCalledOff(s, a)
    ELSE IF result = "Ok" THEN
            RetainDecision([s EXCEPT !.slot = Slot("Accepted", a)], a, "Accepted")
    ELSE BeginFinalization(Reject(s, a), a, "Idle")

\* The job is over.  Without proven quiescence the runner admits nothing any
\* more; otherwise it waits for the acknowledgement of the final report, if
\* there is one and its delivery deadline is not over.
Finished(s, a, late) ==
    LET report == s.job[a].report
        fenced == [s EXCEPT !.cleanupFailed = TRUE]
    IN  IF s.slot.phase # "Running" \/ s.slot.id # a THEN s
        ELSE IF ~s.job[a].quiescent /\ report /\ ~late THEN
                BeginFinalization(
                    StartGrace([fenced EXCEPT !.cleanupReport = a], a, FALSE),
                    a, "Reporting")
        ELSE IF ~s.job[a].quiescent THEN
                BeginFinalization(RetireObservations(fenced, a), a,
                                  IF report THEN "Reporting" ELSE "Idle")
        ELSE IF ~report /\ HasPendingPreExecutionCancellation(s, a) THEN
                BeginFinalization(s, a, "Cancellation")
        ELSE IF ~report \/ late THEN FinishWithoutReporting(s, a)
        ELSE StartGrace([s EXCEPT !.slot = Slot("Finishing", a)], a, FALSE)

FinalGraceElapsed(s, a, continueReporting) ==
    IF s.cleanupReport = a THEN
            [RetireObservations(s, a) EXCEPT !.cleanupReport = None, !.reporting = None]
    ELSE IF s.slot.phase # "Finishing" \/ s.slot.id # a THEN s
    ELSE IF continueReporting THEN BeginFinalization(s, a, "Reporting")
    ELSE FinishWithoutReporting(s, a)

\* finish_cleanup
CleanupFinished(s, a, released) ==
    LET freed == [s EXCEPT !.slot = Idle]
        idle == [freed EXCEPT !.deferred = None]
        after == CASE s.slot.after = "Idle" -> idle
                   [] s.slot.after = "Reporting" -> [idle EXCEPT !.reporting = a]
                   [] OTHER -> CompletePreExecutionCancellation(idle, a)
        failed == [idle EXCEPT !.cleanupFailed = TRUE]
    IN  IF s.slot.phase # "Releasing" THEN freed
        ELSE IF s.slot.id # a THEN s
        ELSE IF s.deferred = None THEN IF released THEN after ELSE failed
        ELSE IF released THEN HandleOffer(after, s.deferred)
        ELSE Reject(failed, s.deferred)

(***************************************************************************)
(* Workers.  Each ends with an event, which a round of the loop of         *)
(* drain_events handles.                                                   *)
(***************************************************************************)
Environment == <<effects, delivered, wire, known, issued, reconnects>>

Done(item) == [m EXCEPT !.work = @ \ {item}]

\* prepare_assignment_root claims the delivery of the root, unless a shutdown
\* has detached it: then it releases what it made.
RootClaimed(item) ==
    /\ item.do = "Root"
    /\ item.arg = "Pending"
    /\ m' = [m EXCEPT !.work = (@ \ {item}) \cup {[item EXCEPT !.arg = "Delivering"]}]

RootPreparationEnds(item, result) ==
    /\ item.do = "Root"
    /\ \/ item.arg = "Detached" /\ m' = Done(item)
       \/ /\ item.arg = "Delivering"
          /\ m' = WorkspacePrepared(
                    [Done(item) EXCEPT
                        !.roots = @ \cup (IF result = "Ok" THEN {item.id} ELSE {})],
                    item.id, result)

AdmissionEnds(item, result, expired) ==
    /\ item.do = "Admission"
    /\ m' = Prepared(Done(item), item.id, result, expired)

ReleaseEnds(item, released) ==
    /\ item.do = "Cleanup"
    /\ m' = CleanupFinished(
              [Done(item) EXCEPT !.roots = @ \ (IF released THEN {item.id} ELSE {})],
              item.id, released)

GraceElapses(item) ==
    /\ item.do = "Grace"
    /\ m' = FinalGraceElapsed(Done(item), item.id, item.arg = "Continue")

Work(item) ==
    /\ \/ RootClaimed(item)
       \/ \E result \in {"Ok", "Failed", "CleanupFailed"} :
             RootPreparationEnds(item, result)
       \/ \E result \in {"Ok", "Declined"}, expired \in BOOLEAN :
             AdmissionEnds(item, result, expired)
       \/ \E released \in BOOLEAN : ReleaseEnds(item, released)
       \/ GraceElapses(item)
    /\ UNCHANGED Environment

(***************************************************************************)
(* The execution job                                                       *)
(***************************************************************************)
\* run_workflow reports Started if the lease is held, and waits.
JobStarts(a) ==
    /\ m.job[a].at = "Starting"
    /\ \/ m' = [Enqueue(m, a, "Started") EXCEPT !.job[a].at = "Waiting"]
       \/ m' = [m EXCEPT !.job[a].at = "Terminal"]

\* wait_for_start_authority: the authority comes before everything else.
JobWaits(a) ==
    /\ m.job[a].at = "Waiting"
    /\ \/ /\ m.job[a].authority
          /\ m' = [m EXCEPT !.job[a].at = "Engine", !.job[a].ran = TRUE]
       \/ m' = [m EXCEPT !.job[a].at = "Terminal"]

\* mark_engine_terminal
EngineEnds(a) ==
    /\ m.job[a].at = "Engine"
    /\ m' = [m EXCEPT !.job[a].at = "Terminal"]

\* finish_execution: only a job whose engine ran has a final report.
JobReports(a, report, quiescent) ==
    /\ m.job[a].at = "Terminal"
    /\ report => m.job[a].ran /\ CanEnqueue(m, a, "Terminal")
    /\ m' = [(IF report THEN Enqueue(m, a, "Terminal") ELSE m)
                EXCEPT !.job[a].at = "Reported",
                       !.job[a].report = report,
                       !.job[a].quiescent = quiescent]

JobEnds(a, late) ==
    /\ m.job[a].at = "Reported"
    /\ m' = Finished([m EXCEPT !.job[a].at = "Ended"], a, late)

Job(a) ==
    /\ \/ JobStarts(a) \/ JobWaits(a) \/ EngineEnds(a)
       \/ \E late \in BOOLEAN : JobEnds(a, late)
       \/ \E report, quiescent \in BOOLEAN : JobReports(a, report, quiescent)
    /\ UNCHANGED Environment

(***************************************************************************)
(* The cloud, as the runner's handlers expect it                           *)
(***************************************************************************)
Effect(kind, of) == [kind |-> kind, of |-> of]

Orders == {e \in issued : e.kind \in {"Cancel", "Release"}}

\* One more order or broken connection is within the bound.
Undisturbed == Cardinality(Orders) + reconnects < MaxDisturbances

Withdrawn(a) == \E e \in Orders : e.of[1] = a

Expected(e) ==
    CASE e.kind = "Offer" ->
            \A b \in 1..(e.of - 1) : Effect("Offer", b) \in issued
      [] e.kind = "Prepare" -> <<e.of, "Preparing">> \in known /\ ~Withdrawn(e.of)
      [] e.kind = "Start" -> <<e.of, "Accepted">> \in known /\ e.of \in Starts
      [] e.kind = "Authorize" -> <<e.of, "Started">> \in known
      [] OTHER ->
            /\ Effect("Offer", e.of[1]) \in issued
            /\ Cardinality(Orders) < MaxOrders
            /\ Undisturbed

PossibleEffects ==
    [kind : {"Offer", "Prepare", "Start", "Authorize"}, of : Assignment]
        \cup [kind : {"Cancel"}, of : Cancels]
        \cup [kind : {"Release"}, of : Releases]

(***************************************************************************)
(* The connection                                                          *)
(***************************************************************************)
\* The session receives an effect, handles it and sends the receipt.
Receive(e) ==
    /\ ~m.conflict
    /\ m' \in Handled(m, e)
    /\ delivered' = delivered + 1
    /\ wire' = Append(wire, <<None, "Receipt">>)
    /\ UNCHANGED <<known, reconnects>>

\* What was not confirmed when the last connection broke comes first.
Redeliver ==
    /\ delivered < Len(effects)
    /\ Receive(effects[delivered + 1])
    /\ UNCHANGED <<effects, issued>>

Deliver(e) ==
    /\ delivered = Len(effects)
    /\ e \notin issued
    /\ Expected(e)
    /\ issued' = issued \cup {e}
    /\ effects' = Append(effects, e)
    /\ Receive(e)

\* Positions of the receipts among the first k frames of the wire.
Receipts(k) == {i \in 1..k : wire[i][2] = "Receipt"}

\* pending_observations, claim_observation_for_send and mark_observation_encoded:
\* the oldest observation that has not been sent over this connection.
Send ==
    LET unsent == {i \in DOMAIN m.outbox :
                     m.outbox[i].replayable /\ ~m.outbox[i].sent}
    IN  /\ ~m.conflict
        /\ unsent # {}
        /\ Len(wire) - Cardinality(Receipts(Len(wire))) < Window
        /\ LET i == CHOOSE i \in unsent : \A j \in unsent : i <= j
           IN  /\ m' = [m EXCEPT !.outbox[i].sent = TRUE]
               /\ wire' = Append(wire, <<m.outbox[i].id, m.outbox[i].kind>>)
        /\ UNCHANGED <<effects, delivered, known, issued, reconnects>>

\* acknowledge_observation
Acknowledge(s, a, kind) ==
    LET It(e) == e.id = a /\ e.kind = kind
        taken == [s EXCEPT !.outbox = RemoveFirstMatch(@, It)]
        report == [taken EXCEPT
                     !.cleanupReport = IF @ = a THEN None ELSE @]
    IN  IF ~Holds(s, a, kind) \/ kind # "Terminal" THEN taken
        ELSE IF s.slot.phase = "Finishing" /\ s.slot.id = a THEN
                BeginFinalization([report EXCEPT !.reporting = None], a, "Idle")
        ELSE [report EXCEPT !.reporting = IF @ = a THEN None ELSE @]

\* A receipt confirms the oldest effect that is not confirmed.
Confirmed(k) == SubSeq(effects, Cardinality(Receipts(k)) + 1, Len(effects))

\* The cloud receives the next observation, with the receipts before it, and
\* acknowledges it.  Receiving a receipt has no other effect than the confirmation.
CloudReceives(k) ==
    /\ ~m.conflict
    /\ Receipts(k) = 1..(k - 1)
    /\ wire' = SubSeq(wire, k + 1, Len(wire))
    /\ effects' = Confirmed(k)
    /\ delivered' = delivered - (k - 1)
    /\ known' = known \cup {wire[k]}
    /\ m' = Acknowledge(m, wire[k][1], wire[k][2])
    /\ UNCHANGED <<issued, reconnects>>

\* Which effect the receipt at position i of the wire confirms.
Confirms(i) == effects[Cardinality(Receipts(i))]

\* The connection breaks when the cloud has received the first k frames on the
\* wire.  It acknowledges none of them, and repeats what is not confirmed.
Reconnect(k) ==
    /\ ~m.conflict
    /\ reconnects < MaxReconnects /\ Undisturbed
    /\ LosesPrepareReceipts \/ \A i \in Receipts(Len(wire)) :
                                  Confirms(i).kind = "Prepare" => i <= k
    /\ m' = FinishTransport(m)
    /\ effects' = Confirmed(k)
    /\ known' = known \cup {wire[i] : i \in 1..k \ Receipts(k)}
    /\ delivered' = 0
    /\ wire' = << >>
    /\ reconnects' = reconnects + 1
    /\ UNCHANGED <<issued>>

\* The receipt of an effect is sent before the effect is handled.  When the send
\* fails the connection ends and the effect is dropped; here the cloud has the
\* receipt nevertheless, and will not repeat the effect.
ReceiptSendFails(e) ==
    /\ ~m.conflict
    /\ reconnects < MaxReconnects /\ Undisturbed
    /\ \/ delivered < Len(effects) /\ e = effects[delivered + 1]
       \/ delivered = Len(effects) /\ e \notin issued /\ Expected(e)
    /\ m' = FinishTransport(m)
    /\ issued' = issued \cup {e}
    /\ effects' = SubSeq(effects, delivered + 2, Len(effects))
    /\ known' = known \cup {wire[i] : i \in DOMAIN wire \ Receipts(Len(wire))}
    /\ delivered' = 0
    /\ wire' = << >>
    /\ reconnects' = reconnects + 1

(***************************************************************************)
(* The service is told to stop                                             *)
(***************************************************************************)
BeginShutdownHoldingSlot ==
    LET a == m.slot.id
        told == [m EXCEPT !.shuttingDown = TRUE]
        detachable == [do |-> "Root", id |-> a, arg |-> "Pending"]
    IN  /\ MayShutDown
        /\ ~m.shuttingDown
        /\ m' = IF m.slot.phase = "Preparing" THEN
                        [told EXCEPT !.slot.cancelled = TRUE,
                                     !.work = {IF w = detachable
                                               THEN [w EXCEPT !.arg = "Detached"]
                                               ELSE w : w \in @}]
                ELSE IF m.slot.phase = "Accepted" THEN FinishBeforeExecution(told, a)
                ELSE IF m.slot.phase = "Finishing" THEN StartGrace(told, a, FALSE)
                ELSE told
        /\ UNCHANGED <<effects, delivered, wire, known, issued, reconnects>>

BeginShutdown ==
    LET a == m.slot.id
        told == [m EXCEPT !.shuttingDown = TRUE]
        detachable == [do |-> "Root", id |-> a, arg |-> "Pending"]
    IN  /\ MayShutDown
        /\ ~m.shuttingDown
        /\ m' = IF m.slot.phase = "Preparing" /\ detachable \in m.work THEN
                        [told EXCEPT !.slot = Idle,
                                     !.work = (@ \ {detachable}) \cup
                                        {[detachable EXCEPT !.arg = "Detached"]}]
                ELSE IF m.slot.phase = "Preparing" THEN
                        [told EXCEPT !.slot.cancelled = TRUE]
                ELSE IF m.slot.phase = "Accepted" THEN FinishBeforeExecution(told, a)
                ELSE IF m.slot.phase = "Finishing" THEN StartGrace(told, a, FALSE)
                ELSE told
        /\ UNCHANGED <<effects, delivered, wire, known, issued, reconnects>>

ShutdownComplete(s) ==
    s.slot = Idle /\ s.reporting = None /\ ObligationsDispatched(s)

Next ==
    \/ \E item \in m.work : Work(item)
    \/ \E a \in Assignment : Job(a)
    \/ Redeliver
    \/ \E e \in PossibleEffects : Deliver(e)
    \/ Send
    \/ \E k \in DOMAIN wire : CloudReceives(k)
    \/ \E k \in 0..Len(wire) : Reconnect(k)
    \/ \E e \in PossibleEffects : ReceiptSendFails(e)
    \/ BeginShutdown

Spec == Init /\ [][Next]_vars

(***************************************************************************)
(* Properties                                                              *)
(***************************************************************************)

\* The directories of two assignments never exist together: a successor is
\* prepared only when the release of its predecessor's root has been drained,
\* whatever cancellation, release, shutdown or broken connection came between.
RootExclusive == Cardinality(m.roots) <= 1

\* Once a successor has the slot, no report about its predecessor's end is sent
\* any more (apply_successor_fences, retire_assignment_observations).
PredecessorSilent ==
    \A i \in DOMAIN m.outbox :
        /\ m.outbox[i].kind = "Terminal"
        /\ m.slot.phase \in {"Preparing", "Accepted", "Running"}
        /\ m.slot.id > m.outbox[i].id
        => ~m.outbox[i].replayable

\* A cancellation for which the runner has decided to answer "stopped before
\* execution" is never followed by the engine: the start authority that was on
\* its way is withheld (has_pending_pre_execution_cancellation).
PreExecutionStopHolds ==
    \A i \in DOMAIN m.cancellations :
        m.cancellations[i].disposition = "PreExecutionStopped"
            => ~m.job[m.cancellations[i].command[1]].ran

\* A cloud that issues what the runner asked for, and repeats what is not
\* confirmed, never meets the terminal ConflictingOffer failure.
NoConflict == ~m.conflict

(***************************************************************************)
(* The manager implements AssignmentLife.  A job that has been spawned     *)
(* counts as executing when its engine runs, until it has reported its end *)
(* to the manager.                                                         *)
(***************************************************************************)
Executing ==
    LET live == {a \in Assignment :
                   m.job[a].ran /\ m.job[a].at \in {"Engine", "Terminal", "Reported"}}
    IN  IF live = {} THEN None ELSE CHOOSE a \in live : TRUE

Life == INSTANCE AssignmentLife WITH
    holder <- m.slot.id,
    accepted <- {a \in Assignment : m.decision[a].response = "Accepted"},
    executing <- Executing,
    executed <- {a \in Assignment : m.job[a].ran}

\* Seen as the holder of a slot, the manager with its jobs takes only the steps
\* of AssignmentLife: repeated offers and starts, broken connections and late
\* events never make it execute an assignment twice, before it is accepted, or
\* beside another one.
ImplementsLife == Life!LifeSpec

(***************************************************************************)
(* Liveness                                                                *)
(***************************************************************************)
\* The runner's tasks are scheduled, workers end (their own deadlines and the
\* blocking pool see to that), the execution of a workflow ends, and a
\* connection that does not break carries frames both ways.
FairSpec ==
    /\ Spec
    /\ WF_vars(\E item \in m.work : Work(item))
    /\ WF_vars(\E a \in Assignment : Job(a))
    /\ WF_vars(Redeliver)
    /\ WF_vars(Send)
    /\ WF_vars(\E k \in DOMAIN wire : CloudReceives(k))

\* An assignment that was started, or whose root is being released, gives the
\* slot back: neither a lost acknowledgement nor a lost lease keeps it.
SlotGivenBack ==
    \A a \in Assignment :
        (m.slot.id = a /\ m.slot.phase \in {"Running", "Finishing", "Releasing"})
            ~> (m.slot.id # a)

\* The successor of an assignment fences its reports and a release ends them; a
\* runner that stops, or that could not clean up, may exit without them.
Fenced(a) ==
    \/ m.cleanupFailed \/ m.shuttingDown
    \/ \E b \in Assignment : b > a /\ Effect("Offer", b) \in issued
    \/ \E r \in Releases : r[1] = a /\ Effect("Release", r) \in issued

\* A cancellation that is to stop an assignment before it executes is answered
\* once the root is released, and the interruption is reported with it: the
\* cloud does not wait for either (complete_pre_execution_cancellation).
CancellationAnswered ==
    \A c \in Cancels :
        (\E i \in DOMAIN m.cancellations :
            m.cancellations[i].command = c /\ m.cancellations[i].state = "Pending")
        ~> ({c, <<c[1], "Terminal">>} \subseteq known \/ Fenced(c[1]))

\* A runner told to stop comes to the point where it may exit, unless it holds
\* an assignment that only the cloud can move on: one it has a root for, or one
\* it has accepted.
ShutdownCompletes ==
    m.shuttingDown ~>
        \/ ShutdownComplete(m)
        \/ m.cleanupFailed
        \/ m.slot.phase = "Preparing" /\ m.slot.root
        \/ m.slot.phase = "Accepted"
        \/ m.reporting # None /\ ~Holds(m, m.reporting, "Terminal")

(***************************************************************************)
(* What the repository says and the code does not do                       *)
(***************************************************************************)
\* Once the final report is acknowledged, nothing is being reported
\* (assignment.rs:11272 asserts it, for an assignment without a root).
ReportingEnds ==
    m.reporting # None /\ ~m.cleanupFailed => Holds(m, m.reporting, "Terminal")
=============================================================================
