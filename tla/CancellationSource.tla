------------------------- MODULE CancellationSource -------------------------
(***************************************************************************)
(* The CancellationSource of crates/execution/src/workflow/admission.rs:   *)
(* requesters on other tasks ask for cancellation under a mutex and        *)
(* announce it afterwards on two watch channels, while the coordinator     *)
(* reads the queue of operations and arms the source once more when the    *)
(* run enters finalization.                                                *)
(*                                                                         *)
(* A request the source refuses changes nothing, so every request below    *)
(* is an accepted one.  The lock section of a call is one step; each send  *)
(* on a watch channel after it is another.  They interleave with the       *)
(* calls of other tasks in a preemptive host (the local command runs on a  *)
(* multi-threaded runtime), and do not in the other (the runner's runtime  *)
(* has one thread and the calls contain no await).                         *)
(***************************************************************************)
EXTENDS Naturals, Sequences, FiniteSets

CONSTANTS
  Requester, \* the tasks that may request cancellation
  Reason,    \* the reasons other than ForceAbort
  Host       \* the programs a source is part of

\* Who asks for what in a program: reasons requested with request_cancellation,
\* reasons requested with request_ordinary_cancellation, and reasons an observer
\* requests again at finalization; whether calls of different tasks interleave,
\* and whether the observer may fail to report a transition.
HostType ==
  [ requesters : SUBSET Requester, graceful : SUBSET Reason,
    ordinary_only : SUBSET Reason, carried : SUBSET Reason,
    preemptive : BOOLEAN, may_fault : BOOLEAN ]

ASSUME SourceAssumption ==
  /\ "ForceAbort" \notin Reason /\ "None" \notin Reason
  /\ "Coordinator" \notin Requester
  /\ Host \subseteq HostType

VARIABLES
  host,       \* the program, for good
  source,     \* CancellationOperationState, behind its mutex
  reason,     \* the value of the `reason` watch
  sends,      \* how often `operation_version` was sent: a receiver that has
              \* seen fewer has changed()
  publishing, \* publishing[t]: what task t still sends for its last call
  reader,     \* the coordinator and its CancellationOperationSubscription
  observer    \* the runner's observer: its fault, set once a transition could
              \* not be reported, and its post_stop_fence

vars == <<host, source, reason, sends, publishing, reader, observer>>

Task == Requester \cup {"Coordinator"}
AnyReason == Reason \cup {"ForceAbort"}

\* An operation's id is its position: next_id starts at 1 and every push takes
\* it.  phase is the phase the request was accepted for; no code reads it.
Operation ==
  [ kind  : {"Graceful", "OrdinaryOnly", "ForceAbort"},
    reason: AnyReason,
    phase : {"Ordinary", "Finalization"} ]

Source ==
  [ operations                  : Seq(Operation),
    finalization_arming         : BOOLEAN,
    finalization_armed          : BOOLEAN,
    pending_finalization_reason : Reason \cup {"None"},
    pending_force_abort         : BOOLEAN,
    phase_reason                : AnyReason \cup {"None"},
    force_abort_requested       : BOOLEAN ]

\* A send on the reason watch carries its value; "Version" is one on the other.
Sends == Seq(AnyReason \cup {"None", "Version"})

\* at: Starting (run() was not called yet), Checking (the select polls changed()), Waiting (nothing is available),
\* Reading (changed() is ready, next_operation comes), Reducing, Arming (the
\* commit of a reduction that entered finalization is awaited), Arm (it is
\* committed) and Over.
Reader ==
  [ at         : {"Starting", "Checking", "Waiting", "Reading", "Reducing",
                  "Arming", "Arm", "Over"},
    next_index : Nat,
    seen       : Nat ]

\* The types of CancellationOperationState, the watches and the subscription.
TypeOK ==
  /\ host \in Host
  /\ source \in Source
  /\ reason \in AnyReason \cup {"None"}
  /\ sends \in Nat
  /\ publishing \in [Task -> Sends]
  /\ reader \in Reader
  /\ observer \in [fault : BOOLEAN, fenced : BOOLEAN]

-----------------------------------------------------------------------------
(* Under the mutex.                                                        *)

Phase(s) == IF s.finalization_armed THEN "Finalization" ELSE "Ordinary"

Push(s, kind, r) ==
  [s EXCEPT !.operations = Append(@, [kind   |-> kind, reason |-> r,
                                      phase  |-> Phase(s)])]

\* request_cancellation.
AcceptsCancellation(s) ==
  IF s.finalization_arming
  THEN s.pending_finalization_reason = "None" /\ ~s.pending_force_abort
  ELSE s.phase_reason = "None" /\ ~s.force_abort_requested

WithCancellation(s, r) ==
  IF s.finalization_arming
  THEN [s EXCEPT !.pending_finalization_reason = r]
  ELSE [Push(s, "Graceful", r) EXCEPT !.phase_reason = r]

\* request_ordinary_cancellation.
AcceptsOrdinary(s) ==
  /\ ~s.finalization_arming /\ ~s.finalization_armed
  /\ s.phase_reason = "None" /\ ~s.force_abort_requested

WithOrdinary(s, r) == [Push(s, "OrdinaryOnly", r) EXCEPT !.phase_reason = r]

\* request_force_abort.
AcceptsForceAbort(s) ==
  ~s.force_abort_requested /\ (s.finalization_arming => ~s.pending_force_abort)

ForceAborted(s) ==
  [Push(s, "ForceAbort", "ForceAbort") EXCEPT
     !.force_abort_requested = TRUE,
     !.phase_reason = IF @ = "None" THEN "ForceAbort" ELSE @]

WithForceAbort(s) ==
  IF s.finalization_arming THEN [s EXCEPT !.pending_force_abort = TRUE]
  ELSE ForceAborted(s)

ArmedGracefulOnly(s) ==
  LET open == [s EXCEPT !.finalization_arming = FALSE,
                        !.finalization_armed = TRUE,
                        !.phase_reason = "None",
                        !.pending_finalization_reason = "None",
                        !.pending_force_abort = FALSE]
      held == s.pending_finalization_reason
  IN  IF held # "None"
      THEN [Push(open, "Graceful", held) EXCEPT !.phase_reason = held]
      ELSE IF s.pending_force_abort THEN ForceAborted(open) ELSE open

\* complete_finalization_arm: the new phase has no reason until the requests
\* that were held back are queued, the graceful one first.
Armed(s) ==
  LET open == [s EXCEPT !.finalization_arming = FALSE,
                        !.finalization_armed = TRUE,
                        !.phase_reason = "None",
                        !.pending_finalization_reason = "None"]
      held == s.pending_finalization_reason
      t == IF held = "None" THEN open
           ELSE [Push(open, "Graceful", held) EXCEPT !.phase_reason = held]
  IN  IF s.pending_force_abort /\ ~s.force_abort_requested
      THEN ForceAborted([t EXCEPT !.pending_force_abort = FALSE])
      ELSE t

\* abort_finalization_arm.
Unarmed(s) ==
  [s EXCEPT !.finalization_arming = FALSE,
            !.pending_finalization_reason = "None",
            !.pending_force_abort = FALSE]

-----------------------------------------------------------------------------
(* Steps.                                                                  *)

Idle(t) ==
  /\ publishing[t] = <<>>
  /\ host.preemptive \/ \A u \in Task : publishing[u] = <<>>

\* After the lock section the call sends the reason it set, then the version.
Announce(t, s, set) ==
  publishing' = [publishing EXCEPT ![t] =
    IF Len(s.operations) = Len(source.operations) THEN set
    ELSE Append(set, "Version")]

RequestCancellation(t, r) ==
  /\ Idle(t)
  /\ AcceptsCancellation(source)
  /\ source' = WithCancellation(source, r)
  /\ Announce(t, source', IF source.finalization_arming THEN <<>> ELSE <<r>>)
  /\ UNCHANGED <<host, reason, sends, reader, observer>>

RequestOrdinaryCancellation(t, r) ==
  /\ Idle(t)
  /\ AcceptsOrdinary(source)
  /\ source' = WithOrdinary(source, r)
  /\ Announce(t, source', <<r>>)
  /\ UNCHANGED <<host, reason, sends, reader, observer>>

\* The reason is sent only when the abort is what closed the phase.
RequestForceAbort(t) ==
  /\ Idle(t)
  /\ AcceptsForceAbort(source)
  /\ source' = WithForceAbort(source)
  /\ Announce(t, source',
              IF source'.phase_reason = source.phase_reason THEN <<>>
              ELSE <<"ForceAbort">>)
  /\ UNCHANGED <<host, reason, sends, reader, observer>>

\* begin_forced_containment: the lease ran out, or its clock failed.  The fence
\* closes whether or not the request that follows is accepted.
BeginForcedContainment(t) ==
  /\ Idle(t)
  /\ "ExecutionLeaseExpired" \in host.carried
  /\ observer' = [observer EXCEPT !.fenced = TRUE]
  /\ ~observer.fenced \/ AcceptsCancellation(source)
  /\ LET accepted == AcceptsCancellation(source)
     IN  /\ source' = IF accepted
                      THEN WithCancellation(source, "ExecutionLeaseExpired")
                      ELSE source
         /\ Announce(t, source', IF accepted /\ ~source.finalization_arming
                                 THEN <<"ExecutionLeaseExpired">> ELSE <<>>)
  /\ UNCHANGED <<host, reason, sends, reader>>

\* send_replace on the watch the task's call reaches next.
Publish(t) ==
  /\ publishing[t] # <<>>
  /\ publishing' = [publishing EXCEPT ![t] = Tail(@)]
  /\ IF Head(publishing[t]) = "Version"
     THEN sends' = sends + 1 /\ UNCHANGED reason
     ELSE reason' = Head(publishing[t]) /\ UNCHANGED sends
  /\ UNCHANGED <<host, source, reader, observer>>

AvailableLate == Len(source.operations) > reader.next_index + 1

Available == Len(source.operations) > reader.next_index

CheckVersionOnly ==
  /\ reader.at = "Checking" /\ Idle("Coordinator")
  /\ reader' = [reader EXCEPT !.at = "Waiting"]
  /\ UNCHANGED <<host, source, reason, sends, publishing, observer>>

\* changed(): ready at once when an operation is queued, else when the version
\* was sent since it was last seen.
Check ==
  /\ reader.at = "Checking" /\ Idle("Coordinator")
  /\ reader' = [reader EXCEPT !.at = IF Available THEN "Reading" ELSE "Waiting"]
  /\ UNCHANGED <<host, source, reason, sends, publishing, observer>>

Wake ==
  /\ reader.at = "Waiting" /\ Idle("Coordinator")
  /\ sends # reader.seen
  /\ reader' = [reader EXCEPT !.at = "Reading", !.seen = sends]
  /\ UNCHANGED <<host, source, reason, sends, publishing, observer>>

\* next_operation marks the version seen only when it returns an operation.
TakeOperation ==
  [reader EXCEPT !.at = "Reducing", !.next_index = @ + 1, !.seen = sends]

\* run() subscribes, takes an operation that is already queued and reduces the
\* initial state with it, or without one.
Start ==
  /\ reader.at = "Starting" /\ Idle("Coordinator")
  /\ reader' = IF Available THEN TakeOperation
               ELSE [reader EXCEPT !.at = "Reducing", !.seen = sends]
  /\ UNCHANGED <<host, source, reason, sends, publishing, observer>>

\* changed() was ready.
ReadOperation ==
  /\ reader.at = "Reading" /\ Idle("Coordinator")
  /\ reader' = IF Available THEN TakeOperation
               ELSE [reader EXCEPT !.at = "Checking"]
  /\ UNCHANGED <<host, source, reason, sends, publishing, observer>>

\* A driver occurrence arrived first; the queue is read again before it is
\* given an ordinal, and an operation found there is reduced instead.
ReceiveDelivery ==
  /\ reader.at = "Waiting" /\ Idle("Coordinator")
  /\ reader' = IF Available THEN TakeOperation
               ELSE [reader EXCEPT !.at = "Reducing"]
  /\ UNCHANGED <<host, source, reason, sends, publishing, observer>>

\* Reporting a transition may fail, and nothing is reported after that.
Reported ==
  IF host.may_fault /\ ~observer.fenced
  THEN {observer, [observer EXCEPT !.fault = TRUE]} ELSE {observer}

\* A reduction that stays in its phase is committed, or ends the run.
CommitReduction ==
  /\ reader.at = "Reducing" /\ Idle("Coordinator")
  /\ \E next \in {"Checking", "Over"} : reader' = [reader EXCEPT !.at = next]
  /\ observer' \in Reported
  /\ UNCHANGED <<host, source, reason, sends, publishing>>

\* begin_finalization_arm, for the one reduction that enters finalization.
BeginFinalizationArm ==
  /\ reader.at = "Reducing" /\ Idle("Coordinator")
  /\ ~source.finalization_arming /\ ~source.finalization_armed
  /\ source' = [source EXCEPT !.finalization_arming = TRUE]
  /\ reader' = [reader EXCEPT !.at = "Arming"]
  /\ UNCHANGED <<host, reason, sends, publishing, observer>>

ObserveFinalizationUnlessFenced ==
  /\ reader.at = "Arming" /\ Idle("Coordinator")
  /\ observer' \in Reported
  /\ source' = IF /\ reason \in host.carried /\ AcceptsCancellation(source)
                  /\ ~observer'.fault /\ ~observer.fenced
               THEN WithCancellation(source, reason) ELSE source
  /\ reader' = [reader EXCEPT !.at = "Arm"]
  /\ UNCHANGED <<host, reason, sends, publishing>>

\* The commit reports the transition to its observer, which requests a reason
\* that outlives the ordinary phase again: behind the fence, or once the
\* transition is reported, but not when it has a fault.
ObserveFinalization ==
  /\ reader.at = "Arming" /\ Idle("Coordinator")
  /\ observer' \in Reported
  /\ source' = IF /\ reason \in host.carried /\ AcceptsCancellation(source)
                  /\ observer.fenced \/ ~observer'.fault
               THEN WithCancellation(source, reason) ELSE source
  /\ reader' = [reader EXCEPT !.at = "Arm"]
  /\ UNCHANGED <<host, reason, sends, publishing>>

CompleteFinalizationArmQuietly ==
  /\ reader.at = "Arm" /\ Idle("Coordinator")
  /\ source' = Armed(source)
  /\ Announce("Coordinator", source',
              IF source'.phase_reason = "None" THEN <<>>
              ELSE <<source'.phase_reason>>)
  /\ reader' = [reader EXCEPT !.at = "Checking"]
  /\ UNCHANGED <<host, reason, sends, observer>>

CompleteFinalizationArm ==
  /\ reader.at = "Arm" /\ Idle("Coordinator")
  /\ source' = Armed(source)
  /\ Announce("Coordinator", source', <<source'.phase_reason>>)
  /\ reader' = [reader EXCEPT !.at = "Checking"]
  /\ UNCHANGED <<host, reason, sends, observer>>

\* The commit failed, and with it the run.
AbortFinalizationArm ==
  /\ reader.at \in {"Arming", "Arm"} /\ Idle("Coordinator")
  /\ source' = Unarmed(source)
  /\ reader' = [reader EXCEPT !.at = "Over"]
  /\ UNCHANGED <<host, reason, sends, publishing, observer>>

Init ==
  /\ host \in Host
  /\ source = [ operations                  |-> <<>>,
                finalization_arming         |-> FALSE,
                finalization_armed          |-> FALSE,
                pending_finalization_reason |-> "None",
                pending_force_abort         |-> FALSE,
                phase_reason                |-> "None",
                force_abort_requested       |-> FALSE ]
  /\ reason = "None"
  /\ sends = 0
  /\ publishing = [t \in Task |-> <<>>]
  /\ reader = [at |-> "Starting", next_index |-> 0, seen |-> 0]
  /\ observer = [fault |-> FALSE, fenced |-> FALSE]

Request(t) ==
  \/ \E r \in host.graceful : RequestCancellation(t, r)
  \/ \E r \in host.ordinary_only : RequestOrdinaryCancellation(t, r)
  \/ RequestForceAbort(t)
  \/ BeginForcedContainment(t)

Coordinate ==
  \/ Start \/ Check \/ Wake \/ ReadOperation \/ ReceiveDelivery \/ CommitReduction
  \/ BeginFinalizationArm \/ ObserveFinalization \/ CompleteFinalizationArm
  \/ AbortFinalizationArm

\* The commit port answers, and the coordinator's task and the tasks that are
\* sending are scheduled.  Driver occurrences may stop arriving.
Progress ==
  \/ Start \/ Check \/ Wake \/ ReadOperation \/ CommitReduction
  \/ ObserveFinalization \/ CompleteFinalizationArm

Next ==
  \/ \E t \in host.requesters : Request(t)
  \/ \E t \in Task : Publish(t)
  \/ Coordinate

Spec == Init /\ [][Next]_vars

FairSpec ==
  /\ Spec
  /\ WF_vars(Progress)
  /\ \A t \in Task : WF_vars(Publish(t))
-----------------------------------------------------------------------------
(* Properties.                                                             *)

Operations == source.operations
Quiet == \A t \in Task : publishing[t] = <<>>

\* changed() and next_operation never sleep through an operation: when all sends
\* are done and the coordinator waits while an operation is queued, the version
\* watch has a send it has not seen.
NoLostWakeup ==
  reader.at = "Waiting" /\ Available /\ Quiet => sends # reader.seen

\* A request accepted while finalization is being armed is queued when the arm
\* completes, in the order graceful then force abort; only a failed commit,
\* which ends the run, drops it.
HeldRequestsQueued ==
  [][LET held == (IF source.pending_finalization_reason = "None" THEN <<>>
                  ELSE <<source.pending_finalization_reason>>)
                 \o (IF source.pending_force_abort THEN <<"ForceAbort">>
                     ELSE <<>>)
         old == Len(Operations)
         new == Len(Operations')
     IN  source.finalization_arming /\ ~source'.finalization_arming =>
           \/ reader'.at = "Over"
           \/ /\ new = old + Len(held)
              /\ \A k \in DOMAIN held : Operations'[old + k].reason = held[k]]_vars

\* cancellation_reason() tells the reason the current phase is cancelled for
\* once every call has returned: after complete_finalization_arm the reason of
\* the ordinary phase is gone.  In a preemptive host a request that was
\* interrupted between its lock section and its send may still overwrite it.
ReasonAgrees ==
  Quiet /\ ~host.preemptive => reason = source.phase_reason

AcceptedInOrdinary(R) ==
  \E i \in DOMAIN Operations : /\ Operations[i].phase = "Ordinary"
                               /\ Operations[i].reason \in R

\* A shutdown or lease loss that was accepted in the ordinary phase also closes
\* the finalization gate: RunnerExecutionObserver requests it again, behind the
\* post-stop fence too, unless it has a fault.
CarriedClosesFinalization ==
  source.finalization_armed /\ AcceptedInOrdinary(host.carried) /\ ~observer.fault
    => source.phase_reason # "None"

\* Every queued operation is taken by the coordinator or the run ends first.
OperationsTaken ==
  \A k \in 1..3 :
    Len(Operations) >= k ~> reader.next_index >= k \/ reader.at = "Over"
=============================================================================
