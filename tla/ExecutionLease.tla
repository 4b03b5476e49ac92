--------------------------- MODULE ExecutionLease ---------------------------
(***************************************************************************)
(* The lease under which the runner executes an accepted assignment.  The  *)
(* runner notes the time before it asks for a lease and derives every      *)
(* deadline from that basis; the cloud counts from the moment it answers.  *)
(* The manager judges the grants that arrive, late and more than once; the *)
(* execution job supervises the engine under the authority it last read,   *)
(* then delivers artifacts under the current one.  Timers may fire late.   *)
(***************************************************************************)
EXTENDS Integers

CONSTANTS
    LeaseDuration, FencingMargin, ForceStopBudget, ReportBudget,
    RenewalBudget, MinimumHeadroom, MaximumGrace,
    Grace,          \* the cancellation grace of the admitted workflow
    MaxSequence,    \* the largest sequence: u64::MAX
    MaxTime         \* bound: the clock stops here

Least(a, b) == IF a < b THEN a ELSE b

Greatest(a, b) == IF a < b THEN b ELSE a

\* validate_lease_policy: a policy the runner accepts in a welcome.
ValidPolicy ==
    /\ LeaseDuration > 0
    /\ FencingMargin > 0
    /\ FencingMargin >= ForceStopBudget + ReportBudget
    /\ LeaseDuration - FencingMargin - MaximumGrace >= 0
    /\ (LeaseDuration - FencingMargin - MaximumGrace) \div 2
          >= Greatest(RenewalBudget, MinimumHeadroom)

ASSUME DurationsAssumption ==
    /\ LeaseDuration \in Nat /\ FencingMargin \in Nat
    /\ ForceStopBudget \in Nat /\ ReportBudget \in Nat
    /\ RenewalBudget \in Nat /\ MinimumHeadroom \in Nat \ {0}
    /\ MaximumGrace \in Nat /\ Grace \in 0..MaximumGrace
    /\ MaxSequence \in Nat \ {0} /\ MaxTime \in Nat

ASSUME PolicyAssumption == ValidPolicy

Sequence == 1..MaxSequence

VARIABLES
    now,        \* the suspend-aware clock, the same rate on both sides
    granted,    \* the cloud: when each lease it granted expires
    bases,      \* CausalLease.bases
    requested,  \* CausalLease.renewal_requests
    slot,       \* the manager's slot: "Accepted", "Running" or "Ended"
    authority,  \* the authority the manager published
    applied,    \* renewals applied, by sequence
    rejected,   \* renewals rejected for good
    conflict,   \* a renewal was answered with ConflictingOffer
    job         \* the execution job

vars == <<now, granted, bases, requested, slot, authority, applied,
          rejected, conflict, job>>

managerVars == <<slot, authority, applied, rejected, conflict>>

Put(f, k, v) == [x \in DOMAIN f \cup {k} |-> IF x = k THEN v ELSE f[x]]

-----------------------------------------------------------------------------
(* LeaseAuthority::derive: the deadlines of the lease with sequence s.     *)

LocalExpiry(s) == bases[s] + LeaseDuration

ForceStopStart(s) == LocalExpiry(s) - FencingMargin

ForceStopEnd(s) == ForceStopStart(s) + ForceStopBudget

CancellationStart(s) == ForceStopStart(s) - Grace

CancellationWindow == LeaseDuration - FencingMargin - Grace

RenewalLead ==
    Least(Greatest(RenewalBudget, MinimumHeadroom), CancellationWindow \div 2)

RenewalRequest(s) == CancellationStart(s) - RenewalLead

\* The check of run_under_lease, handle_renewal and has_execution_authority.
CancellationStarted ==
    authority.revoked \/ now >= CancellationStart(authority.sequence)

PermitsDelivery ==
    ~authority.revoked /\ now < LocalExpiry(authority.sequence)

-----------------------------------------------------------------------------
(* The cloud.  It grants the first lease when it processes the acceptance, *)
(* a next one when it processes the request for it, and repeats a grant    *)
(* until it is acknowledged.                                               *)

CloudStarts ==
    /\ 1 \notin DOMAIN granted
    /\ granted' = Put(granted, 1, now + LeaseDuration)
    /\ UNCHANGED <<now, bases, requested, managerVars, job>>

CloudRenews(s) ==
    /\ s \in requested \ DOMAIN granted
    /\ s - 1 \in DOMAIN granted
    /\ now < granted[s - 1]
    /\ granted' = Put(granted, s, now + LeaseDuration)
    /\ UNCHANGED <<now, bases, requested, managerVars, job>>

Tick ==
    /\ now < MaxTime
    /\ now' = now + 1
    /\ UNCHANGED <<granted, bases, requested, managerVars, job>>

-----------------------------------------------------------------------------
(* The manager.                                                            *)

HandleStart ==
    /\ slot = "Accepted"
    /\ 1 \in DOMAIN granted
    /\ IF now < CancellationStart(1)
       THEN slot' = "Running" /\ job' = [job EXCEPT !.at = "Starting"]
       ELSE slot' = "Ended" /\ job' = [job EXCEPT !.at = "Over"]
    /\ UNCHANGED <<now, granted, bases, requested, authority, applied,
                   rejected, conflict>>

DispositionBySequence(s) ==
    IF s \in applied \cup rejected THEN "Conflict"
    ELSE IF slot # "Running" THEN "NotRunning"
    ELSE IF CancellationStarted THEN "CancellationStarted"
    ELSE IF s # authority.sequence + 1 THEN "Conflict"
    ELSE "Applied"

\* What handle_renewal decides about the grant with sequence s.
Disposition(s) ==
    IF s \in applied \cup rejected THEN "Replay"
    ELSE IF slot # "Running" THEN "NotRunning"
    ELSE IF CancellationStarted THEN "CancellationStarted"
    ELSE IF s <= authority.sequence THEN "StaleSequence"
    ELSE IF s # authority.sequence + 1 THEN "Conflict"
    ELSE IF s \notin DOMAIN bases THEN "MissingBasis"
    ELSE IF LocalExpiry(s) <= LocalExpiry(authority.sequence) THEN "Conflict"
    ELSE "Applied"

HandleRenewal(s) ==
    /\ s \in DOMAIN granted \ {1}
    /\ LET disposition == Disposition(s) IN
       /\ authority' =
             IF disposition = "Applied" THEN [sequence |-> s, revoked |-> FALSE]
             ELSE [authority EXCEPT !.revoked =
                      @ \/ disposition = "CancellationStarted"]
       /\ applied' = IF disposition = "Applied" THEN applied \cup {s} ELSE applied
       /\ rejected' = IF disposition \in {"NotRunning", "MissingBasis"}
                      THEN rejected \cup {s} ELSE rejected
       /\ conflict' = (conflict \/ disposition = "Conflict")
    /\ UNCHANGED <<now, granted, bases, requested, slot, job>>

\* A release with the reason execution_lease_expired: the cloud has no lease
\* left that is still running.
HandleRelease ==
    /\ slot = "Running"
    /\ \A s \in DOMAIN granted : granted[s] <= now
    /\ authority' = [authority EXCEPT !.revoked = TRUE]
    /\ UNCHANGED <<now, granted, bases, requested, slot, applied, rejected,
                   conflict, job>>

DrainFinished ==
    /\ slot = "Running"
    /\ job.at = "Over"
    /\ slot' = "Ended"
    /\ UNCHANGED <<now, granted, bases, requested, authority, applied,
                   rejected, conflict, job>>

-----------------------------------------------------------------------------
(* The execution job.  job.sequence is the authority it works under.       *)

\* Only an authority that is not revoked is waited on.
AuthorityChanged == authority.revoked \/ authority.sequence # job.sequence

\* begin_forced_containment, and whether the time to reap has passed.
Contained(j, s) ==
    [j EXCEPT !.at = IF now > ForceStopEnd(s) THEN "Over" ELSE "Containing"]

\* finish_after_lease_loss up to its first wait.
Lost(j, s) ==
    LET lost == [j EXCEPT !.lost = TRUE, !.sequence = s] IN
    IF now < ForceStopStart(s) THEN [lost EXCEPT !.at = "Stopping"]
                               ELSE Contained(lost, s)

\* The top of the loop of run_under_lease.
Supervised(j) ==
    IF CancellationStarted THEN Lost(j, authority.sequence)
    ELSE [j EXCEPT !.at = "Waiting", !.sequence = authority.sequence]

CalledOffBeforeStart ==
    /\ job.at = "Starting"
    /\ job' = [job EXCEPT !.at = "Over"]
    /\ UNCHANGED <<now, granted, bases, requested, managerVars>>

\* The start was authorized, everything is staged and the lease still holds.
BeginExecution ==
    /\ job.at = "Starting"
    /\ ~CancellationStarted
    /\ job' = Supervised(job)
    /\ UNCHANGED <<now, granted, bases, requested, managerVars>>

\* The deadline of wait_for_start_authority, or a later check of the lease.
StartLeaseLost ==
    /\ job.at = "Starting"
    /\ CancellationStarted
    /\ job' = [job EXCEPT !.at = "Over"]
    /\ UNCHANGED <<now, granted, bases, requested, managerVars>>

AskRenewalRebased(s) ==
    /\ bases' = Put(bases, s + 1, now)
    /\ requested' = requested \cup {s + 1}

\* CausalLease::request_renewal after the lease s, when the outbox takes it.
AskRenewal(s) ==
    /\ bases' = IF s + 1 \in DOMAIN bases THEN bases ELSE Put(bases, s + 1, now)
    /\ requested' = requested \cup {s + 1}

\* The outbox is full: the basis stays.
AskRenewalFails(s) ==
    /\ s + 1 \notin requested
    /\ bases' = IF s = MaxSequence \/ s + 1 \in DOMAIN bases THEN bases
                ELSE Put(bases, s + 1, now)
    /\ UNCHANGED requested

RenewalDue ==
    /\ job.at = "Waiting"
    /\ now >= RenewalRequest(job.sequence)
    /\ IF now >= CancellationStart(job.sequence)
       THEN job' = Lost(job, job.sequence) /\ UNCHANGED <<bases, requested>>
       ELSE \/ /\ job.sequence < MaxSequence
               /\ AskRenewal(job.sequence)
               /\ job' = [job EXCEPT !.at = "Asked"]
            \/ /\ AskRenewalFails(job.sequence)
               /\ job' = Lost(job, job.sequence)
    /\ UNCHANGED <<now, granted, managerVars>>

CancellationDeadlineBlind ==
    /\ job.at = "Asked"
    /\ now >= CancellationStart(job.sequence)
    /\ job' = Lost(job, job.sequence)
    /\ UNCHANGED <<now, granted, bases, requested, managerVars>>

CancellationDeadlineNever ==
    /\ job.at = "Asked"
    /\ now >= CancellationStart(job.sequence)
    /\ AuthorityChanged
    /\ job' = Supervised(job)
    /\ UNCHANGED <<now, granted, bases, requested, managerVars>>

\* The deadline may have raced a renewal, which is read again.
CancellationDeadline ==
    /\ job.at = "Asked"
    /\ now >= CancellationStart(job.sequence)
    /\ job' = IF AuthorityChanged THEN Supervised(job)
                                  ELSE Lost(job, job.sequence)
    /\ UNCHANGED <<now, granted, bases, requested, managerVars>>

AuthorityUpdated ==
    /\ job.at \in {"Waiting", "Asked"}
    /\ AuthorityChanged
    /\ job' = Supervised(job)
    /\ UNCHANGED <<now, granted, bases, requested, managerVars>>

\* A shutdown interrupts the attempt, and the loop starts over.
Interrupted ==
    /\ job.at \in {"Waiting", "Asked"}
    /\ ~job.interrupted
    /\ ~AuthorityChanged
    /\ job' = Supervised([job EXCEPT !.interrupted = TRUE])
    /\ UNCHANGED <<now, granted, bases, requested, managerVars>>

ForceStop ==
    /\ job.at = "Stopping"
    /\ now >= ForceStopStart(job.sequence)
    /\ job' = Contained(job, job.sequence)
    /\ UNCHANGED <<now, granted, bases, requested, managerVars>>

ContainmentDeadline ==
    /\ job.at = "Containing"
    /\ now >= ForceStopEnd(job.sequence)
    /\ job' = [job EXCEPT !.at = "Over"]
    /\ UNCHANGED <<now, granted, bases, requested, managerVars>>

CompletedUnbounded(quiescent) ==
    LET lost == job.lost \/ now >= CancellationStart(job.sequence)
        late == lost /\ now >= ForceStopStart(job.sequence)
    IN [job EXCEPT !.lost = lost,
                   !.at = IF late => quiescent THEN "Delivering" ELSE "Over"]

\* complete_ready_execution: what the job does with the engine's result when
\* its processes are known to be gone, or not.
Completed(quiescent) ==
    LET lost == job.lost \/ now >= CancellationStart(job.sequence)
        late == lost /\ now >= ForceStopStart(job.sequence)
        reported == late => quiescent /\ now <= ForceStopEnd(job.sequence)
    IN [job EXCEPT !.lost = lost, !.at = IF reported THEN "Delivering" ELSE "Over"]

\* The select is biased: a changed authority comes before the result.
EngineEnds(quiescent) ==
    /\ \/ job.at \in {"Waiting", "Asked"} /\ ~AuthorityChanged
       \/ job.at \in {"Stopping", "Containing"}
    /\ job' = Completed(quiescent)
    /\ UNCHANGED <<now, granted, bases, requested, managerVars>>

\* await_delivery keeps the lease alive while it waits.
DeliveryAsksRenewal ==
    /\ job.at = "Delivering"
    /\ PermitsDelivery
    /\ now >= RenewalRequest(authority.sequence)
    /\ authority.sequence < MaxSequence
    /\ authority.sequence + 1 \notin requested
    /\ AskRenewal(authority.sequence)
    /\ UNCHANGED <<now, granted, managerVars, job>>

\* The delivery ends in a report, whether it succeeded or not.
DeliveryEnds ==
    /\ job.at = "Delivering"
    /\ job' = [job EXCEPT !.at = "Over"]
    /\ \/ UNCHANGED <<bases, requested>>
       \/ /\ PermitsDelivery
          /\ now >= RenewalRequest(authority.sequence)
          /\ AskRenewalFails(authority.sequence)
    /\ UNCHANGED <<now, granted, managerVars>>

DeliveryAuthorityLost ==
    /\ job.at = "Delivering"
    /\ ~PermitsDelivery
    /\ job' = [job EXCEPT !.at = "Over"]
    /\ UNCHANGED <<now, granted, bases, requested, managerVars>>

-----------------------------------------------------------------------------
\* The assignment has just been accepted: retain_decision noted the basis.
Init ==
    /\ now = 0
    /\ granted = [s \in {} |-> 0]
    /\ bases = [s \in {1} |-> 0]
    /\ requested = {}
    /\ slot = "Accepted"
    /\ authority = [sequence |-> 1, revoked |-> FALSE]
    /\ applied = {}
    /\ rejected = {}
    /\ conflict = FALSE
    /\ job = [at |-> "None", sequence |-> 1, lost |-> FALSE, interrupted |-> FALSE]

CloudNext == CloudStarts \/ \E s \in Sequence : CloudRenews(s)

ManagerNext ==
    HandleStart \/ (\E s \in Sequence : HandleRenewal(s)) \/ HandleRelease
        \/ DrainFinished

\* What the job does by itself when a timer fires or a channel wakes it.
JobTimers ==
    \/ StartLeaseLost \/ RenewalDue \/ CancellationDeadline \/ AuthorityUpdated
    \/ ForceStop \/ ContainmentDeadline \/ DeliveryAuthorityLost

JobNext ==
    \/ JobTimers \/ BeginExecution \/ CalledOffBeforeStart \/ Interrupted
    \/ \E quiescent \in BOOLEAN : EngineEnds(quiescent)
    \/ DeliveryAsksRenewal \/ DeliveryEnds

Next == Tick \/ CloudNext \/ ManagerNext \/ JobNext

Spec == Init /\ [][Next]_vars

\* Time passes, timers fire in the end, and the manager drains its events.
\* Nothing is assumed of the cloud, of the engine or of a delivery.
FairSpec ==
    Spec /\ WF_vars(Tick) /\ WF_vars(JobTimers) /\ WF_vars(DrainFinished)

-----------------------------------------------------------------------------
\* A type invariant, for the proofs.
TypeOK ==
    /\ now \in Nat
    /\ DOMAIN granted \subseteq Sequence
    /\ granted = [s \in DOMAIN granted |-> granted[s]]
    /\ \A s \in DOMAIN granted : granted[s] \in Nat
    /\ DOMAIN bases \subseteq Sequence
    /\ bases = [s \in DOMAIN bases |-> bases[s]]
    /\ \A s \in DOMAIN bases : bases[s] \in Nat
    /\ requested \subseteq Sequence
    /\ slot \in {"Accepted", "Running", "Ended"}
    /\ authority \in [sequence : Sequence, revoked : BOOLEAN]
    /\ applied \subseteq Sequence
    /\ rejected \subseteq Sequence
    /\ conflict \in BOOLEAN
    /\ job \in [at : {"None", "Starting", "Waiting", "Asked", "Stopping",
                      "Containing", "Delivering", "Over"},
                sequence : Sequence, lost : BOOLEAN, interrupted : BOOLEAN]

\* The runner never believes in a lease longer than the cloud does: what it
\* derives from the basis of request_renewal or retain_decision expires no
\* later than the grant of the same sequence.  This is what "execution remains
\* bounded by the latest received lease" (README.md) rests on.
LeaseContained ==
    slot = "Running" =>
        /\ authority.sequence \in DOMAIN granted
        /\ LocalExpiry(authority.sequence) <= granted[authority.sequence]

\* When run_under_lease hands back a result, in time or after containment, the
\* whole budget for delivering the terminal report still fits into the lease as
\* the cloud counts it.
ReportFits ==
    [][job.at # "Delivering" /\ job'.at = "Delivering" =>
          now + ReportBudget <= granted[job.sequence]]_vars

\* The supervision gives the lease up only if the authority current at that
\* moment is revoked or due: a renewal that handle_renewal applied in time is
\* never lost to the deadline it races with.  Excepted are an attempt that could
\* not ask for its renewal, and one a shutdown had interrupted already.
LossJustified ==
    [][~job.lost /\ job'.lost =>
          \/ CancellationStarted
          \/ job.sequence + 1 \notin requested'
          \/ job.interrupted]_vars

\* A cloud that grants each lease once and repeats its grants is never answered
\* with a conflict by handle_renewal, whatever the manager and job do meanwhile.
RenewalsNeverConflict == ~conflict

\* The lease ends every execution: with no grant, no engine result and no
\* delivery, the deadlines of run_under_lease and await_delivery still give the
\* slot back.
LeaseEndsExecution == slot = "Running" ~> slot = "Ended"
=============================================================================
