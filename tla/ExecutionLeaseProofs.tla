----------------------- MODULE ExecutionLeaseProofs -----------------------
(***************************************************************************)
(* Proofs about the execution lease, for every valid policy, any number of *)
(* renewals and any delay: the runner's lease lies within the cloud's, its *)
(* results leave time to report, renewals are not lost and never conflict. *)
(***************************************************************************)
EXTENDS ExecutionLease, TLAPS

\* A grant answers a request that was made at its basis.
CausalInv ==
    /\ 1 \in DOMAIN bases
    /\ requested \subseteq DOMAIN bases
    /\ DOMAIN granted \subseteq {1} \cup requested
    /\ \A s \in DOMAIN bases : bases[s] <= now
    /\ \A s \in DOMAIN granted : LocalExpiry(s) <= granted[s]

\* Renewals are applied one after the other, and the next is asked for later
\* than the current one was.
RenewalInv ==
    /\ \A s \in Sequence : s \in applied <=> 2 <= s /\ s <= authority.sequence
    /\ applied \subseteq DOMAIN granted
    /\ \A s \in DOMAIN bases : s <= authority.sequence + 1
    /\ authority.sequence + 1 \in DOMAIN bases =>
          bases[authority.sequence] < bases[authority.sequence + 1]
    /\ ~conflict

\* How far the job is, and which requests it has made.
JobInv ==
    /\ slot = "Accepted" => job.at = "None" /\ authority.sequence = 1
    /\ slot = "Running" => job.at # "None" /\ 1 \in DOMAIN granted
    /\ slot = "Ended" => job.at = "Over"
    /\ job.sequence <= authority.sequence
    /\ job.at \in {"None", "Starting"} => requested = {}
    /\ job.at \in {"Waiting", "Asked"} =>
          \A s \in requested : s <= job.sequence + 1
    /\ job.at = "Waiting" /\ ~job.interrupted => job.sequence + 1 \notin requested
    /\ job.at \in {"Stopping", "Containing"} => job.lost

Inv == TypeOK /\ CausalInv /\ RenewalInv /\ JobInv

\* A policy the runner accepts leaves time between a basis and the request for
\* the next renewal.
LEMMA RenewalAfterBasis ==
    ASSUME NEW s, bases[s] \in Nat
    PROVE  /\ RenewalRequest(s) \in Int
           /\ bases[s] < RenewalRequest(s)
           /\ CancellationStart(s) \in Int
           /\ CancellationStart(s) <= ForceStopStart(s)
           /\ ForceStopStart(s) \in Int
           /\ ForceStopEnd(s) \in Int
           /\ ForceStopEnd(s) + ReportBudget <= LocalExpiry(s)
           /\ ForceStopStart(s) <= ForceStopEnd(s)
<1> DEFINE G == Greatest(RenewalBudget, MinimumHeadroom)
           W == LeaseDuration - FencingMargin - MaximumGrace
<1>1. G \in Nat /\ G >= 1
  BY DurationsAssumption DEF Greatest
<1>2. W \in Nat /\ W \div 2 >= 1 /\ W >= 2
  BY <1>1, DurationsAssumption, PolicyAssumption DEF ValidPolicy
<1>3. CancellationWindow \in Nat /\ CancellationWindow >= 2
  BY <1>2, DurationsAssumption DEF CancellationWindow
<1>4. CancellationWindow \div 2 \in Nat /\ CancellationWindow \div 2 < CancellationWindow
  BY <1>3
<1>5. RenewalLead \in Nat /\ RenewalLead < CancellationWindow
  BY <1>1, <1>4, <1>3 DEF RenewalLead, Least
<1> QED
  BY <1>5, DurationsAssumption, PolicyAssumption
  DEF RenewalRequest, CancellationStart, ForceStopStart, ForceStopEnd,
      LocalExpiry, CancellationWindow, ValidPolicy
LEMMA InitInv == Init => Inv
<1> SUFFICES ASSUME Init PROVE Inv
  OBVIOUS
<1>1. TypeOK
  <2>1. /\ granted = [s \in DOMAIN granted |-> granted[s]]
        /\ DOMAIN granted = {}
        /\ bases = [s \in DOMAIN bases |-> bases[s]]
        /\ DOMAIN bases = {1}
    BY DEF Init
  <2>2. 1 \in Sequence
    BY DurationsAssumption DEF Sequence
  <2> QED
    BY Zenon, <2>1, <2>2 DEF Init, TypeOK
<1>2. CausalInv /\ RenewalInv /\ JobInv
  BY DurationsAssumption
  DEF Init, CausalInv, RenewalInv, JobInv, Sequence, LocalExpiry
<1> QED
  BY <1>1, <1>2 DEF Inv

\* What handle_renewal can decide about a grant that answers a request.
LEMMA Dispositions ==
    ASSUME Inv, NEW s \in DOMAIN granted \ {1}
    PROVE  /\ Disposition(s) # "Conflict"
           /\ Disposition(s) = "Applied" =>
                 /\ slot = "Running"
                 /\ s = authority.sequence + 1
                 /\ s \in DOMAIN bases
<1>1. s \in DOMAIN bases /\ s \in Sequence /\ s <= authority.sequence + 1
  BY DEF Inv, TypeOK, CausalInv, RenewalInv
<1>2. s \notin applied => ~(s <= authority.sequence) /\ s = authority.sequence + 1
  BY <1>1 DEF Inv, TypeOK, RenewalInv, Sequence
<1>3. s = authority.sequence + 1 => ~(LocalExpiry(s) <= LocalExpiry(authority.sequence))
  <2>1. authority.sequence \in DOMAIN bases
    BY DEF Inv, TypeOK, CausalInv, RenewalInv, Sequence
  <2> QED
    BY <1>1, <2>1, DurationsAssumption DEF Inv, TypeOK, RenewalInv, LocalExpiry
<1> QED
  BY <1>1, <1>2, <1>3 DEF Disposition

\* Where the job can be after it looked at the lease, and what it works under.
LEMMA JobUpdates ==
    ASSUME Inv, NEW j, j \in [at : {"None", "Starting", "Waiting", "Asked",
                "Stopping", "Containing", "Delivering", "Over"},
                sequence : Sequence, lost : BOOLEAN, interrupted : BOOLEAN],
           NEW s \in Sequence
    PROVE  /\ Lost(j, s) \in [at : {"Stopping", "Containing", "Over"},
                sequence : {s}, lost : {TRUE}, interrupted : {j.interrupted}]
           /\ Contained(j, s) \in [at : {"Containing", "Over"},
                sequence : {j.sequence}, lost : {j.lost}, interrupted : {j.interrupted}]
           /\ Supervised(j) \in [at : {"Waiting", "Stopping", "Containing", "Over"},
                sequence : {authority.sequence}, lost : BOOLEAN,
                interrupted : {j.interrupted}]
           /\ ~CancellationStarted => Supervised(j).at = "Waiting"
           /\ CancellationStarted => Supervised(j).at # "Waiting"
           /\ Supervised(j).at \in {"Stopping", "Containing"} => Supervised(j).lost
           /\ Supervised(j).lost /\ ~j.lost => CancellationStarted
BY Zenon DEF Lost, Contained, Supervised, Inv, TypeOK

LEMMA CloudStep ==
    ASSUME Inv, \/ CloudStarts
                \/ \E s \in Sequence : CloudRenews(s)
    PROVE  Inv'
<1> PICK s \in Sequence :
      /\ s \in {1} \cup requested
      /\ granted' = Put(granted, s, now + LeaseDuration)
      /\ UNCHANGED <<now, bases, requested, slot, authority, applied, rejected,
                     conflict, job>>
  BY DurationsAssumption DEF CloudStarts, CloudRenews, managerVars, Sequence
<1>1. /\ DOMAIN granted' = DOMAIN granted \cup {s}
      /\ granted' = [x \in DOMAIN granted' |-> granted'[x]]
      /\ granted'[s] = now + LeaseDuration
      /\ \A x \in DOMAIN granted : x # s => granted'[x] = granted[x]
  BY DEF Put
<1>2. TypeOK'
  BY <1>1, DurationsAssumption DEF Inv, TypeOK
<1>3. CausalInv'
  BY <1>1, DurationsAssumption DEF Inv, TypeOK, CausalInv, LocalExpiry
<1>4. RenewalInv' /\ JobInv'
  BY <1>1 DEF Inv, RenewalInv, JobInv
<1> QED
  BY <1>2, <1>3, <1>4 DEF Inv

LEMMA TickStep ==
    ASSUME Inv, Tick
    PROVE  Inv'
<1>1. TypeOK' /\ CausalInv'
  BY DEF Inv, TypeOK, CausalInv, Tick, managerVars, LocalExpiry
<1>2. RenewalInv' /\ JobInv'
  BY DEF Inv, RenewalInv, JobInv, Tick, managerVars
<1> QED
  BY <1>1, <1>2 DEF Inv

LEMMA RenewalStep ==
    ASSUME Inv, NEW s \in Sequence, HandleRenewal(s)
    PROVE  Inv'
<1>1. s \in DOMAIN granted \ {1}
  BY DEF HandleRenewal
<1>2. /\ Disposition(s) # "Conflict"
      /\ Disposition(s) = "Applied" =>
            slot = "Running" /\ s = authority.sequence + 1
  BY <1>1, Dispositions
<1>3. /\ UNCHANGED <<now, granted, bases, requested, slot, job, conflict>>
      /\ rejected' \subseteq Sequence
  BY <1>2 DEF HandleRenewal, Inv, TypeOK
<1>4. CASE Disposition(s) = "Applied"
  <2>1. authority' = [sequence |-> s, revoked |-> FALSE] /\ applied' = applied \cup {s}
    BY <1>4 DEF HandleRenewal
  <2>2. TypeOK' /\ CausalInv'
    BY <1>3, <2>1 DEF Inv, TypeOK, CausalInv, LocalExpiry
  <2>3. RenewalInv'
    BY <1>1, <1>2, <1>3, <1>4, <2>1 DEF Inv, TypeOK, RenewalInv, Sequence
  <2>4. JobInv'
    BY <1>2, <1>3, <1>4, <2>1 DEF Inv, TypeOK, JobInv, Sequence
  <2> QED
    BY <2>2, <2>3, <2>4 DEF Inv
<1>5. CASE Disposition(s) # "Applied"
  <2>1. /\ authority' \in [sequence : {authority.sequence}, revoked : BOOLEAN]
        /\ UNCHANGED applied
    BY Zenon, <1>5 DEF HandleRenewal, Inv, TypeOK
  <2> QED
    BY <1>3, <2>1 DEF Inv, TypeOK, CausalInv, RenewalInv, JobInv, LocalExpiry
<1> QED
  BY <1>4, <1>5

\* The other steps of the manager and the steps of the job that ask nothing.
LEMMA QuietStep ==
    ASSUME Inv,
           UNCHANGED <<now, granted, bases, requested, applied, rejected, conflict>>,
           authority' \in [sequence : {authority.sequence}, revoked : BOOLEAN],
           TypeOK', JobInv'
    PROVE  Inv'
BY DEF Inv, CausalInv, RenewalInv, LocalExpiry

\* Every lease up to the current one was asked for, and granted.
LEMMA HeldLeases ==
    ASSUME Inv, NEW s \in Sequence, s <= authority.sequence
    PROVE  /\ s \in DOMAIN bases
           /\ slot = "Running" => s \in DOMAIN granted
<1>1. s = 1 \/ s \in applied
  BY DEF Inv, TypeOK, RenewalInv, Sequence
<1> QED
  BY <1>1 DEF Inv, CausalInv, RenewalInv, JobInv

\* Asking for the renewal after s, and failing to, both keep the bases causal:
\* a basis is noted once, and later than the one before.
LEMMA AskStep ==
    ASSUME Inv, slot = "Running",
           NEW s \in Sequence, s <= authority.sequence,
           RenewalRequest(s) <= now,
           \/ s < MaxSequence /\ AskRenewal(s)
           \/ AskRenewalFails(s),
           UNCHANGED <<now, granted, slot, authority, applied, rejected, conflict>>
    PROVE  /\ DOMAIN bases' \subseteq Sequence
           /\ bases' = [x \in DOMAIN bases' |-> bases'[x]]
           /\ \A x \in DOMAIN bases' : bases'[x] \in Nat
           /\ requested' \subseteq requested \cup {s + 1}
           /\ requested' \subseteq Sequence
           /\ CausalInv'
           /\ RenewalInv'
<1>1. /\ s \in DOMAIN bases /\ bases[s] \in Nat /\ now \in Nat
      /\ s < authority.sequence => s + 1 \in DOMAIN bases
      /\ authority.sequence \in DOMAIN bases
  <2>1. s < authority.sequence => s + 1 \in Sequence /\ s + 1 <= authority.sequence
    BY DurationsAssumption DEF Inv, TypeOK, Sequence
  <2>2. authority.sequence \in Sequence /\ authority.sequence <= authority.sequence
    BY DEF Inv, TypeOK, Sequence
  <2> QED
    BY <2>1, <2>2, HeldLeases DEF Inv, TypeOK
<1>2. bases[s] < now
  BY <1>1, RenewalAfterBasis
<1>3. requested' = requested \/ (requested' = requested \cup {s + 1} /\ s + 1 \in Sequence)
  BY DurationsAssumption DEF AskRenewal, AskRenewalFails, Sequence
<1>4. CASE bases' = bases
  <2>1. requested' \subseteq DOMAIN bases
    BY <1>4 DEF AskRenewal, AskRenewalFails, Put, Inv, CausalInv
  <2> QED
    BY <1>3, <1>4, <2>1 DEF Inv, TypeOK, CausalInv, RenewalInv, LocalExpiry
<1>5. CASE bases' # bases
  <2>1. /\ s + 1 \notin DOMAIN bases
        /\ s + 1 \in Sequence
        /\ bases' = Put(bases, s + 1, now)
    BY <1>5, DurationsAssumption DEF AskRenewal, AskRenewalFails, Sequence
  <2>2. /\ DOMAIN bases' = DOMAIN bases \cup {s + 1}
        /\ bases' = [x \in DOMAIN bases' |-> bases'[x]]
        /\ bases'[s + 1] = now
        /\ \A x \in DOMAIN bases : bases'[x] = bases[x]
    BY <2>1 DEF Put
  <2>3. s = authority.sequence
    BY <1>1, <2>1 DEF Inv, TypeOK, Sequence
  <2>4. CausalInv'
    BY <1>1, <1>3, <2>2 DEF Inv, TypeOK, CausalInv, LocalExpiry
  <2>5. RenewalInv'
    BY <1>1, <1>2, <2>2, <2>3 DEF Inv, TypeOK, RenewalInv, Sequence
  <2> QED
    BY <1>1, <1>3, <2>1, <2>2, <2>4, <2>5 DEF Inv, TypeOK
<1> QED
  BY <1>4, <1>5

\* Every step keeps the invariant; the job's steps need what its states mean.
LEMMA StepInv == Inv /\ [Next]_vars => Inv'
<1> SUFFICES ASSUME Inv, [Next]_vars PROVE Inv'
  OBVIOUS
<1> USE DEF managerVars
<1>0. /\ job \in [at : {"None", "Starting", "Waiting", "Asked", "Stopping",
                        "Containing", "Delivering", "Over"},
                  sequence : Sequence, lost : BOOLEAN, interrupted : BOOLEAN]
      /\ authority \in [sequence : Sequence, revoked : BOOLEAN]
  BY DEF Inv, TypeOK
<1>1. CASE UNCHANGED vars
  BY <1>1 DEF vars, Inv, TypeOK, CausalInv, RenewalInv, JobInv, LocalExpiry
<1>2. CASE Tick
  BY <1>2, TickStep
<1>3. CASE CloudNext
  BY <1>3, CloudStep DEF CloudNext
<1>4. ASSUME NEW s \in Sequence, HandleRenewal(s) PROVE Inv'
  BY <1>4, RenewalStep
<1>5. CASE HandleStart \/ HandleRelease \/ DrainFinished
  <2>1. /\ UNCHANGED <<now, granted, bases, requested, applied, rejected, conflict>>
        /\ authority' \in [sequence : {authority.sequence}, revoked : BOOLEAN]
    BY Zenon, <1>0, <1>5 DEF HandleStart, HandleRelease, DrainFinished
  <2>2. TypeOK'
    BY <1>0, <1>5, <2>1 DEF HandleStart, HandleRelease, DrainFinished, Inv, TypeOK
  <2>3. JobInv'
    BY <1>0, <1>5, <2>1 DEF HandleStart, HandleRelease, DrainFinished, Inv, TypeOK, JobInv
  <2> QED
    BY <2>1, <2>2, <2>3, QuietStep
<1>6. CASE \/ CalledOffBeforeStart \/ StartLeaseLost \/ ForceStop
           \/ ContainmentDeadline \/ DeliveryAuthorityLost
           \/ \E quiescent \in BOOLEAN : EngineEnds(quiescent)
  <2>1. /\ UNCHANGED <<now, granted, bases, requested, applied, rejected, conflict,
                       authority, slot>>
        /\ job' \in [at : {"Containing", "Delivering", "Over"}, sequence : {job.sequence},
                     lost : BOOLEAN, interrupted : {job.interrupted}]
        /\ job'.at = "Containing" => job'.lost
        /\ slot = "Running"
    <3>1. CASE CalledOffBeforeStart \/ StartLeaseLost \/ ContainmentDeadline
                 \/ DeliveryAuthorityLost
      BY <1>0, <3>1 DEF CalledOffBeforeStart, StartLeaseLost, ContainmentDeadline,
                        DeliveryAuthorityLost, Inv, TypeOK, JobInv
    <3>2. CASE ForceStop
      <4>1. Contained(job, job.sequence) \in
               [at : {"Containing", "Over"}, sequence : {job.sequence},
                lost : {job.lost}, interrupted : {job.interrupted}]
        BY Zenon, <1>0, JobUpdates
      <4>2. /\ UNCHANGED <<now, granted, bases, requested, applied, rejected,
                           conflict, authority, slot>>
            /\ job' = Contained(job, job.sequence)
            /\ job.at = "Stopping"
        BY <3>2 DEF ForceStop
      <4>3. slot = "Running" /\ job.lost
        BY <4>2 DEF Inv, TypeOK, JobInv
      <4> QED
        BY Zenon, <1>0, <4>1, <4>2, <4>3
    <3>3. ASSUME NEW quiescent \in BOOLEAN, EngineEnds(quiescent)
          PROVE  /\ UNCHANGED <<now, granted, bases, requested, applied, rejected,
                                conflict, authority, slot>>
                 /\ job' \in [at : {"Containing", "Delivering", "Over"},
                              sequence : {job.sequence}, lost : BOOLEAN,
                              interrupted : {job.interrupted}]
                 /\ job'.at # "Containing"
                 /\ slot = "Running"
      <4>1. Completed(quiescent) \in
               [at : {"Delivering", "Over"}, sequence : {job.sequence},
                lost : BOOLEAN, interrupted : {job.interrupted}]
        BY Zenon, <1>0 DEF Completed
      <4> QED
        BY <3>3, <4>1 DEF EngineEnds, Inv, TypeOK, JobInv
    <3> QED
      BY <1>6, <3>1, <3>2, <3>3
  <2>2. TypeOK'
    BY <1>0, <2>1 DEF Inv, TypeOK
  <2>3. JobInv'
    BY <1>0, <2>1 DEF Inv, TypeOK, JobInv
  <2> QED
    BY <1>0, <2>1, <2>2, <2>3, QuietStep
<1>7. CASE BeginExecution \/ AuthorityUpdated \/ Interrupted \/ CancellationDeadline
  <2>1. /\ UNCHANGED <<now, granted, bases, requested, applied, rejected, conflict,
                       authority, slot>>
        /\ slot = "Running"
    BY <1>7 DEF BeginExecution, AuthorityUpdated, Interrupted,
                CancellationDeadline, Inv, TypeOK, JobInv
  <2>2. CASE \E j \in [at : {"Starting", "Waiting", "Asked"}, sequence : Sequence,
                       lost : BOOLEAN, interrupted : BOOLEAN] :
               /\ job' = Supervised(j) /\ j.at = job.at /\ j.sequence = job.sequence
               /\ \/ job.at = "Starting"
                  \/ AuthorityChanged
                  \/ j.interrupted
    <3> PICK j \in [at : {"Starting", "Waiting", "Asked"}, sequence : Sequence,
                    lost : BOOLEAN, interrupted : BOOLEAN] :
               /\ job' = Supervised(j) /\ j.at = job.at /\ j.sequence = job.sequence
               /\ \/ job.at = "Starting"
                  \/ AuthorityChanged
                  \/ j.interrupted
      BY <2>2
    <3>1. /\ job' \in [at : {"Waiting", "Stopping", "Containing", "Over"},
                       sequence : {authority.sequence}, lost : BOOLEAN,
                       interrupted : {j.interrupted}]
          /\ CancellationStarted => job'.at # "Waiting"
          /\ job'.at \in {"Stopping", "Containing"} => job'.lost
      BY Zenon, <1>0, JobUpdates
    <3>2. job'.at = "Waiting" => /\ \A s \in requested : s <= authority.sequence + 1
                                 /\ j.interrupted \/ authority.sequence + 1 \notin requested
      BY <1>0, <3>1 DEF Inv, TypeOK, RenewalInv, CausalInv, JobInv, AuthorityChanged,
                        CancellationStarted, Sequence
    <3>3. TypeOK'
      BY <1>0, <2>1, <3>1 DEF Inv, TypeOK, Sequence
    <3>4. JobInv'
      BY <1>0, <2>1, <3>1, <3>2 DEF Inv, TypeOK, JobInv, Sequence
    <3> QED
      BY <1>0, <2>1, <3>3, <3>4, QuietStep
  <2>3. CASE job' = Lost(job, job.sequence)
    <3>1. job' \in [at : {"Stopping", "Containing", "Over"}, sequence : {job.sequence},
                    lost : {TRUE}, interrupted : {job.interrupted}]
      BY Zenon, <1>0, <2>3, JobUpdates
    <3>2. TypeOK'
      BY Zenon, <1>0, <2>1, <3>1 DEF Inv, TypeOK
    <3>3. JobInv'
      BY Zenon, <2>1, <3>1 DEF Inv, JobInv
    <3> QED
      BY <1>0, <2>1, <3>2, <3>3, QuietStep
  <2>4. job' = Supervised(job) /\ (job.at = "Starting" \/ AuthorityChanged)
           /\ job.at \in {"Starting", "Waiting", "Asked"} => Inv'
    BY <1>0, <2>2
  <2>5. CASE Interrupted
    <3> DEFINE j == [job EXCEPT !.interrupted = TRUE]
    <3>1. /\ j \in [at : {"Starting", "Waiting", "Asked"}, sequence : Sequence,
                    lost : BOOLEAN, interrupted : BOOLEAN]
          /\ job' = Supervised(j) /\ j.at = job.at /\ j.sequence = job.sequence
          /\ j.interrupted
      BY Zenon, <1>0, <2>5 DEF Interrupted
    <3> QED
      BY Zenon, <3>1, <2>2
  <2> QED
    BY <1>7, <2>3, <2>4, <2>5
    DEF BeginExecution, AuthorityUpdated, CancellationDeadline
<1>8. CASE RenewalDue
  <2>1. /\ UNCHANGED <<now, granted, slot, authority, applied, rejected, conflict>>
        /\ job.at = "Waiting" /\ slot = "Running"
        /\ RenewalRequest(job.sequence) <= now
        /\ job.sequence <= authority.sequence
    <3>1. bases[job.sequence] \in Nat
      BY <1>0, HeldLeases DEF Inv, TypeOK, JobInv
    <3> QED
      BY <1>8, <3>1, RenewalAfterBasis DEF RenewalDue, Inv, TypeOK, JobInv
  <2>2. CASE job' = Lost(job, job.sequence) /\ UNCHANGED <<bases, requested>>
    <3>1. job' \in [at : {"Stopping", "Containing", "Over"}, sequence : {job.sequence},
                    lost : {TRUE}, interrupted : {job.interrupted}]
      BY Zenon, <1>0, <2>2, JobUpdates
    <3>2. TypeOK'
      BY Zenon, <1>0, <2>1, <2>2, <3>1 DEF Inv, TypeOK
    <3>3. JobInv'
      BY Zenon, <2>1, <2>2, <3>1 DEF Inv, JobInv
    <3> QED
      BY <1>0, <2>1, <2>2, <3>2, <3>3, QuietStep
  <2>3. CASE /\ job.sequence < MaxSequence /\ AskRenewal(job.sequence)
             /\ job' = [job EXCEPT !.at = "Asked"]
    <3>1. /\ DOMAIN bases' \subseteq Sequence
          /\ bases' = [x \in DOMAIN bases' |-> bases'[x]]
          /\ \A x \in DOMAIN bases' : bases'[x] \in Nat
          /\ requested' \subseteq requested \cup {job.sequence + 1}
          /\ requested' \subseteq Sequence
          /\ CausalInv'
          /\ RenewalInv'
      BY <1>0, <2>1, <2>3, AskStep
    <3>2. TypeOK'
      BY <1>0, <2>1, <2>3, <3>1 DEF Inv, TypeOK
    <3>3. \A x \in requested' : x <= job.sequence + 1
      BY <1>0, <2>1, <3>1 DEF Inv, JobInv, Sequence
    <3>4. JobInv'
      BY <1>0, <2>1, <2>3, <3>3 DEF Inv, JobInv
    <3> QED
      BY <3>1, <3>2, <3>4 DEF Inv
  <2>4. CASE AskRenewalFails(job.sequence) /\ job' = Lost(job, job.sequence)
    <3>1. /\ DOMAIN bases' \subseteq Sequence
          /\ bases' = [x \in DOMAIN bases' |-> bases'[x]]
          /\ \A x \in DOMAIN bases' : bases'[x] \in Nat
          /\ requested' \subseteq Sequence
          /\ CausalInv'
          /\ RenewalInv'
      BY <1>0, <2>1, <2>4, AskStep
    <3>2. job' \in [at : {"Stopping", "Containing", "Over"}, sequence : {job.sequence},
                    lost : {TRUE}, interrupted : {job.interrupted}]
      BY Zenon, <1>0, <2>4, JobUpdates
    <3>3. TypeOK'
      BY Zenon, <1>0, <2>1, <3>1, <3>2 DEF Inv, TypeOK
    <3>4. JobInv'
      BY Zenon, <2>1, <3>2 DEF Inv, JobInv
    <3> QED
      BY <3>1, <3>3, <3>4 DEF Inv
  <2> QED
    BY <1>8, <2>2, <2>3, <2>4 DEF RenewalDue
<1>9. CASE DeliveryAsksRenewal \/ DeliveryEnds
  <2>1. /\ UNCHANGED <<now, granted, slot, authority, applied, rejected, conflict>>
        /\ job.at = "Delivering" /\ slot = "Running"
        /\ job' \in [at : {"Delivering", "Over"}, sequence : {job.sequence},
                     lost : BOOLEAN, interrupted : BOOLEAN]
    BY <1>0, <1>9 DEF DeliveryAsksRenewal, DeliveryEnds, Inv, TypeOK, JobInv
  <2>2. CASE UNCHANGED <<bases, requested>>
    <3>1. TypeOK'
      BY <1>0, <2>1, <2>2 DEF Inv, TypeOK
    <3>2. JobInv'
      BY <1>0, <2>1, <2>2 DEF Inv, TypeOK, JobInv
    <3> QED
      BY <1>0, <2>1, <2>2, <3>1, <3>2, QuietStep
  <2>3. CASE /\ now >= RenewalRequest(authority.sequence)
             /\ \/ authority.sequence < MaxSequence /\ AskRenewal(authority.sequence)
                \/ AskRenewalFails(authority.sequence)
    <3>1. /\ authority.sequence <= authority.sequence
          /\ RenewalRequest(authority.sequence) <= now
      <4>1. authority.sequence \in Sequence /\ authority.sequence <= authority.sequence
        BY <1>0 DEF Sequence
      <4>2. bases[authority.sequence] \in Nat
        BY <4>1, HeldLeases DEF Inv, TypeOK
      <4> QED
        BY <2>3, <4>1, <4>2, RenewalAfterBasis DEF Inv, TypeOK
    <3>2. /\ DOMAIN bases' \subseteq Sequence
          /\ bases' = [x \in DOMAIN bases' |-> bases'[x]]
          /\ \A x \in DOMAIN bases' : bases'[x] \in Nat
          /\ requested' \subseteq Sequence
          /\ CausalInv'
          /\ RenewalInv'
      BY <1>0, <2>1, <2>3, <3>1, AskStep
    <3>3. TypeOK'
      BY <1>0, <2>1, <3>2 DEF Inv, TypeOK
    <3>4. JobInv'
      BY <1>0, <2>1, <3>2 DEF Inv, TypeOK, JobInv
    <3> QED
      BY <3>2, <3>3, <3>4 DEF Inv
  <2> QED
    BY <1>9, <2>2, <2>3 DEF DeliveryAsksRenewal, DeliveryEnds
<1> QED
  BY <1>1, <1>2, <1>3, <1>4, <1>5, <1>6, <1>7, <1>8, <1>9
  DEF Next, ManagerNext, JobNext, JobTimers

\* The invariant holds throughout.
THEOREM LeaseInvariant == Spec => []Inv
BY InitInv, StepInv, PTL DEF Spec

\* For every valid policy and any number of renewals: the lease the runner
\* derives from its basis never outlives the grant the cloud made.
THEOREM RunnerWithinCloudLease == Spec => []LeaseContained
<1>1. Inv => LeaseContained
  <2> SUFFICES ASSUME Inv, slot = "Running"
               PROVE  /\ authority.sequence \in DOMAIN granted
                      /\ LocalExpiry(authority.sequence) <= granted[authority.sequence]
    BY DEF LeaseContained
  <2>1. authority.sequence \in Sequence /\ authority.sequence <= authority.sequence
    BY DEF Inv, TypeOK, Sequence
  <2> QED
    BY <2>1, HeldLeases DEF Inv, CausalInv
<1> QED
  BY <1>1, LeaseInvariant, PTL

\* handle_renewal never answers a cloud that grants each lease once with a
\* conflict.
THEOREM NoRenewalConflict == Spec => []RenewalsNeverConflict
<1>1. Inv => RenewalsNeverConflict
  BY DEF Inv, RenewalInv, RenewalsNeverConflict
<1> QED
  BY <1>1, LeaseInvariant, PTL

\* A result that run_under_lease hands back leaves the whole delivery budget of
\* the terminal report within the cloud's lease.
THEOREM ResultLeavesTimeToReport == Spec => ReportFits
<1>1. ASSUME Inv, [Next]_vars, job.at # "Delivering", job'.at = "Delivering"
      PROVE  now + ReportBudget <= granted[job.sequence]
  <2>0. job \in [at : {"None", "Starting", "Waiting", "Asked", "Stopping",
                       "Containing", "Delivering", "Over"},
                 sequence : Sequence, lost : BOOLEAN, interrupted : BOOLEAN]
    BY <1>1 DEF Inv, TypeOK
  <2>1. \E quiescent \in BOOLEAN : EngineEnds(quiescent)
    <3>1. /\ Lost(job, job.sequence).at # "Delivering"
          /\ Contained(job, job.sequence).at # "Delivering"
          /\ Supervised(job).at # "Delivering"
          /\ Supervised([job EXCEPT !.interrupted = TRUE]).at # "Delivering"
      <4>1. [job EXCEPT !.interrupted = TRUE] \in
               [at : {"None", "Starting", "Waiting", "Asked", "Stopping",
                      "Containing", "Delivering", "Over"},
                sequence : Sequence, lost : BOOLEAN, interrupted : BOOLEAN]
        BY Zenon, <2>0
      <4>2. /\ Supervised([job EXCEPT !.interrupted = TRUE]).at # "Delivering"
            /\ Supervised(job).at # "Delivering"
        BY Zenon, <1>1, <2>0, <4>1, JobUpdates
      <4> QED
        BY Zenon, <1>1, <2>0, <4>2, JobUpdates
    <3>2. ~(JobTimers \/ BeginExecution \/ CalledOffBeforeStart \/ Interrupted)
      BY <1>1, <2>0, <3>1
      DEF JobTimers, StartLeaseLost, RenewalDue, CancellationDeadline, AuthorityUpdated,
          ForceStop, ContainmentDeadline, DeliveryAuthorityLost, BeginExecution,
          CalledOffBeforeStart, Interrupted
    <3>3. ~(DeliveryAsksRenewal \/ DeliveryEnds \/ ManagerNext \/ CloudNext \/ Tick)
      BY <1>1, <2>0
      DEF DeliveryAsksRenewal, DeliveryEnds, ManagerNext, CloudNext, Tick, HandleStart,
          HandleRenewal, HandleRelease, DrainFinished, CloudStarts, CloudRenews
    <3> QED
      BY <1>1, <3>2, <3>3 DEF Next, JobNext, vars
  <2>2. PICK quiescent \in BOOLEAN : EngineEnds(quiescent)
    BY <2>1
  <2>3. /\ job.sequence \in DOMAIN bases
        /\ job.sequence \in DOMAIN granted
        /\ bases[job.sequence] \in Nat
        /\ now \in Nat
        /\ granted[job.sequence] \in Nat
        /\ LocalExpiry(job.sequence) <= granted[job.sequence]
    <3>1. slot = "Running" /\ job.sequence <= authority.sequence
      BY <1>1, <2>2 DEF EngineEnds, Inv, TypeOK, JobInv
    <3> QED
      BY <1>1, <2>0, <3>1, HeldLeases DEF Inv, TypeOK, CausalInv
  <2>4. now <= ForceStopEnd(job.sequence)
    <3>1. \/ now < CancellationStart(job.sequence)
          \/ now < ForceStopStart(job.sequence)
          \/ now <= ForceStopEnd(job.sequence)
      BY <1>1, <2>0, <2>2, <2>3, RenewalAfterBasis DEF EngineEnds, Completed
    <3> QED
      BY <2>3, <3>1, RenewalAfterBasis
  <2> QED
    BY <2>3, <2>4, RenewalAfterBasis, DurationsAssumption DEF LocalExpiry
<1> QED
  BY <1>1, LeaseInvariant, PTL DEF Spec, ReportFits

\* The supervision never gives up a lease that was renewed in time, but for the
\* two exceptions LossJustified names.
THEOREM NoRenewalLost == Spec => LossJustified
<1>1. ASSUME Inv, [Next]_vars, ~job.lost, job'.lost,
             ~CancellationStarted, ~job.interrupted
      PROVE  job.sequence + 1 \notin requested'
  <2> USE DEF managerVars
  <2>0. /\ job \in [at : {"None", "Starting", "Waiting", "Asked", "Stopping",
                          "Containing", "Delivering", "Over"},
                    sequence : Sequence, lost : BOOLEAN, interrupted : BOOLEAN]
        /\ authority \in [sequence : Sequence, revoked : BOOLEAN]
    BY <1>1 DEF Inv, TypeOK
  <2>1. ~Supervised(job).lost /\ ~Supervised([job EXCEPT !.interrupted = TRUE]).lost
    <3>1. [job EXCEPT !.interrupted = TRUE] \in
             [at : {"None", "Starting", "Waiting", "Asked", "Stopping",
                    "Containing", "Delivering", "Over"},
              sequence : Sequence, lost : BOOLEAN, interrupted : BOOLEAN]
      BY Zenon, <2>0
    <3>2. ~[job EXCEPT !.interrupted = TRUE].lost
      BY <1>1, <2>0
    <3>3. ~Supervised([job EXCEPT !.interrupted = TRUE]).lost
      BY Zenon, <1>1, <2>0, <3>1, <3>2, JobUpdates
    <3> QED
      BY Zenon, <1>1, <2>0, <3>3, JobUpdates
  <2>2. ~AuthorityChanged => ~(now >= CancellationStart(job.sequence))
    BY <1>1, <2>0 DEF AuthorityChanged, CancellationStarted
  <2>3. ~(BeginExecution \/ AuthorityUpdated \/ Interrupted \/ CancellationDeadline)
    BY <1>1, <2>1, <2>2
    DEF BeginExecution, AuthorityUpdated, Interrupted, CancellationDeadline
  <2>4. ASSUME NEW quiescent \in BOOLEAN, EngineEnds(quiescent) PROVE FALSE
    <3>1. job.at \in {"Waiting", "Asked"} /\ ~AuthorityChanged
      BY <1>1, <2>4 DEF EngineEnds, Inv, JobInv
    <3> QED
      BY <1>1, <2>0, <2>2, <2>4, <3>1 DEF EngineEnds, Completed
  <2>5. ~(StartLeaseLost \/ ForceStop \/ ContainmentDeadline \/ DeliveryAuthorityLost
            \/ CalledOffBeforeStart \/ DeliveryAsksRenewal \/ DeliveryEnds)
    <3>1. ~ForceStop
      BY <1>1 DEF ForceStop, Inv, JobInv
    <3> QED
      BY <1>1, <2>0, <3>1
      DEF StartLeaseLost, ContainmentDeadline, DeliveryAuthorityLost,
          CalledOffBeforeStart, DeliveryAsksRenewal, DeliveryEnds
  <2>6. ~(ManagerNext \/ CloudNext \/ Tick \/ UNCHANGED vars)
    BY <1>1, <2>0
    DEF ManagerNext, CloudNext, Tick, HandleStart, HandleRenewal, HandleRelease,
        DrainFinished, CloudStarts, CloudRenews, vars
  <2>7. RenewalDue
    BY <1>1, <2>3, <2>4, <2>5, <2>6 DEF Next, JobNext, JobTimers
  <2>8. job.at = "Waiting" /\ requested' = requested
    BY <1>1, <2>0, <2>7 DEF RenewalDue, AskRenewalFails
  <2> QED
    BY <1>1, <2>8 DEF Inv, JobInv
<1> QED
  BY <1>1, LeaseInvariant, PTL DEF Spec, LossJustified
=============================================================================
