--------------------------- MODULE EnrollmentProofs ---------------------------
(***************************************************************************)
(* For any activations, processes and number of secrets: no accepted       *)
(* secret is lost, no third credential is enrolled, the state file stays   *)
(* readable and a reported rotation is real.                               *)
(***************************************************************************)
EXTENDS Enrollment, TLAPS

Unresolved == journal \in Journal

\* The holder of the lock is the one command between its first read and the
\* removal of the journal, and works on the journal in the file.
LockInv ==
    \A p \in Process :
        /\ command[p].step \in {"Send", "Sent", "Persist", "Remove"} =>
            lock = p /\ journal = command[p].journal
        /\ command[p].step # "Idle" => command[p].journal \in Journal
        /\ command[p].step \in {"Persist", "Remove"} =>
            cloud[journal.activation] = journal.secret
        /\ command[p].step = "Remove" => runnerState # None /\
            NewCredential(journal) \in {runnerState.current, runnerState.pending}

\* What was generated stays below the counter.
FreshInv ==
    /\ \A r \in requests : r.secret <= secrets
    /\ \A a \in Activation : Issued(a) => cloud[a] <= secrets
    /\ Unresolved => journal.secret <= secrets

\* A request without effect so far is the journal's.
RequestInv ==
    \A r \in requests :
        cloud[r.activation] = None => Unresolved /\ NewCredential(journal) = r

\* How an unresolved journal fits the state: it is the pending credential's, and
\* when it is the current one's that one was promoted.
JournalInv ==
    Unresolved /\ runnerState # None =>
        /\ runnerState.pending \in {None, NewCredential(journal)}
        /\ journal.replace /\ runnerState.current = NewCredential(journal) =>
            runnerState.lastPromotion = journal.activation

\* Runner Serve has a state to read, and who is to be answered still waits.
ServiceInv ==
    service # None =>
        /\ runnerState # None
        /\ \A p \in Process :
            /\ p \in {service.queued, service.request} => command[p].step = "Waiting"
            /\ p = service.queued => p # service.request

\* A command that reported, and one that asks for a reload, has a state to read.
ReportInv ==
    \A p \in Process :
        command[p].promoted # None \/ command[p].step \in {"Reload", "Waiting"} =>
            runnerState # None

Inv == /\ TypeOK /\ LockInv /\ FreshInv /\ RequestInv /\ JournalInv
       /\ ServiceInv /\ ReportInv
       /\ IssuedSecretsKept /\ StateReadable /\ PromotedIsCurrent

-----------------------------------------------------------------------------
\* The initial state satisfies the invariant.
LEMMA InitInv == Init => Inv
<1> SUFFICES ASSUME Init PROVE Inv
    OBVIOUS
<1>1. Idle \in [step : Step, journal : Journal \cup {None},
                promoted : Activation \cup {None}]
    BY DEF Idle, Step
<1>2. TypeOK
    BY <1>1, EnrollmentAssumption DEF Init, TypeOK
<1>3. \A a \in Activation : ~Issued(a)
    BY Zenon, EnrollmentAssumption DEF Init, Issued
<1>4. LockInv /\ ReportInv /\ PromotedIsCurrent
    BY DEF Init, LockInv, ReportInv, PromotedIsCurrent, Idle
<1>5. FreshInv /\ RequestInv /\ JournalInv /\ ServiceInv
    BY <1>3, EnrollmentAssumption
    DEF Init, FreshInv, RequestInv, JournalInv, ServiceInv, Unresolved
<1>6. IssuedSecretsKept /\ StateReadable
    BY <1>3 DEF Init, IssuedSecretsKept, StateReadable
<1> QED
    BY <1>2, <1>4, <1>5, <1>6 DEF Inv

\* Every step keeps the types.
LEMMA TypeStep == Inv /\ Next => TypeOK'
<1> SUFFICES ASSUME Inv, Next PROVE TypeOK'
    OBVIOUS
<1> USE DEF Inv
<1> DEFINE Commands == [step : Step, journal : Journal \cup {None},
                        promoted : Activation \cup {None}]
<1>i. Idle \in Commands
    BY DEF Idle, Step
<1>j. \A p \in Process : command[p].step # "Idle" => command[p].journal \in Journal
    BY DEF LockInv
<1>1. ASSUME NEW p \in Process, NEW a \in Activation, NEW replace \in BOOLEAN,
             Enroll(p, a, replace)
      PROVE  TypeOK'
  <2>1. CASE replace /\ LocalCredential(a) # None
    <3>1. LocalCredential(a) \in Credential
        BY <1>1, <2>1 DEF TypeOK, Enroll, LocalCredential, RunnerState
    <3>2. At("Reload", [activation |-> a, replace |-> TRUE,
                        secret |-> LocalCredential(a).secret]) \in Commands
        BY <3>1 DEF At, Step, Journal, Credential
    <3> QED
        BY <1>1, <2>1, <3>2 DEF TypeOK, Enroll, ReuseLocal, files
  <2>2. CASE ~(replace /\ LocalCredential(a) # None)
    <3>1. Stage(p, a, replace)
        BY <1>1, <2>2 DEF Enroll
    <3>2. Staged(a, replace) \in Journal /\ secrets' \in 0..MaxSecret
        BY <3>1, EnrollmentAssumption DEF TypeOK, Stage, Staged, Journal, Secret
    <3> QED
        BY <3>1, <3>2, <1>i DEF TypeOK, Stage, Visible, Return, At, Step, Write
  <2> QED
    BY <2>1, <2>2
<1>2. ASSUME NEW p \in Process, Resume(p) PROVE TypeOK'
    BY <1>2 DEF TypeOK, Resume, ResolvedJournal, At, Step, files
<1>3. ASSUME NEW p \in Process, Send(p) PROVE TypeOK'
    BY <1>3, <1>j
    DEF TypeOK, Send, Goto, Step, NewCredential, Journal, Credential, files
<1>4. ASSUME NEW p \in Process, GiveUp(p) PROVE TypeOK'
    BY <1>4, <1>i DEF TypeOK, GiveUp, Return, files
<1>5. ASSUME NEW p \in Process, Created(p) PROVE TypeOK'
    BY <1>5 DEF TypeOK, Created, Goto, Step, files
<1>6. ASSUME NEW p \in Process, WriteReceipt(p) PROVE TypeOK'
    BY <1>6, <1>i DEF TypeOK, WriteReceipt, Return, Visible
<1>7. ASSUME NEW p \in Process, PersistState(p) PROVE TypeOK'
  <2> DEFINE j == command[p].journal
  <2>1. CASE AlreadyPersisted(j)
    BY <1>7, <2>1 DEF TypeOK, PersistState, Goto, Step
  <2>2. CASE ~AlreadyPersisted(j)
    <3>1. PICK write \in Write :
            /\ runnerState' = Visible(write, EnrolledState(j), runnerState)
            /\ write # "Failed" /\ j.replace => runnerState # None
            /\ IF write = "Done" THEN Goto(p, "Remove") /\ UNCHANGED lock
               ELSE Return(p)
        BY <1>7, <2>2 DEF PersistState, Write
    <3>2. runnerState' \in RunnerState \cup {None}
        BY <1>7, <1>j, <3>1 DEF TypeOK, PersistState, Visible, EnrolledState, NewCredential, RunnerState,
            Journal, Credential
    <3> QED
        BY <1>7, <1>i, <3>1, <3>2 DEF TypeOK, PersistState, Goto, Return, Step
  <2> QED
    BY <2>1, <2>2
<1>8. ASSUME NEW p \in Process, RemoveJournal(p) PROVE TypeOK'
    BY <1>8, <1>i DEF TypeOK, RemoveJournal, Goto, Return, Visible, Step
<1>s. \A p : service # None => Orphaned(p) \in Service
    BY Zenon DEF TypeOK, Orphaned, Service, Requester
<1>r. \A p \in Process, promoted \in BOOLEAN :
        command[p].step # "Idle" /\ Report(p, promoted) =>
            command' \in [Process -> Commands]
    BY <1>i, <1>j DEF TypeOK, Report, Idle, Journal
<1>9. ASSUME NEW p \in Process, RequestReload(p) PROVE TypeOK'
  <2>1. command' \in [Process -> Commands]
    <3>1. CASE service.queued = None
        BY <1>9, <3>1 DEF TypeOK, RequestReload, Goto, Step
    <3>2. CASE service.queued # None
        BY Zenon, <1>9, <3>2, <1>r DEF RequestReload
    <3> QED
        BY <3>1, <3>2
  <2>2. service' \in Service
    BY Zenon, <1>9 DEF TypeOK, RequestReload, Service, Requester
  <2> QED
    BY <1>9, <2>1, <2>2 DEF TypeOK, RequestReload, files
<1>10. ASSUME NEW p \in Process, ReadDisposition(p) PROVE TypeOK'
    BY Zenon, <1>10, <1>r, <1>s DEF TypeOK, ReadDisposition, Orphaned, files
<1>11. ASSUME NEW p \in Process, ReloadTimeout(p) PROVE TypeOK'
    BY Zenon, <1>11, <1>r, <1>s DEF TypeOK, ReloadTimeout, files
<1>12. ASSUME NEW p \in Process, Kill(p) PROVE TypeOK'
    BY Zenon, <1>12, <1>i, <1>s DEF TypeOK, Kill, Orphaned, files
<1>13. ASSUME StartService PROVE TypeOK'
    BY <1>13 DEF TypeOK, StartService, Serving, Service, RunnerState, Credential, files
<1>14. ASSUME StopService PROVE TypeOK'
    BY <1>14 DEF TypeOK, StopService, files
<1>t. ASSUME NEW p, NEW reloaded, Respond(p, reloaded), p \in Process =>
                service # None /\ p \in {service.queued, service.request}
      PROVE  command' \in [Process -> Commands]
    BY Zenon, <1>t, <1>r DEF TypeOK, Respond, ServiceInv
<1>15. ASSUME LoadPending PROVE TypeOK'
  <2>1. runnerState \in RunnerState
    BY <1>15 DEF TypeOK, LoadPending, ServiceInv
  <2>2. command' \in [Process -> Commands]
    BY <1>15, <1>t, EnrollmentAssumption DEF TypeOK, LoadPending
  <2>3. service' \in Service
    <3> DEFINE manual == service.queued # None
               requester == IF manual THEN service.queued ELSE "Nobody"
               taken == [service EXCEPT !.startup = manual /\ @, !.queued = None]
    <3>1. service \in Service /\ requester \in Requester
        BY <1>15 DEF TypeOK, LoadPending, Service, Requester
    <3>2. taken \in Service
        BY Zenon, <3>1 DEF Service
    <3> HIDE DEF taken, requester
    <3>3. ASSUME NEW a \in Activation
          PROVE  [taken EXCEPT !.request = requester, !.candidate = a] \in Service
        BY Zenon, <3>1, <3>2 DEF Service
    <3>4. \/ service' = taken
          \/ /\ runnerState.pending # None
             /\ service' = [taken EXCEPT !.request = requester,
                                         !.candidate = runnerState.pending.activation]
        BY <1>15 DEF LoadPending, taken, requester
    <3> QED
        BY Zenon, <2>1, <3>2, <3>3, <3>4 DEF RunnerState, Credential
  <2> QED
    BY <1>15, <2>2, <2>3 DEF TypeOK, LoadPending, files
<1>16. ASSUME RejectCandidate PROVE TypeOK'
    BY Zenon, <1>16, <1>t DEF TypeOK, RejectCandidate, Finished, Service, files
<1>17. ASSUME Promote PROVE TypeOK'
  <2>1. runnerState \in RunnerState /\ runnerState.pending \in Credential
    BY <1>17 DEF TypeOK, Promote, Promotable, ServiceInv, RunnerState
  <2>2. command' \in [Process -> Commands]
    BY <1>17, <1>t DEF TypeOK, Promote
  <2>3. service' \in Service
    <3>1. service \in Service /\ service.candidate \in Activation
        BY <1>17, <2>1 DEF TypeOK, Promote, Promotable, Credential
    <3>2. Finished \in Service
        BY Zenon, <3>1 DEF Finished, Service
    <3>3. ASSUME NEW startup \in {FALSE, service.startup}
          PROVE  [Finished EXCEPT !.credential = service.candidate,
                                  !.startup = startup] \in Service
        BY Zenon, <3>1, <3>2 DEF Service
    <3> QED
        BY Zenon, <1>17, <3>2, <3>3 DEF Promote
  <2>4. runnerState' \in RunnerState
    BY <1>17, <2>1 DEF Promote, PromotedState, RunnerState, Credential
  <2> QED
    BY <1>17, <2>1, <2>2, <2>3, <2>4 DEF TypeOK, Promote, RunnerState, Credential
<1>18. ASSUME NEW r \in requests, Activate(r) PROVE TypeOK'
    BY <1>18 DEF TypeOK, Activate, Credential, files
<1>19. ASSUME NEW a \in Activation, Expire(a) PROVE TypeOK'
    BY <1>19 DEF TypeOK, Expire, files
<1> QED
    BY <1>1, <1>2, <1>3, <1>4, <1>5, <1>6, <1>7, <1>8, <1>9, <1>10, <1>11, <1>12,
       <1>13, <1>14, <1>15, <1>16, <1>17, <1>18, <1>19
    DEF Next, Command

\* Every step keeps the lock's invariant: the files change only by the holder of
\* the lock or while nobody holds it.
LEMMA LockStep == Inv /\ Next => LockInv'
<1> SUFFICES ASSUME Inv, Next PROVE LockInv'
    OBVIOUS
<1> USE DEF Inv
<1> DEFINE Locked == {"Send", "Sent", "Persist", "Remove"}
<1>t. TypeOK'
    BY TypeStep
<1>n. lock = None => \A q \in Process : command[q].step \notin Locked
    BY EnrollmentAssumption DEF LockInv
<1>o. ASSUME NEW p \in Process, command[p].step \in Locked
      PROVE  /\ lock = p /\ journal = command[p].journal /\ journal \in Journal
             /\ \A q \in Process \ {p} : command[q].step \notin Locked
    BY <1>o DEF LockInv
<1>1. ASSUME NEW p \in Process, NEW a \in Activation, NEW replace \in BOOLEAN,
             Enroll(p, a, replace)
      PROVE  LockInv'
  <2>1. CASE replace /\ LocalCredential(a) # None
    <3>0. LocalCredential(a) \in Credential
        BY <1>1, <2>1 DEF TypeOK, Enroll, LocalCredential, RunnerState
    <3> DEFINE j == [activation |-> a, replace |-> TRUE,
                     secret |-> LocalCredential(a).secret]
    <3>a. j \in Journal
        BY <3>0 DEF Journal, Credential
    <3>b. command' = [command EXCEPT ![p] = At("Reload", j)]
        BY <1>1, <2>1 DEF Enroll, ReuseLocal
    <3> HIDE DEF j
    <3>1. command'[p].journal \in Journal
        BY <3>a, <3>b DEF TypeOK, At
    <3> QED
        BY <1>1, <2>1, <1>n, <3>1 DEF TypeOK, Enroll, ReuseLocal, At, LockInv, files
  <2>2. CASE ~(replace /\ LocalCredential(a) # None)
    <3>1. Stage(p, a, replace)
        BY <1>1, <2>2 DEF Enroll
    <3>2. Staged(a, replace) \in Journal
        BY <3>1, EnrollmentAssumption DEF TypeOK, Stage, Staged, Journal, Secret
    <3> QED
        BY <1>1, <3>1, <3>2, <1>n
        DEF TypeOK, Enroll, Stage, Visible, Return, At, Idle, LockInv
  <2> QED
    BY <2>1, <2>2
<1>2. ASSUME NEW p \in Process, Resume(p) PROVE LockInv'
    BY <1>2, <1>n DEF TypeOK, Resume, ResolvedJournal, At, LockInv, files
<1>3. ASSUME NEW p \in Process, Send(p) PROVE LockInv'
    BY <1>3, <1>o DEF TypeOK, Send, Goto, LockInv, files
<1>4. ASSUME NEW p \in Process, GiveUp(p) PROVE LockInv'
    BY <1>4, <1>o DEF TypeOK, GiveUp, Return, Idle, LockInv, files
<1>5. ASSUME NEW p \in Process, Created(p) PROVE LockInv'
    BY <1>5, <1>o DEF TypeOK, Created, Goto, LockInv, files
<1>6. ASSUME NEW p \in Process, WriteReceipt(p) PROVE LockInv'
    BY <1>6, <1>o DEF TypeOK, WriteReceipt, Return, Idle, LockInv
<1>7. ASSUME NEW p \in Process, PersistState(p) PROVE LockInv'
  <2> DEFINE j == command[p].journal
  <2>1. lock = p /\ journal = j /\ j \in Journal
        /\ \A q \in Process \ {p} : command[q].step \notin Locked
    BY <1>7, <1>o DEF PersistState
  <2>2. cloud[j.activation] = j.secret
    BY <1>7, <2>1 DEF PersistState, LockInv
  <2>5. NewCredential(j) \in Credential
    BY <2>1 DEF NewCredential, Journal, Credential
  <2>3. CASE Goto(p, "Remove") /\ UNCHANGED lock
    <3>1. /\ runnerState' # None
          /\ NewCredential(j) \in {runnerState'.current, runnerState'.pending}
      <4>1. CASE AlreadyPersisted(j)
        BY <1>7, <4>1, <2>3, <2>5, EnrollmentAssumption
        DEF PersistState, AlreadyPersisted, LocalCredential
      <4>2. CASE ~AlreadyPersisted(j)
        <5>1. PICK write \in Write :
                /\ runnerState' = Visible(write, EnrolledState(j), runnerState)
                /\ IF j.replace THEN write = "Failed" \/ runnerState # None
                   ELSE TRUE
                /\ IF write = "Done" THEN TRUE ELSE Return(p)
            BY <1>7, <4>2 DEF PersistState, Write
        <5>2. write = "Done"
            BY <5>1, <2>1, <2>3, EnrollmentAssumption DEF Return
        <5>3. runnerState' = EnrolledState(j) /\ (j.replace => runnerState # None)
            BY <5>1, <5>2 DEF Visible
        <5>4. EnrolledState(j) \in RunnerState
            BY <5>3, <2>5 DEF TypeOK, EnrolledState, RunnerState
        <5>5. NewCredential(j) \in {EnrolledState(j).current, EnrolledState(j).pending}
            BY <5>3 DEF TypeOK, EnrolledState, RunnerState
        <5> QED
            BY <5>3, <5>4, <5>5, EnrollmentAssumption
      <4> QED
        BY <4>1, <4>2
    <3> QED
        BY <1>7, <2>1, <2>2, <2>3, <3>1 DEF TypeOK, PersistState, Goto, LockInv
  <2>4. CASE Return(p)
    BY <1>7, <2>1, <2>4 DEF TypeOK, PersistState, Return, Idle, LockInv
  <2> QED
    BY <1>7, <2>3, <2>4 DEF PersistState
<1>8. ASSUME NEW p \in Process, RemoveJournal(p) PROVE LockInv'
    BY <1>8, <1>o DEF TypeOK, RemoveJournal, Goto, Return, Idle, LockInv
<1>9. ASSUME NEW p \in Process, RequestReload(p) PROVE LockInv'
  <2>1. CASE service.queued = None
    BY <1>9, <2>1 DEF TypeOK, RequestReload, Goto, LockInv, files
  <2>2. CASE service.queued # None
    BY <1>9, <2>2 DEF TypeOK, RequestReload, Report, Idle, LockInv, files
  <2> QED
    BY <2>1, <2>2
<1>10. ASSUME NEW p \in Process, ReadDisposition(p) PROVE LockInv'
    BY <1>10 DEF TypeOK, ReadDisposition, Report, Idle, LockInv, files
<1>11. ASSUME NEW p \in Process, ReloadTimeout(p) PROVE LockInv'
    BY <1>11 DEF TypeOK, ReloadTimeout, Report, Idle, LockInv, files
<1>12. ASSUME NEW p \in Process, Kill(p) PROVE LockInv'
    BY <1>12 DEF TypeOK, Kill, Idle, LockInv, files
<1>13. ASSUME StartService \/ StopService PROVE LockInv'
    BY <1>13 DEF StartService, StopService, LockInv, files
<1>14. ASSUME LoadPending \/ RejectCandidate PROVE LockInv'
    BY <1>14 DEF TypeOK, LoadPending, RejectCandidate, Respond, Report, Idle,
        LockInv, files
<1>15. ASSUME Promote PROVE LockInv'
    BY <1>15, <1>n DEF TypeOK, Promote, Respond, Report, Idle, LockInv
<1>16. ASSUME NEW r \in requests, Activate(r) PROVE LockInv'
    BY <1>16, <1>o, EnrollmentAssumption DEF TypeOK, Activate, LockInv, Journal, files
<1>17. ASSUME NEW a \in Activation, Expire(a) PROVE LockInv'
    BY <1>17, <1>o, EnrollmentAssumption DEF TypeOK, Expire, LockInv, Journal, files
<1> QED
    BY <1>1, <1>2, <1>3, <1>4, <1>5, <1>6, <1>7, <1>8, <1>9, <1>10, <1>11, <1>12,
       <1>13, <1>14, <1>15, <1>16, <1>17
    DEF Next, Command

\* What the files and the cloud hold fits together after every step.
SecretInv == FreshInv /\ RequestInv /\ JournalInv /\ IssuedSecretsKept /\ StateReadable

\* Every step of a command, of the service and of the cloud keeps that.
LEMMA SecretStep == Inv /\ Next => SecretInv'
<1> SUFFICES ASSUME Inv, Next PROVE SecretInv'
    OBVIOUS
<1> USE DEF Inv
<1>t. TypeOK'
    BY TypeStep
<1>u. ResolvedJournal <=> ~Unresolved
    BY EnrollmentAssumption DEF TypeOK, ResolvedJournal, Unresolved
<1>v. ResolvedJournal' <=> ~Unresolved'
    BY <1>t, EnrollmentAssumption DEF TypeOK, ResolvedJournal, Unresolved
<1>c. ASSUME runnerState # None PROVE runnerState \in RunnerState
    BY <1>c DEF TypeOK
<1>0. ASSUME UNCHANGED <<journal, runnerState, requests, cloud, secrets, superseded>>
      PROVE  SecretInv'
    BY <1>0 DEF SecretInv, FreshInv, RequestInv, JournalInv, IssuedSecretsKept,
        StateReadable, Issued, Held, ResolvedJournal, Unresolved
<1>1. ASSUME NEW p \in Process, NEW a \in Activation, NEW replace \in BOOLEAN,
             Enroll(p, a, replace), Stage(p, a, replace),
             ~(replace /\ LocalCredential(a) # None)
      PROVE  SecretInv'
  <2> DEFINE j == Staged(a, replace)
  <2>1. /\ j \in Journal /\ j.secret = secrets + 1 /\ j.activation = a
        /\ j.replace = replace
    BY <1>1, EnrollmentAssumption DEF TypeOK, Stage, Staged, Journal, Secret
  <2>2. /\ ~Unresolved /\ secrets' = secrets + 1 /\ journal' \in {j, journal}
        /\ UNCHANGED <<runnerState, requests, cloud, superseded>>
    BY <1>1, <1>u DEF Enroll, Stage, Visible
  <2> HIDE DEF j
  <2>3. FreshInv'
    BY <2>1, <2>2 DEF FreshInv, TypeOK, Issued, Unresolved, Credential, Secret
  <2>4. RequestInv'
    BY <2>2 DEF RequestInv
  <2>5. JournalInv'
    <3>1. SUFFICES ASSUME runnerState # None, journal' = j
                   PROVE  /\ runnerState.pending = None
                          /\ runnerState.current # NewCredential(j)
        BY <2>2 DEF JournalInv, Unresolved
    <3>2. runnerState.pending = None
        BY <1>1, <3>1, EnrollmentAssumption DEF Enroll, LocalCredential
    <3>3. runnerState.current.secret <= secrets
        BY <3>1, <1>c, EnrollmentAssumption
        DEF StateReadable, FreshInv, Issued, RunnerState, Credential
    <3>4. NewCredential(j).secret = secrets + 1
        BY <2>1 DEF NewCredential
    <3> QED
        BY <3>2, <3>3, <3>4 DEF TypeOK
  <2>6. IssuedSecretsKept' /\ StateReadable'
    BY <2>2, <1>u DEF IssuedSecretsKept, StateReadable, Issued, Held
  <2> QED
    BY <2>3, <2>4, <2>5, <2>6 DEF SecretInv
<1>2. ASSUME NEW p \in Process, Send(p) PROVE SecretInv'
  <2>1. journal \in Journal /\ requests' = requests \cup {NewCredential(journal)}
        /\ UNCHANGED <<journal, runnerState, cloud, secrets, superseded>>
    BY <1>2 DEF Send, LockInv, files
  <2>2. FreshInv' /\ RequestInv'
    BY <2>1 DEF FreshInv, RequestInv, Unresolved, NewCredential, Issued
  <2>3. JournalInv' /\ IssuedSecretsKept' /\ StateReadable'
    BY <2>1 DEF JournalInv, IssuedSecretsKept, StateReadable, Issued, Held,
        ResolvedJournal, Unresolved
  <2> QED
    BY <2>2, <2>3 DEF SecretInv
<1>3. ASSUME NEW p \in Process, WriteReceipt(p) PROVE SecretInv'
  <2>1. /\ journal \in Journal /\ cloud[journal.activation] \notin {None, journal.secret}
        /\ journal' \in {journal, Receipt}
        /\ UNCHANGED <<runnerState, requests, cloud, secrets, superseded>>
    BY <1>3 DEF WriteReceipt, LockInv, Visible
  <2>2. CASE journal' = journal
    BY <2>1, <2>2, <1>0
  <2>3. CASE journal' = Receipt
    <3>1. ~Unresolved'
        BY <2>3, EnrollmentAssumption DEF Unresolved
    <3>2. FreshInv' /\ JournalInv' /\ StateReadable'
        BY <2>1, <3>1 DEF FreshInv, JournalInv, StateReadable, Issued
    <3>3. RequestInv'
        BY <2>1 DEF RequestInv, NewCredential
    <3>4. IssuedSecretsKept'
        BY <2>1, <1>u, <1>v DEF IssuedSecretsKept, Issued, Held, NewCredential
    <3> QED
        BY <3>2, <3>3, <3>4 DEF SecretInv
  <2> QED
    BY <2>1, <2>2, <2>3
<1>4. ASSUME NEW p \in Process, PersistState(p) PROVE SecretInv'
  <2> DEFINE j == command[p].journal
  <2>1. /\ journal = j /\ j \in Journal /\ Unresolved /\ cloud[j.activation] = j.secret
        /\ UNCHANGED <<journal, requests, cloud, secrets, superseded>>
    BY <1>4 DEF PersistState, LockInv, Unresolved
  <2>2. NewCredential(j) \in Credential /\ NewCredential(j) # None
    BY <2>1, EnrollmentAssumption DEF NewCredential, Journal, Credential
  <2>3. CASE runnerState' = runnerState
    BY <2>1, <2>3, <1>0
  <2>4. CASE runnerState' # runnerState
    <3>1. /\ ~AlreadyPersisted(j) /\ runnerState' = EnrolledState(j)
          /\ IF j.replace THEN runnerState # None /\ runnerState.pending = None
             ELSE runnerState = None
        BY <1>4, <2>4 DEF PersistState, Visible
    <3>2. FreshInv' /\ RequestInv'
        BY <2>1 DEF FreshInv, RequestInv, Issued, Unresolved
    <3>3. CASE j.replace
      <4>1. /\ runnerState \in RunnerState
            /\ runnerState' = [runnerState EXCEPT !.pending = NewCredential(j)]
        BY <1>c, <3>1, <3>3 DEF EnrolledState
      <4>2. /\ runnerState'.pending = NewCredential(j)
            /\ runnerState'.current = runnerState.current
            /\ runnerState'.lastPromotion = runnerState.lastPromotion
        BY <4>1 DEF RunnerState
      <4>3. runnerState.current # NewCredential(j)
        BY <2>1, <3>1, <3>3 DEF JournalInv, AlreadyPersisted, LocalCredential
      <4>4. runnerState.current.activation # j.activation
        <5>1. runnerState.current \in Credential
            BY <4>1 DEF RunnerState
        <5>2. cloud[runnerState.current.activation] = runnerState.current.secret
            BY <3>1, <3>3, <5>1, EnrollmentAssumption DEF StateReadable
        <5> QED
            BY <4>3, <5>1, <5>2, <2>1 DEF NewCredential, Credential
      <4>5. JournalInv'
        BY <2>1, <4>2, <4>3 DEF JournalInv, Unresolved
      <4>6. StateReadable'
        BY <2>1, <2>2, <3>1, <3>3, <4>2, <4>4 DEF StateReadable, NewCredential
      <4>7. IssuedSecretsKept'
        <5>1. runnerState' # None
            BY <2>2, <4>1, EnrollmentAssumption DEF RunnerState
        <5>2. ASSUME NEW a \in Activation, Issued(a), Held(a) PROVE Held(a)'
          <6>1. [activation |-> a, secret |-> cloud[a]] # runnerState.pending
            BY <5>2, <3>1, <3>3, EnrollmentAssumption DEF Issued, Credential
          <6> QED
            BY <5>1, <5>2, <6>1, <2>1, <4>2 DEF Held, ResolvedJournal
        <5> QED
            BY <2>1, <5>2 DEF IssuedSecretsKept, Issued
      <4> QED
        BY <3>2, <4>5, <4>6, <4>7 DEF SecretInv
    <3>4. CASE ~j.replace
      <4>1. /\ runnerState'.current = NewCredential(j)
            /\ runnerState'.pending = None /\ runnerState'.lastPromotion = None
        BY <3>1, <3>4 DEF EnrolledState
      <4>2. JournalInv' /\ StateReadable'
        BY <2>1, <4>1, <3>4 DEF JournalInv, StateReadable, NewCredential, Unresolved
      <4>3. IssuedSecretsKept'
        <5>1. ASSUME NEW a \in Activation, Held(a) PROVE Held(a)'
            BY <5>1, <2>1, <3>1, <3>4 DEF Held, ResolvedJournal
        <5> QED
            BY <2>1, <5>1 DEF IssuedSecretsKept, Issued
      <4> QED
        BY <3>2, <4>2, <4>3 DEF SecretInv
    <3> QED
        BY <3>3, <3>4
  <2> QED
    BY <2>3, <2>4
<1>5. ASSUME NEW p \in Process, RemoveJournal(p) PROVE SecretInv'
  <2>1. /\ journal \in Journal /\ cloud[journal.activation] = journal.secret
        /\ runnerState # None
        /\ NewCredential(journal) \in {runnerState.current, runnerState.pending}
        /\ journal' \in {journal, None}
        /\ UNCHANGED <<runnerState, requests, cloud, secrets, superseded>>
    BY <1>5 DEF RemoveJournal, LockInv, Visible
  <2>2. CASE journal' = journal
    BY <2>1, <2>2, <1>0
  <2>3. CASE journal' = None
    <3>1. ~Unresolved'
        BY <2>3, EnrollmentAssumption DEF Unresolved
    <3>2. FreshInv' /\ JournalInv' /\ StateReadable'
        BY <2>1, <3>1 DEF FreshInv, JournalInv, StateReadable, Issued
    <3>3. RequestInv'
        BY <2>1, EnrollmentAssumption DEF RequestInv, NewCredential, Journal
    <3>4. IssuedSecretsKept'
        BY <2>1, <1>u, <1>v DEF IssuedSecretsKept, Issued, Held
    <3> QED
        BY <3>2, <3>3, <3>4 DEF SecretInv
  <2> QED
    BY <2>1, <2>2, <2>3
<1>6. ASSUME Promote PROVE SecretInv'
  <2>1. /\ runnerState \in RunnerState /\ runnerState # None
        /\ runnerState.pending \in Credential /\ runnerState.pending # None
        /\ superseded' = superseded \cup {runnerState.current.activation}
        /\ UNCHANGED <<journal, requests, cloud, secrets>>
    BY <1>6, <1>c DEF Promote, Promotable, ServiceInv, RunnerState
  <2>2. /\ runnerState'.current = runnerState.pending
        /\ runnerState'.pending = None
        /\ runnerState'.lastPromotion = runnerState.pending.activation
    BY <1>6 DEF Promote, PromotedState
  <2>3. FreshInv' /\ RequestInv'
    BY <2>1 DEF FreshInv, RequestInv, Issued, Unresolved
  <2>4. JournalInv' /\ StateReadable'
    BY <2>1, <2>2 DEF JournalInv, StateReadable, NewCredential, Unresolved
  <2>5. runnerState' # None
    BY <1>t, <2>2, <1>6, <2>1, EnrollmentAssumption
    DEF Promote, PromotedState, RunnerState, Credential
  <2>6. IssuedSecretsKept'
    <3>1. ASSUME NEW a \in Activation, Held(a), a # runnerState.current.activation
          PROVE  Held(a)'
      <4>1. [activation |-> a, secret |-> cloud[a]] # runnerState.current
        BY <3>1
      <4> QED
        BY <3>1, <4>1, <2>1, <2>2, <2>5 DEF Held, ResolvedJournal
    <3> QED
        BY <2>1, <3>1 DEF IssuedSecretsKept, Issued
  <2> QED
    BY <2>3, <2>4, <2>6 DEF SecretInv
<1>7. ASSUME NEW r \in requests, Activate(r) PROVE SecretInv'
  <2>1. /\ r \in Credential /\ cloud[r.activation] = None
        /\ cloud' = [cloud EXCEPT ![r.activation] = r.secret]
        /\ Unresolved /\ NewCredential(journal) = r
        /\ UNCHANGED <<journal, runnerState, requests, secrets, superseded>>
    BY <1>7 DEF TypeOK, Activate, RequestInv, files
  <2>2. \A a \in Activation : cloud'[a] = IF a = r.activation THEN r.secret ELSE cloud[a]
    BY <2>1 DEF TypeOK
  <2>3. FreshInv'
    BY <2>1, <2>2 DEF FreshInv, Issued, Unresolved
  <2>4. RequestInv' /\ JournalInv'
    BY <2>1, <2>2, EnrollmentAssumption
    DEF RequestInv, JournalInv, Unresolved, TypeOK, Credential
  <2>5. StateReadable'
    BY <2>1, <2>2, <1>c, EnrollmentAssumption DEF StateReadable, RunnerState, Credential
  <2>6. IssuedSecretsKept'
    <3>1. ASSUME NEW a \in Activation, a # r.activation, Held(a) PROVE Held(a)'
        BY <3>1, <2>1, <2>2 DEF Held, ResolvedJournal
    <3>2. Held(r.activation)'
      <4>1. r = [activation |-> r.activation, secret |-> cloud'[r.activation]]
        BY <2>1, <2>2 DEF Credential
      <4> QED
        BY <4>1, <2>1, <1>u DEF Held, ResolvedJournal, NewCredential
    <3> QED
        BY <2>1, <2>2, <3>1, <3>2 DEF IssuedSecretsKept, Issued
  <2> QED
    BY <2>3, <2>4, <2>5, <2>6 DEF SecretInv
<1>8. ASSUME NEW a \in Activation, Expire(a) PROVE SecretInv'
  <2>1. /\ cloud[a] = None
        /\ UNCHANGED <<journal, runnerState, requests, secrets, superseded>>
    BY <1>8 DEF Expire, files
  <2>2. \A b \in Activation : cloud'[b] = IF b = a THEN Gone ELSE cloud[b]
    BY <1>8 DEF Expire, TypeOK
  <2>3. \A b \in Activation : Issued(b)' => Issued(b) /\ cloud'[b] = cloud[b]
    BY <2>2, EnrollmentAssumption DEF Issued
  <2>4. FreshInv' /\ JournalInv'
    BY <2>1, <2>3 DEF FreshInv, JournalInv, Unresolved
  <2>5. RequestInv'
    BY <2>1, <2>2 DEF RequestInv, Unresolved, TypeOK, Credential
  <2>6. StateReadable'
    BY <2>1, <2>2, <1>c, EnrollmentAssumption DEF StateReadable, RunnerState, Credential
  <2>7. IssuedSecretsKept'
    BY <2>1, <2>3 DEF IssuedSecretsKept, Held, ResolvedJournal
  <2> QED
    BY <2>4, <2>5, <2>6, <2>7 DEF SecretInv
<1>9. ASSUME NEW p \in Process,
             \/ Resume(p) \/ GiveUp(p) \/ Created(p) \/ RequestReload(p)
             \/ ReadDisposition(p) \/ ReloadTimeout(p) \/ Kill(p)
      PROVE  SecretInv'
    BY Zenon, <1>9, <1>0 DEF Resume, GiveUp, Created, RequestReload, ReadDisposition,
        ReloadTimeout, Kill, files
<1>10. ASSUME StartService \/ StopService \/ LoadPending \/ RejectCandidate
       PROVE  SecretInv'
    BY <1>10, <1>0 DEF StartService, StopService, LoadPending, RejectCandidate, files
<1>11. ASSUME NEW p \in Process, NEW a \in Activation, NEW replace \in BOOLEAN,
              Enroll(p, a, replace)
       PROVE  SecretInv'
    BY <1>11, <1>0, <1>1 DEF Enroll, ReuseLocal, files
<1> QED
    BY <1>2, <1>3, <1>4, <1>5, <1>6, <1>7, <1>8, <1>9, <1>10, <1>11 DEF Next, Command

\* Answers reach who waits for them, and reports stay true, after every step.
AnswerInv == ServiceInv /\ ReportInv /\ PromotedIsCurrent

\* Every step of a command, of the service and of the cloud keeps that too.
LEMMA AnswerStep == Inv /\ Next => AnswerInv'
<1> SUFFICES ASSUME Inv, Next PROVE AnswerInv'
    OBVIOUS
<1> USE DEF Inv
<1> DEFINE Made == {runnerState.current.activation} \cup superseded
           Kept == runnerState # None => runnerState' # None /\ Made \subseteq Made'
<1>u. ASSUME UNCHANGED <<runnerState, superseded>> PROVE Kept
    BY <1>u
\* A command that does not wait, and the answer it did not get.
<1>c. ASSUME NEW p \in Process, command[p].step # "Waiting", Kept,
             UNCHANGED service, \A q \in Process \ {p} : command'[q] = command[q],
             command'[p].promoted \in {None, command[p].promoted},
             command'[p].step = "Reload" => runnerState # None,
             command'[p].step # "Waiting"
      PROVE  AnswerInv'
    BY <1>c DEF AnswerInv, ServiceInv, ReportInv, PromotedIsCurrent
<1>1. ASSUME NEW p \in Process, NEW a \in Activation, NEW replace \in BOOLEAN,
             Enroll(p, a, replace)
      PROVE  AnswerInv'
    BY <1>1, <1>c, <1>u
    DEF TypeOK, Enroll, ReuseLocal, Stage, Return, At, Idle, files
<1>2. ASSUME NEW p \in Process, Resume(p) PROVE AnswerInv'
    BY <1>2, <1>c, <1>u DEF TypeOK, Resume, At, files
<1>3. ASSUME NEW p \in Process, Send(p) \/ Created(p) PROVE AnswerInv'
    BY <1>3, <1>c, <1>u DEF TypeOK, Send, Created, Goto, files
<1>4. ASSUME NEW p \in Process, GiveUp(p) \/ WriteReceipt(p) PROVE AnswerInv'
    BY <1>4, <1>c, <1>u DEF TypeOK, GiveUp, WriteReceipt, Return, Idle, files
<1>5. ASSUME NEW p \in Process, PersistState(p) PROVE AnswerInv'
  <2> DEFINE j == command[p].journal
  <2>1. NewCredential(j) \in Credential
    BY <1>5 DEF PersistState, LockInv, NewCredential, Journal, Credential
  <2>2. Kept
    <3>1. CASE runnerState' = runnerState
        BY <1>5, <3>1 DEF PersistState
    <3>2. CASE runnerState # None /\ runnerState' # runnerState
      <4>1. /\ runnerState \in RunnerState
            /\ runnerState' = [runnerState EXCEPT !.pending = NewCredential(j)]
        BY <1>5, <3>2 DEF TypeOK, PersistState, Visible, EnrolledState
      <4>2. runnerState' \in RunnerState /\ runnerState'.current = runnerState.current
        BY <2>1, <4>1 DEF RunnerState
      <4> QED
        BY <1>5, <4>2, EnrollmentAssumption DEF PersistState
    <3> QED
        BY <3>1, <3>2
  <2>3. Goto(p, "Remove") \/ Return(p)
    BY <1>5 DEF PersistState
  <2> QED
    BY <1>5, <1>c, <2>2, <2>3 DEF TypeOK, PersistState, Goto, Return, Idle
<1>6. ASSUME NEW p \in Process, RemoveJournal(p) PROVE AnswerInv'
  <2>1. runnerState # None
    BY <1>6 DEF RemoveJournal, LockInv
  <2> QED
    BY <1>6, <1>c, <1>u, <2>1 DEF TypeOK, RemoveJournal, Goto, Return, Idle
<1>o. ASSUME NEW p \in Process, service' = Orphaned(p), service # None
      PROVE  \A q \in Process :
                /\ q \in {service'.queued, service'.request} =>
                    q # p /\ q \in {service.queued, service.request}
                /\ q = service'.queued => q # service'.request
  <2>1. /\ service'.queued = IF service.queued = p THEN "Nobody" ELSE service.queued
        /\ service'.request = IF service.request = p THEN "Nobody" ELSE service.request
    BY <1>o DEF TypeOK, Orphaned, Service
  <2> QED
    BY <1>o, <2>1, EnrollmentAssumption DEF ServiceInv
<1>7. ASSUME NEW p \in Process, RequestReload(p) PROVE AnswerInv'
  <2>1. CASE service.queued = None
    <3>1. /\ service' # None /\ service'.queued = p /\ service'.request = service.request
          /\ command' = [command EXCEPT ![p].step = "Waiting"]
          /\ UNCHANGED <<runnerState, superseded>>
          /\ runnerState # None
      <4>1. service \in Service /\ service' = [service EXCEPT !.queued = p]
        BY <1>7, <2>1 DEF TypeOK, RequestReload
      <4>2. service' \in Service
        BY <4>1 DEF Service, Requester
      <4> QED
        BY <1>7, <2>1, <4>1, <4>2, EnrollmentAssumption
        DEF RequestReload, Goto, Service, ServiceInv, files
    <3> QED
        BY <1>7, <3>1
        DEF TypeOK, RequestReload, AnswerInv, ServiceInv, ReportInv, PromotedIsCurrent
  <2>2. CASE service.queued # None
    BY <1>7, <2>2, <1>c, <1>u DEF TypeOK, RequestReload, Report, Idle, files
  <2> QED
    BY <2>1, <2>2
<1>d. ASSUME NEW p \in Process, service' = Orphaned(p),
             UNCHANGED <<runnerState, superseded>>,
             \A q \in Process \ {p} : command'[q] = command[q],
             command'[p].step = "Idle",
             command'[p].promoted # None => runnerState # None /\
                    command'[p].promoted = runnerState.current.activation
      PROVE  AnswerInv'
  <2>1. ServiceInv'
    BY Zenon, <1>d, <1>o DEF ServiceInv, Orphaned
  <2>2. ReportInv' /\ PromotedIsCurrent'
    BY <1>d DEF ReportInv, PromotedIsCurrent
  <2> QED
    BY <2>1, <2>2 DEF AnswerInv
<1>8. ASSUME NEW p \in Process, ReadDisposition(p) PROVE AnswerInv'
  <2>1. runnerState # None
    BY <1>8 DEF ReadDisposition, ReportInv
  <2> QED
    BY <1>8, <1>d, <2>1 DEF TypeOK, ReadDisposition, Report, Idle, files
<1>9. ASSUME NEW p \in Process, ReloadTimeout(p) PROVE AnswerInv'
    BY <1>9, <1>d DEF TypeOK, ReloadTimeout, Report, Idle, files
<1>10. ASSUME NEW p \in Process, Kill(p) PROVE AnswerInv'
    BY <1>10, <1>d DEF TypeOK, Kill, Idle, files
<1>11. ASSUME StartService \/ StopService PROVE AnswerInv'
  <2>1. ServiceInv'
    BY <1>11, EnrollmentAssumption
    DEF StartService, StopService, Serving, ServiceInv, files
  <2>2. ReportInv' /\ PromotedIsCurrent'
    BY <1>11 DEF StartService, StopService, ReportInv, PromotedIsCurrent, files
  <2> QED
    BY <2>1, <2>2 DEF AnswerInv
\* The service answers a requester and forgets it.
<1>e. ASSUME service # None, Kept,
             NEW requester \in {service.queued, service.request, "Nobody"},
             NEW reloaded, Respond(requester, reloaded),
             reloaded = None \/ reloaded \in Made',
             \A q \in Process : q \in {service'.queued, service'.request} =>
                q # requester /\ q \in {service.queued, service.request},
             \A q \in Process : q = service'.queued => q # service'.request
      PROVE  AnswerInv'
  <2>0. runnerState # None /\ runnerState' # None
    BY <1>e DEF ServiceInv
  <2>1. CASE requester \in Process
    <3>1. command[requester].step = "Waiting" /\ command[requester].journal \in Journal
        BY <1>e, <2>1, EnrollmentAssumption DEF ServiceInv, LockInv
    <3>2. /\ command'[requester].step = "Idle"
          /\ command'[requester].promoted # None => command'[requester].promoted = reloaded
          /\ \A q \in Process \ {requester} : command'[q] = command[q]
        BY <1>e, <2>1, <3>1 DEF TypeOK, Respond, Report, Idle
    <3>3. ServiceInv'
        BY <1>e, <2>0, <3>2 DEF ServiceInv
    <3>4. ReportInv' /\ PromotedIsCurrent'
        BY <1>e, <2>0, <3>2 DEF ReportInv, PromotedIsCurrent
    <3> QED
        BY <3>3, <3>4 DEF AnswerInv
  <2>2. CASE requester \notin Process
    <3>1. command' = command
        BY <1>e, <2>2 DEF Respond
    <3>2. ServiceInv'
        BY <1>e, <2>0, <3>1 DEF ServiceInv
    <3>3. ReportInv' /\ PromotedIsCurrent'
        BY <1>e, <2>0, <3>1 DEF ReportInv, PromotedIsCurrent
    <3> QED
        BY <3>2, <3>3 DEF AnswerInv
  <2> QED
    BY <2>1, <2>2
<1>12. ASSUME LoadPending PROVE AnswerInv'
  <2> DEFINE manual == service.queued # None
             requester == IF manual THEN service.queued ELSE "Nobody"
             taken == [service EXCEPT !.startup = manual /\ @, !.queued = None]
  <2>1. service # None /\ service \in Service /\ service.request = None /\ Kept
    BY <1>12, <1>u DEF TypeOK, LoadPending, files
  <2>2. taken \in Service /\ taken.queued = None /\ taken.request = None
    BY Zenon, <2>1 DEF Service
  <2>3. CASE service' = taken /\ Respond(requester, None)
    <3>1. \A q \in Process : q \notin {service'.queued, service'.request}
        BY <2>2, <2>3, EnrollmentAssumption
    <3>2. requester \in {service.queued, service.request, "Nobody"}
        OBVIOUS
    <3> HIDE DEF requester, taken
    <3> QED
        BY <1>e, <2>1, <2>3, <3>1, <3>2
  <2>4. CASE /\ service' = [taken EXCEPT !.request = requester,
                                 !.candidate = runnerState.pending.activation]
             /\ UNCHANGED command
    <3>1. service'.queued = None /\ service'.request = requester
        BY <2>2, <2>4 DEF Service
    <3>2. ServiceInv'
        BY <1>12, <2>1, <2>4, <3>1, EnrollmentAssumption DEF LoadPending, ServiceInv, files
    <3>3. ReportInv' /\ PromotedIsCurrent'
        BY <1>12, <2>4 DEF LoadPending, ReportInv, PromotedIsCurrent, files
    <3> QED
        BY <3>2, <3>3 DEF AnswerInv
  <2> QED
    BY <1>12, <2>3, <2>4 DEF LoadPending
<1>f. ASSUME service # None
      PROVE  /\ Finished.request = None /\ Finished.queued = service.queued
             /\ \A c, s : [Finished EXCEPT !.credential = c, !.startup = s].request = None
             /\ \A c, s : [Finished EXCEPT !.credential = c, !.startup = s].queued
                            = service.queued
    BY <1>f DEF TypeOK, Finished, Service
<1>13. ASSUME RejectCandidate PROVE AnswerInv'
  <2>1. /\ service # None /\ Kept /\ service' = Finished
        /\ Respond(service.request, None)
    BY <1>13, <1>u DEF RejectCandidate, files
  <2>2. \A q \in Process :
            /\ q \in {service'.queued, service'.request} =>
                q # service.request /\ q \in {service.queued, service.request}
            /\ q = service'.queued => q # service'.request
    BY <2>1, <1>f, EnrollmentAssumption DEF ServiceInv
  <2> QED
    BY <1>e, <2>1, <2>2
<1>14. ASSUME Promote PROVE AnswerInv'
  <2>1. /\ service # None /\ runnerState # None
        /\ superseded' = superseded \cup {runnerState.current.activation}
        /\ runnerState' = PromotedState
        /\ runnerState.pending.activation = service.candidate
        /\ runnerState.pending \in Credential /\ runnerState \in RunnerState
    BY <1>14 DEF TypeOK, Promote, Promotable, ServiceInv, RunnerState
  <2>2. PromotedState \in RunnerState /\ PromotedState.current = runnerState.pending
    BY <2>1 DEF PromotedState, RunnerState, Credential
  <2>3. Kept /\ service.candidate \in Made'
    BY <2>1, <2>2, EnrollmentAssumption
  <2>4. service'.request = None /\ service'.queued = service.queued
    <3>1. \/ service' = Finished
          \/ \E startup \in {FALSE, service.startup} :
                service' = [Finished EXCEPT !.credential = service.candidate,
                                            !.startup = startup]
        BY Zenon, <1>14 DEF Promote
    <3>2. CASE service' = Finished
        BY <1>f, <2>1, <3>2
    <3>3. CASE service' # Finished
      <4>1. PICK startup : service' = [Finished EXCEPT !.credential = service.candidate,
                                                       !.startup = startup]
        BY Zenon, <3>1, <3>3
      <4> QED
        BY <1>f, <2>1, <4>1
    <3> QED
        BY <3>2, <3>3
  <2>5. \A q \in Process :
            /\ q \in {service'.queued, service'.request} =>
                q # service.request /\ q \in {service.queued, service.request}
            /\ q = service'.queued => q # service'.request
    BY <2>1, <2>4, EnrollmentAssumption DEF ServiceInv
  <2>6. Respond(service.request, service.candidate) \/ Respond(service.request, None)
    BY <1>14 DEF Promote
  <2> QED
    BY <1>e, <2>1, <2>3, <2>5, <2>6
<1>15. ASSUME \/ \E r \in requests : Activate(r)
              \/ \E a \in Activation : Expire(a)
       PROVE  AnswerInv'
    BY <1>15
    DEF Activate, Expire, AnswerInv, ServiceInv, ReportInv, PromotedIsCurrent, files
<1> QED
    BY <1>1, <1>2, <1>3, <1>4, <1>5, <1>6, <1>7, <1>8, <1>9, <1>10, <1>11, <1>12,
       <1>13, <1>14, <1>15
    DEF Next, Command

-----------------------------------------------------------------------------
\* The invariant holds in every reachable state.
THEOREM EnrollmentInvariant == Spec => []Inv
<1>1. Inv /\ [Next]_vars => Inv'
  <2> SUFFICES ASSUME Inv, [Next]_vars PROVE Inv'
    OBVIOUS
  <2>1. CASE Next
    BY <2>1, TypeStep, LockStep, SecretStep, AnswerStep DEF Inv, SecretInv, AnswerInv
  <2>2. CASE UNCHANGED vars
    BY <2>2 DEF vars, Inv, TypeOK, LockInv, FreshInv, RequestInv, JournalInv,
        ServiceInv, ReportInv, IssuedSecretsKept, StateReadable, PromotedIsCurrent,
        Issued, Held, ResolvedJournal, Unresolved
  <2> QED
    BY <2>1, <2>2
<1> QED
    BY InitInv, <1>1, PTL DEF Spec

\* Killed, retried, resumed, answered late: a secret the cloud accepted stays in
\* the journal or in the state until its credential is replaced (enroll).
THEOREM NoIssuedSecretLost == Spec => []IssuedSecretsKept
BY EnrollmentInvariant, PTL DEF Inv

\* The journal and a pending credential exclude each other's activation, so a
\* third credential is never enrolled (enroll, stage_journal).
THEOREM AtMostOneReplacement == Spec => []NoThirdCredential
<1>1. Inv => NoThirdCredential
  <2> SUFFICES ASSUME Inv, NEW a \in Activation, NEW b \in Activation,
                      NEW c \in Activation, Live(a), Live(b), Live(c)
               PROVE  a = b \/ b = c \/ a = c
    BY DEF NoThirdCredential
  <2>1. ASSUME NEW x \in Activation, Live(x)
        PROVE  \/ ~ResolvedJournal /\ x = journal.activation
                                   /\ NewCredential(journal) =
                                        [activation |-> x, secret |-> cloud[x]]
               \/ runnerState # None /\ x = runnerState.current.activation
               \/ /\ runnerState # None /\ runnerState.pending # None
                  /\ x = runnerState.pending.activation
    <3>1. [activation |-> x, secret |-> cloud[x]] # None
        BY <2>1, EnrollmentAssumption DEF Live, Issued, Credential
    <3> QED
        BY <2>1, <3>1 DEF Inv, IssuedSecretsKept, Live, Held, NewCredential
  <2>2. ~ResolvedJournal /\ runnerState # None /\ runnerState.pending # None =>
            journal.activation = runnerState.pending.activation
    BY DEF Inv, TypeOK, JournalInv, Unresolved, ResolvedJournal, NewCredential
  <2> QED
    BY <2>1, <2>2
<1> QED
    BY EnrollmentInvariant, <1>1, PTL

\* No crash or promotion between two steps of an enrollment leaves a state file
\* that the next start refuses (read_runner_state_if_present).
THEOREM StateStaysReadable == Spec => []StateReadable
BY EnrollmentInvariant, PTL DEF Inv

\* A rotation that is reported as completed took place (promote_replacement).
THEOREM ReportsAreTrue == Spec => []PromotedIsCurrent
BY EnrollmentInvariant, PTL DEF Inv
=============================================================================
