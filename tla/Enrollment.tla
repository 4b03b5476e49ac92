----------------------------- MODULE Enrollment -----------------------------
(***************************************************************************)
(* Enrollment of a runner and rotation of its credential: the commands     *)
(* `runner enroll` and `runner enroll --resume` (enrollment.rs, enroll.rs) *)
(* run by any number of processes, and Runner Serve, which welcomes and    *)
(* promotes a pending credential (service/mod.rs), over two files in a     *)
(* directory with a lock: the journal of an enrollment in progress and the *)
(* runner state.                                                           *)
(*                                                                         *)
(* A command holds the lock from its first read to the removal of the      *)
(* journal, across its request to the cloud; it may be killed between any  *)
(* two steps, its request may be lost, late, or answered after it gave up, *)
(* and a write may fail before or after the rename that makes it visible.  *)
(* A rejected command changes nothing and is not a step.                   *)
(*                                                                         *)
(* A secret stands for the secret, its verifier and the idempotency key    *)
(* generated with it; the cloud issues one credential for an activation,   *)
(* so the activation stands for the credential's id.                       *)
(***************************************************************************)
EXTENDS Naturals

CONSTANTS
    Activation,         \* activation artifacts issued for this runner
    Process,            \* processes that run the command
    MaxSecret,          \* bound: how many secrets are generated
    None, Receipt, Gone \* no value; a terminal receipt; a dead activation

VARIABLES
    journal,      \* the journal file: None, Receipt or a journal
    runnerState,  \* the state file: None or the runner's state
    lock,         \* the process that holds the state lock, or None
    command,      \* per process: where its command is
    service,      \* Runner Serve, or None when it does not run
    requests,     \* enrollment requests sent to the cloud
    cloud,        \* per activation: None, Gone or the secret it was used with
    secrets,      \* how many secrets were generated
    superseded    \* history: activations whose credential was replaced

vars == <<journal, runnerState, lock, command, service, requests, cloud,
          secrets, superseded>>
files == <<journal, runnerState>>

Secret == 1..MaxSecret
Credential == [activation : Activation, secret : Secret]
Journal == [activation : Activation, secret : Secret, replace : BOOLEAN]
RunnerState == [current : Credential, pending : Credential \cup {None},
                lastPromotion : Activation \cup {None}]
Step == {"Idle", "Send", "Sent", "Persist", "Remove", "Reload", "Waiting"}

Requester == Process \cup {"Nobody"}
Service == [credential : Activation, startup : BOOLEAN,
            queued : Requester \cup {None}, request : Requester \cup {None},
            candidate : Activation \cup {None}]

ASSUME EnrollmentAssumption ==
    /\ MaxSecret \in Nat
    /\ "Nobody" \notin Process /\ "Nobody" # None
    /\ None \notin Activation \cup Process \cup Secret \cup Credential \cup Journal
    /\ None \notin RunnerState /\ None \notin Service
    /\ Receipt \notin Journal
    /\ Gone \notin Secret

NewCredential(j) == [activation |-> j.activation, secret |-> j.secret]

-----------------------------------------------------------------------------
(* Commands.                                                               *)

Idle == [step |-> "Idle", journal |-> None, promoted |-> None]
At(step, j) == [step |-> step, journal |-> j, promoted |-> None]
Goto(p, step) == command' = [command EXCEPT ![p].step = step]

\* The command returns and drops the lock.
Return(p) == command' = [command EXCEPT ![p] = Idle] /\ lock' = None

\* A write that succeeds, that fails after its rename, or that fails before it.
Write == {"Done", "Unsynced", "Failed"}
Visible(write, new, old) == IF write = "Failed" THEN old ELSE new

\* The credential that the state already holds for an activation.
LocalCredential(a) ==
    IF runnerState.pending # None THEN runnerState.pending
    ELSE IF runnerState.lastPromotion = a THEN runnerState.current
    ELSE None

ResolvedJournal == journal \in {None, Receipt}

\* A replacement journal must agree with what the state holds for it.
ReplacementAdmitted(j) ==
    j.replace =>
        /\ runnerState # None
        /\ LocalCredential(j.activation) \in {None, NewCredential(j)}

Staged(a, replace) ==
    [activation |-> a, secret |-> secrets + 1, replace |-> replace]

Stage(p, a, replace) ==
    /\ secrets < MaxSecret
    /\ secrets' = secrets + 1
    /\ \E write \in Write :
        /\ journal' = Visible(write, Staged(a, replace), journal)
        /\ IF write = "Done" /\ ReplacementAdmitted(Staged(a, replace))
           THEN /\ command' = [command EXCEPT ![p] = At("Send", Staged(a, replace))]
                /\ lock' = p
           ELSE Return(p)
    /\ UNCHANGED <<runnerState, service, requests, cloud, superseded>>

\* A credential of this activation is there already: only ask for its promotion.
ReuseLocal(p, a) ==
    /\ command' = [command EXCEPT ![p] =
            At("Reload", [activation |-> a, replace |-> TRUE,
                          secret |-> LocalCredential(a).secret])]
    /\ UNCHANGED <<files, lock, service, requests, cloud, secrets, superseded>>

EnrollOverJournal(p, a, replace) ==
    /\ command[p].step = "Idle" /\ lock = None
    /\ replace <=> runnerState # None
    /\ replace /\ runnerState.pending # None => runnerState.pending.activation = a
    /\ IF replace /\ LocalCredential(a) # None
       THEN ReuseLocal(p, a)
       ELSE Stage(p, a, replace)

Enroll(p, a, replace) ==
    /\ command[p].step = "Idle" /\ lock = None
    /\ replace <=> runnerState # None
    /\ replace /\ runnerState.pending # None => runnerState.pending.activation = a
    /\ ResolvedJournal
    /\ IF replace /\ LocalCredential(a) # None
       THEN ReuseLocal(p, a)
       ELSE Stage(p, a, replace)

Resume(p) ==
    /\ command[p].step = "Idle" /\ lock = None
    /\ ~ResolvedJournal
    /\ ReplacementAdmitted(journal)
    /\ command' = [command EXCEPT ![p] = At("Send", journal)]
    /\ lock' = p
    /\ UNCHANGED <<files, service, requests, cloud, secrets, superseded>>

Send(p) ==
    /\ command[p].step = "Send"
    /\ requests' = requests \cup {NewCredential(command[p].journal)}
    /\ Goto(p, "Sent")
    /\ UNCHANGED <<files, lock, service, cloud, secrets, superseded>>

GiveUpClearing(p) ==
    /\ command[p].step = "Sent"
    /\ journal' = None
    /\ Return(p)
    /\ UNCHANGED <<runnerState, service, requests, cloud, secrets, superseded>>

\* No answer, a server error, a refusal or an unusable answer: the journal stays.
GiveUp(p) ==
    /\ command[p].step = "Sent"
    /\ Return(p)
    /\ UNCHANGED <<files, service, requests, cloud, secrets, superseded>>

Created(p) ==
    /\ command[p].step = "Sent"
    /\ cloud[command[p].journal.activation] = command[p].journal.secret
    /\ Goto(p, "Persist")
    /\ UNCHANGED <<files, lock, service, requests, cloud, secrets, superseded>>

\* The cloud answers 410 to what did not commit: a receipt replaces the journal.
WriteReceipt(p) ==
    /\ command[p].step = "Sent"
    /\ cloud[command[p].journal.activation] \notin {None, command[p].journal.secret}
    /\ \E write \in Write : journal' = Visible(write, Receipt, journal)
    /\ Return(p)
    /\ UNCHANGED <<runnerState, service, requests, cloud, secrets, superseded>>

AlreadyPersistedPending(j) ==
    /\ runnerState # None
    /\ NewCredential(j) =
        IF j.replace THEN runnerState.pending
        ELSE IF runnerState.pending = None THEN runnerState.current ELSE None

AlreadyPersisted(j) ==
    /\ runnerState # None
    /\ NewCredential(j) =
        IF j.replace THEN LocalCredential(j.activation)
        ELSE IF runnerState.pending = None THEN runnerState.current ELSE None

EnrolledState(j) ==
    IF j.replace THEN [runnerState EXCEPT !.pending = NewCredential(j)]
    ELSE [current |-> NewCredential(j), pending |-> None, lastPromotion |-> None]

PersistState(p) ==
    /\ command[p].step = "Persist"
    /\ LET j == command[p].journal
           refused == IF j.replace
                      THEN runnerState = None \/ runnerState.pending # None
                      ELSE runnerState # None
       IN IF AlreadyPersisted(j)
          THEN Goto(p, "Remove") /\ UNCHANGED <<runnerState, lock>>
          ELSE \E write \in IF refused THEN {"Failed"} ELSE Write :
                /\ runnerState' = Visible(write, EnrolledState(j), runnerState)
                /\ IF write = "Done"
                   THEN Goto(p, "Remove") /\ UNCHANGED lock
                   ELSE Return(p)
    /\ UNCHANGED <<journal, service, requests, cloud, secrets, superseded>>

RemoveJournal(p) ==
    /\ command[p].step = "Remove"
    /\ \E write \in Write :
        /\ journal' = Visible(write, None, journal)
        /\ IF write = "Done" /\ command[p].journal.replace
           THEN Goto(p, "Reload") /\ lock' = None
           ELSE Return(p)
    /\ UNCHANGED <<runnerState, service, requests, cloud, secrets, superseded>>

-----------------------------------------------------------------------------
(* The local control socket, and Runner Serve.                             *)

Serving(credential, startup) ==
    [credential |-> credential, startup |-> startup,
     queued |-> None, request |-> None, candidate |-> None]

\* Who waits for an answer stops waiting for it; the request itself stays.
Orphaned(p) ==
    IF service = None THEN None
    ELSE [service EXCEPT !.queued = IF @ = p THEN "Nobody" ELSE @,
                         !.request = IF @ = p THEN "Nobody" ELSE @]

\* The command ends and reports whether the replacement was promoted.
Report(p, promoted) ==
    command' = [command EXCEPT ![p] =
        [Idle EXCEPT !.promoted =
            IF promoted THEN command[p].journal.activation ELSE None]]

RequestReload(p) ==
    /\ command[p].step = "Reload" /\ service # None
    /\ IF service.queued = None
       THEN Goto(p, "Waiting") /\ service' = [service EXCEPT !.queued = p]
       ELSE Report(p, FALSE) /\ UNCHANGED service
    /\ UNCHANGED <<files, lock, requests, cloud, secrets, superseded>>

ReadDispositionStaged(p) ==
    /\ \/ command[p].step = "Reload" /\ service = None
       \/ command[p].step = "Waiting"
    /\ \/ lock = None /\ Report(p, TRUE)
       \/ lock # None /\ Report(p, FALSE)
    /\ service' = Orphaned(p)
    /\ UNCHANGED <<files, lock, requests, cloud, secrets, superseded>>

\* The socket cannot be reached, or the answer never comes: look at the state.
ReadDisposition(p) ==
    /\ \/ command[p].step = "Reload" /\ service = None
       \/ command[p].step = "Waiting"
    /\ \/ /\ lock = None
          /\ Report(p, runnerState.current.activation = command[p].journal.activation)
       \/ lock # None /\ Report(p, FALSE)
    /\ service' = Orphaned(p)
    /\ UNCHANGED <<files, lock, requests, cloud, secrets, superseded>>

\* The service's own deadline for a reload passes.
ReloadTimeout(p) ==
    /\ command[p].step = "Waiting" /\ service # None
    /\ p \in {service.queued, service.request}
    /\ Report(p, FALSE)
    /\ service' = Orphaned(p)
    /\ UNCHANGED <<files, lock, requests, cloud, secrets, superseded>>

\* A process is killed; the system drops its lock.
Kill(p) ==
    /\ command[p].step # "Idle"
    /\ command' = [command EXCEPT ![p] = Idle]
    /\ lock' = IF lock = p THEN None ELSE lock
    /\ service' = Orphaned(p)
    /\ UNCHANGED <<files, requests, cloud, secrets, superseded>>

StartService ==
    /\ service = None /\ lock = None /\ runnerState # None
    /\ service' = Serving(runnerState.current.activation, runnerState.pending # None)
    /\ UNCHANGED <<files, lock, command, requests, cloud, secrets, superseded>>

\* Runner Serve stops or is killed; its unanswered requests end with it.
StopService ==
    /\ service # None
    /\ service' = None
    /\ UNCHANGED <<files, lock, command, requests, cloud, secrets, superseded>>

\* The answer of a reload goes to the process that still waits for it.
Respond(requester, reloaded) ==
    IF requester \in Process
    THEN Report(requester, reloaded = command[requester].journal.activation)
    ELSE UNCHANGED command

\* A reload that a command requested, or the one of a start with a pending
\* credential, loads the pending credential; it fails when the lock is not to
\* be had or nothing is pending.
LoadPending ==
    /\ service # None /\ service.request = None
    /\ service.startup \/ service.queued # None
    /\ LET manual == service.queued # None
           requester == IF manual THEN service.queued ELSE "Nobody"
           taken == [service EXCEPT !.startup = manual /\ @, !.queued = None]
       IN IF lock # None \/ runnerState.pending = None
          THEN service' = taken /\ Respond(requester, None)
          ELSE /\ service' = [taken EXCEPT !.request = requester,
                                  !.candidate = runnerState.pending.activation]
               /\ UNCHANGED command
    /\ UNCHANGED <<files, lock, requests, cloud, secrets, superseded>>

Finished == [service EXCEPT !.request = None, !.candidate = None]

\* The candidate connection fails or is refused, or the lock is not to be had.
RejectCandidate ==
    /\ service # None /\ service.request # None
    /\ service' = Finished
    /\ Respond(service.request, None)
    /\ UNCHANGED <<files, lock, requests, cloud, secrets, superseded>>

Promotable ==
    /\ runnerState.current.activation = service.credential
    /\ runnerState.pending # None
    /\ runnerState.pending.activation = service.candidate

PromotedState ==
    [current |-> runnerState.pending, pending |-> None,
     lastPromotion |-> runnerState.pending.activation]

\* The cloud welcomed the candidate: make it current, and go on with it. The
\* reload of the start is still due unless this one ran beside a connection.
Promote ==
    /\ service # None /\ service.request # None
    /\ lock = None
    /\ Promotable
    /\ runnerState' = PromotedState
    /\ superseded' = superseded \cup {runnerState.current.activation}
    /\ \E write \in Write \ {"Failed"}, startup \in {FALSE, service.startup} :
        /\ IF write = "Done"
           THEN /\ service' = [Finished EXCEPT !.credential = service.candidate,
                                               !.startup = startup]
                /\ Respond(service.request, service.candidate)
           ELSE service' = Finished /\ Respond(service.request, None)
    /\ UNCHANGED <<journal, lock, requests, cloud, secrets>>

-----------------------------------------------------------------------------
(* The cloud: an activation is used once, by one secret, or dies unused.   *)

Activate(r) ==
    /\ cloud[r.activation] = None
    /\ cloud' = [cloud EXCEPT ![r.activation] = r.secret]
    /\ UNCHANGED <<files, lock, command, service, requests, secrets, superseded>>

Expire(a) ==
    /\ cloud[a] = None
    /\ cloud' = [cloud EXCEPT ![a] = Gone]
    /\ UNCHANGED <<files, lock, command, service, requests, secrets, superseded>>

-----------------------------------------------------------------------------
Init ==
    /\ journal = None /\ runnerState = None /\ lock = None
    /\ command = [p \in Process |-> Idle]
    /\ service = None /\ requests = {}
    /\ cloud = [a \in Activation |-> None]
    /\ secrets = 0 /\ superseded = {}

Command(p) ==
    \/ \E a \in Activation, replace \in BOOLEAN : Enroll(p, a, replace)
    \/ Resume(p)
    \/ Send(p) \/ GiveUp(p) \/ Created(p) \/ WriteReceipt(p)
    \/ PersistState(p) \/ RemoveJournal(p)
    \/ RequestReload(p) \/ ReadDisposition(p) \/ ReloadTimeout(p)
    \/ Kill(p)

Next ==
    \/ \E p \in Process : Command(p)
    \/ StartService \/ StopService \/ LoadPending \/ RejectCandidate \/ Promote
    \/ \E r \in requests : Activate(r)
    \/ \E a \in Activation : Expire(a)

Spec == Init /\ [][Next]_vars

-----------------------------------------------------------------------------
(* Properties.                                                             *)

\* A type invariant, for the proofs.
TypeOK ==
    /\ journal \in Journal \cup {None, Receipt}
    /\ runnerState \in RunnerState \cup {None}
    /\ lock \in Process \cup {None}
    /\ command \in [Process -> [step : Step, journal : Journal \cup {None},
                                promoted : Activation \cup {None}]]
    /\ service \in Service \cup {None}
    /\ requests \subseteq Credential
    /\ cloud \in [Activation -> Secret \cup {None, Gone}]
    /\ secrets \in 0..MaxSecret
    /\ superseded \subseteq Activation

Issued(a) == cloud[a] \in Secret

\* The secret an activation was used with is in one of the two files.
Held(a) ==
    LET c == [activation |-> a, secret |-> cloud[a]]
    IN \/ ~ResolvedJournal /\ NewCredential(journal) = c
       \/ runnerState # None /\ c \in {runnerState.current, runnerState.pending}

\* However a command is killed, fails or gives up, and whenever its request
\* takes effect, the only copy of a secret the cloud has accepted is not lost
\* before its credential was replaced by a promoted one (enroll: the journal is
\* staged before the request and removed after the state is written).
IssuedSecretsKept == \A a \in Activation : Issued(a) => Held(a) \/ a \in superseded

Live(a) == Issued(a) /\ a \notin superseded

\* Beside the current credential the cloud has accepted at most one that was not
\* replaced since: no sequence of retries, resumes and restarts enrols a third
\* (enroll and stage_journal refuse while a journal or another pending
\* credential is there).
NoThirdCredential ==
    \A a, b, c \in Activation :
        Live(a) /\ Live(b) /\ Live(c) => a = b \/ b = c \/ a = c

\* The state file can always be read again (read_runner_state_if_present): the
\* pending credential is not the current one, the last promotion is the current
\* credential's, and the cloud has issued both credentials.
StateReadable ==
    runnerState # None =>
        /\ runnerState.pending # None =>
            runnerState.pending.activation # runnerState.current.activation
        /\ runnerState.lastPromotion \in {None, runnerState.current.activation}
        /\ \A c \in {runnerState.current, runnerState.pending} \ {None} :
            cloud[c.activation] = c.secret

\* A command that reports a completed rotation (promote_replacement) reports a
\* credential that the state had made current, whichever command's or start's
\* reload promoted it and whichever answer was lost.
PromotedIsCurrent ==
    \A p \in Process : command[p].promoted # None =>
        command[p].promoted \in {runnerState.current.activation} \cup superseded
=============================================================================
