---------------------- MODULE CancellationSourceProofs ----------------------
(***************************************************************************)
(* The subscription of the coordinator never sleeps through an operation,  *)
(* for any set of requesters, with and without preemption.                 *)
(***************************************************************************)
EXTENDS CancellationSource, TLAPS

\* Some call has queued an operation and has not sent the version yet.
VersionPending ==
  \E t \in Task : \E i \in DOMAIN publishing[t] : publishing[t][i] = "Version"

\* NoLostWakeup while calls are still sending: what the coordinator has not
\* seen is sent or about to be.
WakeupInv ==
  /\ reader.seen <= sends
  /\ reader.at = "Waiting" /\ Available => sends # reader.seen \/ VersionPending

Inv == TypeOK /\ WakeupInv

\* What the assumption says of the program at hand.
LEMMA HostFacts ==
  ASSUME TypeOK
  PROVE  /\ host.requesters \subseteq Requester
         /\ host.graceful \cup host.ordinary_only \cup host.carried \subseteq Reason
BY SourceAssumption DEF TypeOK, HostType

-----------------------------------------------------------------------------
(* Under the mutex.                                                        *)

\* Queueing an operation keeps the locked state typed and adds one operation.
LEMMA PushType ==
  ASSUME NEW s \in Source, NEW kind \in {"Graceful", "OrdinaryOnly", "ForceAbort"},
         NEW r \in AnyReason
  PROVE  /\ Push(s, kind, r) \in Source
         /\ Len(Push(s, kind, r).operations) = Len(s.operations) + 1
<1>1. [kind |-> kind, reason |-> r, phase |-> Phase(s)] \in Operation
  BY DEF Operation, Phase
<1>2. s.operations \in Seq(Operation)
  BY DEF Source
<1>3. Append(s.operations, [kind |-> kind, reason |-> r, phase |-> Phase(s)])
        \in Seq(Operation)
  BY <1>1, <1>2
<1>4. Len(Append(s.operations,
                 [kind |-> kind, reason |-> r, phase |-> Phase(s)]))
        = Len(s.operations) + 1
  BY <1>1, <1>2
<1> QED BY <1>3, <1>4 DEF Push, Source

\* A request keeps the types and never shortens the queue.
LEMMA RequestTypes ==
  ASSUME NEW s \in Source
  PROVE  /\ \A r \in Reason : WithCancellation(s, r) \in Source
         /\ \A r \in Reason : WithOrdinary(s, r) \in Source
         /\ ForceAborted(s) \in Source
         /\ WithForceAbort(s) \in Source
<1>1. \A r \in Reason : r \in AnyReason
  BY DEF AnyReason
<1>2. ASSUME NEW r \in Reason PROVE WithCancellation(s, r) \in Source
  <2>1. Push(s, "Graceful", r) \in Source
    BY <1>1, PushType
  <2> QED BY <2>1, <1>1 DEF WithCancellation, Source
<1>3. ASSUME NEW r \in Reason PROVE WithOrdinary(s, r) \in Source
  <2>1. Push(s, "OrdinaryOnly", r) \in Source
    BY <1>1, PushType
  <2> QED BY <2>1, <1>1 DEF WithOrdinary, Source
<1>4. ForceAborted(s) \in Source
  <2>1. "ForceAbort" \in AnyReason
    BY DEF AnyReason
  <2>2. Push(s, "ForceAbort", "ForceAbort") \in Source
    BY <2>1, PushType
  <2> QED BY Zenon, <2>1, <2>2 DEF ForceAborted, Source
<1>5. WithForceAbort(s) \in Source
  BY Zenon, <1>4 DEF WithForceAbort, Source
<1> QED BY <1>2, <1>3, <1>4, <1>5

\* Completing or aborting an arm keeps the locked state typed.
LEMMA ArmTypes ==
  ASSUME NEW s \in Source
  PROVE  Armed(s) \in Source /\ Unarmed(s) \in Source
<1> DEFINE open == [s EXCEPT !.finalization_arming = FALSE,
                             !.finalization_armed = TRUE,
                             !.phase_reason = "None",
                             !.pending_finalization_reason = "None"]
           held == s.pending_finalization_reason
           t == IF held = "None" THEN open
                ELSE [Push(open, "Graceful", held) EXCEPT !.phase_reason = held]
<1>1. open \in Source
  BY Zenon DEF Source
<1>2. t \in Source
  <2>1. CASE held = "None"
    BY <2>1, <1>1
  <2>2. CASE held # "None"
    <3>1. held \in AnyReason
      BY <2>2 DEF Source, AnyReason
    <3>2. Push(open, "Graceful", held) \in Source
      BY <1>1, <3>1, PushType
    <3> HIDE DEF open, held
    <3>3. [Push(open, "Graceful", held) EXCEPT !.phase_reason = held] \in Source
      BY <3>1, <3>2 DEF Source
    <3> QED BY <2>2, <3>3
  <2> QED BY <2>1, <2>2
<1>3. [t EXCEPT !.pending_force_abort = FALSE] \in Source
  <2> HIDE DEF t
  <2> QED BY Zenon, <1>2 DEF Source
<1>4. ForceAborted([t EXCEPT !.pending_force_abort = FALSE]) \in Source
  BY <1>3, RequestTypes
<1>5. Armed(s) \in Source
  <2>1. Armed(s) = IF s.pending_force_abort /\ ~s.force_abort_requested
                   THEN ForceAborted([t EXCEPT !.pending_force_abort = FALSE])
                   ELSE t
    BY Zenon DEF Armed
  <2> HIDE DEF t
  <2> QED BY <1>2, <1>4, <2>1
<1>6. Unarmed(s) \in Source
  BY Zenon DEF Unarmed, Source
<1> QED BY <1>5, <1>6

-----------------------------------------------------------------------------
(* Steps.                                                                  *)

\* What a call still has to send keeps its type, and a longer queue always
\* leaves a version to be sent.
LEMMA AnnounceFacts ==
  ASSUME TypeOK, NEW t \in Task, NEW s \in Source,
         NEW set \in Seq(AnyReason \cup {"None", "Version"}),
         Announce(t, s, set)
  PROVE  /\ publishing' \in [Task -> Sends]
         /\ Len(s.operations) # Len(source.operations) => VersionPending'
<1> DEFINE V == AnyReason \cup {"None", "Version"}
           next == IF Len(s.operations) = Len(source.operations) THEN set
                   ELSE Append(set, "Version")
<1>1. next \in Seq(V)
  OBVIOUS
<1>2. publishing \in [Task -> Seq(V)]
  BY DEF TypeOK, Sends
<1>3. publishing' = [publishing EXCEPT ![t] = next]
  BY DEF Announce
<1>4. publishing' \in [Task -> Sends]
  <2> HIDE DEF next
  <2> QED BY <1>1, <1>2, <1>3 DEF Sends
<1>5. ASSUME Len(s.operations) # Len(source.operations) PROVE VersionPending'
  <2>1. publishing'[t] = Append(set, "Version")
    BY <1>2, <1>3, <1>5
  <2>2. /\ Len(set) + 1 \in DOMAIN Append(set, "Version")
        /\ Append(set, "Version")[Len(set) + 1] = "Version"
    OBVIOUS
  <2> QED BY <2>1, <2>2 DEF VersionPending
<1> QED BY <1>4, <1>5

\* A call of a task that has nothing left to send, and that leaves the watches
\* alone and does not make the coordinator wait.
LEMMA CallKeepsInv ==
  ASSUME Inv, NEW t \in Task,
         NEW set \in Seq(AnyReason \cup {"None", "Version"}),
         publishing[t] = <<>>,
         source' \in Source, Announce(t, source', set),
         host' = host, reason' = reason, sends' = sends,
         reader' = reader \/ (/\ reader' \in Reader
                              /\ reader'.at # "Waiting"
                              /\ reader'.seen = reader.seen),
         observer' \in [fault : BOOLEAN, fenced : BOOLEAN]
  PROVE  Inv'
<1>1. TypeOK /\ WakeupInv
  BY DEF Inv
<1>2. /\ publishing' \in [Task -> Sends]
      /\ Len(source'.operations) # Len(source.operations) => VersionPending'
  BY <1>1, AnnounceFacts
<1>3. TypeOK'
  BY <1>1, <1>2 DEF TypeOK
<1>4. VersionPending => VersionPending'
  <2> SUFFICES ASSUME NEW u \in Task, NEW i \in DOMAIN publishing[u],
                      publishing[u][i] = "Version"
               PROVE  VersionPending'
    BY DEF VersionPending
  <2>1. u # t
    OBVIOUS
  <2>2. publishing'[u] = publishing[u]
    BY <2>1, <1>1 DEF Announce, TypeOK
  <2> QED BY <2>2 DEF VersionPending
<1>5. WakeupInv'
  <2>1. CASE reader' = reader
    <3>1. Available' => Available \/ Len(source'.operations) # Len(source.operations)
      BY <2>1 DEF Available
    <3> QED BY <1>1, <1>2, <1>4, <2>1, <3>1 DEF WakeupInv
  <2>2. CASE reader'.at # "Waiting" /\ reader'.seen = reader.seen
    BY <1>1, <2>2 DEF WakeupInv
  <2> QED BY <2>1, <2>2
<1> QED BY <1>3, <1>5 DEF Inv

\* A send on either watch.
LEMMA PublishKeepsInv ==
  ASSUME Inv, NEW t \in Task, Publish(t)
  PROVE  Inv'
<1> DEFINE V == AnyReason \cup {"None", "Version"}
<1>1. TypeOK /\ WakeupInv
  BY DEF Inv
<1>2. /\ publishing \in [Task -> Seq(V)]
      /\ publishing[t] \in Seq(V) /\ publishing[t] # <<>>
  BY <1>1 DEF TypeOK, Sends, Publish
<1>3. /\ Tail(publishing[t]) \in Seq(V)
      /\ Head(publishing[t]) \in V
      /\ publishing' = [publishing EXCEPT ![t] = Tail(publishing[t])]
  BY <1>2 DEF Publish
<1>4. TypeOK'
  <2>1. publishing' \in [Task -> Sends]
    BY <1>2, <1>3 DEF Sends
  <2>2. reason' \in AnyReason \cup {"None"} /\ sends' \in Nat
    BY <1>1, <1>3 DEF Publish, TypeOK
  <2> QED BY <1>1, <2>1, <2>2 DEF TypeOK, Publish
<1>5. WakeupInv'
  <2>1. sends \in Nat /\ reader.seen \in Nat
    BY <1>1 DEF TypeOK, Reader
  <2>2. CASE Head(publishing[t]) = "Version"
    BY <1>1, <2>1, <2>2 DEF Publish, WakeupInv, Available
  <2>3. CASE Head(publishing[t]) # "Version"
    <3>1. sends' = sends /\ reader' = reader /\ (Available' <=> Available)
      BY <2>3 DEF Publish, Available
    <3>2. VersionPending => VersionPending'
      <4> SUFFICES ASSUME NEW u \in Task, NEW i \in DOMAIN publishing[u],
                          publishing[u][i] = "Version"
                   PROVE  VersionPending'
        BY DEF VersionPending
      <4>1. CASE u # t
        BY <4>1, <1>2, <1>3 DEF VersionPending
      <4>2. CASE u = t
        <5>1. i \in 1..Len(publishing[t]) /\ i # 1
          BY <4>2, <1>2, <2>3
        <5>2. /\ i - 1 \in DOMAIN Tail(publishing[t])
              /\ Tail(publishing[t])[i - 1] = "Version"
          BY <5>1, <4>2, <1>2
        <5> QED BY <5>2, <1>2, <1>3 DEF VersionPending
      <4> QED BY <4>1, <4>2
    <3> QED BY <1>1, <3>1, <3>2 DEF WakeupInv
  <2> QED BY <2>2, <2>3
<1> QED BY <1>4, <1>5 DEF Inv

\* The requests, of any task.
LEMMA RequestKeepsInv ==
  ASSUME Inv, NEW t \in host.requesters, Request(t)
  PROVE  Inv'
<1> DEFINE V == AnyReason \cup {"None", "Version"}
<1>0. /\ t \in Requester
      /\ host.graceful \cup host.ordinary_only \cup host.carried \subseteq Reason
  BY HostFacts DEF Inv
<1>1. t \in Task /\ TypeOK /\ source \in Source
      /\ observer \in [fault : BOOLEAN, fenced : BOOLEAN]
  BY <1>0 DEF Task, Inv, TypeOK
<1>2. /\ <<>> \in Seq(V)
      /\ \A r \in AnyReason : <<r>> \in Seq(V)
      /\ Reason \subseteq AnyReason /\ "ForceAbort" \in AnyReason
  BY DEF AnyReason
<1>3. ASSUME NEW r \in host.graceful, RequestCancellation(t, r)
      PROVE  Inv'
  <2>0. r \in Reason
    BY <1>0
  <2>1. source' \in Source /\ publishing[t] = <<>>
    BY Zenon, <1>1, <1>3, <2>0, RequestTypes DEF RequestCancellation, Idle
  <2>2. (IF source.finalization_arming THEN <<>> ELSE <<r>>) \in Seq(V)
    BY Zenon, <1>2, <2>0
  <2> QED BY Zenon, <1>1, <1>3, <2>1, <2>2, CallKeepsInv DEF RequestCancellation
<1>4. ASSUME NEW r \in host.ordinary_only, RequestOrdinaryCancellation(t, r)
      PROVE  Inv'
  <2>1. r \in Reason
    BY <1>0
  <2>2. source' \in Source /\ publishing[t] = <<>>
    BY <1>1, <1>4, <2>1, RequestTypes DEF RequestOrdinaryCancellation, Idle
  <2>3. <<r>> \in Seq(V)
    BY <1>2, <2>1
  <2> QED BY Zenon, <1>1, <1>4, <2>2, <2>3, CallKeepsInv
          DEF RequestOrdinaryCancellation
<1>5. ASSUME RequestForceAbort(t) PROVE Inv'
  <2>1. source' \in Source /\ publishing[t] = <<>>
    BY <1>1, <1>5, RequestTypes DEF RequestForceAbort, Idle
  <2>2. (IF source'.phase_reason = source.phase_reason THEN <<>>
         ELSE <<"ForceAbort">>) \in Seq(V)
    BY Zenon, <1>2
  <2> QED BY Zenon, <1>1, <1>5, <2>1, <2>2, CallKeepsInv DEF RequestForceAbort
<1>6. ASSUME BeginForcedContainment(t) PROVE Inv'
  <2>1. "ExecutionLeaseExpired" \in Reason
    BY <1>0, <1>6 DEF BeginForcedContainment
  <2>2. source' \in Source /\ publishing[t] = <<>>
    BY <1>1, <1>6, <2>1, RequestTypes DEF BeginForcedContainment, Idle
  <2>3. (IF AcceptsCancellation(source) /\ ~source.finalization_arming
         THEN <<"ExecutionLeaseExpired">> ELSE <<>>) \in Seq(V)
    BY Zenon, <1>2, <2>1
  <2>4. observer' \in [fault : BOOLEAN, fenced : BOOLEAN]
    BY Zenon, <1>1, <1>6 DEF BeginForcedContainment
  <2> QED BY Zenon, <1>1, <1>6, <2>2, <2>3, <2>4, CallKeepsInv
          DEF BeginForcedContainment
<1> QED BY <1>3, <1>4, <1>5, <1>6 DEF Request

\* The coordinator: it waits only after it found the queue empty.
LEMMA CoordinateKeepsInv ==
  ASSUME Inv, Coordinate
  PROVE  Inv'
<1> DEFINE V == AnyReason \cup {"None", "Version"}
           C == "Coordinator"
<1>1. /\ C \in Task /\ TypeOK /\ WakeupInv
      /\ source \in Source /\ reader \in Reader /\ sends \in Nat
      /\ observer \in [fault : BOOLEAN, fenced : BOOLEAN]
      /\ reason \in AnyReason \cup {"None"}
  BY DEF Task, Inv, TypeOK
<1>2. ASSUME UNCHANGED <<host, source, reason, sends, publishing>>,
             reader' \in Reader,
             observer' \in [fault : BOOLEAN, fenced : BOOLEAN],
             reader'.seen \in {reader.seen, sends},
             reader'.at = "Waiting" => ~Available'
      PROVE  Inv'
  BY <1>1, <1>2 DEF Inv, TypeOK, WakeupInv, Reader
<1>3. ASSUME UNCHANGED <<host, reason, sends, publishing>>,
             source' \in Source, reader' \in Reader,
             observer' \in [fault : BOOLEAN, fenced : BOOLEAN],
             reader'.seen = reader.seen, reader'.at # "Waiting"
      PROVE  Inv'
  BY <1>1, <1>3 DEF Inv, TypeOK, WakeupInv
<1>4. /\ TakeOperation \in Reader
      /\ TakeOperation.at = "Reducing"
      /\ TakeOperation.seen = sends
  <2> DEFINE moved    == [reader EXCEPT !.at = "Reducing"]
             advanced == [moved EXCEPT !.next_index = @ + 1]
             taken    == [advanced EXCEPT !.seen = sends]
  <2>1. moved \in Reader /\ moved.at = "Reducing"
    BY <1>1 DEF Reader
  <2> HIDE DEF moved
  <2>2. advanced \in Reader /\ advanced.at = "Reducing"
    BY <2>1 DEF Reader
  <2> HIDE DEF advanced
  <2>3. taken \in Reader /\ taken.at = "Reducing" /\ taken.seen = sends
    BY <1>1, <2>2 DEF Reader
  <2>4. TakeOperation = taken
    BY DEF TakeOperation, taken, advanced, moved
  <2> QED BY <2>3, <2>4
<1>5. \A o \in Reported : o \in [fault : BOOLEAN, fenced : BOOLEAN]
  BY Zenon, <1>1 DEF Reported
<1>6. CASE Start
  BY Zenon, <1>1, <1>2, <1>4, <1>6 DEF Start, Reader
<1>7. CASE Check
  BY <1>1, <1>2, <1>7 DEF Check, Reader, Available
<1>8. CASE Wake
  BY Zenon, <1>1, <1>2, <1>8 DEF Wake, Reader
<1>9. CASE ReadOperation
  BY <1>1, <1>2, <1>4, <1>9 DEF ReadOperation, Reader
<1>10. CASE ReceiveDelivery
  BY <1>1, <1>2, <1>4, <1>10 DEF ReceiveDelivery, Reader
<1>11. CASE CommitReduction
  BY <1>1, <1>2, <1>5, <1>11 DEF CommitReduction, Reader
<1>12. CASE BeginFinalizationArm
  <2>1. source' \in Source
    BY Zenon, <1>1, <1>12 DEF BeginFinalizationArm, Source
  <2> QED BY <1>1, <1>3, <1>12, <2>1 DEF BeginFinalizationArm, Reader
<1>13. CASE ObserveFinalization
  <2>1. reason \in host.carried => WithCancellation(source, reason) \in Source
    BY <1>1, HostFacts, RequestTypes
  <2>2. source' \in Source
    BY <1>1, <1>13, <2>1 DEF ObserveFinalization
  <2> QED BY <1>1, <1>3, <1>5, <1>13, <2>2 DEF ObserveFinalization, Reader
<1>14. CASE CompleteFinalizationArm
  <2>1. source' \in Source /\ publishing[C] = <<>>
    BY <1>1, <1>14, ArmTypes DEF CompleteFinalizationArm, Idle
  <2>2. <<source'.phase_reason>> \in Seq(V)
    <3>1. source'.phase_reason \in V
      BY <2>1 DEF Source
    <3> QED BY <3>1
  <2>3. /\ reader' \in Reader /\ reader'.at # "Waiting"
        /\ reader'.seen = reader.seen
    BY <1>1, <1>14 DEF CompleteFinalizationArm, Reader
  <2> QED BY Zenon, <1>1, <1>14, <2>1, <2>2, <2>3, CallKeepsInv
          DEF CompleteFinalizationArm
<1>15. CASE AbortFinalizationArm
  <2>1. source' \in Source
    BY <1>1, <1>15, ArmTypes DEF AbortFinalizationArm
  <2> QED BY <1>1, <1>3, <1>15, <2>1 DEF AbortFinalizationArm, Reader
<1> QED BY <1>6, <1>7, <1>8, <1>9, <1>10, <1>11, <1>12, <1>13, <1>14, <1>15
        DEF Coordinate

-----------------------------------------------------------------------------
(* What the source and its subscription guarantee.                         *)

\* The types and the wakeup invariant hold in every run.
THEOREM SourceInvariance == Spec => []Inv
<1>1. Init => Inv
  <2> SUFFICES ASSUME Init PROVE Inv
    OBVIOUS
  <2>1. TypeOK
    <3>1. source \in Source
      BY DEF Init, Source
    <3>2. reader \in Reader
      BY DEF Init, Reader
    <3>3. publishing \in [Task -> Sends]
      BY DEF Init, Sends
    <3> QED BY <3>1, <3>2, <3>3 DEF Init, TypeOK
  <2> QED BY <2>1 DEF Init, Inv, WakeupInv
<1>2. Inv /\ [Next]_vars => Inv'
  <2> SUFFICES ASSUME Inv, [Next]_vars PROVE Inv'
    OBVIOUS
  <2>1. CASE \E t \in host.requesters : Request(t)
    BY <2>1, RequestKeepsInv
  <2>2. CASE \E t \in Task : Publish(t)
    BY <2>2, PublishKeepsInv
  <2>3. CASE Coordinate
    BY <2>3, CoordinateKeepsInv
  <2>4. CASE UNCHANGED vars
    BY <2>4 DEF vars, Inv, TypeOK, WakeupInv, Available, VersionPending
  <2> QED BY <2>1, <2>2, <2>3, <2>4 DEF Next
<1> QED BY <1>1, <1>2, PTL DEF Spec

\* The source, the watches and the subscription keep their types through every
\* interleaving of requests, sends and reads.
THEOREM SourceTypeCorrect == Spec => []TypeOK
<1>1. Inv => TypeOK
  BY DEF Inv
<1> QED BY <1>1, SourceInvariance, PTL

\* changed() and next_operation never sleep through an operation, however many
\* tasks request cancellation and however their calls interleave.
THEOREM WakeupNeverLost == Spec => []NoLostWakeup
<1>1. Inv => NoLostWakeup
  <2> SUFFICES ASSUME Inv, reader.at = "Waiting", Available, Quiet
               PROVE  sends # reader.seen
    BY DEF NoLostWakeup
  <2>1. ~VersionPending
    BY DEF Quiet, VersionPending
  <2> QED BY <2>1 DEF Inv, WakeupInv
<1> QED BY <1>1, SourceInvariance, PTL
=============================================================================
