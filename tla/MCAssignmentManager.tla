---------------------- MODULE MCAssignmentManager ----------------------
(***************************************************************************)
(* Instances of AssignmentManager.                                         *)
(***************************************************************************)
EXTENDS AssignmentManager

\* Two assignments: a predecessor and a successor that contend for the slot.
Two == {1, 2}
First == {1}

\* Both modes of cancelling the first, and each kind of release.
FirstCancelled == {1} \X Modes
EachReleased == {<<1, "LeaseExpired">>, <<2, "OfferExpired">>}

Nothing == {}
=============================================================================
