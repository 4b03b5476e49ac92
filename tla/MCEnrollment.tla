---------------------------- MODULE MCEnrollment ----------------------------
(***************************************************************************)
(* Activations and processes are interchangeable, and no liveness property *)
(* is checked, so both may be permuted.                                    *)
(***************************************************************************)
EXTENDS Enrollment, TLC

Symmetry == Permutations(Activation) \cup Permutations(Process)
=============================================================================
