-------------------------------- MODULE Loops --------------------------------
(***************************************************************************)
(* The loops of the workflow reducer, `while let Some(...) = next(state)`  *)
(* and `loop { ...; if unchanged { break } }`, as functions.  A loop body  *)
(* is a function f on a set S of states that returns its argument when it  *)
(* has nothing left to do.                                                 *)
(***************************************************************************)
EXTENDS Naturals

\* While(S, f)[k][s]: the state reached from s by running the body f until it
\* changes nothing, at most k times.
While(S, f) ==
  LET run[k \in Nat] ==
        [s \in S |->
           IF k = 0 THEN s
           ELSE LET t == f[s]
                IN  IF t = s THEN s ELSE run[k-1][t]]
  IN  run
=============================================================================
