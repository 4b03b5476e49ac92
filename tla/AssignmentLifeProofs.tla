----------------------- MODULE AssignmentLifeProofs -----------------------
(***************************************************************************)
(* What the abstract life of assignments promises, for any set of them.    *)
(* AssignmentManager implements AssignmentLife on the instances of its     *)
(* runs, so there it keeps these promises too.                             *)
(***************************************************************************)
EXTENDS AssignmentLife, TLAPS

\* What executes is the assignment the runner holds, which it accepted.
ExecutesWhatItHolds ==
    /\ executing # 0 => holder = executing /\ executing \in executed
    /\ executed \subseteq accepted

\* An execution is followed by another one only after it is over, and nothing
\* is executed a second time.
OneExecutionAtATime ==
    [][executing' # executing =>
          \/ executing' = 0
          \/ executing = 0 /\ executing' \notin executed]_lifeVars

\* The slot of the runner is what keeps executions apart: the held assignment
\* changes only while nothing executes.
THEOREM LifeHolds == LifeSpec => []ExecutesWhatItHolds
<1>1. LifeInit => ExecutesWhatItHolds
  BY DEF LifeInit, ExecutesWhatItHolds
<1>2. ExecutesWhatItHolds /\ [LifeNext]_lifeVars => ExecutesWhatItHolds'
  BY DEF ExecutesWhatItHolds, LifeNext, lifeVars, HandOver, Accept, Execute, End
<1> QED
  BY <1>1, <1>2, PTL DEF LifeSpec

\* A start that is repeated, or that arrives while another assignment executes,
\* begins nothing.
THEOREM LifeIsSequential == LifeSpec => OneExecutionAtATime
<1>1. ExecutesWhatItHolds /\ [LifeNext]_lifeVars =>
         (executing' # executing =>
             \/ executing' = 0
             \/ executing = 0 /\ executing' \notin executed)
  BY DEF ExecutesWhatItHolds, LifeNext, lifeVars, HandOver, Accept, Execute, End
<1> QED
  BY <1>1, LifeHolds, PTL DEF LifeSpec, OneExecutionAtATime
=============================================================================
