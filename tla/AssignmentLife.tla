--------------------------- MODULE AssignmentLife ---------------------------
(***************************************************************************)
(* What a runner promises about the assignments it is offered, whatever    *)
(* the cloud and the connection do: it holds one at a time, executes an    *)
(* assignment at most once, only after it accepted it and while it holds   *)
(* it, and does not let go of it before the execution is over.             *)
(***************************************************************************)
CONSTANT Assignment

VARIABLES
    holder,     \* the assignment the runner holds, 0 when it holds none
    accepted,   \* the assignments it has accepted
    executing,  \* the assignment whose execution may have effects, or 0
    executed    \* the assignments whose execution has begun

lifeVars == <<holder, accepted, executing, executed>>

LifeInit == holder = 0 /\ accepted = {} /\ executing = 0 /\ executed = {}

\* Letting go of one assignment may be the step that takes the next.
HandOver(a) ==
    /\ executing = 0
    /\ a # holder
    /\ a \notin accepted
    /\ holder' = a
    /\ UNCHANGED <<accepted, executing, executed>>

Accept(a) ==
    /\ holder = a
    /\ a \notin accepted
    /\ accepted' = accepted \cup {a}
    /\ UNCHANGED <<holder, executing, executed>>

Execute(a) ==
    /\ holder = a
    /\ a \in accepted \ executed
    /\ executing' = a
    /\ executed' = executed \cup {a}
    /\ UNCHANGED <<holder, accepted>>

\* The execution ends; the runner may let go at once.
End ==
    /\ executing # 0
    /\ executing' = 0
    /\ holder' \in {holder, 0}
    /\ UNCHANGED <<accepted, executed>>

LifeNext ==
    \/ \E a \in Assignment \cup {0} : HandOver(a)
    \/ \E a \in Assignment : Accept(a) \/ Execute(a)
    \/ End

LifeSpec == LifeInit /\ [][LifeNext]_lifeVars
=============================================================================
