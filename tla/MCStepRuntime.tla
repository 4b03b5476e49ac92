---------------------------- MODULE MCStepRuntime ----------------------------
(***************************************************************************)
(* Small workflows for the runs over StepRuntime.                          *)
(***************************************************************************)
EXTENDS StepRuntime, MCWorkflowRuntime

\* 2 depends on 1.
ChainControl == From({<<2, 1>>})

\* 1 recovers once through a handler.
DriverRetries == Rounds({<<1, 1>>})
=============================================================================
