------------------------ MODULE MCCancellationSource ------------------------
(***************************************************************************)
(* The two programs a cancellation source is part of.                      *)
(***************************************************************************)
EXTENDS CancellationSource

\* The local command: signal observation, the terminal host and the presenter
\* request cancellation on a multi-threaded runtime.
LocalCommand ==
  [ requesters |-> {"Signals", "Terminal"},
    graceful |-> {"UserRequest", "CallerOutputFailure"}, ordinary_only |-> {},
    carried |-> {}, preemptive |-> TRUE, may_fault |-> FALSE ]

\* The runner: the manager requests ordinary cancellation for users, shutdown
\* and lease loss, on the one thread of its runtime.
Runner ==
  [ requesters |-> {"Manager"},
    graceful |-> {"RunnerShutdown", "ExecutionLeaseExpired"},
    ordinary_only |-> {"UserRequest"},
    carried |-> {"RunnerShutdown", "ExecutionLeaseExpired"},
    preemptive |-> FALSE, may_fault |-> TRUE ]

Programs == {LocalCommand, Runner}
=============================================================================
