------------------------------- MODULE MCShutdown -------------------------------
(* A request and the monitor.                                               *)
EXTENDS Shutdown

CONSTANTS r1, monitor

=============================================================================
