------------------------------- MODULE PodProcess -------------------------------
(***************************************************************************)
(* What one process of the server runs beside its pool and its catalogs:   *)
(* the batches of its loaders (LoaderBatch) and its shutdown (Shutdown),   *)
(* each with the safety property it is relied upon for.  The two share no  *)
(* state: a shutdown knows of requests and of the pool, not of batches.    *)
(***************************************************************************)

CONSTANTS
  Batches, BatchKeys, Together, Connections, None,   \* those of LoaderBatch
  Requests, Monitor                                  \* those of Shutdown

VARIABLES
  at, acquisition, timer, opened, free, issued, exec, hit,
  stage, step, failed, grace, watchdog, code, request, holds, pool, ticking, running

Batch == INSTANCE LoaderBatch WITH Keys <- BatchKeys
Stop == INSTANCE Shutdown WITH timer <- ticking, probe <- running

(* A connection is no state of an acquisition, None is no statement, and    *)
(* the monitor is no request.                                               *)
ASSUME ConnectionsAssumption ==
  Connections \cap {"none", "pending", "opening", "failed", "released"} = {}
ASSUME NoneAssumption == None \notin Batch!Statements
ASSUME MonitorAssumption == Monitor \notin Requests

-----------------------------------------------------------------------------
(* LoaderBatch: a batch steps on a connection of its own and gives it back; *)
(* a deadline interrupts no other batch.                                    *)
BatchesAreSound == Batch!ConnectionsAreKept /\ Batch!OnlyTheLateAreInterrupted

(* Shutdown: who was accepted is answered, or had its time; exit code 0     *)
(* means so.                                                                *)
AcceptedAreServed == Stop!AcceptedAreServed

=============================================================================
