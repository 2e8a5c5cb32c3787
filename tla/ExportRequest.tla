----------------------------- MODULE ExportRequest -----------------------------
(***************************************************************************)
(* /api/export (export-routes.ts, export-runner.ts, concurrency-gate.ts,   *)
(* db/interrupt.ts): each export takes a slot of the gate, a connection of *)
(* the pool, and a temporary directory (csv, parquet) or a streamed result *)
(* (arrow), and gives them back on every path: success, refusal, error,    *)
(* timeout, client gone.  Two things leave the directory on the disk: its  *)
(* removal fails, or the process dies; a later startup may purge it.       *)
(*                                                                         *)
(* An action is the code between two awaits.  The pool is its free         *)
(* connections: ConnectionPool models it.  An aborted DuckDB step fails,   *)
(* or ends and its abort is seen right after.  Bound: an export has one    *)
(* directory, so one whose directory was left behind is not asked for      *)
(* again until it is purged; the other exports are.                        *)
(***************************************************************************)
EXTENDS Naturals, FiniteSets

CONSTANTS
  Clients, Exports,
  ClientOf,        \* the client of each export
  Copied,          \* the exports in csv or parquet; the others are in arrow
  MaxPerClient, MaxTotal,
  PoolSize

ASSUME ExportAssumption ==
  /\ IsFiniteSet(Exports)
  /\ ClientOf \in [Exports -> Clients]
  /\ Copied \subseteq Exports
  /\ {MaxPerClient, MaxTotal, PoolSize} \subseteq Nat \ {0}

VARIABLES
  up,         \* whether the process runs
  perClient, total,   \* the gate
  free,       \* the free connections of the pool
  pc,         \* where each export stands
  slot, conn, \* whether it holds a slot, a connection
  dir,        \* whether its temporary directory is on the disk
  stream,     \* its streamed result
  listening,  \* whether its timer and its close listener are armed
  aborted,    \* whether its signal has fired
  gone,       \* whether its client has disconnected
  response,   \* what the client has got
  left        \* the directories left behind, whose removal failed or whose process
              \* died: their age for the purge, or "none"

gate == <<perClient, total>>
vars == <<up, perClient, total, free, pc, slot, conn, dir, stream, listening, aborted,
          gone, response, left>>

(* DuckDB works for the export in these places.                             *)
Running == {"probing", "opening", "copying", "streaming"}
Places == Running \cup {"idle", "validating", "acquiring", "sending", "flushing",
                        "finishing", "failing", "closing"}

TypeOK ==
  /\ up \in BOOLEAN
  /\ perClient \in [Clients -> 0..MaxPerClient] /\ total \in 0..MaxTotal
  /\ free \in 0..PoolSize
  /\ pc \in [Exports -> Places]
  /\ slot \in [Exports -> BOOLEAN] /\ conn \in [Exports -> BOOLEAN]
  /\ dir \in [Exports -> BOOLEAN]
  /\ stream \in [Exports -> {"none", "open", "read"}]
  /\ listening \in [Exports -> BOOLEAN] /\ aborted \in [Exports -> BOOLEAN]
  /\ gone \in [Exports -> BOOLEAN]
  /\ response \in [Exports -> {"none", "part", "complete", "error", "truncated"}]
  /\ left \in [Exports -> {"none", "young", "old"}]

Off == [e \in Exports |-> FALSE]

Init ==
  /\ up = TRUE
  /\ perClient = [c \in Clients |-> 0] /\ total = 0
  /\ free = PoolSize
  /\ pc = [e \in Exports |-> "idle"]
  /\ slot = Off /\ conn = Off /\ dir = Off
  /\ stream = [e \in Exports |-> "none"]
  /\ listening = Off /\ aborted = Off /\ gone = Off
  /\ response = [e \in Exports |-> "none"]
  /\ left = [e \in Exports |-> "none"]

-----------------------------------------------------------------------------
At(e, place) == pc[e] = place
Go(e, place) == pc' = [pc EXCEPT ![e] = place]

(* releaseConnection() and releaseSlot(), both idempotent.                  *)
ReleaseConnection(e) ==
  /\ conn' = [conn EXCEPT ![e] = FALSE]
  /\ free' = IF conn[e] THEN free + 1 ELSE free

(* Faulty: releaseSlot is not idempotent.                                   *)
FaultyReleaseSlot(e) ==
  /\ slot' = [slot EXCEPT ![e] = FALSE]
  /\ total' = IF total > 0 THEN total - 1 ELSE total
  /\ perClient' = [perClient EXCEPT ![ClientOf[e]] = IF @ > 0 THEN @ - 1 ELSE @]

ReleaseSlot(e) ==
  /\ slot' = [slot EXCEPT ![e] = FALSE]
  /\ total' = IF slot[e] THEN total - 1 ELSE total
  /\ perClient' = IF slot[e] THEN [perClient EXCEPT ![ClientOf[e]] = @ - 1] ELSE perClient

(* The finally block, in the same turn as what precedes it.                 *)
Finally(e) ==
  /\ ReleaseConnection(e)
  /\ ReleaseSlot(e)
  /\ listening' = [listening EXCEPT ![e] = FALSE]
  /\ Go(e, "idle")

(* sendExportError(): a JSON error before the first byte, a destroyed       *)
(* connection after, nothing for a client that has gone.                    *)
SendError(e) ==
  response' = [response EXCEPT ![e] =
    IF gone[e] THEN @ ELSE IF @ = "part" THEN "truncated" ELSE "error"]

Fail(e) == SendError(e) /\ Finally(e)

-----------------------------------------------------------------------------
(* The client.                                                              *)

Request(e) ==
  /\ up /\ At(e, "idle") /\ ~dir[e]
  /\ Go(e, "validating")
  /\ response' = [response EXCEPT ![e] = "none"]
  /\ aborted' = [aborted EXCEPT ![e] = FALSE]
  /\ gone' = [gone EXCEPT ![e] = FALSE]
  /\ UNCHANGED <<up, gate, free, slot, conn, dir, stream, listening, left>>

(* onClose(), once it is installed.                                         *)
ClientLeaves(e) ==
  /\ ~At(e, "idle") /\ ~gone[e]
  /\ response[e] \in {"none", "part"}
  /\ gone' = [gone EXCEPT ![e] = TRUE]
  /\ aborted' = [aborted EXCEPT ![e] = @ \/ listening[e]]
  /\ UNCHANGED <<up, gate, free, pc, slot, conn, dir, stream, listening, response, left>>

(* The timer: TIMEOUT_MS to the first byte, TRANSFER_TIMEOUT_MS after it.   *)
Timeout(e) ==
  /\ listening[e] /\ ~aborted[e]
  /\ aborted' = [aborted EXCEPT ![e] = TRUE]
  /\ UNCHANGED <<up, gate, free, pc, slot, conn, dir, stream, listening, gone, response,
                 left>>

-----------------------------------------------------------------------------
(* The handler up to the first byte.                                        *)

Invalid(e) ==
  /\ At(e, "validating")
  /\ Fail(e)
  /\ UNCHANGED <<up, dir, stream, aborted, gone, left>>

(* Faulty: only the global ceiling is checked.                              *)
FaultyHasSlot(e) == total < MaxTotal

HasSlot(e) == perClient[ClientOf[e]] < MaxPerClient /\ total < MaxTotal

(* Faulty: the timer is not armed.                                          *)
FaultyTakeSlot(e) ==
  /\ At(e, "validating") /\ HasSlot(e)
  /\ slot' = [slot EXCEPT ![e] = TRUE]
  /\ total' = total + 1
  /\ perClient' = [perClient EXCEPT ![ClientOf[e]] = @ + 1]
  /\ Go(e, "acquiring")
  /\ UNCHANGED <<up, free, conn, dir, stream, listening, aborted, gone, response, left>>

(* tryAcquire() and, in the same turn, the timer and the close listener.    *)
TakeSlot(e) ==
  /\ At(e, "validating") /\ HasSlot(e)
  /\ slot' = [slot EXCEPT ![e] = TRUE]
  /\ total' = total + 1
  /\ perClient' = [perClient EXCEPT ![ClientOf[e]] = @ + 1]
  /\ listening' = [listening EXCEPT ![e] = TRUE]
  /\ Go(e, "acquiring")
  /\ UNCHANGED <<up, free, conn, dir, stream, aborted, gone, response, left>>

Refused(e) ==
  /\ At(e, "validating") /\ ~HasSlot(e)
  /\ Fail(e)
  /\ UNCHANGED <<up, dir, stream, aborted, gone, left>>

(* acquire() does not take the signal: an aborted export waits too.         *)
Connect(e) ==
  /\ At(e, "acquiring") /\ free > 0
  /\ free' = free - 1
  /\ conn' = [conn EXCEPT ![e] = TRUE]
  /\ Go(e, "probing")
  /\ UNCHANGED <<up, gate, slot, dir, stream, listening, aborted, gone, response, left>>

AcquireFails(e) ==
  /\ At(e, "acquiring")
  /\ Fail(e)
  /\ UNCHANGED <<up, dir, stream, aborted, gone, left>>

(* Count, and boundary of a truncated page.                                 *)
Probed(e) ==
  /\ At(e, "probing") /\ ~aborted[e]
  /\ Go(e, "opening")
  /\ UNCHANGED <<up, gate, free, slot, conn, dir, stream, listening, aborted, gone,
                 response, left>>

(* Interrupted, refused with a 413, or an error of DuckDB or of mkdtemp.    *)
QueryFails(e) ==
  /\ pc[e] \in {"probing", "opening"}
  /\ Fail(e)
  /\ UNCHANGED <<up, dir, stream, aborted, gone, left>>

-----------------------------------------------------------------------------
(* runCopyExport().                                                         *)

MakeDir(e) ==
  /\ At(e, "opening") /\ e \in Copied
  /\ dir' = [dir EXCEPT ![e] = TRUE]
  /\ Go(e, "copying")
  /\ UNCHANGED <<up, gate, free, slot, conn, stream, listening, aborted, gone, response,
                 left>>

(* The file is written: the connection goes back, whatever comes next.      *)
CopyDone(e) ==
  /\ At(e, "copying")
  /\ ReleaseConnection(e)
  /\ Go(e, IF aborted[e] THEN "failing" ELSE "sending")
  /\ UNCHANGED <<up, gate, slot, dir, stream, listening, aborted, gone, response, left>>

CopyFails(e) ==
  /\ At(e, "copying")
  /\ Go(e, "failing")
  /\ UNCHANGED <<up, gate, free, slot, conn, dir, stream, listening, aborted, gone,
                 response, left>>

(* Faulty: the response ends with the file, before the cleanup.             *)
FaultySent(e) ==
  /\ At(e, "sending") /\ ~aborted[e] /\ ~gone[e]
  /\ response' = [response EXCEPT ![e] = "complete"]
  /\ Go(e, "finishing")
  /\ UNCHANGED <<up, gate, free, slot, conn, dir, stream, listening, aborted, gone, left>>

(* Everything but the last byte is sent.                                    *)
Sent(e) ==
  /\ At(e, "sending") /\ ~aborted[e] /\ ~gone[e]
  /\ response' = [response EXCEPT ![e] = "part"]
  /\ Go(e, "finishing")
  /\ UNCHANGED <<up, gate, free, slot, conn, dir, stream, listening, aborted, gone, left>>

SendFails(e) ==
  /\ At(e, "sending")
  /\ response' = [response EXCEPT ![e] = "part"]
  /\ Go(e, "failing")
  /\ UNCHANGED <<up, gate, free, slot, conn, dir, stream, listening, aborted, gone, left>>

(* The end of the response is written: finish().                            *)
Finish(e) ==
  response' = [response EXCEPT ![e] = IF gone[e] THEN @ ELSE "complete"]

(* Faulty: a failed export leaves its directory.                            *)
FaultyRemoveDir(e) ==
  /\ pc[e] \in {"finishing", "failing"}
  /\ dir' = [dir EXCEPT ![e] = At(e, "failing")]
  /\ IF At(e, "finishing") THEN Finish(e) ELSE SendError(e)
  /\ Finally(e)
  /\ UNCHANGED <<up, stream, aborted, gone, left>>

(* The directory is removed; finish(), or the error, follows in one turn.   *)
RemoveDir(e) ==
  /\ pc[e] \in {"finishing", "failing"}
  /\ dir' = [dir EXCEPT ![e] = FALSE]
  /\ IF At(e, "finishing") THEN Finish(e) ELSE SendError(e)
  /\ Finally(e)
  /\ UNCHANGED <<up, stream, aborted, gone, left>>

(* fs.rm rejects after its retries: the directory stays, the error of rm    *)
(* takes the place of whatever went before, and the handler gives back the  *)
(* rest.                                                                    *)
RemoveFails(e) ==
  /\ pc[e] \in {"finishing", "failing"}
  /\ left' = [left EXCEPT ![e] = "young"]
  /\ Fail(e)
  /\ UNCHANGED <<up, dir, stream, aborted, gone>>

-----------------------------------------------------------------------------
(* runArrowExport().                                                        *)

OpenStream(e) ==
  /\ At(e, "opening") /\ e \notin Copied
  /\ stream' = [stream EXCEPT ![e] = "open"]
  /\ response' = [response EXCEPT ![e] = "part"]
  /\ Go(e, "streaming")
  /\ UNCHANGED <<up, gate, free, slot, conn, dir, listening, aborted, gone, left>>

(* Every chunk is read and written.                                         *)
StreamRead(e) ==
  /\ At(e, "streaming") /\ ~aborted[e]
  /\ stream' = [stream EXCEPT ![e] = "read"]
  /\ Go(e, "flushing")
  /\ UNCHANGED <<up, gate, free, slot, conn, dir, listening, aborted, gone, response, left>>

(* Faulty: the connection goes back before the result is closed.            *)
FaultyStreamFails(e) ==
  /\ pc[e] \in {"streaming", "flushing"}
  /\ ReleaseConnection(e)
  /\ ReleaseSlot(e)
  /\ response' = [response EXCEPT ![e] = "truncated"]
  /\ Go(e, "closing")
  /\ UNCHANGED <<up, dir, stream, listening, aborted, gone, left>>

(* The iteration was cut by the signal, or reading or sending failed: the   *)
(* response is destroyed, and once the pipeline has ended the result is     *)
(* closed.                                                                  *)
StreamFails(e) ==
  /\ pc[e] \in {"streaming", "flushing"}
  /\ response' = [response EXCEPT ![e] = "truncated"]
  /\ Go(e, "closing")
  /\ UNCHANGED <<up, gate, free, slot, conn, dir, stream, listening, aborted, gone, left>>

(* finish() precedes closeSync().                                           *)
Flushed(e) ==
  /\ At(e, "flushing") /\ ~aborted[e] /\ ~gone[e]
  /\ ReleaseConnection(e)
  /\ ReleaseSlot(e)
  /\ Finish(e)
  /\ Go(e, "closing")
  /\ UNCHANGED <<up, dir, stream, listening, aborted, gone, left>>

CloseStream(e) ==
  /\ At(e, "closing")
  /\ stream' = [stream EXCEPT ![e] = "none"]
  /\ Finally(e)
  /\ UNCHANGED <<up, dir, aborted, gone, response, left>>

-----------------------------------------------------------------------------
(* The process dies and starts again; purgeStaleExports() then removes the  *)
(* directories older than any live export can be, those it can remove.      *)

Crash ==
  /\ up
  /\ up' = FALSE
  /\ perClient' = [c \in Clients |-> 0] /\ total' = 0 /\ free' = PoolSize
  /\ pc' = [e \in Exports |-> "idle"]
  /\ slot' = Off /\ conn' = Off /\ listening' = Off
  /\ stream' = [e \in Exports |-> "none"]
  /\ left' = [e \in Exports |-> IF dir[e] /\ left[e] = "none" THEN "young" ELSE left[e]]
  /\ response' = [e \in Exports |-> IF response[e] = "part" THEN "truncated" ELSE response[e]]
  /\ UNCHANGED <<dir, aborted, gone>>

GrowsOld(e) ==
  /\ left[e] = "young"
  /\ left' = [left EXCEPT ![e] = "old"]
  /\ UNCHANGED <<up, gate, free, pc, slot, conn, dir, stream, listening, aborted, gone,
                 response>>

Start ==
  /\ ~up
  /\ up' = TRUE
  /\ \E purged \in SUBSET {e \in Exports : left[e] = "old"} :
       /\ dir' = [e \in Exports |-> dir[e] /\ e \notin purged]
       /\ left' = [e \in Exports |-> IF e \in purged THEN "none" ELSE left[e]]
  /\ UNCHANGED <<gate, free, pc, slot, conn, stream, listening, aborted, gone, response>>

-----------------------------------------------------------------------------
Validate(e) == Invalid(e) \/ TakeSlot(e) \/ Refused(e)
Acquire(e) == Connect(e) \/ AcquireFails(e)
CopyEnds(e) == CopyDone(e) \/ CopyFails(e)
Cleanup(e) == RemoveDir(e) \/ RemoveFails(e) \/ CloseStream(e)

Next ==
  \/ \E e \in Exports :
       \/ Request(e) \/ ClientLeaves(e) \/ Timeout(e)
       \/ Validate(e) \/ Acquire(e) \/ Probed(e) \/ QueryFails(e)
       \/ MakeDir(e) \/ CopyEnds(e) \/ Sent(e) \/ SendFails(e)
       \/ OpenStream(e) \/ StreamRead(e) \/ StreamFails(e) \/ Flushed(e)
       \/ Cleanup(e) \/ GrowsOld(e)
  \/ Crash \/ Start

Spec == Init /\ [][Next]_vars

(* Nothing is asked of DuckDB, of the disk or of the client beyond this:    *)
(* the timer fires, what an abort interrupts ends, the validation, the pool *)
(* and the cleanup answer.                                                  *)
Fairness ==
  \A e \in Exports :
    /\ WF_vars(Timeout(e)) /\ WF_vars(Validate(e)) /\ WF_vars(Acquire(e))
    /\ WF_vars(Cleanup(e))
    /\ WF_vars(aborted[e] /\ (QueryFails(e) \/ CopyEnds(e)))
    /\ WF_vars(aborted[e] /\ (SendFails(e) \/ StreamFails(e)))

FairSpec == Spec /\ Fairness

-----------------------------------------------------------------------------
(* Properties *)

Holding(held) == {e \in Exports : held[e]}

(* The gate counts the slots held and the pool the connections out, so no   *)
(* path gives anything back twice or keeps it: the ceilings are those of    *)
(* the exports in flight.                                                   *)
NothingLeaks ==
  /\ total = Cardinality(Holding(slot))
  /\ \A c \in Clients :
       perClient[c] = Cardinality({e \in Holding(slot) : ClientOf[e] = c})
  /\ free = PoolSize - Cardinality(Holding(conn))

(* An interrupt of the timer or of the close listener only reaches a        *)
(* connection the export still holds, and a connection goes back to the     *)
(* pool with no result left to read on it.                                  *)
ConnectionIsClean ==
  \A e \in Exports : pc[e] \in Running \/ stream[e] = "open" => conn[e]

(* "slot and temporary files are released before the client sees the end"   *)
(* of a complete response: a client that chains exports never runs into its *)
(* previous one.  After an error the slot and the connection are back, and  *)
(* the directory too, unless it was its removal that failed.                *)
CompleteMeansReleased ==
  \A e \in Exports :
    /\ response[e] \in {"complete", "error"} => ~slot[e] /\ ~conn[e]
    /\ response[e] = "complete" => ~dir[e]
    /\ response[e] = "error" /\ dir[e] => left[e] # "none"

(* The slots bound the disk, but for what was left behind: a temporary      *)
(* directory belongs to an export that holds a slot, unless its removal has *)
(* failed or its process has died.                                          *)
SlotsBoundTheDisk == \A e \in Exports : dir[e] => slot[e] \/ left[e] # "none"

(* Every export ends, and gives back what it holds, whatever the database   *)
(* and the client do.                                                       *)
EveryExportEnds == \A e \in Exports : ~At(e, "idle") ~> At(e, "idle")

(* export-routes.ts, onClose: "Déconnexion du client avant la fin de        *)
(* l'envoi : interruption de l'export".                                     *)
GoneMeansAborted == \A e \in Exports : gone[e] /\ pc[e] \in Running => aborted[e]

=============================================================================
