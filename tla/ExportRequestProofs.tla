--------------------------- MODULE ExportRequestProofs ---------------------------
(***************************************************************************)
(* What an export holds at each place of its handler, for any number of    *)
(* exports and clients: proofs of ConnectionIsClean, SlotsBoundTheDisk and *)
(* CompleteMeansReleased of ExportRequest, which need neither the gate's   *)
(* counters nor the number of free connections; and from what is held,     *)
(* that the counters are right: NothingLeaks, and TypeOK with the ceilings *)
(* of the gate.                                                            *)
(***************************************************************************)
EXTENDS ExportRequest, FiniteSetTheorems, TLAPS

Responses == {"none", "part", "complete", "error", "truncated"}

(* The part of TypeOK about each export.                                   *)
Shape ==
  /\ pc \in [Exports -> Places]
  /\ slot \in [Exports -> BOOLEAN]
  /\ conn \in [Exports -> BOOLEAN]
  /\ dir \in [Exports -> BOOLEAN]
  /\ stream \in [Exports -> {"none", "open", "read"}]
  /\ response \in [Exports -> Responses]
  /\ left \in [Exports -> {"none", "young", "old"}]

(* Between TakeSlot and the end of the handler.                            *)
Admitted == {"acquiring", "probing", "opening", "copying", "streaming", "sending",
             "flushing", "finishing", "failing"}

(* What export e holds where it stands.                                    *)
Holds(e) ==
  /\ pc[e] \in {"idle", "validating"} => ~slot[e]
  /\ pc[e] \in {"idle", "validating", "acquiring"} => ~conn[e]
  /\ pc[e] \in Admitted => slot[e]
  /\ pc[e] \in Running => conn[e]
  /\ dir[e] => pc[e] \in {"copying", "sending", "finishing", "failing"} \/ left[e] # "none"
  /\ pc[e] \in {"copying", "sending", "finishing", "failing"} => dir[e]
  /\ left[e] # "none" => dir[e] /\ pc[e] = "idle"
  /\ stream[e] = "open" => conn[e] /\ pc[e] \in {"streaming", "closing"}
  /\ response[e] \in {"complete", "error"} =>
       pc[e] \in {"idle", "closing"} /\ ~slot[e] /\ ~conn[e]
  /\ response[e] = "complete" => ~dir[e]

ExportInv == Shape /\ \A e \in Exports : Holds(e)

exportVars == <<pc, slot, conn, dir, stream, response, left>>

(* A step of e that leaves the others alone.                               *)
Only(e) ==
  \A f \in Exports \ {e} :
    /\ pc'[f] = pc[f] /\ slot'[f] = slot[f] /\ conn'[f] = conn[f]
    /\ dir'[f] = dir[f] /\ stream'[f] = stream[f] /\ response'[f] = response[f]
    /\ left'[f] = left[f]

LEMMA OnlyKeeps ==
  ASSUME NEW e \in Exports, ExportInv, Shape', Only(e), Holds(e)'
  PROVE  ExportInv'
  <1>1. ASSUME NEW f \in Exports, f # e PROVE Holds(f)'
    <2>1. Holds(f)
      BY DEF ExportInv
    <2> QED
      BY <1>1, <2>1 DEF Only, Holds
  <1> QED
    BY <1>1 DEF ExportInv

LEMMA ExportInit == Init => ExportInv
  BY DEF Init, Off, ExportInv, Shape, Holds, Places, Running, Responses, Admitted

-----------------------------------------------------------------------------
(* The client and the timer touch nothing an export holds.                 *)
LEMMA OutsideKeeps ==
  ASSUME ExportInv, UNCHANGED exportVars
  PROVE  ExportInv'
  BY DEF ExportInv, Shape, Holds, exportVars

LEMMA RequestKeeps ==
  ASSUME NEW e \in Exports, ExportInv, Request(e)
  PROVE  ExportInv'
  <1>1. Shape' /\ Only(e)
    BY DEF ExportInv, Shape, Request, Only, Go, At, Places, Running, Responses
  <1>2. Holds(e)'
    BY DEF ExportInv, Shape, Holds, Request, Go, At, Admitted, Running
  <1> QED
    BY <1>1, <1>2, OnlyKeeps

(* The handler goes on, with what it takes.                                *)
LEMMA AdvanceKeeps ==
  ASSUME NEW e \in Exports, ExportInv,
         TakeSlot(e) \/ Connect(e) \/ Probed(e) \/ MakeDir(e) \/ CopyFails(e) \/ Sent(e)
         \/ SendFails(e) \/ OpenStream(e) \/ StreamRead(e) \/ StreamFails(e)
  PROVE  ExportInv'
  <1>1. Shape' /\ Only(e)
    BY DEF ExportInv, Shape, Only, Go, At, Places, Running, Responses, TakeSlot, Connect,
           Probed, MakeDir, CopyFails, Sent, SendFails, OpenStream, StreamRead, StreamFails
  <1>2. Holds(e)'
    BY DEF ExportInv, Shape, Holds, Go, At, Admitted, Running, Responses, TakeSlot, Connect,
           Probed, MakeDir, CopyFails, Sent, SendFails, OpenStream, StreamRead, StreamFails
  <1> QED
    BY <1>1, <1>2, OnlyKeeps

(* The connection goes back before the end of the handler.                 *)
LEMMA GivesBackKeeps ==
  ASSUME NEW e \in Exports, ExportInv, CopyDone(e) \/ Flushed(e)
  PROVE  ExportInv'
  <1>1. Shape' /\ Only(e)
    BY DEF ExportInv, Shape, Only, Go, At, Places, Running, Responses, CopyDone, Flushed,
           ReleaseConnection, ReleaseSlot, Finish
  <1>2. Holds(e)'
    BY DEF ExportInv, Shape, Holds, Go, At, Admitted, Running, Responses, CopyDone, Flushed,
           ReleaseConnection, ReleaseSlot, Finish
  <1> QED
    BY <1>1, <1>2, OnlyKeeps

(* The finally block: nothing is held any more.                            *)
LEMMA FinallyKeeps ==
  ASSUME NEW e \in Exports, ExportInv,
         Invalid(e) \/ Refused(e) \/ AcquireFails(e) \/ QueryFails(e) \/ RemoveDir(e)
         \/ CloseStream(e)
  PROVE  ExportInv'
  <1>1. Shape
    BY DEF ExportInv
  <1>2. Finally(e)
    BY DEF Invalid, Refused, AcquireFails, QueryFails, RemoveDir,
           CloseStream, Fail
  <1>3. /\ pc' = [pc EXCEPT ![e] = "idle"]
        /\ slot' = [slot EXCEPT ![e] = FALSE] /\ conn' = [conn EXCEPT ![e] = FALSE]
        /\ left' = left
    BY <1>2 DEF Finally, ReleaseConnection, ReleaseSlot, Go, Invalid, Refused, AcquireFails,
                QueryFails, RemoveDir, CloseStream
  <1>4. /\ dir' \in {dir, [dir EXCEPT ![e] = FALSE]}
        /\ pc[e] \in {"finishing", "failing"} => dir' = [dir EXCEPT ![e] = FALSE]
    BY DEF Invalid, Refused, AcquireFails, QueryFails, RemoveDir,
           CloseStream, At
  <1>5. /\ stream' \in {stream, [stream EXCEPT ![e] = "none"]}
        /\ pc[e] = "closing" => stream' = [stream EXCEPT ![e] = "none"]
    BY DEF Invalid, Refused, AcquireFails, QueryFails, RemoveDir,
           CloseStream, At
  <1>6. \E r \in Responses : response' \in {response, [response EXCEPT ![e] = r]}
    BY <1>1 DEF Shape, Responses, Invalid, Refused, AcquireFails, QueryFails, RemoveDir,
                CloseStream, Fail, SendError, Finish
  <1>7. Shape'
    <2>1. pc' \in [Exports -> Places]
      BY <1>1, <1>3 DEF Shape, Places
    <2>2. slot' \in [Exports -> BOOLEAN] /\ conn' \in [Exports -> BOOLEAN]
      BY <1>1, <1>3 DEF Shape
    <2>3. dir' \in [Exports -> BOOLEAN]
      BY <1>1, <1>4 DEF Shape
    <2>4. stream' \in [Exports -> {"none", "open", "read"}]
      BY <1>1, <1>5 DEF Shape
    <2>5. response' \in [Exports -> Responses]
      BY <1>1, <1>6 DEF Shape
    <2> QED
      BY <1>1, <1>3, <2>1, <2>2, <2>3, <2>4, <2>5 DEF Shape
  <1>8. Only(e)
    BY <1>1, <1>3, <1>4, <1>5, <1>6 DEF Shape, Only
  <1>9. ~dir'[e] /\ stream'[e] # "open"
    <2>1. /\ dir[e] => pc[e] \in {"copying", "sending", "finishing", "failing"} \/ pc[e] = "idle"
          /\ stream[e] = "open" => pc[e] \in {"streaming", "closing"}
      BY DEF ExportInv, Holds
    <2>2. pc[e] \notin {"copying", "sending", "streaming", "idle"}
      BY DEF Invalid, Refused, AcquireFails, QueryFails, RemoveDir,
             CloseStream, At
    <2> QED
      BY <1>1, <1>4, <1>5, <2>1, <2>2 DEF Shape
  <1>10. left[e] = "none"
    <2>1. pc[e] # "idle"
      BY DEF Invalid, Refused, AcquireFails, QueryFails, RemoveDir, CloseStream, At
    <2> QED
      BY <2>1 DEF ExportInv, Holds
  <1>11. Holds(e)'
    BY <1>1, <1>3, <1>9, <1>10 DEF Holds, Shape, Admitted, Running
  <1> QED
    BY <1>7, <1>8, <1>11, OnlyKeeps

(* The directory stays: it is one that was left behind, and the client has  *)
(* an error, a connection cut short, or nothing.                            *)
LEMMA RemoveFailsKeeps ==
  ASSUME NEW e \in Exports, ExportInv, RemoveFails(e)
  PROVE  ExportInv'
  <1>1. Shape /\ Holds(e) /\ pc[e] \in {"finishing", "failing"}
    BY DEF ExportInv, RemoveFails
  <1>2. /\ pc' = [pc EXCEPT ![e] = "idle"]
        /\ slot' = [slot EXCEPT ![e] = FALSE] /\ conn' = [conn EXCEPT ![e] = FALSE]
        /\ left' = [left EXCEPT ![e] = "young"] /\ dir' = dir /\ stream' = stream
    BY DEF RemoveFails, Fail, Finally, ReleaseConnection, ReleaseSlot, Go
  <1>3. PICK r \in Responses \ {"complete"} : response' = [response EXCEPT ![e] = r]
    <2>1. response[e] \in Responses /\ response[e] # "complete"
      BY <1>1 DEF Shape, Holds
    <2> QED
      BY <2>1 DEF RemoveFails, Fail, SendError, Responses
  <1>4. Shape'
    BY <1>1, <1>2, <1>3 DEF Shape, Places
  <1>5. Only(e)
    BY <1>1, <1>2, <1>3 DEF Shape, Only
  <1>6. Holds(e)'
    BY <1>1, <1>2, <1>3 DEF Shape, Holds, Admitted, Running
  <1> QED
    BY <1>4, <1>5, <1>6, OnlyKeeps

LEMMA CrashKeeps ==
  ASSUME ExportInv, Crash
  PROVE  ExportInv'
  BY DEF ExportInv, Shape, Holds, Crash, Off, Places, Running, Responses, Admitted

(* What was left behind grows old, and a startup purges it.                 *)
LEMMA LeftKeeps ==
  ASSUME ExportInv, Start \/ \E e \in Exports : GrowsOld(e)
  PROVE  ExportInv'
  <1>1. UNCHANGED <<pc, slot, conn, stream, response>>
    BY DEF Start, GrowsOld
  <1>2. PICK purged \in SUBSET Exports :
           /\ \A e \in Exports : e \in purged => left[e] # "none"
           /\ dir' \in [Exports -> BOOLEAN] /\ left' \in [Exports -> {"none", "young", "old"}]
           /\ \A e \in Exports : /\ dir'[e] <=> dir[e] /\ e \notin purged
                                 /\ left'[e] # "none" <=> left[e] # "none" /\ e \notin purged
    <2>1. CASE Start
      BY <2>1 DEF Start, ExportInv, Shape
    <2>2. CASE \E e \in Exports : GrowsOld(e)
      <3>1. PICK e \in Exports : /\ left[e] = "young" /\ left' = [left EXCEPT ![e] = "old"]
                                 /\ dir' = dir
        BY <2>2 DEF GrowsOld
      <3> WITNESS {} \in SUBSET Exports
      <3> QED
        BY <3>1 DEF ExportInv, Shape
    <2> QED
      BY <2>1, <2>2
  <1>3. Shape'
    BY <1>1, <1>2 DEF ExportInv, Shape
  <1>4. ASSUME NEW e \in Exports PROVE Holds(e)'
    <2>1. Holds(e)
      BY DEF ExportInv
    <2>2. /\ dir'[e] => dir[e] /\ (left[e] # "none" => left'[e] # "none")
          /\ left'[e] # "none" => dir'[e] /\ pc[e] = "idle"
          /\ pc[e] # "idle" /\ dir[e] => dir'[e]
      <3>1. /\ dir'[e] <=> (dir[e] /\ e \notin purged)
            /\ left'[e] # "none" <=> (left[e] # "none" /\ e \notin purged)
            /\ e \in purged => left[e] # "none"
        BY <1>2
      <3>2. left[e] # "none" => dir[e] /\ pc[e] = "idle"
        BY <2>1, Zenon DEF Holds
      <3> QED
        BY <3>1, <3>2, Zenon
    <2> QED
      BY <1>1, <2>1, <2>2 DEF Holds
  <1> QED
    BY <1>3, <1>4 DEF ExportInv

LEMMA ExportStep == ExportInv /\ [Next]_vars => ExportInv'
  <1> SUFFICES ASSUME ExportInv, [Next]_vars PROVE ExportInv'
    OBVIOUS
  <1>1. ASSUME NEW e \in Exports, ClientLeaves(e) \/ Timeout(e) PROVE ExportInv'
    BY <1>1, OutsideKeeps DEF ClientLeaves, Timeout, exportVars
  <1>2. ASSUME NEW e \in Exports, Request(e) PROVE ExportInv'
    BY <1>2, RequestKeeps
  <1>3. ASSUME NEW e \in Exports, Validate(e) PROVE ExportInv'
    BY <1>3, AdvanceKeeps, FinallyKeeps DEF Validate
  <1>4. ASSUME NEW e \in Exports, Acquire(e) \/ Probed(e) \/ QueryFails(e)
        PROVE  ExportInv'
    BY <1>4, AdvanceKeeps, FinallyKeeps DEF Acquire
  <1>5. ASSUME NEW e \in Exports, MakeDir(e) \/ CopyEnds(e) \/ Sent(e) \/ SendFails(e)
        PROVE  ExportInv'
    BY <1>5, AdvanceKeeps, GivesBackKeeps DEF CopyEnds
  <1>6. ASSUME NEW e \in Exports,
               OpenStream(e) \/ StreamRead(e) \/ StreamFails(e) \/ Flushed(e)
        PROVE  ExportInv'
    BY <1>6, AdvanceKeeps, GivesBackKeeps
  <1>7. ASSUME NEW e \in Exports, Cleanup(e) PROVE ExportInv'
    BY <1>7, FinallyKeeps, RemoveFailsKeeps DEF Cleanup
  <1>8. CASE Crash
    BY <1>8, CrashKeeps
  <1>9. CASE Start \/ \E e \in Exports : GrowsOld(e)
    BY <1>9, LeftKeeps
  <1>10. CASE UNCHANGED vars
    BY <1>10, OutsideKeeps DEF vars, exportVars
  <1> QED
    BY <1>1, <1>2, <1>3, <1>4, <1>5, <1>6, <1>7, <1>8, <1>9, <1>10 DEF Next

LEMMA ExportInvariant == Spec => []ExportInv
  BY ExportInit, ExportStep, PTL DEF Spec

-----------------------------------------------------------------------------
(* The three properties, for every number of clients, exports, slots and   *)
(* connections.                                                            *)

(* A query of the export runs, or its result is open, only on a connection *)
(* it still holds: an interrupt never reaches a connection given back.     *)
THEOREM ConnectionStaysClean == Spec => []ConnectionIsClean
  <1>1. ExportInv => ConnectionIsClean
    BY DEF ExportInv, Holds, ConnectionIsClean
  <1> QED
    BY <1>1, ExportInvariant, PTL

(* A temporary directory on the disk belongs to an export that holds a     *)
(* slot, or was left behind: its removal has failed, or its process has    *)
(* died.  No other path leaves one.                                        *)
THEOREM DiskIsBounded == Spec => []SlotsBoundTheDisk
  <1>1. ExportInv => SlotsBoundTheDisk
    BY DEF ExportInv, Holds, SlotsBoundTheDisk, Admitted
  <1> QED
    BY <1>1, ExportInvariant, PTL

(* When the client can see the end of a complete response, the export      *)
(* holds nothing any more; when it has an error, neither slot nor          *)
(* connection, and no directory but one whose removal has failed.          *)
THEOREM ReleasedBeforeTheEnd == Spec => []CompleteMeansReleased
  <1>1. ExportInv => CompleteMeansReleased
    BY DEF ExportInv, Holds, CompleteMeansReleased
  <1> QED
    BY <1>1, ExportInvariant, PTL

-----------------------------------------------------------------------------
(* The counters.                                                           *)

OfClient(held, c) == {e \in Holding(held) : ClientOf[e] = c}

SlotsCounted ==
  /\ perClient \in [Clients -> Nat]
  /\ total = Cardinality(Holding(slot))
  /\ \A c \in Clients : perClient[c] = Cardinality(OfClient(slot, c))

ConnsCounted == free = PoolSize - Cardinality(Holding(conn))

Counted == SlotsCounted /\ ConnsCounted

LEMMA HeldIsFinite ==
  ASSUME NEW held, NEW c
  PROVE  /\ IsFiniteSet(Holding(held)) /\ Cardinality(Holding(held)) \in Nat
         /\ IsFiniteSet(OfClient(held, c)) /\ Cardinality(OfClient(held, c)) \in Nat
  <1>1. Holding(held) \subseteq Exports /\ OfClient(held, c) \subseteq Exports
    BY DEF Holding, OfClient
  <1> QED
    BY <1>1, ExportAssumption, FS_Subset, FS_CardinalityType

(* One more export holds it.                                               *)
LEMMA Taken ==
  ASSUME NEW held \in [Exports -> BOOLEAN], NEW e \in Exports, NEW c \in Clients,
         NEW held2, held2 = [held EXCEPT ![e] = TRUE], ~held[e]
  PROVE  /\ Cardinality(Holding(held2)) = Cardinality(Holding(held)) + 1
         /\ Cardinality(OfClient(held2, c)) =
              Cardinality(OfClient(held, c)) + IF ClientOf[e] = c THEN 1 ELSE 0
  <1>1. Holding(held2) = Holding(held) \cup {e} /\ e \notin Holding(held)
    BY Zenon DEF Holding
  <1>2. Cardinality(Holding(held2)) = Cardinality(Holding(held)) + 1
    BY <1>1, HeldIsFinite, FS_AddElement
  <1>3. CASE ClientOf[e] = c
    <2>1. OfClient(held2, c) = OfClient(held, c) \cup {e} /\ e \notin OfClient(held, c)
      BY <1>1, <1>3 DEF OfClient
    <2>2. Cardinality(OfClient(held2, c)) = Cardinality(OfClient(held, c)) + 1
      BY <2>1, HeldIsFinite, FS_AddElement
    <2> QED
      BY <1>2, <1>3, <2>2
  <1>4. CASE ClientOf[e] # c
    <2>1. OfClient(held2, c) = OfClient(held, c)
      BY <1>1, <1>4 DEF OfClient
    <2> QED
      BY <1>2, <1>4, <2>1, HeldIsFinite
  <1> QED
    BY <1>3, <1>4

(* One export gives it back.                                               *)
LEMMA Given ==
  ASSUME NEW held \in [Exports -> BOOLEAN], NEW e \in Exports, NEW c \in Clients,
         NEW held2, held2 = [held EXCEPT ![e] = FALSE], held[e]
  PROVE  /\ Cardinality(Holding(held2)) = Cardinality(Holding(held)) - 1
         /\ Cardinality(OfClient(held2, c)) =
              Cardinality(OfClient(held, c)) - IF ClientOf[e] = c THEN 1 ELSE 0
  <1>1. Holding(held2) = Holding(held) \ {e} /\ e \in Holding(held)
    BY Zenon DEF Holding
  <1>2. Cardinality(Holding(held2)) = Cardinality(Holding(held)) - 1
    BY <1>1, HeldIsFinite, FS_RemoveElement
  <1>3. CASE ClientOf[e] = c
    <2>1. OfClient(held2, c) = OfClient(held, c) \ {e} /\ e \in OfClient(held, c)
      BY <1>1, <1>3 DEF OfClient
    <2>2. Cardinality(OfClient(held2, c)) = Cardinality(OfClient(held, c)) - 1
      BY <2>1, HeldIsFinite, FS_RemoveElement
    <2> QED
      BY <1>2, <1>3, <2>2
  <1>4. CASE ClientOf[e] # c
    <2>1. e \notin OfClient(held, c)
      BY <1>4 DEF OfClient
    <2>2. OfClient(held2, c) = OfClient(held, c) \ {e}
      BY <1>1 DEF OfClient
    <2>3. OfClient(held, c) \ {e} = OfClient(held, c)
      BY <2>1, Zenon
    <2>4. Cardinality(OfClient(held, c)) \in Nat
      BY HeldIsFinite
    <2>5. Cardinality(OfClient(held2, c)) = Cardinality(OfClient(held, c))
      BY <2>2, <2>3, Zenon
    <2> QED
      BY <1>2, <1>4, <2>4, <2>5
  <1> QED
    BY <1>3, <1>4

-----------------------------------------------------------------------------
(* What each kind of step does to the counters.                            *)

LEMMA SlotTaken ==
  ASSUME NEW e \in Exports, Shape, SlotsCounted, ~slot[e],
         slot' = [slot EXCEPT ![e] = TRUE], total' = total + 1,
         perClient' = [perClient EXCEPT ![ClientOf[e]] = @ + 1]
  PROVE  SlotsCounted'
  <1>1. ClientOf[e] \in Clients
    BY ExportAssumption
  <1>2. total' = Cardinality(Holding(slot'))
    BY <1>1, Taken DEF Shape, SlotsCounted
  <1>3. ASSUME NEW c \in Clients
        PROVE  perClient'[c] = Cardinality(OfClient(slot', c))
    <2>1. Cardinality(OfClient(slot', c)) =
            Cardinality(OfClient(slot, c)) + IF ClientOf[e] = c THEN 1 ELSE 0
      <3>1. slot \in [Exports -> BOOLEAN]
        BY DEF Shape
      <3> QED
        BY <3>1, Taken, Zenon
    <2>2. perClient[c] = Cardinality(OfClient(slot, c)) /\ perClient[c] \in Nat
      BY DEF SlotsCounted
    <2>3. perClient'[c] = perClient[c] + IF ClientOf[e] = c THEN 1 ELSE 0
      BY <1>1, <2>2 DEF SlotsCounted
    <2> QED
      BY <2>1, <2>2, <2>3
  <1>4. perClient' \in [Clients -> Nat]
    BY <1>1 DEF SlotsCounted
  <1> QED
    BY <1>2, <1>3, <1>4 DEF SlotsCounted, Holding, OfClient

LEMMA SlotReleased ==
  ASSUME NEW e \in Exports, Shape, SlotsCounted, ReleaseSlot(e)
  PROVE  SlotsCounted'
  <1>1. ClientOf[e] \in Clients
    BY ExportAssumption
  <1>2. CASE ~slot[e]
    <2>1. slot' = slot /\ total' = total /\ perClient' = perClient
      BY <1>2 DEF Shape, ReleaseSlot
    <2> QED
      BY <2>1 DEF SlotsCounted, Holding, OfClient
  <1>3. CASE slot[e]
    <2>1. /\ slot' = [slot EXCEPT ![e] = FALSE] /\ total' = total - 1
          /\ perClient' = [perClient EXCEPT ![ClientOf[e]] = @ - 1]
      BY <1>3 DEF ReleaseSlot
    <2>2. total' = Cardinality(Holding(slot'))
      BY <1>1, <1>3, <2>1, Given DEF Shape, SlotsCounted
    <2>3. ASSUME NEW c \in Clients
          PROVE  perClient'[c] = Cardinality(OfClient(slot', c)) /\ perClient'[c] \in Nat
      <3>1. Cardinality(OfClient(slot', c)) =
              Cardinality(OfClient(slot, c)) - IF ClientOf[e] = c THEN 1 ELSE 0
        <4>1. slot \in [Exports -> BOOLEAN]
          BY DEF Shape
        <4> QED
          BY <1>3, <2>1, <4>1, Given, Zenon
      <3>2. perClient[c] = Cardinality(OfClient(slot, c)) /\ perClient[c] \in Nat
        BY DEF SlotsCounted
      <3>3. perClient'[c] = perClient[c] - IF ClientOf[e] = c THEN 1 ELSE 0
        BY <1>1, <2>1, <3>2 DEF SlotsCounted
      <3>4. Cardinality(OfClient(slot', c)) \in Nat
        BY HeldIsFinite
      <3> QED
        BY <3>1, <3>2, <3>3, <3>4
    <2>4. perClient' \in [Clients -> Nat]
      BY <1>1, <2>1, <2>3 DEF SlotsCounted
    <2> QED
      BY <2>2, <2>3, <2>4 DEF SlotsCounted, Holding, OfClient
  <1> QED
    BY <1>2, <1>3

LEMMA ConnectionTaken ==
  ASSUME NEW e \in Exports, ExportInv, ConnsCounted, Connect(e)
  PROVE  ConnsCounted'
  <1>1. ~conn[e] /\ conn \in [Exports -> BOOLEAN] /\ ClientOf[e] \in Clients
    BY ExportAssumption DEF ExportInv, Holds, Shape, Connect, At
  <1>2. Cardinality(Holding(conn')) = Cardinality(Holding(conn)) + 1
    BY <1>1, Taken DEF Connect
  <1>3. Cardinality(Holding(conn)) \in Nat /\ PoolSize \in Nat
    BY HeldIsFinite, ExportAssumption
  <1> QED
    BY <1>2, <1>3 DEF ConnsCounted, Connect, Holding

LEMMA ConnectionReleased ==
  ASSUME NEW e \in Exports, Shape, ConnsCounted, ReleaseConnection(e)
  PROVE  ConnsCounted'
  <1>1. ClientOf[e] \in Clients
    BY ExportAssumption
  <1>2. CASE ~conn[e]
    <2>1. conn' = conn /\ free' = free
      BY <1>2 DEF Shape, ReleaseConnection
    <2> QED
      BY <2>1 DEF ConnsCounted, Holding
  <1>3. CASE conn[e]
    <2>1. Cardinality(Holding(conn')) = Cardinality(Holding(conn)) - 1
      BY <1>1, <1>3, Given DEF ReleaseConnection, Shape
    <2>2. Cardinality(Holding(conn)) \in Nat /\ PoolSize \in Nat
      BY HeldIsFinite, ExportAssumption
    <2> QED
      BY <1>3, <2>1, <2>2 DEF ConnsCounted, ReleaseConnection, Holding
  <1> QED
    BY <1>2, <1>3

LEMMA CountersStay ==
  ASSUME Counted, UNCHANGED <<gate, free, slot, conn>>
  PROVE  Counted'
  BY DEF Counted, SlotsCounted, ConnsCounted, gate, Holding, OfClient

LEMMA NothingHeld ==
  ASSUME NEW c
  PROVE  Cardinality(Holding(Off)) = 0 /\ Cardinality(OfClient(Off, c)) = 0
  <1>1. Holding(Off) = {} /\ OfClient(Off, c) = {}
    BY DEF Holding, OfClient, Off
  <1> QED
    BY <1>1, FS_EmptySet

-----------------------------------------------------------------------------
(* One step per action.                                                    *)

LEMMA FinallyCounts ==
  ASSUME NEW e \in Exports, Shape, Counted, Finally(e)
  PROVE  Counted'
  BY SlotReleased, ConnectionReleased DEF Counted, Finally

LEMMA CountersStep == ExportInv /\ Counted /\ [Next]_vars => Counted'
  <1> SUFFICES ASSUME ExportInv, Counted, [Next]_vars PROVE Counted'
    OBVIOUS
  <1>0. Shape
    BY DEF ExportInv
  <1>1. ASSUME NEW e \in Exports,
               Request(e) \/ ClientLeaves(e) \/ Timeout(e) \/ Probed(e) \/ MakeDir(e)
               \/ CopyFails(e) \/ Sent(e) \/ SendFails(e) \/ OpenStream(e) \/ StreamRead(e)
               \/ StreamFails(e) \/ GrowsOld(e)
        PROVE  Counted'
    <2>1. UNCHANGED <<gate, free, slot, conn>>
      BY <1>1 DEF Request, ClientLeaves, Timeout, Probed, MakeDir, CopyFails, Sent,
                  SendFails, OpenStream, StreamRead, StreamFails, GrowsOld
    <2> QED
      BY <2>1, CountersStay
  <1>2. ASSUME NEW e \in Exports, TakeSlot(e) PROVE Counted'
    <2>1. ~slot[e]
      BY <1>2 DEF ExportInv, Holds, TakeSlot, At
    <2>2. SlotsCounted'
      BY <1>0, <1>2, <2>1, SlotTaken DEF Counted, TakeSlot
    <2>3. ConnsCounted'
      BY <1>2 DEF Counted, ConnsCounted, TakeSlot, Holding
    <2> QED
      BY <2>2, <2>3 DEF Counted
  <1>3. ASSUME NEW e \in Exports, Connect(e) PROVE Counted'
    <2>1. SlotsCounted'
      BY <1>3 DEF Counted, SlotsCounted, Connect, gate, Holding, OfClient
    <2> QED
      BY <1>3, <2>1, ConnectionTaken DEF Counted
  <1>4. ASSUME NEW e \in Exports, CopyDone(e) PROVE Counted'
    <2>1. SlotsCounted'
      BY <1>4 DEF Counted, SlotsCounted, CopyDone, gate, Holding, OfClient
    <2> QED
      BY <1>0, <1>4, <2>1, ConnectionReleased DEF Counted, CopyDone
  <1>5. ASSUME NEW e \in Exports, Flushed(e) PROVE Counted'
    BY <1>0, <1>5, SlotReleased, ConnectionReleased DEF Counted, Flushed
  <1>6. ASSUME NEW e \in Exports,
               Invalid(e) \/ Refused(e) \/ AcquireFails(e) \/ QueryFails(e)
               \/ RemoveDir(e) \/ RemoveFails(e) \/ CloseStream(e)
        PROVE  Counted'
    <2>1. Finally(e)
      BY <1>6 DEF Invalid, Refused, AcquireFails, QueryFails, RemoveDir, RemoveFails,
                  CloseStream, Fail
    <2> QED
      BY <1>0, <2>1, FinallyCounts
  <1>7. CASE Crash
    <2>1. /\ slot' = Off /\ conn' = Off /\ perClient' = [c \in Clients |-> 0]
          /\ total' = 0 /\ free' = PoolSize /\ PoolSize \in Nat
      BY <1>7, ExportAssumption DEF Crash
    <2>2. Cardinality(Holding(slot')) = 0 /\ Cardinality(Holding(conn')) = 0
      BY <2>1, NothingHeld
    <2>3. \A c \in Clients : Cardinality(OfClient(slot', c)) = 0
      BY <2>1, NothingHeld
    <2>4. SlotsCounted'
      BY <2>1, <2>2, <2>3 DEF SlotsCounted, Holding, OfClient
    <2>5. ConnsCounted'
      BY <2>1, <2>2 DEF ConnsCounted, Holding
    <2> QED
      BY <2>4, <2>5 DEF Counted
  <1>8. CASE Start \/ UNCHANGED vars
    <2>1. UNCHANGED <<gate, free, slot, conn>>
      BY <1>8 DEF Start, vars, gate
    <2> QED
      BY <2>1, CountersStay
  <1> QED
    BY <1>1, <1>2, <1>3, <1>4, <1>5, <1>6, <1>7, <1>8
       DEF Next, Validate, Acquire, CopyEnds, Cleanup

LEMMA CountersInit == Init => Counted
  <1> SUFFICES ASSUME Init PROVE Counted
    OBVIOUS
  <1>1. PoolSize \in Nat
    BY ExportAssumption
  <1> QED
    BY <1>1, NothingHeld DEF Init, Counted, SlotsCounted, ConnsCounted

LEMMA CountersInvariant == Spec => []Counted
  <1>1. ExportInv /\ Counted /\ [Next]_vars => Counted'
    BY CountersStep
  <1> QED
    BY <1>1, CountersInit, ExportInvariant, PTL DEF Spec

(* No path of the handler gives a slot or a connection back twice, or      *)
(* keeps one: the gate and the pool count what the exports hold.           *)
THEOREM NothingIsLeaked == Spec => []NothingLeaks
  <1>1. Counted => NothingLeaks
    BY DEF Counted, SlotsCounted, ConnsCounted, NothingLeaks, OfClient
  <1> QED
    BY <1>1, CountersInvariant, PTL

-----------------------------------------------------------------------------
(* The ceilings, and the type invariant they are part of.                  *)

Flags ==
  /\ up \in BOOLEAN
  /\ listening \in [Exports -> BOOLEAN]
  /\ aborted \in [Exports -> BOOLEAN]
  /\ gone \in [Exports -> BOOLEAN]
  /\ left \in [Exports -> {"none", "young", "old"}]

Ceilings ==
  /\ total <= MaxTotal
  /\ \A c \in Clients : perClient[c] <= MaxPerClient
  /\ free >= 0

LEMMA FlagsStep == Flags /\ Shape /\ [Next]_vars => Flags'
  <1> SUFFICES ASSUME Flags, Shape, [Next]_vars PROVE Flags'
    OBVIOUS
  <1>1. ASSUME NEW e \in Exports,
               Request(e) \/ ClientLeaves(e) \/ Timeout(e) \/ Probed(e) \/ MakeDir(e)
               \/ CopyFails(e) \/ Sent(e) \/ SendFails(e) \/ OpenStream(e) \/ StreamRead(e)
               \/ StreamFails(e) \/ GrowsOld(e)
        PROVE  Flags'
    BY <1>1 DEF Flags, Request, ClientLeaves, Timeout, Probed, MakeDir, CopyFails, Sent,
                SendFails, OpenStream, StreamRead, StreamFails, GrowsOld
  <1>2. ASSUME NEW e \in Exports,
               TakeSlot(e) \/ Connect(e) \/ CopyDone(e) \/ Flushed(e)
        PROVE  Flags'
    BY <1>2 DEF Flags, TakeSlot, Connect, CopyDone, Flushed
  <1>3. ASSUME NEW e \in Exports,
               Invalid(e) \/ Refused(e) \/ AcquireFails(e) \/ QueryFails(e)
               \/ RemoveDir(e) \/ RemoveFails(e) \/ CloseStream(e)
        PROVE  Flags'
    BY <1>3 DEF Flags, Invalid, Refused, AcquireFails, QueryFails, RemoveDir, RemoveFails,
                CloseStream, Fail, Finally
  <1>4. CASE Crash \/ Start
    <2>1. left' \in [Exports -> {"none", "young", "old"}]
      BY <1>4 DEF Flags, Crash, Start
    <2>2. listening' \in [Exports -> BOOLEAN]
      BY <1>4, Zenon DEF Flags, Crash, Start, Off
    <2>3. up' \in BOOLEAN /\ UNCHANGED <<aborted, gone>>
      BY <1>4 DEF Flags, Crash, Start
    <2> QED
      BY <2>1, <2>2, <2>3 DEF Flags
  <1>5. CASE UNCHANGED vars
    BY <1>5 DEF Flags, vars
  <1> QED
    BY <1>1, <1>2, <1>3, <1>4, <1>5 DEF Next, Validate, Acquire, CopyEnds, Cleanup

(* TakeSlot looks at the ceilings first; everything else only gives back.  *)
LEMMA CeilingsStep ==
  ASSUME Counted, Ceilings, [Next]_vars, Counted'
  PROVE  Ceilings'
  <1>0. /\ total \in Nat /\ perClient \in [Clients -> Nat] /\ free \in Int
        /\ {MaxPerClient, MaxTotal, PoolSize} \subseteq Nat
    BY HeldIsFinite, ExportAssumption DEF Counted, SlotsCounted, ConnsCounted
  <1>1. ASSUME NEW e \in Exports, ReleaseSlot(e)
        PROVE  total' <= MaxTotal /\ \A c \in Clients : perClient'[c] <= MaxPerClient
    BY <1>0, <1>1, ExportAssumption DEF Ceilings, ReleaseSlot
  <1>2. ASSUME NEW e \in Exports, ReleaseConnection(e) PROVE free' >= 0
    BY <1>0, <1>2 DEF Ceilings, ReleaseConnection
  <1>3. CASE UNCHANGED <<gate, free>>
    BY <1>3 DEF Ceilings, gate
  <1>4. ASSUME NEW e \in Exports,
               Request(e) \/ ClientLeaves(e) \/ Timeout(e) \/ Probed(e) \/ MakeDir(e)
               \/ CopyFails(e) \/ Sent(e) \/ SendFails(e) \/ OpenStream(e) \/ StreamRead(e)
               \/ StreamFails(e) \/ GrowsOld(e)
        PROVE  Ceilings'
    BY <1>3, <1>4 DEF Request, ClientLeaves, Timeout, Probed, MakeDir, CopyFails, Sent,
                      SendFails, OpenStream, StreamRead, StreamFails, GrowsOld
  <1>5. ASSUME NEW e \in Exports, TakeSlot(e) PROVE Ceilings'
    BY <1>0, <1>5, ExportAssumption DEF Ceilings, TakeSlot, HasSlot
  <1>6. ASSUME NEW e \in Exports, Connect(e) PROVE Ceilings'
    BY <1>0, <1>6 DEF Ceilings, Connect, gate
  <1>7. ASSUME NEW e \in Exports, CopyDone(e) PROVE Ceilings'
    BY <1>2, <1>7 DEF Ceilings, CopyDone, gate
  <1>8. ASSUME NEW e \in Exports, Flushed(e) PROVE Ceilings'
    BY <1>1, <1>2, <1>8 DEF Ceilings, Flushed
  <1>9. ASSUME NEW e \in Exports,
               Invalid(e) \/ Refused(e) \/ AcquireFails(e) \/ QueryFails(e)
               \/ RemoveDir(e) \/ RemoveFails(e) \/ CloseStream(e)
        PROVE  Ceilings'
    <2>1. Finally(e)
      BY <1>9 DEF Invalid, Refused, AcquireFails, QueryFails, RemoveDir, RemoveFails,
                  CloseStream, Fail
    <2> QED
      BY <1>1, <1>2, <2>1 DEF Finally, Ceilings
  <1>10. CASE Crash
    BY <1>0, <1>10 DEF Ceilings, Crash
  <1>11. CASE Start \/ UNCHANGED vars
    <2>1. UNCHANGED <<gate, free>>
      BY <1>11 DEF Start, vars, gate
    <2> QED
      BY <1>3, <2>1
  <1> QED
    BY <1>4, <1>5, <1>6, <1>7, <1>8, <1>9, <1>10, <1>11
       DEF Next, Validate, Acquire, CopyEnds, Cleanup

LEMMA CeilingsInit == Init => Flags /\ Ceilings
  <1> SUFFICES ASSUME Init PROVE Flags /\ Ceilings
    OBVIOUS
  <1>1. {MaxPerClient, MaxTotal, PoolSize} \subseteq Nat
    BY ExportAssumption
  <1> QED
    BY <1>1 DEF Init, Off, Flags, Ceilings

(* The type invariant, with the ceilings of the gate: no client has more   *)
(* than MaxPerClient exports in flight and the server no more than         *)
(* MaxTotal, and the pool never lends more than it has.                    *)
THEOREM TypeCorrect == Spec => []TypeOK
  <1>1. Flags /\ ExportInv /\ [Next]_vars => Flags'
    BY FlagsStep DEF ExportInv
  <1>2. Counted /\ Ceilings /\ [Next]_vars /\ Counted' => Ceilings'
    BY CeilingsStep
  <1>3. ExportInv /\ Counted /\ Flags /\ Ceilings => TypeOK
    <2> SUFFICES ASSUME ExportInv, Counted, Flags, Ceilings PROVE TypeOK
      OBVIOUS
    <2>1. /\ total \in Nat /\ perClient \in [Clients -> Nat] /\ free \in Int
          /\ {MaxPerClient, MaxTotal, PoolSize} \subseteq Nat
          /\ Cardinality(Holding(conn)) \in Nat
      BY HeldIsFinite, ExportAssumption DEF Counted, SlotsCounted, ConnsCounted
    <2>2. perClient \in [Clients -> 0..MaxPerClient] /\ total \in 0..MaxTotal
      BY <2>1 DEF Ceilings
    <2>3. free \in 0..PoolSize
      BY <2>1 DEF Ceilings, Counted, ConnsCounted
    <2> QED
      BY <2>2, <2>3 DEF TypeOK, ExportInv, Shape, Flags, Responses
  <1> QED
    BY <1>1, <1>2, <1>3, CeilingsInit, ExportInvariant, CountersInvariant, PTL DEF Spec
=============================================================================
