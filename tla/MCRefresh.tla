-------------------------------- MODULE MCRefresh --------------------------------
(***************************************************************************)
(* Two instances of CatalogRefresh in one run, a behaviour being that of   *)
(* the one chosen by the initial state: a pod that follows a lakehouse     *)
(* whose reads are pinned to the attached version, without the             *)
(* reattachment of a catalog, and a pod that reads live and reattaches.    *)
(***************************************************************************)
EXTENDS MCCatalogRefresh

VARIABLES
  mode, head_, cache_, served_, snap_, attached_, old_, oldOk_, monitor_, marker_, fresh_,
  admin_, adminOn_, adminSeen_, pc_, key_, bound_, data_

liveVars == <<head_, cache_, served_, snap_, attached_, old_, oldOk_, monitor_, marker_, fresh_,
              admin_, adminOn_, adminSeen_, pc_, key_, bound_, data_>>

(* One loader, two versions.                                                *)
Live == INSTANCE CatalogRefresh WITH
  Pods <- {p1}, Loaders <- {l1}, PodOf <- OnlyOne, MaxVersion <- 2,
  LiveReads <- TRUE, AdminReattach <- TRUE,
  head <- head_, cache <- cache_, served <- served_, snap <- snap_, attached <- attached_,
  old <- old_, oldOk <- oldOk_, monitor <- monitor_, marker <- marker_, fresh <- fresh_,
  admin <- admin_, adminOn <- adminOn_, adminSeen <- adminSeen_, pc <- pc_, key <- key_,
  bound <- bound_, data <- data_

MCInit == mode \in {"pinned", "live"} /\ Init /\ Live!Init
MCNext == \/ mode = "pinned" /\ Next /\ UNCHANGED <<mode, liveVars>>
          \/ mode = "live" /\ Live!Next /\ UNCHANGED <<mode, vars>>

(* The fairness of the first instance, in the behaviours that are its own.  *)
MCSpec == MCInit /\ [][MCNext]_<<mode, vars, liveVars>> /\ (mode = "pinned" => Fairness)

(* CatalogRefresh: no entry older than the version of its key, with         *)
(* reattachments in the middle of reloads, where reads are live.            *)
LiveReadsStayFresh == Live!NoStaleUnderNewKey

(* CatalogRefresh: an update reaches every pod, in the behaviours of the    *)
(* first instance.                                                          *)
UpdatesArrive == mode = "pinned" => UpdateReachesEveryPod

=============================================================================
