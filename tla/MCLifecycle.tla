------------------------------- MODULE MCLifecycle -------------------------------
(***************************************************************************)
(* Four small instances in one run, a behaviour being that of one of       *)
(* them, chosen by the initial state, while the others stay where they     *)
(* are: a pod that starts (Configuration), one that follows its catalogs   *)
(* (FreshnessMonitor), the batches of its loaders (LoaderBatch: two of two *)
(* keys, one of a cross-database loader, over one connection), and its     *)
(* shutdown (Shutdown: two requests and the monitor).                      *)
(***************************************************************************)
EXTENDS FreshnessMonitor, PodProcess, MCSettings

CONSTANT unread

VARIABLES mode,
  files, environment, meant, boot, reason, config, attached, allowed, defaultCatalog, policy,
  lists, refused

batchVars == <<at, acquisition, timer, opened, free, issued, exec, hit>>
shutdownVars == <<stage, step, failed, grace, watchdog, code, request, holds, pool, ticking, running>>
startVars == <<files, environment, meant, boot, reason, config, attached, allowed, defaultCatalog,
               policy, lists, refused>>

(* Two catalogs: "a" is configured as s and main, "b" is not configured.    *)
(* Both are empty; or "a" has s, and "b" has main and an s that has no      *)
(* dataset_metadata yet.  Then the s of either is written.                  *)
Old == [date |-> 1, format |-> "known"]
MCCatalogs == <<"a", "b">>
MCConfigured == [c \in {"a", "b"} |-> IF c = "a" THEN <<"s", "main">> ELSE <<"main">>]
MCLakes == {[c \in {"a", "b"} |-> <<>>],
            [c \in {"a", "b"} |-> IF c = "a" THEN "s" :> Old ELSE ("main" :> Old) @@ ("s" :> Bare)]}
MCUpdated == {<<"a", "s">>, <<"b", "s">>}

(* A request may also name a catalog that is not configured.                *)
Boot == INSTANCE Configuration WITH
  Coerced <- MCCoerced, Parsed <- MCParsed, BlankTexts <- MCBlank, Starts <- MCStarts,
  CatalogNames <- {"a", "b", "z"}, Missing <- missing, stage <- boot, schemas <- lists

MCInit ==
  /\ mode \in {"start", "freshness", "batches", "shutdown"}
  /\ Init /\ Batch!Init /\ Stop!Init /\ Boot!Init
  /\ mode # "freshness" => lake = [c \in Ids |-> <<>>]
  /\ mode # "start" => files = <<>>
MCNext ==
  \/ mode = "start" /\ Boot!Next /\ UNCHANGED <<mode, vars, batchVars, shutdownVars>>
  \/ mode = "freshness" /\ Next /\ UNCHANGED <<mode, batchVars, shutdownVars, startVars>>
  \/ mode = "batches" /\ Batch!Next /\ UNCHANGED <<mode, vars, shutdownVars, startVars>>
  \/ mode = "shutdown" /\ Stop!Next /\ UNCHANGED <<mode, vars, batchVars, startVars>>

(* The fairness of each module, in the behaviours that are its own.         *)
MCFairness ==
  /\ WF_vars(mode = "freshness" /\ Tick)
  /\ WF_vars(mode = "freshness" /\ Probing)
  /\ \A b \in Batches :
       /\ WF_batchVars(mode = "batches" /\ Batch!Deadline(b))
       /\ WF_batchVars(mode = "batches" /\ Batch!OpeningEnds(b))
       /\ \A k \in BatchKeys : WF_batchVars(mode = "batches" /\ Batch!KeyStep(b, k))
  /\ \A c \in Connections :
       /\ WF_batchVars(mode = "batches" /\ Batch!Runs(c))
       /\ WF_batchVars(mode = "batches" /\ Batch!Returns(c))
  /\ WF_shutdownVars(mode = "shutdown" /\ Stop!GraceOver)
  /\ WF_shutdownVars(mode = "shutdown" /\ Stop!Watchdog)

MCSpec == MCInit /\ [][MCNext]_<<mode, vars, batchVars, shutdownVars, startVars>> /\ MCFairness

-----------------------------------------------------------------------------
(* What the four modules say of their variables.                            *)
StatesAreTyped == TypeOK /\ Batch!TypeOK /\ Stop!TypeOK /\ Boot!TypeOK

(* Configuration: the catalogs and schemas are those the settings mean, and *)
(* requests are routed to them.                                             *)
ServedAsConfigured == Boot!ServedAsConfigured /\ Boot!ScopesAreServed

(* What comes in the end: the schemas there are, are served; every batch    *)
(* ends, served from the queue of the pool or not, once what DuckDB is      *)
(* opening for it is open or has failed; the process leaves.                *)
AllComesToAnEnd ==
  /\ ListsConverge
  /\ mode = "batches" => Batch!EveryBatchEnds
  /\ Stop!ShutdownEnds

=============================================================================
