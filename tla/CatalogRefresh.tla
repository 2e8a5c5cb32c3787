---------------------------- MODULE CatalogRefresh ----------------------------
(***************************************************************************)
(* How an update of the data reaches the pods and the Redis they share:    *)
(* the updater commits versions of one schema; every pod serves the state  *)
(* its DuckDB instance attached, puts the version it serves into its cache *)
(* keys, and replaces the instance when a probe reads another version      *)
(* (catalog-freshness.ts, DatabaseManager.reloadCatalogs, DuckDBPool.      *)
(* reload); an administrator may also reattach the catalog on the live     *)
(* instance (reloadOne); loaders compute a key, read Redis, and on a miss  *)
(* query a pool connection and write what they read (BaseLoader.           *)
(* loadWithCache, withCache).                                              *)
(*                                                                         *)
(* A version is a natural number in commit order.  The code compares       *)
(* versions for equality only.  ConnectionPool models the connections one  *)
(* by one; here a loader is bound to the live instance of its pod, to the  *)
(* one being drained, or to one that was closed under it.                  *)
(***************************************************************************)
EXTENDS Naturals

CONSTANTS
  Pods,           \* the replicas
  Loaders,        \* loader calls, each of one pod
  PodOf,          \* the pod of each loader
  MaxVersion,     \* bound on the number of commits
  LiveReads,      \* the backend lets an attached catalog see later commits
  AdminReattach   \* POST /api/catalog/reload/:catalog is used

ASSUME RefreshAssumption ==
  /\ PodOf \in [Loaders -> Pods]
  /\ MaxVersion \in Nat \ {0}
  /\ LiveReads \in BOOLEAN
  /\ AdminReattach \in BOOLEAN

VARIABLES
  head,      \* the last version committed
  cache,     \* Redis: the version of the data under the key of each version
  served,    \* dataVersions of each pod: the version its keys carry
  snap,      \* the version attached by the live instance of each pod
  attached,  \* whether the live instance still has the catalog attached
  old,       \* the version attached by the instance being drained
  oldOk,     \* whether that instance still has the catalog attached
  monitor,   \* where the probe and reload of each pod stand
  marker,    \* the marker the probe read
  fresh,     \* the version attached by the instance being built; after the swap, the
             \* version initSchemas read on the live instance
  admin,     \* where the reattachment of each pod stands
  adminOn,   \* the instance it works on
  adminSeen, \* the version its initSchemas read
  pc,        \* where each loader stands
  key,       \* the version in its cache key
  bound,     \* the instance of its connection
  data       \* the version of the data it read

refreshVars == <<monitor, marker, fresh>>
instVars == <<snap, attached, old, oldOk>>
adminVars == <<admin, adminOn, adminSeen>>
loaderVars == <<pc, key, bound, data>>
vars == <<head, cache, served, snap, attached, old, oldOk, monitor, marker, fresh,
          admin, adminOn, adminSeen, pc, key, bound, data>>

NoVersion == 0               \* NO_DATA_VERSION, and "no entry", "not read yet"
Versions == 0..MaxVersion
Bindings == {"none", "live", "old", "lost"}

TypeOK ==
  /\ head \in Versions
  /\ cache \in [Versions -> Versions]
  /\ served \in [Pods -> Versions]
  /\ snap \in [Pods -> Versions]
  /\ attached \in [Pods -> BOOLEAN]
  /\ old \in [Pods -> Versions]
  /\ oldOk \in [Pods -> BOOLEAN]
  /\ monitor \in [Pods -> {"idle", "probing", "forcing", "building", "built",
                           "draining", "publishing", "switching"}]
  /\ marker \in [Pods -> Versions]
  /\ fresh \in [Pods -> Versions]
  /\ admin \in [Pods -> {"idle", "captured", "detached", "reattached", "publishing",
                         "switching"}]
  /\ adminOn \in [Pods -> Bindings]
  /\ adminSeen \in [Pods -> Versions]
  /\ pc \in [Loaders -> {"idle", "keyed", "connected", "loaded"}]
  /\ key \in [Loaders -> Versions]
  /\ bound \in [Loaders -> Bindings]
  /\ data \in [Loaders -> Versions]
  /\ \A l \in Loaders : bound[l] = "none" <=> pc[l] \in {"idle", "keyed"}

(* After startServer: the instance is attached, its version published.      *)
Init ==
  /\ head = 1
  /\ cache = [v \in Versions |-> NoVersion]
  /\ served = [p \in Pods |-> 1]
  /\ snap = [p \in Pods |-> 1]
  /\ attached = [p \in Pods |-> TRUE]
  /\ old = [p \in Pods |-> NoVersion]
  /\ oldOk = [p \in Pods |-> FALSE]
  /\ monitor = [p \in Pods |-> "idle"]
  /\ marker = [p \in Pods |-> NoVersion]
  /\ fresh = [p \in Pods |-> NoVersion]
  /\ admin = [p \in Pods |-> "idle"]
  /\ adminOn = [p \in Pods |-> "none"]
  /\ adminSeen = [p \in Pods |-> NoVersion]
  /\ pc = [l \in Loaders |-> "idle"]
  /\ key = [l \in Loaders |-> NoVersion]
  /\ bound = [l \in Loaders |-> "none"]
  /\ data = [l \in Loaders |-> NoVersion]

-----------------------------------------------------------------------------
(* Whether a query on an instance of pod p sees the catalog, and the        *)
(* version it sees: what that instance attached, or the last commit where   *)
(* the backend lets an attached catalog see it.                             *)

Readable(p, on) == (on = "live" /\ attached[p]) \/ (on = "old" /\ oldOk[p])

Seen(p, on) ==
  IF LiveReads THEN head ELSE IF on = "live" THEN snap[p] ELSE old[p]

(* The connections of pod p that its drain waits for: those of loaders and  *)
(* of a version probe, on the retired instance.  The raw connection of      *)
(* reloadOne is not in the pool.                                            *)
Drained(p) ==
  /\ \A l \in Loaders : PodOf[l] = p => bound[l] # "old"
  /\ admin[p] = "publishing" => adminOn[p] # "old"

-----------------------------------------------------------------------------
(* The updater commits data and marker in one transaction.                  *)
Commit ==
  /\ head < MaxVersion
  /\ head' = head + 1
  /\ UNCHANGED <<cache, served, instVars, refreshVars, adminVars, loaderVars>>

(* An entry of Redis reaches its TTL.                                       *)
Expire(v) ==
  /\ cache[v] # NoVersion
  /\ cache' = [cache EXCEPT ![v] = NoVersion]
  /\ UNCHANGED <<head, served, instVars, refreshVars, adminVars, loaderVars>>

-----------------------------------------------------------------------------
(* CatalogFreshnessMonitor: one probe at a time, periodic or forced.        *)

(* The marker is read on a throw-away instance that attaches the catalog    *)
(* afresh, or cannot be read.                                               *)
Probe(p) ==
  /\ monitor[p] = "idle"
  /\ marker' = [marker EXCEPT ![p] = head]
  /\ monitor' = [monitor EXCEPT ![p] = "probing"]
  /\ UNCHANGED <<head, cache, served, instVars, fresh, adminVars, loaderVars>>

ProbeFails(p) ==
  /\ monitor[p] = "idle"
  /\ marker' = [marker EXCEPT ![p] = NoVersion]
  /\ monitor' = [monitor EXCEPT ![p] = "probing"]
  /\ UNCHANGED <<head, cache, served, instVars, fresh, adminVars, loaderVars>>

(* POST /api/catalog/reload: the probe is queued and reloads whatever it    *)
(* reads.                                                                   *)
ForceReload(p) ==
  /\ monitor[p] = "idle"
  /\ monitor' = [monitor EXCEPT ![p] = "forcing"]
  /\ UNCHANGED <<head, cache, served, instVars, marker, fresh, adminVars, loaderVars>>

(* A readable marker other than the version served asks for a reload.       *)
Decide(p) ==
  /\ \/ /\ monitor[p] = "probing"
        /\ monitor' = [monitor EXCEPT ![p] =
             IF marker[p] \notin {NoVersion, served[p]} THEN "building" ELSE "idle"]
     \/ /\ monitor[p] = "forcing"
        /\ monitor' = [monitor EXCEPT ![p] = "building"]
  /\ marker' = [marker EXCEPT ![p] = NoVersion]
  /\ UNCHANGED <<head, cache, served, instVars, fresh, adminVars, loaderVars>>

(* Faulty: the version probed counts as served even if the build fails.     *)
FaultyBuildFails(p) ==
  /\ monitor[p] = "building"
  /\ monitor' = [monitor EXCEPT ![p] = "idle"]
  /\ served' = [served EXCEPT ![p] = head]
  /\ UNCHANGED <<head, cache, instVars, marker, fresh, adminVars, loaderVars>>

(* buildInstance() attaches the last commit, or throws and leaves the pod   *)
(* as it was.                                                               *)
Build(p) ==
  /\ monitor[p] = "building"
  /\ fresh' = [fresh EXCEPT ![p] = head]
  /\ monitor' = [monitor EXCEPT ![p] = "built"]
  /\ UNCHANGED <<head, cache, served, instVars, marker, adminVars, loaderVars>>

BuildFails(p) ==
  /\ monitor[p] = "building"
  /\ monitor' = [monitor EXCEPT ![p] = "idle"]
  /\ UNCHANGED <<head, cache, served, instVars, marker, fresh, adminVars, loaderVars>>

(* The new instance replaces the live one, whose connections drain.         *)
Swap(p) ==
  /\ monitor[p] = "built"
  /\ monitor' = [monitor EXCEPT ![p] = "draining"]
  /\ snap' = [snap EXCEPT ![p] = fresh[p]]
  /\ attached' = [attached EXCEPT ![p] = TRUE]
  /\ old' = [old EXCEPT ![p] = snap[p]]
  /\ oldOk' = [oldOk EXCEPT ![p] = attached[p]]
  /\ fresh' = [fresh EXCEPT ![p] = NoVersion]
  /\ bound' = [l \in Loaders |->
                 IF PodOf[l] = p /\ bound[l] = "live" THEN "old" ELSE bound[l]]
  /\ adminOn' = [adminOn EXCEPT ![p] = IF @ = "live" THEN "old" ELSE @]
  /\ UNCHANGED <<head, cache, served, marker, admin, adminSeen, pc, key, data>>

(* The retired instance is closed, drained or at the end of drainTimeout,   *)
(* under whatever still works on it.                                        *)
Retire(p) ==
  /\ monitor' = [monitor EXCEPT ![p] = "publishing"]
  /\ old' = [old EXCEPT ![p] = NoVersion]
  /\ oldOk' = [oldOk EXCEPT ![p] = FALSE]
  /\ bound' = [l \in Loaders |->
                 IF PodOf[l] = p /\ bound[l] = "old" THEN "lost" ELSE bound[l]]
  /\ adminOn' = [adminOn EXCEPT ![p] = IF @ = "old" THEN "lost" ELSE @]
  /\ UNCHANGED <<head, cache, served, snap, attached, marker, fresh, admin, adminSeen,
                 pc, key, data>>

DrainEnds(p) == monitor[p] = "draining" /\ Drained(p) /\ Retire(p)
DrainForced(p) == monitor[p] = "draining" /\ ~Drained(p) /\ Retire(p)

(* initSchemas(): the version is read on the live instance; one that cannot *)
(* be read counts as NO_DATA_VERSION.                                       *)
ReadVersion(p) ==
  /\ monitor[p] = "publishing"
  /\ fresh' = [fresh EXCEPT ![p] =
                 IF Readable(p, "live") THEN Seen(p, "live") ELSE NoVersion]
  /\ monitor' = [monitor EXCEPT ![p] = "switching"]
  /\ UNCHANGED <<head, cache, served, instVars, marker, adminVars, loaderVars>>

(* Faulty: the version is taken from the catalog, not from the instance.    *)
FaultyPublish(p) ==
  /\ monitor[p] = "switching"
  /\ served' = [served EXCEPT ![p] = head]
  /\ fresh' = [fresh EXCEPT ![p] = NoVersion]
  /\ monitor' = [monitor EXCEPT ![p] = "idle"]
  /\ UNCHANGED <<head, cache, instVars, marker, adminVars, loaderVars>>

(* What was read becomes the version of the keys, whatever was published    *)
(* since it was read.                                                       *)
Publish(p) ==
  /\ monitor[p] = "switching"
  /\ served' = [served EXCEPT ![p] = fresh[p]]
  /\ fresh' = [fresh EXCEPT ![p] = NoVersion]
  /\ monitor' = [monitor EXCEPT ![p] = "idle"]
  /\ UNCHANGED <<head, cache, instVars, marker, adminVars, loaderVars>>

(* The discovery fails, or no connection comes in time: the reload fails    *)
(* after the swap, with nothing published.                                  *)
PublishFails(p) ==
  /\ monitor[p] = "publishing"
  /\ monitor' = [monitor EXCEPT ![p] = "idle"]
  /\ UNCHANGED <<head, cache, served, instVars, marker, fresh, adminVars, loaderVars>>

-----------------------------------------------------------------------------
(* DatabaseManager.reloadCatalog: reloadOne() on the instance that is live  *)
(* when it starts, then initSchemas().                                      *)

AdminIdle(p) == /\ admin' = [admin EXCEPT ![p] = "idle"]
                /\ adminOn' = [adminOn EXCEPT ![p] = "none"]
                /\ adminSeen' = [adminSeen EXCEPT ![p] = NoVersion]

ReattachStarts(p) ==
  /\ AdminReattach
  /\ admin[p] = "idle"
  /\ admin' = [admin EXCEPT ![p] = "captured"]
  /\ adminOn' = [adminOn EXCEPT ![p] = "live"]
  /\ UNCHANGED <<head, cache, served, instVars, refreshVars, adminSeen, loaderVars>>

Detach(p) ==
  /\ admin[p] = "captured"
  /\ adminOn[p] # "lost"
  /\ admin' = [admin EXCEPT ![p] = "detached"]
  /\ attached' = [attached EXCEPT ![p] = @ /\ adminOn[p] # "live"]
  /\ oldOk' = [oldOk EXCEPT ![p] = @ /\ adminOn[p] # "old"]
  /\ UNCHANGED <<head, cache, served, snap, old, refreshVars, adminOn, adminSeen,
                 loaderVars>>

Attach(p) ==
  /\ admin[p] = "detached"
  /\ adminOn[p] # "lost"
  /\ admin' = [admin EXCEPT ![p] = "reattached"]
  /\ IF adminOn[p] = "live"
       THEN /\ attached' = [attached EXCEPT ![p] = TRUE]
            /\ snap' = [snap EXCEPT ![p] = head]
            /\ UNCHANGED <<old, oldOk>>
       ELSE /\ oldOk' = [oldOk EXCEPT ![p] = TRUE]
            /\ old' = [old EXCEPT ![p] = head]
            /\ UNCHANGED <<attached, snap>>
  /\ adminOn' = [adminOn EXCEPT ![p] = "none"]
  /\ UNCHANGED <<head, cache, served, refreshVars, adminSeen, loaderVars>>

(* DETACH was refused and the ATTACH with it, the instance was closed, or   *)
(* the ATTACH fails after the DETACH: the error goes to the administrator.  *)
ReattachFails(p) ==
  /\ admin[p] \in {"captured", "detached"}
  /\ AdminIdle(p)
  /\ UNCHANGED <<head, cache, served, instVars, refreshVars, loaderVars>>

(* initSchemas() takes a connection of the pool, or fails before; then it   *)
(* reads the version on it and, awaits later, publishes what it read.       *)
VersionProbe(p) ==
  /\ admin[p] = "reattached"
  /\ admin' = [admin EXCEPT ![p] = "publishing"]
  /\ adminOn' = [adminOn EXCEPT ![p] = "live"]
  /\ UNCHANGED <<head, cache, served, instVars, refreshVars, adminSeen, loaderVars>>

VersionProbeFails(p) ==
  /\ admin[p] = "reattached"
  /\ AdminIdle(p)
  /\ UNCHANGED <<head, cache, served, instVars, refreshVars, loaderVars>>

AdminReadsVersion(p) ==
  /\ admin[p] = "publishing"
  /\ adminSeen' = [adminSeen EXCEPT ![p] =
                     IF Readable(p, adminOn[p]) THEN Seen(p, adminOn[p]) ELSE NoVersion]
  /\ admin' = [admin EXCEPT ![p] = "switching"]
  /\ adminOn' = [adminOn EXCEPT ![p] = "none"]
  /\ UNCHANGED <<head, cache, served, instVars, refreshVars, loaderVars>>

ReattachPublishes(p) ==
  /\ admin[p] = "switching"
  /\ served' = [served EXCEPT ![p] = adminSeen[p]]
  /\ AdminIdle(p)
  /\ UNCHANGED <<head, cache, instVars, refreshVars, loaderVars>>

-----------------------------------------------------------------------------
(* loadWithCache(): key with the version served now, Redis, and on a miss   *)
(* (or when Redis fails) a connection, the query and the write.             *)

LoaderIdle(l) == /\ pc' = [pc EXCEPT ![l] = "idle"]
                 /\ key' = [key EXCEPT ![l] = NoVersion]
                 /\ bound' = [bound EXCEPT ![l] = "none"]
                 /\ data' = [data EXCEPT ![l] = NoVersion]

Miss(l) ==
  /\ pc[l] = "idle"
  /\ pc' = [pc EXCEPT ![l] = "keyed"]
  /\ key' = [key EXCEPT ![l] = served[PodOf[l]]]
  /\ UNCHANGED <<head, cache, served, instVars, refreshVars, adminVars, bound, data>>

(* assertSchemaSupported refuses a schema without version; otherwise        *)
(* acquire() gives a connection of the live instance.                       *)
Connect(l) ==
  /\ pc[l] = "keyed"
  /\ served[PodOf[l]] # NoVersion
  /\ pc' = [pc EXCEPT ![l] = "connected"]
  /\ bound' = [bound EXCEPT ![l] = "live"]
  /\ UNCHANGED <<head, cache, served, instVars, refreshVars, adminVars, key, data>>

Query(l) ==
  /\ pc[l] = "connected"
  /\ Readable(PodOf[l], bound[l])
  /\ data' = [data EXCEPT ![l] = Seen(PodOf[l], bound[l])]
  /\ pc' = [pc EXCEPT ![l] = "loaded"]
  /\ UNCHANGED <<head, cache, served, instVars, refreshVars, adminVars, key, bound>>

(* Faulty: the connection is not released on an error.                      *)
FaultyLoadFails(l) ==
  /\ pc[l] \in {"keyed", "connected"}
  /\ pc' = [pc EXCEPT ![l] = "idle"]
  /\ UNCHANGED <<head, cache, served, instVars, refreshVars, adminVars, key, bound,
                 data>>

(* The schema is refused, the query fails, its deadline passes, or its      *)
(* connection was closed.                                                   *)
LoadFails(l) ==
  /\ pc[l] \in {"keyed", "connected"}
  /\ LoaderIdle(l)
  /\ UNCHANGED <<head, cache, served, instVars, refreshVars, adminVars>>

(* Faulty: the key is computed when the entry is written.                   *)
FaultyStore(l) ==
  /\ pc[l] = "loaded"
  /\ cache' = [cache EXCEPT ![served[PodOf[l]]] = data[l]]
  /\ LoaderIdle(l)
  /\ UNCHANGED <<head, served, instVars, refreshVars, adminVars>>

(* The entry is written, unless Redis fails; then the connection, held to   *)
(* the end of the batch, is released.                                       *)
Store(l) ==
  /\ pc[l] = "loaded"
  /\ \/ cache' = [cache EXCEPT ![key[l]] = data[l]]
     \/ UNCHANGED cache
  /\ LoaderIdle(l)
  /\ UNCHANGED <<head, served, instVars, refreshVars, adminVars>>

-----------------------------------------------------------------------------
Tick(p) == Probe(p) \/ ProbeFails(p)
Reload(p) == Build(p) \/ BuildFails(p) \/ Swap(p) \/ DrainEnds(p) \/ DrainForced(p)
             \/ ReadVersion(p) \/ Publish(p) \/ PublishFails(p)
Reattach(p) == ReattachStarts(p) \/ Detach(p) \/ Attach(p) \/ ReattachFails(p)
               \/ VersionProbe(p) \/ VersionProbeFails(p) \/ AdminReadsVersion(p)
               \/ ReattachPublishes(p)
Load(l) == Miss(l) \/ Connect(l) \/ Query(l) \/ LoadFails(l) \/ Store(l)

Next ==
  \/ Commit
  \/ \E v \in Versions : Expire(v)
  \/ \E p \in Pods : Tick(p) \/ ForceReload(p) \/ Decide(p) \/ Reload(p) \/ Reattach(p)
  \/ \E l \in Loaders : Load(l)

Spec == Init /\ [][Next]_vars

(* The interval timer keeps ticking and every call ends; storage that fails *)
(* answers again: reading a marker, building an instance and publishing     *)
(* succeed in the end if they are tried again and again.  Nothing is asked  *)
(* of the loaders: the drain has its deadline.                              *)
Fairness ==
  \A p \in Pods :
    /\ WF_vars(Tick(p)) /\ SF_vars(Probe(p)) /\ WF_vars(Decide(p))
    /\ SF_vars(Build(p)) /\ WF_vars(Swap(p))
    /\ WF_vars(DrainEnds(p) \/ DrainForced(p))
    /\ SF_vars(ReadVersion(p)) /\ WF_vars(Publish(p))
    /\ WF_vars(Detach(p) \/ Attach(p) \/ ReattachFails(p))
    /\ WF_vars(VersionProbe(p) \/ VersionProbeFails(p))
    /\ WF_vars(AdminReadsVersion(p) \/ ReattachPublishes(p))

FairSpec == Spec /\ Fairness

-----------------------------------------------------------------------------
(* Properties *)

(* "No stale data under a new key": what Redis holds under the key of a     *)
(* version was never read from an older state, whichever pod wrote it.      *)
NoStaleUnderNewKey == \A v \in Versions : cache[v] # NoVersion => cache[v] >= v

(* A pod never puts a version into its keys that its live instance does not *)
(* show yet: the reason why reloadCatalogs reads the versions again on the  *)
(* new instance instead of publishing what the probe read.  A reattachment  *)
(* in the middle of a reload breaks it.                                     *)
ServedIsShown ==
  ~AdminReattach => \A p \in Pods : served[p] <= Seen(p, "live")

(* Once the updater has made its last commit, every pod comes to serve it,  *)
(* from the data and in its keys, and stays there.                          *)
UpdateReachesEveryPod ==
  \A p \in Pods : <>[](served[p] = head /\ Readable(p, "live") /\ Seen(p, "live") = head)

=============================================================================
