--------------------------- MODULE CacheInvalidation ---------------------------
(***************************************************************************)
(* The keys of the Redis cache and the routes that flush it by hand.  A    *)
(* loader names its entry after every catalog and schema it reads, each    *)
(* schema with the version served (buildCacheKey); an administrator's      *)
(* flush looks the entries of its scope up by pattern, one SCAN batch at a *)
(* time, and deletes what it found (CacheInvalidationManager).  Loaders    *)
(* write, entries expire and versions move while it runs.                  *)
(*                                                                         *)
(* CatalogRefresh says how a version comes to be served; here it simply    *)
(* moves.  The prefix, the variant and the hash of a key tell apart        *)
(* entries of one namespace; no pattern of a route looks at them, and one  *)
(* entry for each namespace and version stands for them all.               *)
(***************************************************************************)
EXTENDS Naturals, Sequences, FiniteSets, Functions

CONSTANTS
  Targets,      \* the catalogs and schemas served: records [catalog, schema]
  Updated,      \* those that are updated while we look
  Namespaces,   \* what loaders read: sequences of targets, several for a comparison
  Loaders,      \* loader calls
  Admins,       \* requests to the flush routes
  AnySchema,    \* no schema in the route: every schema of the catalog
  StartsWith,   \* the pairs of schema names <<s, t>> where s starts with t
  MaxVersion    \* bound on the updates of a schema

ASSUME CacheAssumption ==
  /\ Updated \subseteq Targets
  /\ Namespaces \subseteq Seq(Targets)
  /\ MaxVersion \in Nat

VARIABLES
  served,    \* the version served of each target
  redis,     \* the entries, from keys to the versions of the data they hold
  pc, key, data,     \* a loader: where it stands, its key, what it read
  asked,     \* the versions served when the loader was called
  request,   \* the scope of each flush; NoRequest
  job,       \* where its flush of each catalog stands
  stay,      \* the keys a SCAN must still return: there since it started
  found,     \* the keys it returned
  answer,    \* the response to the administrator
  since      \* the entries written before the flush started, and still there

loaderVars == <<pc, key, data, asked>>
scanVars == <<request, job, stay, found, answer>>
vars == <<served, redis, pc, key, data, asked, request, job, stay, found, answer, since>>

Catalogs == {t.catalog : t \in Targets}
Schemas == {t.schema : t \in Targets}
Versions == 0..MaxVersion
NoKey == <<>>
NoRequest == [catalogs |-> {}, schema |-> AnySchema, all |-> FALSE]

(* What a version vector of the targets in `ns` can be.                     *)
Vectors(ns) == [DOMAIN ns -> Versions]

(* The versions served now of the targets in `ns`.                          *)
ServedOf(ns) == [i \in DOMAIN ns |-> served[ns[i]]]

(* Faulty: a key over several schemas carries the version of the first.     *)
FaultyCacheKey(ns) ==
  [targets |-> ns, versions |-> [i \in DOMAIN ns |-> served[ns[1]]]]

(* buildCacheKey(): every side of the namespace with its version.           *)
CacheKey(ns) == [targets |-> ns, versions |-> ServedOf(ns)]

Keys == UNION {[targets : {ns}, versions : Vectors(ns)] : ns \in Namespaces}

(* What a loader can have in hand: nothing yet, or the versions of a vector. *)
Vector == {<<>>} \cup UNION {Vectors(ns) : ns \in Namespaces}

TypeOK ==
  /\ served \in [Targets -> Versions]
  /\ DOMAIN redis \subseteq Keys
  /\ \A k \in DOMAIN redis : redis[k] \in Vectors(k.targets)
  /\ pc \in [Loaders -> {"idle", "missed", "loaded", "answered"}]
  /\ key \in [Loaders -> Keys \cup {NoKey}]
  /\ \A l \in Loaders : key[l] = NoKey <=> pc[l] = "idle"
  /\ data \in [Loaders -> Vector] /\ asked \in [Loaders -> Vector]
  /\ request \in [Admins -> [catalogs : SUBSET Catalogs, schema : Schemas \cup {AnySchema},
                             all : BOOLEAN]]
  /\ job \in [Admins -> [Catalogs -> {"off", "scanning", "deleting", "ok", "failed"}]]
  /\ stay \in [Admins -> [Catalogs -> SUBSET Keys]]
  /\ found \in [Admins -> [Catalogs -> SUBSET Keys]]
  /\ answer \in [Admins -> {"none", "success", "error"}]
  /\ since \in [Admins -> SUBSET Keys]
  /\ \A a \in Admins :
       /\ \A c \in Catalogs : job[a][c] # "off" <=> c \in request[a].catalogs
       /\ \A c \in Catalogs : stay[a][c] \subseteq DOMAIN redis
       /\ since[a] \subseteq DOMAIN redis

Init ==
  /\ served = [t \in Targets |-> 0]
  /\ redis = <<>>
  /\ pc = [l \in Loaders |-> "idle"]
  /\ key = [l \in Loaders |-> NoKey]
  /\ data = [l \in Loaders |-> <<>>]
  /\ asked = [l \in Loaders |-> <<>>]
  /\ request = [a \in Admins |-> NoRequest]
  /\ job = [a \in Admins |-> [c \in Catalogs |-> "off"]]
  /\ stay = [a \in Admins |-> [c \in Catalogs |-> {}]]
  /\ found = [a \in Admins |-> [c \in Catalogs |-> {}]]
  /\ answer = [a \in Admins |-> "none"]
  /\ since = [a \in Admins |-> {}]

-----------------------------------------------------------------------------
(* The patterns.  A key over several targets has `a+b` for its catalog.     *)

(* Faulty: the pattern of a schema does not end its name (`<schema>*`).     *)
FaultyMatches(k, c, s) ==
  /\ Len(k.targets) = 1
  /\ k.targets[1].catalog = c
  /\ s = AnySchema \/ <<k.targets[1].schema, s>> \in StartsWith

(* allCatalog(c, s), `*:<c>:<s>@*:*`, or `*:<c>:*:*` without a schema.      *)
Matches(k, c, s) ==
  /\ Len(k.targets) = 1
  /\ k.targets[1].catalog = c
  /\ s = AnySchema \/ k.targets[1].schema = s

(* What the routes are for: the entries that read nothing but the scope.    *)
InScope(k, r) ==
  \A i \in DOMAIN k.targets :
    /\ k.targets[i].catalog \in r.catalogs
    /\ r.schema \in {AnySchema, k.targets[i].schema}

-----------------------------------------------------------------------------
(* Entries leave Redis, and with them what the scans owe for them.          *)
Forget(keys) ==
  /\ redis' = Restrict(redis, DOMAIN redis \ keys)
  /\ stay' = [a \in Admins |-> [c \in Catalogs |-> stay[a][c] \ keys]]
  /\ since' = [a \in Admins |-> since[a] \ keys]

(* An update of one schema is published.                                    *)
Update(t) ==
  /\ served[t] < MaxVersion
  /\ served' = [served EXCEPT ![t] = @ + 1]
  /\ UNCHANGED <<redis, loaderVars, scanVars, since>>

Expire(k) ==
  /\ k \in DOMAIN redis
  /\ Forget({k})
  /\ UNCHANGED <<served, loaderVars, request, job, found, answer>>

-----------------------------------------------------------------------------
(* loadWithCache() and withCache().                                         *)

Hit(l, ns) ==
  /\ pc[l] = "idle"
  /\ CacheKey(ns) \in DOMAIN redis
  /\ pc' = [pc EXCEPT ![l] = "answered"]
  /\ key' = [key EXCEPT ![l] = CacheKey(ns)]
  /\ data' = [data EXCEPT ![l] = redis[CacheKey(ns)]]
  /\ asked' = [asked EXCEPT ![l] = ServedOf(ns)]
  /\ UNCHANGED <<served, redis, scanVars, since>>

(* The entry is not there, or Redis cannot be read.                         *)
Miss(l, ns) ==
  /\ pc[l] = "idle"
  /\ pc' = [pc EXCEPT ![l] = "missed"]
  /\ key' = [key EXCEPT ![l] = CacheKey(ns)]
  /\ asked' = [asked EXCEPT ![l] = ServedOf(ns)]
  /\ UNCHANGED <<served, redis, data, scanVars, since>>

Load(l) ==
  /\ pc[l] = "missed"
  /\ pc' = [pc EXCEPT ![l] = "loaded"]
  /\ data' = [data EXCEPT ![l] = ServedOf(key[l].targets)]
  /\ UNCHANGED <<served, redis, key, asked, scanVars, since>>

(* SET, or a write that fails and is only logged.                           *)
Store(l) ==
  /\ pc[l] = "loaded"
  /\ pc' = [pc EXCEPT ![l] = "answered"]
  /\ \/ /\ redis' = [k \in DOMAIN redis \cup {key[l]} |->
                       IF k = key[l] THEN data[l] ELSE redis[k]]
        /\ since' = [a \in Admins |-> since[a] \ {key[l]}]
     \/ UNCHANGED <<redis, since>>
  /\ UNCHANGED <<served, key, data, asked, scanVars>>

(* The answer is given, or the load fails.                                  *)
Return(l) ==
  /\ pc[l] \in {"missed", "answered"}
  /\ pc' = [pc EXCEPT ![l] = "idle"]
  /\ key' = [key EXCEPT ![l] = NoKey]
  /\ data' = [data EXCEPT ![l] = <<>>]
  /\ asked' = [asked EXCEPT ![l] = <<>>]
  /\ UNCHANGED <<served, redis, scanVars, since>>

-----------------------------------------------------------------------------
(* The routes.  invalidate-all flushes every catalog in parallel.           *)

Start(a, r) ==
  /\ request[a] = NoRequest
  /\ request' = [request EXCEPT ![a] = r]
  /\ job' = [job EXCEPT ![a] =
               [c \in Catalogs |-> IF c \in r.catalogs THEN "scanning" ELSE "off"]]
  /\ stay' = [stay EXCEPT ![a] = [c \in Catalogs |->
               {k \in DOMAIN redis : c \in r.catalogs /\ Matches(k, c, r.schema)}]]
  /\ since' = [since EXCEPT ![a] = DOMAIN redis]
  /\ UNCHANGED <<served, redis, loaderVars, found, answer>>

InvalidateCatalog(a, c) == Start(a, [catalogs |-> {c}, schema |-> AnySchema, all |-> FALSE])

(* isValidSchema: the schema is one of the catalog's.                       *)
InvalidateSchema(a, t) ==
  Start(a, [catalogs |-> {t.catalog}, schema |-> t.schema, all |-> FALSE])

InvalidateAll(a) == Start(a, [catalogs |-> Catalogs, schema |-> AnySchema, all |-> TRUE])

(* One SCAN call returns matching keys, whether or not they were there when *)
(* the scan started.                                                        *)
ScanBatch(a, c) ==
  /\ job[a][c] = "scanning"
  /\ \E k \in DOMAIN redis \ found[a][c] :
       /\ Matches(k, c, request[a].schema)
       /\ found' = [found EXCEPT ![a][c] = @ \cup {k}]
       /\ stay' = [stay EXCEPT ![a][c] = @ \ {k}]
  /\ UNCHANGED <<served, redis, loaderVars, request, job, answer, since>>

(* Faulty: the scan stops at its first batch.                               *)
FaultyScanEnds(a, c) ==
  /\ job[a][c] = "scanning"
  /\ job' = [job EXCEPT ![a][c] = IF found[a][c] = {} THEN "ok" ELSE "deleting"]
  /\ stay' = [stay EXCEPT ![a][c] = {}]
  /\ UNCHANGED <<served, redis, loaderVars, request, found, answer, since>>

(* The cursor is back at 0: every key there all along has been returned.    *)
ScanEnds(a, c) ==
  /\ job[a][c] = "scanning"
  /\ stay[a][c] = {}
  /\ job' = [job EXCEPT ![a][c] = IF found[a][c] = {} THEN "ok" ELSE "deleting"]
  /\ UNCHANGED <<served, redis, loaderVars, request, stay, found, answer, since>>

Delete(a, c) ==
  /\ job[a][c] = "deleting"
  /\ job' = [job EXCEPT ![a][c] = "ok"]
  /\ Forget(found[a][c])
  /\ UNCHANGED <<served, loaderVars, request, found, answer>>

(* Redis refuses a SCAN or the DEL.                                         *)
JobFails(a, c) ==
  /\ job[a][c] \in {"scanning", "deleting"}
  /\ job' = [job EXCEPT ![a][c] = "failed"]
  /\ UNCHANGED <<served, redis, loaderVars, request, stay, found, answer, since>>

(* invalidate-all waits for every catalog and reports success whatever      *)
(* failed; the other routes report the failure.                             *)
Answer(a) ==
  /\ request[a] # NoRequest
  /\ answer[a] = "none"
  /\ \A c \in request[a].catalogs : job[a][c] \in {"ok", "failed"}
  /\ answer' = [answer EXCEPT ![a] =
       IF request[a].all \/ \A c \in request[a].catalogs : job[a][c] = "ok"
         THEN "success" ELSE "error"]
  /\ UNCHANGED <<served, redis, loaderVars, request, job, stay, found, since>>

(* Faulty: what a flush found is left for the next one.                     *)
FaultyDone(a) ==
  /\ answer[a] # "none"
  /\ request' = [request EXCEPT ![a] = NoRequest]
  /\ answer' = [answer EXCEPT ![a] = "none"]
  /\ since' = [since EXCEPT ![a] = {}]
  /\ UNCHANGED <<served, redis, loaderVars, job, stay, found>>

Done(a) ==
  /\ answer[a] # "none"
  /\ request' = [request EXCEPT ![a] = NoRequest]
  /\ job' = [job EXCEPT ![a] = [c \in Catalogs |-> "off"]]
  /\ stay' = [stay EXCEPT ![a] = [c \in Catalogs |-> {}]]
  /\ found' = [found EXCEPT ![a] = [c \in Catalogs |-> {}]]
  /\ answer' = [answer EXCEPT ![a] = "none"]
  /\ since' = [since EXCEPT ![a] = {}]
  /\ UNCHANGED <<served, redis, loaderVars>>

-----------------------------------------------------------------------------
Next ==
  \/ \E t \in Updated : Update(t)
  \/ \E k \in DOMAIN redis : Expire(k)
  \/ \E l \in Loaders :
       \/ \E ns \in Namespaces : Hit(l, ns) \/ Miss(l, ns)
       \/ Load(l) \/ Store(l) \/ Return(l)
  \/ \E a \in Admins :
       \/ \E c \in Catalogs :
            InvalidateCatalog(a, c) \/ ScanBatch(a, c) \/ ScanEnds(a, c) \/ Delete(a, c)
            \/ JobFails(a, c)
       \/ \E t \in Targets : InvalidateSchema(a, t)
       \/ InvalidateAll(a) \/ Answer(a) \/ Done(a)

Spec == Init /\ [][Next]_vars

-----------------------------------------------------------------------------
(* Properties *)

(* A call answered by the cache never gets data older than what was served  *)
(* of any schema it reads when it was made: an update of one side moves the *)
(* keys of every comparison over it.                                        *)
NoStaleAnswer ==
  \A l \in Loaders : pc[l] = "answered" =>
    \A i \in DOMAIN asked[l] : data[l][i] >= asked[l][i]

(* A flush that succeeded has removed every entry over its scope that was   *)
(* written before it started, whatever was written, expired or was updated  *)
(* while it scanned (entries over several schemas apart).                   *)
FlushReachesItsScope ==
  \A a \in Admins :
    (answer[a] = "success" /\ \A c \in request[a].catalogs : job[a][c] = "ok")
      => \A k \in since[a] : Len(k.targets) = 1 => ~InScope(k, request[a])

(* The flush of a schema, or of a catalog, takes no entry of another one.   *)
FlushIsLocal ==
  [][\A a \in Admins, c \in Catalogs :
       (job[a][c] = "deleting" /\ job'[a][c] = "ok")
         => \A k \in DOMAIN redis \ DOMAIN redis' : InScope(k, request[a])]_vars

(* base-loader.ts on the segments of a key: "so CacheInvalidationManager's  *)
(* per-catalog patterns match every entry": after an invalidate-all without *)
(* a failure, no entry written before it is left.                           *)
FlushAllReachesEveryEntry ==
  \A a \in Admins :
    (answer[a] = "success" /\ request[a].all /\ \A c \in Catalogs : job[a][c] = "ok")
      => since[a] = {}

=============================================================================
