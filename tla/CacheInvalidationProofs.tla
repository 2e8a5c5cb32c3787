------------------------ MODULE CacheInvalidationProofs ------------------------
(***************************************************************************)
(* Proofs about CacheInvalidation, for any catalogs, schemas, loaders,     *)
(* administrators and number of updates.                                   *)
(***************************************************************************)
EXTENDS CacheInvalidation, TLAPS

-----------------------------------------------------------------------------
(* Keys                                                                     *)

LEMMA KeyShape ==
  ASSUME NEW k \in Keys
  PROVE  /\ k.targets \in Namespaces /\ k.targets \in Seq(Targets)
         /\ k.versions \in Vectors(k.targets)
         /\ k # NoKey
  <1>1. PICK ns \in Namespaces : k \in [targets : {ns}, versions : Vectors(ns)]
    BY DEF Keys
  <1>2. k.targets = ns /\ k.versions \in Vectors(ns)
    BY <1>1
  <1>3. ns \in Seq(Targets)
    BY CacheAssumption
  <1>4. k # NoKey
    <2>1. DOMAIN k = {"targets", "versions"}
      BY <1>1
    <2>2. DOMAIN NoKey = {}
      BY DEF NoKey
    <2> QED
      BY <2>1, <2>2
  <1> QED
    BY <1>2, <1>3, <1>4

LEMMA ServedVector ==
  ASSUME served \in [Targets -> Versions], NEW ns \in Namespaces
  PROVE  ServedOf(ns) \in Vectors(ns)
  <1>1. ns \in Seq(Targets)
    BY CacheAssumption
  <1>2. \A i \in DOMAIN ns : ns[i] \in Targets
    BY <1>1
  <1> QED
    BY <1>2 DEF ServedOf, Vectors

LEMMA CacheKeyIsKey ==
  ASSUME served \in [Targets -> Versions], NEW ns \in Namespaces
  PROVE  CacheKey(ns) \in Keys
  <1>1. ServedOf(ns) \in Vectors(ns)
    BY ServedVector
  <1>2. CacheKey(ns) \in [targets : {ns}, versions : Vectors(ns)]
    BY <1>1 DEF CacheKey
  <1> QED
    BY <1>2 DEF Keys

LEMMA VectorIn ==
  ASSUME NEW ns \in Namespaces, NEW v \in Vectors(ns)
  PROVE  v \in Vector
  BY DEF Vector

-----------------------------------------------------------------------------
(* The inductive invariant                                                  *)

(* What a loader has in hand: the versions it was asked for are those of    *)
(* its key, and what it read is at least as recent.                         *)
Held ==
  \A l \in Loaders : pc[l] # "idle" =>
    /\ asked[l] = key[l].versions
    /\ pc[l] = "missed" =>
         \A i \in DOMAIN asked[l] : asked[l][i] <= served[key[l].targets[i]]
    /\ pc[l] # "missed" =>
         /\ data[l] \in Vectors(key[l].targets)
         /\ \A i \in DOMAIN asked[l] : asked[l][i] <= data[l][i]

(* No entry holds data older than its key says.                             *)
Entries ==
  \A k \in DOMAIN redis : \A i \in DOMAIN k.versions : k.versions[i] <= redis[k][i]

(* The entries a flush of c must reach: written before it started, and      *)
(* still there.                                                             *)
Before(a, c) == {k \in since[a] : Matches(k, c, request[a].schema)}

(* A flush finds only what its pattern matches, and each entry it must      *)
(* reach has been found or is still to be returned.                         *)
Scanned(a, c) ==
  /\ job[a][c] = "off" => found[a][c] = {}
  /\ \A k \in found[a][c] : Matches(k, c, request[a].schema)
  /\ job[a][c] = "scanning" => Before(a, c) \subseteq stay[a][c] \cup found[a][c]
  /\ job[a][c] = "deleting" => Before(a, c) \subseteq found[a][c]
  /\ job[a][c] = "ok" => Before(a, c) = {}

Scans == \A a \in Admins, c \in Catalogs : Scanned(a, c)

Inv == TypeOK /\ Held /\ Entries /\ Scans

-----------------------------------------------------------------------------
(* Types                                                                    *)

LEMMA TypeInit == Init => TypeOK
  <1> SUFFICES ASSUME Init PROVE TypeOK
    OBVIOUS
  <1> USE DEF Init
  <1>1. served \in [Targets -> Versions]
    BY CacheAssumption DEF Versions
  <1>2. DOMAIN redis = {}
    OBVIOUS
  <1>3. request \in [Admins -> [catalogs : SUBSET Catalogs, schema : Schemas \cup {AnySchema},
                                all : BOOLEAN]]
    BY DEF NoRequest
  <1>4. key \in [Loaders -> Keys \cup {NoKey}] /\ data \in [Loaders -> Vector]
        /\ asked \in [Loaders -> Vector]
    <2>1. <<>> \in Vector
      BY DEF Vector
    <2> QED
      BY <2>1
  <1>5. \A a \in Admins, c \in Catalogs : job[a][c] # "off" <=> c \in request[a].catalogs
    BY DEF NoRequest
  <1> QED
    BY <1>1, <1>2, <1>3, <1>4, <1>5 DEF TypeOK

(* Entries leave Redis.                                                     *)
LEMMA ForgetTypes ==
  ASSUME NEW gone, TypeOK, Forget(gone)
  PROVE  /\ DOMAIN redis' = DOMAIN redis \ gone
         /\ \A k \in DOMAIN redis' : redis'[k] = redis[k]
         /\ stay' \in [Admins -> [Catalogs -> SUBSET Keys]]
         /\ since' \in [Admins -> SUBSET Keys]
         /\ \A a \in Admins, c \in Catalogs : stay'[a][c] = stay[a][c] \ gone
         /\ \A a \in Admins : since'[a] = since[a] \ gone
  <1>1. redis' = [k \in DOMAIN redis \ gone |-> redis[k]]
    BY DEF Forget, Restrict
  <1>2. stay' = [a \in Admins |-> [c \in Catalogs |-> stay[a][c] \ gone]]
        /\ since' = [a \in Admins |-> since[a] \ gone]
    BY DEF Forget
  <1>3. \A a \in Admins : since[a] \subseteq Keys /\ \A c \in Catalogs : stay[a][c] \subseteq Keys
    BY DEF TypeOK
  <1> QED
    BY <1>1, <1>2, <1>3

LEMMA ForgetKeepsTypes ==
  ASSUME NEW gone, TypeOK, Forget(gone), UNCHANGED <<served, loaderVars, request, answer>>,
         job' \in [Admins -> [Catalogs -> {"off", "scanning", "deleting", "ok", "failed"}]],
         \A a \in Admins, c \in Catalogs : job'[a][c] # "off" <=> job[a][c] # "off",
         UNCHANGED found
  PROVE  TypeOK'
  <1>1. /\ DOMAIN redis' = DOMAIN redis \ gone
        /\ \A k \in DOMAIN redis' : redis'[k] = redis[k]
        /\ stay' \in [Admins -> [Catalogs -> SUBSET Keys]]
        /\ since' \in [Admins -> SUBSET Keys]
        /\ \A a \in Admins, c \in Catalogs : stay'[a][c] = stay[a][c] \ gone
        /\ \A a \in Admins : since'[a] = since[a] \ gone
    BY ForgetTypes
  <1>2. DOMAIN redis' \subseteq Keys /\ \A k \in DOMAIN redis' : redis'[k] \in Vectors(k.targets)
    BY <1>1 DEF TypeOK
  <1>3. \A a \in Admins : /\ \A c \in Catalogs : stay'[a][c] \subseteq DOMAIN redis'
                          /\ since'[a] \subseteq DOMAIN redis'
    BY <1>1 DEF TypeOK
  <1>4. \A a \in Admins, c \in Catalogs : job'[a][c] # "off" <=> c \in request'[a].catalogs
    BY DEF TypeOK
  <1> QED
    BY <1>1, <1>2, <1>3, <1>4 DEF TypeOK, loaderVars

(* What a loader does.                                                      *)
LEMMA LoaderKeepsTypes ==
  ASSUME TypeOK, Held, NEW l \in Loaders,
         \/ \E ns \in Namespaces : Hit(l, ns) \/ Miss(l, ns)
         \/ Load(l) \/ Store(l) \/ Return(l)
  PROVE  TypeOK'
  <1>1. ASSUME NEW ns \in Namespaces, Hit(l, ns) PROVE TypeOK'
    <2>1. CacheKey(ns) \in Keys /\ CacheKey(ns) # NoKey
      BY CacheKeyIsKey, KeyShape DEF TypeOK
    <2>2. ServedOf(ns) \in Vector
      BY ServedVector, VectorIn DEF TypeOK
    <2>3. redis[CacheKey(ns)] \in Vector
      <3>1. redis[CacheKey(ns)] \in Vectors(ns)
        BY <1>1 DEF Hit, TypeOK, CacheKey
      <3> QED
        BY <3>1, VectorIn
    <2>4. /\ pc' \in [Loaders -> {"idle", "missed", "loaded", "answered"}]
          /\ key' \in [Loaders -> Keys \cup {NoKey}]
          /\ data' \in [Loaders -> Vector] /\ asked' \in [Loaders -> Vector]
      BY <1>1, <2>1, <2>2, <2>3 DEF Hit, TypeOK
    <2>5. \A m \in Loaders : key'[m] = NoKey <=> pc'[m] = "idle"
      BY <1>1, <2>1 DEF Hit, TypeOK
    <2> QED
      BY <1>1, <2>4, <2>5 DEF Hit, TypeOK, scanVars
  <1>2. ASSUME NEW ns \in Namespaces, Miss(l, ns) PROVE TypeOK'
    <2>1. CacheKey(ns) \in Keys /\ CacheKey(ns) # NoKey
      BY CacheKeyIsKey, KeyShape DEF TypeOK
    <2>2. ServedOf(ns) \in Vector
      BY ServedVector, VectorIn DEF TypeOK
    <2>4. /\ pc' \in [Loaders -> {"idle", "missed", "loaded", "answered"}]
          /\ key' \in [Loaders -> Keys \cup {NoKey}]
          /\ asked' \in [Loaders -> Vector]
      BY <1>2, <2>1, <2>2 DEF Miss, TypeOK
    <2>5. \A m \in Loaders : key'[m] = NoKey <=> pc'[m] = "idle"
      BY <1>2, <2>1 DEF Miss, TypeOK
    <2> QED
      BY <1>2, <2>4, <2>5 DEF Miss, TypeOK, scanVars
  <1>3. CASE Load(l)
    <2>1. key[l] \in Keys
      BY <1>3 DEF Load, TypeOK
    <2>2. ServedOf(key[l].targets) \in Vector
      BY <2>1, KeyShape, ServedVector, VectorIn DEF TypeOK
    <2>4. /\ pc' \in [Loaders -> {"idle", "missed", "loaded", "answered"}]
          /\ data' \in [Loaders -> Vector]
      BY <1>3, <2>2 DEF Load, TypeOK
    <2>5. \A m \in Loaders : key'[m] = NoKey <=> pc'[m] = "idle"
      BY <1>3 DEF Load, TypeOK
    <2> QED
      BY <1>3, <2>4, <2>5 DEF Load, TypeOK, scanVars
  <1>5. CASE Return(l)
    <2>1. <<>> \in Vector
      BY DEF Vector
    <2>4. /\ pc' \in [Loaders -> {"idle", "missed", "loaded", "answered"}]
          /\ key' \in [Loaders -> Keys \cup {NoKey}]
          /\ data' \in [Loaders -> Vector] /\ asked' \in [Loaders -> Vector]
      BY <1>5, <2>1 DEF Return, TypeOK
    <2>5. \A m \in Loaders : key'[m] = NoKey <=> pc'[m] = "idle"
      BY <1>5 DEF Return, TypeOK
    <2> QED
      BY <1>5, <2>4, <2>5 DEF Return, TypeOK, scanVars
  <1>4. CASE Store(l)
    <2>1. key[l] \in Keys
      BY <1>4 DEF Store, TypeOK
    <2>2. data[l] \in Vectors(key[l].targets)
      BY <1>4 DEF Store, Held
    <2>3. \A m \in Loaders : key'[m] = NoKey <=> pc'[m] = "idle"
      BY <1>4 DEF Store, TypeOK
    <2>4. /\ pc' \in [Loaders -> {"idle", "missed", "loaded", "answered"}]
          /\ key' = key /\ data' = data /\ asked' = asked
          /\ served' = served /\ scanVars' = scanVars
      BY <1>4 DEF Store, TypeOK
    <2>5. CASE UNCHANGED <<redis, since>>
      BY <2>3, <2>4, <2>5 DEF TypeOK, scanVars
    <2>6. CASE /\ redis' = [k \in DOMAIN redis \cup {key[l]} |->
                               IF k = key[l] THEN data[l] ELSE redis[k]]
               /\ since' = [a \in Admins |-> since[a] \ {key[l]}]
      <3>1. DOMAIN redis' = DOMAIN redis \cup {key[l]}
        BY <2>6
      <3>2. DOMAIN redis' \subseteq Keys
            /\ \A k \in DOMAIN redis' : redis'[k] \in Vectors(k.targets)
        BY <2>1, <2>2, <2>6 DEF TypeOK
      <3>3. since' \in [Admins -> SUBSET Keys]
            /\ \A a \in Admins : since'[a] \subseteq DOMAIN redis'
        BY <2>6, <3>1 DEF TypeOK
      <3>4. \A a \in Admins, c \in Catalogs : stay[a][c] \subseteq DOMAIN redis'
        BY <3>1 DEF TypeOK
      <3> QED
        BY <2>3, <2>4, <3>2, <3>3, <3>4 DEF TypeOK, scanVars
    <2> QED
      BY <1>4, <2>5, <2>6 DEF Store
  <1> QED
    BY <1>1, <1>2, <1>3, <1>4, <1>5

(* What an administrator's request does, its flushes apart.                 *)
LEMMA StartKeepsTypes ==
  ASSUME TypeOK, NEW a \in Admins,
         NEW r \in [catalogs : SUBSET Catalogs, schema : Schemas \cup {AnySchema},
                    all : BOOLEAN],
         Start(a, r)
  PROVE  TypeOK'
  <1>1. /\ request' \in [Admins -> [catalogs : SUBSET Catalogs,
                                    schema : Schemas \cup {AnySchema}, all : BOOLEAN]]
        /\ request'[a] = r /\ \A b \in Admins \ {a} : request'[b] = request[b]
    BY DEF Start, TypeOK
  <1>2. DEFINE J == [c \in Catalogs |-> IF c \in r.catalogs THEN "scanning" ELSE "off"]
  <1>3. J \in [Catalogs -> {"off", "scanning", "deleting", "ok", "failed"}]
    OBVIOUS
  <1>4. /\ job' \in [Admins -> [Catalogs -> {"off", "scanning", "deleting", "ok", "failed"}]]
        /\ job'[a] = J /\ \A b \in Admins \ {a} : job'[b] = job[b]
    BY <1>3 DEF Start, TypeOK
  <1>5. \A b \in Admins, c \in Catalogs : job'[b][c] # "off" <=> c \in request'[b].catalogs
    <2>1. ASSUME NEW c \in Catalogs PROVE job'[a][c] # "off" <=> c \in request'[a].catalogs
      BY <1>1, <1>4
    <2>2. ASSUME NEW b \in Admins \ {a}, NEW c \in Catalogs
          PROVE  job'[b][c] # "off" <=> c \in request'[b].catalogs
      BY <1>1, <1>4 DEF TypeOK
    <2> QED
      BY <2>1, <2>2
  <1>6. DEFINE S == [c \in Catalogs |->
                       {k \in DOMAIN redis : c \in r.catalogs /\ Matches(k, c, r.schema)}]
  <1>7. S \in [Catalogs -> SUBSET Keys] /\ \A c \in Catalogs : S[c] \subseteq DOMAIN redis
    BY DEF TypeOK
  <1>8. stay' = [stay EXCEPT ![a] = S]
    BY DEF Start
  <1>9. /\ stay' \in [Admins -> [Catalogs -> SUBSET Keys]]
        /\ \A b \in Admins, c \in Catalogs : stay'[b][c] \subseteq DOMAIN redis
    <2> HIDE DEF S
    <2>1. stay' \in [Admins -> [Catalogs -> SUBSET Keys]]
          /\ stay'[a] = S /\ \A b \in Admins \ {a} : stay'[b] = stay[b]
      BY <1>7, <1>8 DEF TypeOK
    <2> QED
      BY <1>7, <2>1 DEF TypeOK
  <1>10. /\ since' \in [Admins -> SUBSET Keys]
         /\ \A b \in Admins : since'[b] \subseteq DOMAIN redis
    BY DEF Start, TypeOK
  <1>11. UNCHANGED <<served, redis, loaderVars, found, answer>>
    BY DEF Start
  <1> QED
    BY <1>1, <1>4, <1>5, <1>9, <1>10, <1>11 DEF TypeOK, loaderVars

(* The scope of each route is made of catalogs and a schema of them.        *)
LEMMA RoutesAreTyped ==
  ASSUME NEW a \in Admins,
         \/ \E c \in Catalogs : InvalidateCatalog(a, c)
         \/ \E t \in Targets : InvalidateSchema(a, t)
         \/ InvalidateAll(a)
  PROVE  \E r \in [catalogs : SUBSET Catalogs, schema : Schemas \cup {AnySchema},
                   all : BOOLEAN] : Start(a, r)
  <1>1. ASSUME NEW c \in Catalogs, InvalidateCatalog(a, c)
        PROVE  \E r \in [catalogs : SUBSET Catalogs, schema : Schemas \cup {AnySchema},
                         all : BOOLEAN] : Start(a, r)
    BY <1>1 DEF InvalidateCatalog
  <1>2. ASSUME NEW t \in Targets, InvalidateSchema(a, t)
        PROVE  \E r \in [catalogs : SUBSET Catalogs, schema : Schemas \cup {AnySchema},
                         all : BOOLEAN] : Start(a, r)
    <2>1. t.catalog \in Catalogs /\ t.schema \in Schemas
      BY DEF Catalogs, Schemas
    <2> QED
      BY <1>2, <2>1 DEF InvalidateSchema
  <1>3. CASE InvalidateAll(a)
    BY <1>3 DEF InvalidateAll
  <1> QED
    BY <1>1, <1>2, <1>3

(* A flush between its start and its end.                                   *)
LEMMA FlushKeepsTypes ==
  ASSUME TypeOK, NEW a \in Admins, NEW c \in Catalogs,
         ScanBatch(a, c) \/ ScanEnds(a, c) \/ Delete(a, c) \/ JobFails(a, c)
  PROVE  TypeOK'
  <1>1. CASE ScanBatch(a, c)
    <2>1. PICK k \in DOMAIN redis \ found[a][c] :
            /\ found' = [found EXCEPT ![a][c] = @ \cup {k}]
            /\ stay' = [stay EXCEPT ![a][c] = @ \ {k}]
      BY <1>1 DEF ScanBatch
    <2>2. k \in Keys
      BY DEF TypeOK
    <2>3. found' \in [Admins -> [Catalogs -> SUBSET Keys]]
      BY <2>1, <2>2 DEF TypeOK
    <2>4. /\ stay' \in [Admins -> [Catalogs -> SUBSET Keys]]
          /\ \A b \in Admins, d \in Catalogs : stay'[b][d] \subseteq stay[b][d]
      BY <2>1 DEF TypeOK
    <2>5. UNCHANGED <<served, redis, loaderVars, request, job, answer, since>>
      BY <1>1 DEF ScanBatch
    <2> QED
      BY <2>3, <2>4, <2>5 DEF TypeOK, loaderVars
  <1>2. CASE ScanEnds(a, c)
    <2>1. /\ job' \in [Admins -> [Catalogs -> {"off", "scanning", "deleting", "ok", "failed"}]]
          /\ \A b \in Admins, d \in Catalogs : job'[b][d] # "off" <=> job[b][d] # "off"
      BY <1>2 DEF ScanEnds, TypeOK
    <2>2. UNCHANGED <<served, redis, loaderVars, request, stay, found, answer, since>>
      BY <1>2 DEF ScanEnds
    <2> QED
      BY <2>1, <2>2 DEF TypeOK, loaderVars
  <1>3. CASE Delete(a, c)
    <2>1. /\ job' \in [Admins -> [Catalogs -> {"off", "scanning", "deleting", "ok", "failed"}]]
          /\ \A b \in Admins, d \in Catalogs : job'[b][d] # "off" <=> job[b][d] # "off"
      BY <1>3 DEF Delete, TypeOK
    <2> QED
      BY <1>3, <2>1, ForgetKeepsTypes DEF Delete
  <1>4. CASE JobFails(a, c)
    <2>1. /\ job' \in [Admins -> [Catalogs -> {"off", "scanning", "deleting", "ok", "failed"}]]
          /\ \A b \in Admins, d \in Catalogs : job'[b][d] # "off" <=> job[b][d] # "off"
      BY <1>4 DEF JobFails, TypeOK
    <2>2. UNCHANGED <<served, redis, loaderVars, request, stay, found, answer, since>>
      BY <1>4 DEF JobFails
    <2> QED
      BY <2>1, <2>2 DEF TypeOK, loaderVars
  <1> QED
    BY <1>1, <1>2, <1>3, <1>4

LEMMA AnswerKeepsTypes ==
  ASSUME TypeOK, NEW a \in Admins, Answer(a) \/ Done(a)
  PROVE  TypeOK'
  <1>1. CASE Answer(a)
    <2>1. answer' \in [Admins -> {"none", "success", "error"}]
      BY <1>1 DEF Answer, TypeOK
    <2> QED
      BY <1>1, <2>1 DEF Answer, TypeOK, loaderVars
  <1>2. CASE Done(a)
    <2>1. /\ request' \in [Admins -> [catalogs : SUBSET Catalogs,
                                      schema : Schemas \cup {AnySchema}, all : BOOLEAN]]
          /\ request'[a].catalogs = {} /\ \A b \in Admins \ {a} : request'[b] = request[b]
      BY <1>2 DEF Done, TypeOK, NoRequest
    <2>2. /\ job' \in [Admins -> [Catalogs -> {"off", "scanning", "deleting", "ok", "failed"}]]
          /\ \A d \in Catalogs : job'[a][d] = "off"
          /\ \A b \in Admins \ {a} : job'[b] = job[b]
      BY <1>2 DEF Done, TypeOK
    <2>3. \A b \in Admins, d \in Catalogs : job'[b][d] # "off" <=> d \in request'[b].catalogs
      <3>1. ASSUME NEW d \in Catalogs PROVE job'[a][d] # "off" <=> d \in request'[a].catalogs
        BY <2>1, <2>2
      <3>2. ASSUME NEW b \in Admins \ {a}, NEW d \in Catalogs
            PROVE  job'[b][d] # "off" <=> d \in request'[b].catalogs
        BY <2>1, <2>2 DEF TypeOK
      <3> QED
        BY <3>1, <3>2
    <2>4. /\ stay' \in [Admins -> [Catalogs -> SUBSET Keys]]
          /\ \A b \in Admins, d \in Catalogs : stay'[b][d] \subseteq stay[b][d]
      BY <1>2 DEF Done, TypeOK
    <2>5. found' \in [Admins -> [Catalogs -> SUBSET Keys]]
      BY <1>2 DEF Done, TypeOK
    <2>6. /\ answer' \in [Admins -> {"none", "success", "error"}]
          /\ since' \in [Admins -> SUBSET Keys]
          /\ \A b \in Admins : since'[b] \subseteq since[b]
      BY <1>2 DEF Done, TypeOK
    <2>7. UNCHANGED <<served, redis, loaderVars>>
      BY <1>2 DEF Done
    <2> QED
      BY <2>1, <2>2, <2>3, <2>4, <2>5, <2>6, <2>7 DEF TypeOK, loaderVars
  <1> QED
    BY <1>1, <1>2

LEMMA TypeStep ==
  ASSUME TypeOK, Held, [Next]_vars
  PROVE  TypeOK'
  <1>1. ASSUME NEW t \in Updated, Update(t) PROVE TypeOK'
    <2>1. served' \in [Targets -> Versions]
      BY <1>1, CacheAssumption DEF Update, TypeOK, Versions
    <2> QED
      BY <1>1, <2>1 DEF Update, TypeOK, loaderVars, scanVars
  <1>2. ASSUME NEW k \in DOMAIN redis, Expire(k) PROVE TypeOK'
    <2>1. /\ job' \in [Admins -> [Catalogs -> {"off", "scanning", "deleting", "ok", "failed"}]]
          /\ \A b \in Admins, d \in Catalogs : job'[b][d] # "off" <=> job[b][d] # "off"
      BY <1>2 DEF Expire, TypeOK
    <2> QED
      BY <1>2, <2>1, ForgetKeepsTypes DEF Expire
  <1>3. ASSUME NEW l \in Loaders,
               \/ \E ns \in Namespaces : Hit(l, ns) \/ Miss(l, ns)
               \/ Load(l) \/ Store(l) \/ Return(l)
        PROVE  TypeOK'
    BY <1>3, LoaderKeepsTypes
  <1>4. ASSUME NEW a \in Admins,
               \/ \E c \in Catalogs : InvalidateCatalog(a, c)
               \/ \E t \in Targets : InvalidateSchema(a, t)
               \/ InvalidateAll(a)
        PROVE  TypeOK'
    BY <1>4, RoutesAreTyped, StartKeepsTypes
  <1>5. ASSUME NEW a \in Admins, NEW c \in Catalogs,
               ScanBatch(a, c) \/ ScanEnds(a, c) \/ Delete(a, c) \/ JobFails(a, c)
        PROVE  TypeOK'
    BY <1>5, FlushKeepsTypes
  <1>6. ASSUME NEW a \in Admins, Answer(a) \/ Done(a) PROVE TypeOK'
    BY <1>6, AnswerKeepsTypes
  <1>7. CASE UNCHANGED vars
    BY <1>7 DEF vars, TypeOK
  <1> QED
    BY <1>1, <1>2, <1>3, <1>4, <1>5, <1>6, <1>7 DEF Next

-----------------------------------------------------------------------------
(* What loaders hold, and what the entries hold                             *)

LEMMA VectorAt ==
  ASSUME NEW ns \in Namespaces, NEW v \in Vectors(ns), NEW i \in DOMAIN v
  PROVE  v[i] \in Versions /\ DOMAIN v = DOMAIN ns /\ ns[i] \in Targets
  <1>1. DOMAIN v = DOMAIN ns /\ v[i] \in Versions
    BY DEF Vectors
  <1>2. ns \in Seq(Targets)
    BY CacheAssumption
  <1> QED
    BY <1>1, <1>2

(* What is in hand does not change with what the others do.                 *)
LEMMA HeldOfOthers ==
  ASSUME TypeOK, Held, NEW l \in Loaders, served' = served,
         \A m \in Loaders \ {l} : /\ pc'[m] = pc[m] /\ key'[m] = key[m]
                                  /\ data'[m] = data[m] /\ asked'[m] = asked[m],
         pc'[l] # "idle" =>
           /\ asked'[l] = key'[l].versions
           /\ pc'[l] = "missed" =>
                \A i \in DOMAIN asked'[l] : asked'[l][i] <= served[key'[l].targets[i]]
           /\ pc'[l] # "missed" =>
                /\ data'[l] \in Vectors(key'[l].targets)
                /\ \A i \in DOMAIN asked'[l] : asked'[l][i] <= data'[l][i]
  PROVE  Held'
  <1> SUFFICES ASSUME NEW m \in Loaders, pc'[m] # "idle"
               PROVE  /\ asked'[m] = key'[m].versions
                      /\ pc'[m] = "missed" =>
                           \A i \in DOMAIN asked'[m] :
                             asked'[m][i] <= served'[key'[m].targets[i]]
                      /\ pc'[m] # "missed" =>
                           /\ data'[m] \in Vectors(key'[m].targets)
                           /\ \A i \in DOMAIN asked'[m] : asked'[m][i] <= data'[m][i]
    BY DEF Held
  <1>1. CASE m = l
    BY <1>1
  <1>2. CASE m # l
    BY <1>2 DEF Held
  <1> QED
    BY <1>1, <1>2

LEMMA HitHolds ==
  ASSUME TypeOK, Held, Entries, NEW l \in Loaders, NEW ns \in Namespaces, Hit(l, ns)
  PROVE  Held'
  <1>1. /\ pc'[l] = "answered" /\ key'[l] = CacheKey(ns) /\ asked'[l] = ServedOf(ns)
        /\ data'[l] = redis[CacheKey(ns)] /\ served' = served
        /\ \A m \in Loaders \ {l} : /\ pc'[m] = pc[m] /\ key'[m] = key[m]
                                    /\ data'[m] = data[m] /\ asked'[m] = asked[m]
    BY DEF Hit, TypeOK
  <1>2. CacheKey(ns).targets = ns /\ CacheKey(ns).versions = ServedOf(ns)
    BY DEF CacheKey
  <1>3. /\ redis[CacheKey(ns)] \in Vectors(ns)
        /\ \A i \in DOMAIN ServedOf(ns) : ServedOf(ns)[i] <= redis[CacheKey(ns)][i]
    BY <1>2 DEF Hit, TypeOK, Entries
  <1> QED
    BY <1>1, <1>2, <1>3, HeldOfOthers

LEMMA MissHolds ==
  ASSUME TypeOK, Held, NEW l \in Loaders, NEW ns \in Namespaces, Miss(l, ns)
  PROVE  Held'
  <1>1. /\ pc'[l] = "missed" /\ key'[l] = CacheKey(ns) /\ asked'[l] = ServedOf(ns)
        /\ served' = served
        /\ \A m \in Loaders \ {l} : /\ pc'[m] = pc[m] /\ key'[m] = key[m]
                                    /\ data'[m] = data[m] /\ asked'[m] = asked[m]
    BY DEF Miss, TypeOK
  <1>2. CacheKey(ns).targets = ns /\ CacheKey(ns).versions = ServedOf(ns)
    BY DEF CacheKey
  <1>3. \A i \in DOMAIN ServedOf(ns) : ServedOf(ns)[i] <= served[ns[i]]
    <2> SUFFICES ASSUME NEW i \in DOMAIN ServedOf(ns) PROVE ServedOf(ns)[i] <= served[ns[i]]
      OBVIOUS
    <2>1. ServedOf(ns) \in Vectors(ns)
      BY ServedVector DEF TypeOK
    <2>2. ns[i] \in Targets
      BY <2>1, VectorAt
    <2>3. ServedOf(ns)[i] = served[ns[i]]
      BY DEF ServedOf
    <2>4. served[ns[i]] \in Nat
      BY <2>2 DEF TypeOK, Versions
    <2> QED
      BY <2>3, <2>4
  <1> QED
    BY <1>1, <1>2, <1>3, HeldOfOthers

LEMMA LoadHolds ==
  ASSUME TypeOK, Held, NEW l \in Loaders, Load(l)
  PROVE  Held'
  <1>1. /\ pc'[l] = "loaded" /\ key'[l] = key[l] /\ asked'[l] = asked[l]
        /\ data'[l] = ServedOf(key[l].targets) /\ served' = served
        /\ \A m \in Loaders \ {l} : /\ pc'[m] = pc[m] /\ key'[m] = key[m]
                                    /\ data'[m] = data[m] /\ asked'[m] = asked[m]
    BY DEF Load, TypeOK
  <1>2. key[l] \in Keys
    BY DEF Load, TypeOK
  <1>3. key[l].targets \in Namespaces /\ key[l].versions \in Vectors(key[l].targets)
    BY <1>2, KeyShape
  <1>4. asked[l] = key[l].versions
        /\ \A i \in DOMAIN asked[l] : asked[l][i] <= served[key[l].targets[i]]
    BY DEF Load, Held
  <1>5. ServedOf(key[l].targets) \in Vectors(key[l].targets)
    BY <1>3, ServedVector DEF TypeOK
  <1>6. \A i \in DOMAIN asked[l] : asked[l][i] <= ServedOf(key[l].targets)[i]
    <2> SUFFICES ASSUME NEW i \in DOMAIN asked[l]
                 PROVE  asked[l][i] <= ServedOf(key[l].targets)[i]
      OBVIOUS
    <2>1. i \in DOMAIN key[l].targets
      BY <1>3, <1>4 DEF Vectors
    <2> QED
      BY <1>4, <2>1 DEF ServedOf
  <1> QED
    BY <1>1, <1>4, <1>5, <1>6, HeldOfOthers

LEMMA StoreHolds ==
  ASSUME TypeOK, Held, Entries, NEW l \in Loaders, Store(l)
  PROVE  Held' /\ Entries'
  <1>1. /\ pc'[l] = "answered" /\ key' = key /\ asked' = asked /\ data' = data
        /\ served' = served /\ \A m \in Loaders \ {l} : pc'[m] = pc[m]
    BY DEF Store, TypeOK
  <1>2. /\ asked[l] = key[l].versions /\ data[l] \in Vectors(key[l].targets)
        /\ \A i \in DOMAIN asked[l] : asked[l][i] <= data[l][i]
    BY DEF Store, Held
  <1>3. Held'
    BY <1>1, <1>2, HeldOfOthers
  <1>4. CASE redis' = redis
    BY <1>3, <1>4 DEF Entries
  <1>5. CASE redis' = [k \in DOMAIN redis \cup {key[l]} |->
                         IF k = key[l] THEN data[l] ELSE redis[k]]
    <2>1. ASSUME NEW k \in DOMAIN redis' PROVE \A i \in DOMAIN k.versions : k.versions[i] <= redis'[k][i]
      <3>1. CASE k = key[l]
        BY <1>2, <1>5, <3>1
      <3>2. CASE k # key[l]
        BY <1>5, <2>1, <3>2 DEF Entries
      <3> QED
        BY <3>1, <3>2
    <2> QED
      BY <1>3, <2>1 DEF Entries
  <1> QED
    BY <1>4, <1>5 DEF Store

LEMMA HeldStep ==
  ASSUME TypeOK, Held, Entries, [Next]_vars
  PROVE  Held' /\ Entries'
  <1>1. ASSUME NEW t \in Updated, Update(t) PROVE Held' /\ Entries'
    <2>1. UNCHANGED <<redis, loaderVars>>
      BY <1>1 DEF Update
    <2>2. \A u \in Targets : served[u] <= served'[u]
      BY <1>1, CacheAssumption DEF Update, TypeOK, Versions
    <2>3. ASSUME NEW l \in Loaders, pc[l] = "missed", NEW i \in DOMAIN asked[l]
          PROVE  asked[l][i] <= served'[key[l].targets[i]]
      <3>1. key[l] \in Keys
        BY <2>3 DEF TypeOK
      <3>2. key[l].targets \in Namespaces /\ key[l].versions \in Vectors(key[l].targets)
        BY <3>1, KeyShape
      <3>3. asked[l] = key[l].versions /\ asked[l][i] <= served[key[l].targets[i]]
        BY <2>3 DEF Held
      <3>4. asked[l][i] \in Versions /\ key[l].targets[i] \in Targets
        BY <2>3, <3>2, <3>3, VectorAt
      <3>5. /\ served[key[l].targets[i]] \in Nat /\ served'[key[l].targets[i]] \in Nat
            /\ asked[l][i] \in Nat
        BY <1>1, <3>4, CacheAssumption DEF Update, TypeOK, Versions
      <3>6. served[key[l].targets[i]] <= served'[key[l].targets[i]]
        BY <2>2, <3>4
      <3> QED
        BY <3>3, <3>5, <3>6
    <2>4. Held'
      BY <2>1, <2>3 DEF Held, loaderVars
    <2> QED
      BY <2>1, <2>4 DEF Entries
  <1>2. ASSUME NEW gone, Forget(gone), UNCHANGED <<served, loaderVars>>
        PROVE  Held' /\ Entries'
    <2>1. DOMAIN redis' = DOMAIN redis \ gone /\ \A k \in DOMAIN redis' : redis'[k] = redis[k]
      BY <1>2, ForgetTypes
    <2> QED
      BY <1>2, <2>1 DEF Held, Entries, loaderVars
  <1>3. ASSUME UNCHANGED <<served, redis, loaderVars>> PROVE Held' /\ Entries'
    BY <1>3 DEF Held, Entries, loaderVars
  <1>4. ASSUME NEW l \in Loaders, NEW ns \in Namespaces, Hit(l, ns) \/ Miss(l, ns)
        PROVE  Held' /\ Entries'
    <2>1. redis' = redis
      BY <1>4 DEF Hit, Miss
    <2> QED
      BY <1>4, <2>1, HitHolds, MissHolds DEF Entries
  <1>5. ASSUME NEW l \in Loaders, Load(l) PROVE Held' /\ Entries'
    BY <1>5, LoadHolds DEF Load, Entries
  <1>6. ASSUME NEW l \in Loaders, Store(l) PROVE Held' /\ Entries'
    BY <1>6, StoreHolds
  <1>7. ASSUME NEW l \in Loaders, Return(l) PROVE Held' /\ Entries'
    <2>1. /\ pc'[l] = "idle" /\ served' = served /\ redis' = redis
          /\ \A m \in Loaders \ {l} : /\ pc'[m] = pc[m] /\ key'[m] = key[m]
                                      /\ data'[m] = data[m] /\ asked'[m] = asked[m]
      BY <1>7 DEF Return, TypeOK
    <2> QED
      BY <2>1, HeldOfOthers DEF Entries
  <1>8. ASSUME NEW k \in DOMAIN redis, Expire(k) PROVE Held' /\ Entries'
    BY <1>2, <1>8 DEF Expire
  <1>9. ASSUME NEW a \in Admins, NEW c \in Catalogs,
               \/ InvalidateCatalog(a, c) \/ ScanBatch(a, c) \/ ScanEnds(a, c)
               \/ JobFails(a, c)
        PROVE  Held' /\ Entries'
    BY <1>3, <1>9 DEF InvalidateCatalog, Start, ScanBatch, ScanEnds, JobFails
  <1>10. ASSUME NEW a \in Admins, NEW c \in Catalogs, Delete(a, c) PROVE Held' /\ Entries'
    BY <1>2, <1>10 DEF Delete
  <1>11. ASSUME NEW a \in Admins,
                \/ \E t \in Targets : InvalidateSchema(a, t)
                \/ InvalidateAll(a) \/ Answer(a) \/ Done(a)
         PROVE  Held' /\ Entries'
    BY <1>3, <1>11 DEF InvalidateSchema, InvalidateAll, Start, Answer, Done
  <1>12. CASE UNCHANGED vars
    BY <1>3, <1>12 DEF vars, loaderVars
  <1> QED
    BY <1>1, <1>4, <1>5, <1>6, <1>7, <1>8, <1>9, <1>10, <1>11, <1>12 DEF Next

-----------------------------------------------------------------------------
(* What the flushes have found                                              *)

(* A flush that takes no step, while entries leave.                         *)
LEMMA ScannedOfOthers ==
  ASSUME NEW a \in Admins, NEW c \in Catalogs, Scanned(a, c),
         request'[a] = request[a], job'[a][c] = job[a][c], found'[a][c] = found[a][c],
         since'[a] \subseteq since[a],
         stay[a][c] \cap since'[a] \subseteq stay'[a][c]
  PROVE  Scanned(a, c)'
  <1>1. Before(a, c)' \subseteq Before(a, c) /\ Before(a, c)' \subseteq since'[a]
    BY DEF Before
  <1> QED
    BY <1>1 DEF Scanned

LEMMA LoadersLeaveScans ==
  ASSUME Scans, UNCHANGED scanVars, \A a \in Admins : since'[a] \subseteq since[a]
  PROVE  Scans'
  <1> SUFFICES ASSUME NEW a \in Admins, NEW c \in Catalogs PROVE Scanned(a, c)'
    BY DEF Scans
  <1>1. Scanned(a, c)
    BY DEF Scans
  <1>2. request' = request /\ job' = job /\ found' = found /\ stay' = stay
    BY DEF scanVars
  <1>3. since'[a] \subseteq since[a]
    OBVIOUS
  <1> QED
    BY <1>1, <1>2, <1>3, ScannedOfOthers

LEMMA StartScans ==
  ASSUME TypeOK, Scans, NEW a \in Admins,
         NEW r \in [catalogs : SUBSET Catalogs, schema : Schemas \cup {AnySchema},
                    all : BOOLEAN],
         Start(a, r)
  PROVE  Scans'
  <1> SUFFICES ASSUME NEW b \in Admins, NEW c \in Catalogs PROVE Scanned(b, c)'
    BY DEF Scans
  <1>1. Scanned(b, c)
    BY DEF Scans
  <1>2. found' = found
    BY DEF Start
  <1>3. CASE b # a
    <2>1. request'[b] = request[b] /\ job'[b] = job[b] /\ stay'[b] = stay[b]
          /\ since'[b] = since[b]
      BY <1>3 DEF Start, TypeOK
    <2> QED
      BY <1>1, <1>2, <2>1, ScannedOfOthers
  <1>4. CASE b = a
    <2>1. found[a][c] = {}
      <3>1. request[a].catalogs = {}
        BY DEF Start, NoRequest
      <3>2. job[a][c] = "off"
        BY <3>1 DEF TypeOK
      <3> QED
        BY <1>1, <1>4, <3>2 DEF Scanned
    <2>2. request'[a] = r /\ since'[a] = DOMAIN redis
          /\ stay'[a] = [d \in Catalogs |->
               {k \in DOMAIN redis : d \in r.catalogs /\ Matches(k, d, r.schema)}]
      BY DEF Start, TypeOK
    <2>3. stay'[a][c] = {k \in DOMAIN redis : c \in r.catalogs /\ Matches(k, c, r.schema)}
      BY <2>2
    <2>4. job'[a] = [d \in Catalogs |-> IF d \in r.catalogs THEN "scanning" ELSE "off"]
      BY DEF Start, TypeOK
    <2>5. job'[a][c] = IF c \in r.catalogs THEN "scanning" ELSE "off"
      BY <2>4
    <2>6. Before(a, c)' = {k \in DOMAIN redis : Matches(k, c, r.schema)}
      BY <2>2 DEF Before
    <2>7. job'[a][c] = "scanning" => Before(a, c)' \subseteq stay'[a][c]
      BY <2>3, <2>5, <2>6
    <2>8. job'[a][c] \in {"scanning", "off"}
      BY <2>5
    <2> QED
      BY <1>2, <1>4, <2>1, <2>7, <2>8 DEF Scanned
  <1> QED
    BY <1>3, <1>4

LEMMA ScanBatchScans ==
  ASSUME TypeOK, Scans, NEW a \in Admins, NEW c \in Catalogs, ScanBatch(a, c)
  PROVE  Scans'
  <1> SUFFICES ASSUME NEW b \in Admins, NEW d \in Catalogs PROVE Scanned(b, d)'
    BY DEF Scans
  <1>1. Scanned(b, d)
    BY DEF Scans
  <1>2. PICK k \in DOMAIN redis \ found[a][c] :
          /\ Matches(k, c, request[a].schema)
          /\ found' = [found EXCEPT ![a][c] = @ \cup {k}]
          /\ stay' = [stay EXCEPT ![a][c] = @ \ {k}]
    BY DEF ScanBatch
  <1>3. request' = request /\ job' = job /\ since' = since /\ job[a][c] = "scanning"
    BY DEF ScanBatch
  <1>4. Before(b, d)' = Before(b, d)
    BY <1>3 DEF Before
  <1>5. CASE b = a /\ d = c
    <2>1. found'[a][c] = found[a][c] \cup {k} /\ stay'[a][c] = stay[a][c] \ {k}
      BY <1>2 DEF TypeOK
    <2>2. \A e \in found'[a][c] : Matches(e, c, request'[a].schema)
      BY <1>1, <1>2, <1>3, <1>5, <2>1 DEF Scanned
    <2>3. Before(a, c)' \subseteq stay'[a][c] \cup found'[a][c]
      BY <1>1, <1>3, <1>4, <1>5, <2>1 DEF Scanned
    <2>4. job'[a][c] = "scanning"
      BY <1>3
    <2> QED
      BY <1>5, <2>2, <2>3, <2>4 DEF Scanned
  <1>6. CASE ~(b = a /\ d = c)
    <2>1. found'[b][d] = found[b][d] /\ stay'[b][d] = stay[b][d]
      BY <1>2, <1>6 DEF TypeOK
    <2> QED
      BY <1>1, <1>3, <2>1, ScannedOfOthers
  <1> QED
    BY <1>5, <1>6

LEMMA ScanEndsScans ==
  ASSUME TypeOK, Scans, NEW a \in Admins, NEW c \in Catalogs,
         ScanEnds(a, c) \/ JobFails(a, c)
  PROVE  Scans'
  <1> SUFFICES ASSUME NEW b \in Admins, NEW d \in Catalogs PROVE Scanned(b, d)'
    BY DEF Scans
  <1>1. Scanned(b, d)
    BY DEF Scans
  <1>2. request' = request /\ since' = since /\ stay' = stay /\ found' = found
    BY DEF ScanEnds, JobFails
  <1>3. Before(b, d)' = Before(b, d)
    BY <1>2 DEF Before
  <1>4. CASE b = a /\ d = c
    <2>1. CASE ScanEnds(a, c)
      <3>1. /\ job[a][c] = "scanning" /\ stay[a][c] = {}
            /\ job'[a][c] = IF found[a][c] = {} THEN "ok" ELSE "deleting"
        BY <2>1 DEF ScanEnds, TypeOK
      <3>2. Before(a, c) \subseteq found[a][c]
        BY <1>1, <1>4, <3>1 DEF Scanned
      <3>3. job'[a][c] = "ok" => found[a][c] = {}
        BY <3>1
      <3>4. job'[a][c] \in {"ok", "deleting"}
        BY <3>1
      <3> QED
        BY <1>1, <1>2, <1>3, <1>4, <3>2, <3>3, <3>4 DEF Scanned
    <2>2. CASE JobFails(a, c)
      <3>1. job'[a][c] = "failed"
        BY <2>2 DEF JobFails, TypeOK
      <3> QED
        BY <1>1, <1>2, <1>4, <3>1 DEF Scanned
    <2> QED
      BY <2>1, <2>2
  <1>5. CASE ~(b = a /\ d = c)
    <2>1. job'[b][d] = job[b][d]
      BY <1>5 DEF ScanEnds, JobFails, TypeOK
    <2> QED
      BY <1>1, <1>2, <2>1, ScannedOfOthers
  <1> QED
    BY <1>4, <1>5

LEMMA ForgetScans ==
  ASSUME NEW gone, NEW b \in Admins, NEW d \in Catalogs,
         TypeOK, Forget(gone), Scanned(b, d),
         request' = request, found' = found, job'[b][d] = job[b][d]
  PROVE  Scanned(b, d)'
  <1>1. /\ \A a \in Admins, c \in Catalogs : stay'[a][c] = stay[a][c] \ gone
        /\ \A a \in Admins : since'[a] = since[a] \ gone
    BY ForgetTypes
  <1>2. stay'[b][d] = stay[b][d] \ gone /\ since'[b] = since[b] \ gone
    BY <1>1
  <1> QED
    BY <1>2, ScannedOfOthers

LEMMA DeleteScans ==
  ASSUME TypeOK, Scans, NEW a \in Admins, NEW c \in Catalogs, Delete(a, c)
  PROVE  Scans'
  <1> SUFFICES ASSUME NEW b \in Admins, NEW d \in Catalogs PROVE Scanned(b, d)'
    BY DEF Scans
  <1>1. Scanned(b, d)
    BY DEF Scans
  <1>2. request' = request /\ found' = found /\ Forget(found[a][c]) /\ job[a][c] = "deleting"
    BY DEF Delete
  <1>3. CASE b = a /\ d = c
    <2>1. job'[a][c] = "ok"
      BY DEF Delete, TypeOK
    <2>2. since'[a] = since[a] \ found[a][c]
      BY <1>2, ForgetTypes
    <2>3. Before(a, c) \subseteq found[a][c]
      BY <1>1, <1>2, <1>3 DEF Scanned
    <2>4. Before(a, c)' = {}
      BY <1>2, <2>2, <2>3 DEF Before
    <2> QED
      BY <1>1, <1>2, <1>3, <2>1, <2>4 DEF Scanned
  <1>4. CASE ~(b = a /\ d = c)
    <2>1. job'[b][d] = job[b][d]
      BY <1>4 DEF Delete, TypeOK
    <2> QED
      BY <1>1, <1>2, <2>1, ForgetScans
  <1> QED
    BY <1>3, <1>4

LEMMA DoneScans ==
  ASSUME TypeOK, Scans, NEW a \in Admins, Done(a)
  PROVE  Scans'
  <1> SUFFICES ASSUME NEW b \in Admins, NEW d \in Catalogs PROVE Scanned(b, d)'
    BY DEF Scans
  <1>1. Scanned(b, d)
    BY DEF Scans
  <1>2. CASE b = a
    <2>1. job'[a][d] = "off" /\ found'[a][d] = {}
      BY DEF Done, TypeOK
    <2> QED
      BY <1>2, <2>1 DEF Scanned
  <1>3. CASE b # a
    <2>1. /\ request'[b] = request[b] /\ job'[b] = job[b] /\ stay'[b] = stay[b]
          /\ found'[b] = found[b] /\ since'[b] = since[b]
      BY <1>3 DEF Done, TypeOK
    <2> QED
      BY <1>1, <2>1, ScannedOfOthers
  <1> QED
    BY <1>2, <1>3

LEMMA ScansStep ==
  ASSUME TypeOK, Scans, [Next]_vars
  PROVE  Scans'
  <1>1. ASSUME NEW t \in Updated, Update(t) PROVE Scans'
    BY <1>1, LoadersLeaveScans DEF Update
  <1>2. ASSUME NEW k \in DOMAIN redis, Expire(k) PROVE Scans'
    <2>1. \A a \in Admins, c \in Catalogs : Scanned(a, c)'
      BY <1>2, ForgetScans DEF Expire, Scans
    <2> QED
      BY <2>1 DEF Scans
  <1>3. ASSUME NEW l \in Loaders,
               \/ \E ns \in Namespaces : Hit(l, ns) \/ Miss(l, ns)
               \/ Load(l) \/ Return(l)
        PROVE  Scans'
    <2>1. UNCHANGED <<scanVars, since>>
      BY <1>3 DEF Hit, Miss, Load, Return
    <2> QED
      BY <2>1, LoadersLeaveScans
  <1>4. ASSUME NEW l \in Loaders, Store(l) PROVE Scans'
    <2>1. UNCHANGED scanVars /\ \A a \in Admins : since'[a] \subseteq since[a]
      BY <1>4 DEF Store
    <2> QED
      BY <2>1, LoadersLeaveScans
  <1>5. ASSUME NEW a \in Admins,
               \/ \E c \in Catalogs : InvalidateCatalog(a, c)
               \/ \E t \in Targets : InvalidateSchema(a, t)
               \/ InvalidateAll(a)
        PROVE  Scans'
    BY <1>5, RoutesAreTyped, StartScans
  <1>6. ASSUME NEW a \in Admins, NEW c \in Catalogs,
               ScanBatch(a, c) \/ ScanEnds(a, c) \/ Delete(a, c) \/ JobFails(a, c)
        PROVE  Scans'
    BY <1>6, ScanBatchScans, ScanEndsScans, DeleteScans
  <1>7. ASSUME NEW a \in Admins, Answer(a) PROVE Scans'
    <2>1. \A b \in Admins, c \in Catalogs : Scanned(b, c)'
      BY <1>7 DEF Answer, Scans, Scanned, Before
    <2> QED
      BY <2>1 DEF Scans
  <1>8. ASSUME NEW a \in Admins, Done(a) PROVE Scans'
    BY <1>8, DoneScans
  <1>9. CASE UNCHANGED vars
    <2>1. UNCHANGED <<scanVars, since>>
      BY <1>9 DEF vars, scanVars
    <2> QED
      BY <2>1, LoadersLeaveScans
  <1> QED
    BY <1>1, <1>2, <1>3, <1>4, <1>5, <1>6, <1>7, <1>8, <1>9 DEF Next

-----------------------------------------------------------------------------
(* The theorems                                                             *)

LEMMA Inductive == Spec => []Inv
  <1>1. Init => Inv
    <2> SUFFICES ASSUME Init PROVE Inv
      OBVIOUS
    <2>1. TypeOK
      BY TypeInit
    <2>2. Held /\ Entries
      BY DEF Init, Held, Entries
    <2>3. Scans
      BY DEF Init, Scans, Scanned, Before
    <2> QED
      BY <2>1, <2>2, <2>3 DEF Inv
  <1>2. Inv /\ [Next]_vars => Inv'
    BY TypeStep, HeldStep, ScansStep DEF Inv
  <1> QED
    BY <1>1, <1>2, PTL DEF Spec

(* Every variable keeps its type: in particular an entry holds a version of *)
(* each schema its key names, and a scan owes only entries that are there.  *)
THEOREM TypeCorrect == Spec => []TypeOK
  <1>1. Inv => TypeOK
    BY DEF Inv
  <1> QED
    BY <1>1, Inductive, PTL

(* What loadWithCache() answers is never older than what was served, when   *)
(* it was called, of any schema it reads (NoStaleAnswer), however many      *)
(* schemas are compared and however often they are updated.                 *)
THEOREM AnswersAreFresh == Spec => []NoStaleAnswer
  <1>1. Inv => NoStaleAnswer
    <2> SUFFICES ASSUME Inv, NEW l \in Loaders, pc[l] = "answered", NEW i \in DOMAIN asked[l]
                 PROVE  data[l][i] >= asked[l][i]
      BY DEF NoStaleAnswer
    <2>1. key[l] \in Keys
      BY DEF Inv, TypeOK
    <2>2. key[l].targets \in Namespaces /\ key[l].versions \in Vectors(key[l].targets)
      BY <2>1, KeyShape
    <2>3. /\ asked[l] = key[l].versions /\ data[l] \in Vectors(key[l].targets)
          /\ asked[l][i] <= data[l][i]
      BY DEF Inv, Held
    <2>4. asked[l][i] \in Nat /\ data[l][i] \in Nat
      BY <2>2, <2>3, CacheAssumption DEF Vectors, Versions
    <2> QED
      BY <2>3, <2>4
  <1> QED
    BY <1>1, Inductive, PTL

(* A flush that succeeded has removed every entry of its scope written      *)
(* before it started (FlushReachesItsScope), whatever loaders, updates,     *)
(* expiries and other flushes did while it scanned.                         *)
THEOREM FlushesReachTheirScope == Spec => []FlushReachesItsScope
  <1>1. Inv => FlushReachesItsScope
    <2> SUFFICES ASSUME Inv, NEW a \in Admins, answer[a] = "success",
                        \A c \in request[a].catalogs : job[a][c] = "ok",
                        NEW k \in since[a], Len(k.targets) = 1, InScope(k, request[a])
                 PROVE  FALSE
      BY DEF FlushReachesItsScope
    <2>1. k \in Keys
      BY DEF Inv, TypeOK
    <2>2. k.targets \in Seq(Targets) /\ 1 \in DOMAIN k.targets
      BY <2>1, KeyShape
    <2>3. /\ k.targets[1].catalog \in request[a].catalogs
          /\ request[a].schema \in {AnySchema, k.targets[1].schema}
      BY <2>2 DEF InScope
    <2>4. k.targets[1].catalog \in Catalogs
      BY <2>2 DEF Catalogs
    <2>5. Matches(k, k.targets[1].catalog, request[a].schema)
      BY <2>3 DEF Matches
    <2>6. job[a][k.targets[1].catalog] = "ok"
      BY <2>3
    <2>7. Before(a, k.targets[1].catalog) = {}
      BY <2>4, <2>6 DEF Inv, Scans, Scanned
    <2> QED
      BY <2>5, <2>7 DEF Before
  <1> QED
    BY <1>1, Inductive, PTL

(* The deletion of a flush takes no entry out of its scope (FlushIsLocal):  *)
(* no pattern of a route reaches another catalog or another schema.         *)
THEOREM FlushesAreLocal == Spec => FlushIsLocal
  <1> DEFINE Local == \A a \in Admins, c \in Catalogs :
                        (job[a][c] = "deleting" /\ job'[a][c] = "ok")
                          => \A k \in DOMAIN redis \ DOMAIN redis' : InScope(k, request[a])
  <1>1. Inv /\ [Next]_vars => [Local]_vars
    <2> SUFFICES ASSUME Inv, [Next]_vars, NEW a \in Admins, NEW c \in Catalogs,
                        job[a][c] = "deleting", job'[a][c] = "ok",
                        NEW k \in DOMAIN redis \ DOMAIN redis'
                 PROVE  InScope(k, request[a])
      OBVIOUS
    <2>1. PICK b \in Admins, d \in Catalogs : Delete(b, d)
      <3>1. redis' # redis /\ job' # job
        OBVIOUS
      <3>2. ASSUME NEW l \in Loaders,
                   \/ \E ns \in Namespaces : Hit(l, ns) \/ Miss(l, ns)
                   \/ Load(l) \/ Store(l) \/ Return(l)
            PROVE  job' = job
        BY <3>2 DEF Hit, Miss, Load, Store, Return, scanVars
      <3>3. ASSUME NEW t \in Updated, Update(t) PROVE redis' = redis
        BY <3>3 DEF Update
      <3>4. ASSUME NEW e \in DOMAIN redis, Expire(e) PROVE job' = job
        BY <3>4 DEF Expire
      <3>5. ASSUME NEW b \in Admins,
                   \/ \E d \in Catalogs : \/ InvalidateCatalog(b, d) \/ ScanBatch(b, d)
                                          \/ ScanEnds(b, d) \/ JobFails(b, d)
                   \/ \E t \in Targets : InvalidateSchema(b, t)
                   \/ InvalidateAll(b) \/ Answer(b) \/ Done(b)
            PROVE  redis' = redis
        BY <3>5 DEF InvalidateCatalog, InvalidateSchema, InvalidateAll, Start, ScanBatch,
                    ScanEnds, JobFails, Answer, Done
      <3>6. ASSUME UNCHANGED vars PROVE redis' = redis
        BY <3>6 DEF vars
      <3> QED
        BY <3>1, <3>2, <3>3, <3>4, <3>5, <3>6 DEF Next
    <2>2. b = a /\ d = c
      BY <2>1 DEF Delete, Inv, TypeOK
    <2>3. DOMAIN redis' = DOMAIN redis \ found[a][c]
      BY <2>1, <2>2, ForgetTypes DEF Delete, Inv
    <2>4. Matches(k, c, request[a].schema)
      BY <2>3 DEF Inv, Scans, Scanned
    <2>5. c \in request[a].catalogs
      BY DEF Inv, TypeOK
    <2>6. k \in Keys
      BY DEF Inv, TypeOK
    <2>7. k.targets \in Seq(Targets)
      BY <2>6, KeyShape
    <2>8. DOMAIN k.targets = {1}
      BY <2>4, <2>7 DEF Matches
    <2> QED
      BY <2>4, <2>5, <2>8 DEF InScope, Matches
  <1>2. FlushIsLocal <=> [][Local]_vars
    BY PTL DEF FlushIsLocal
  <1> QED
    BY <1>1, <1>2, Inductive, PTL DEF Spec
=============================================================================
