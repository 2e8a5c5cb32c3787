------------------------- MODULE CatalogRefreshProofs -------------------------
(***************************************************************************)
(* Proofs about CatalogRefresh, for any number of pods, loaders and        *)
(* commits: the shared cache never holds, under the key of a version, data *)
(* older than that version, provided either that an attached catalog sees  *)
(* later commits, or that no catalog is reattached by an administrator.    *)
(* Without that proviso the run refresh_reattach refutes it.               *)
(*                                                                         *)
(* NoStaleUnderNewKey is not inductive: that an entry is fresh when it is  *)
(* written follows from what its loader read on the connection it was      *)
(* bound to, which follows from the order of publication, swap and build.  *)
(***************************************************************************)
EXTENDS CatalogRefresh, TLAPS

(* What a pod publishes, shows and builds has been committed.              *)
Committed ==
  /\ \A p \in Pods : /\ served[p] <= head /\ snap[p] <= head
                     /\ fresh[p] <= head /\ adminSeen[p] <= head
  /\ \A l \in Loaders : key[l] <= head

(* A loader read data at least as recent as its key.                       *)
LoadedIsRecent == \A l \in Loaders : pc[l] = "loaded" => key[l] <= data[l]

(* Publication follows the swap: the instance built next is at least as    *)
(* recent as the live one, and what is about to be published is shown.     *)
PodOrdered(p) ==
  /\ admin[p] = "idle" /\ adminOn[p] = "none"
  /\ served[p] <= snap[p]
  /\ monitor[p] = "built" => snap[p] <= fresh[p]
  /\ monitor[p] = "switching" => fresh[p] <= snap[p]

(* The instance a loader works on shows at least the version of its key;   *)
(* while one works on a retired instance, that one is being drained.       *)
LoaderOrdered(l) ==
  /\ bound[l] \in {"none", "live"} => key[l] <= snap[PodOf[l]]
  /\ bound[l] = "old" => key[l] <= old[PodOf[l]] /\ monitor[PodOf[l]] = "draining"

Ordered ==
  ~LiveReads => /\ \A p \in Pods : PodOrdered(p)
                /\ \A l \in Loaders : LoaderOrdered(l)

RefreshInv ==
  /\ TypeOK
  /\ Committed
  /\ LoadedIsRecent
  /\ Ordered
  /\ NoStaleUnderNewKey

-----------------------------------------------------------------------------
(* The typing of the state, for every backend and every administrator.     *)

LEMMA RefreshTypeInit == Init => TypeOK
  BY RefreshAssumption DEF Init, TypeOK, Versions, NoVersion, Bindings

(* A reading of the catalog is a version.                                  *)
LEMMA SeenIsVersion ==
  ASSUME TypeOK, NEW p \in Pods, NEW on
  PROVE  Seen(p, on) \in Versions
  BY DEF TypeOK, Seen

LEMMA RefreshTypeStep == TypeOK /\ [Next]_vars => TypeOK'
  <1> SUFFICES ASSUME TypeOK, [Next]_vars PROVE TypeOK'
    OBVIOUS
  <1>0. NoVersion \in Versions
    BY RefreshAssumption DEF NoVersion, Versions
  <1> USE <1>0
  <1> USE DEF Bindings
  <1>1. CASE Commit
    <2>1. head' \in Versions
      BY <1>1, RefreshAssumption DEF Commit, TypeOK, Versions
    <2> QED
      BY <1>1, <2>1 DEF Commit, TypeOK, instVars, refreshVars, adminVars, loaderVars
  <1>2. ASSUME NEW v \in Versions, Expire(v) PROVE TypeOK'
    BY <1>2 DEF Expire, TypeOK, instVars, refreshVars, adminVars, loaderVars
  <1>3. ASSUME NEW p \in Pods, Tick(p) \/ ForceReload(p) \/ Decide(p) PROVE TypeOK'
    BY <1>3 DEF Tick, Probe, ProbeFails, ForceReload, Decide, TypeOK, instVars,
                refreshVars, adminVars, loaderVars
  <1>4. ASSUME NEW p \in Pods, Reload(p) PROVE TypeOK'
    <2>1. CASE Build(p) \/ BuildFails(p)
      BY <2>1 DEF Build, BuildFails, TypeOK, instVars, refreshVars, adminVars, loaderVars
    <2>2. CASE Swap(p)
      <3>1. /\ monitor' \in [Pods -> {"idle", "probing", "forcing", "building", "built",
                                   "draining", "publishing", "switching"}]
            /\ snap' \in [Pods -> Versions] /\ attached' \in [Pods -> BOOLEAN]
            /\ old' \in [Pods -> Versions] /\ oldOk' \in [Pods -> BOOLEAN]
            /\ fresh' \in [Pods -> Versions] /\ adminOn' \in [Pods -> Bindings]
        BY <2>2 DEF Swap, TypeOK
      <3>2. /\ bound' \in [Loaders -> Bindings]
            /\ \A l \in Loaders : bound'[l] = "none" <=> pc'[l] \in {"idle", "keyed"}
        BY <2>2 DEF Swap, TypeOK
      <3> QED
        BY <2>2, <3>1, <3>2 DEF Swap, TypeOK
    <2>3. CASE DrainEnds(p) \/ DrainForced(p)
      <3>1. Retire(p)
        BY <2>3 DEF DrainEnds, DrainForced
      <3>2. /\ monitor' \in [Pods -> {"idle", "probing", "forcing", "building", "built",
                                   "draining", "publishing", "switching"}]
            /\ old' \in [Pods -> Versions] /\ oldOk' \in [Pods -> BOOLEAN]
            /\ adminOn' \in [Pods -> Bindings]
        BY <3>1 DEF Retire, TypeOK
      <3>3. /\ bound' \in [Loaders -> Bindings]
            /\ \A l \in Loaders : bound'[l] = "none" <=> pc'[l] \in {"idle", "keyed"}
        BY <3>1 DEF Retire, TypeOK
      <3> QED
        BY <3>1, <3>2, <3>3 DEF Retire, TypeOK
    <2>4. CASE ReadVersion(p)
      <3>1. Seen(p, "live") \in Versions
        BY SeenIsVersion
      <3>2. fresh' \in [Pods -> Versions]
        BY <2>4, <3>1 DEF ReadVersion, TypeOK
      <3> QED
        BY <2>4, <3>2 DEF ReadVersion, TypeOK, instVars, adminVars, loaderVars
    <2>5. CASE Publish(p) \/ PublishFails(p)
      BY <2>5 DEF Publish, PublishFails, TypeOK, instVars, adminVars, loaderVars
    <2> QED
      BY <1>4, <2>1, <2>2, <2>3, <2>4, <2>5 DEF Reload
  <1>5. ASSUME NEW p \in Pods, Reattach(p) PROVE TypeOK'
    <2>1. CASE ReattachStarts(p) \/ ReattachFails(p)
      BY <2>1 DEF ReattachStarts, ReattachFails, AdminIdle, TypeOK, instVars, refreshVars,
                  adminVars, loaderVars
    <2>2. CASE Detach(p)
      <3>1. /\ attached' \in [Pods -> BOOLEAN] /\ oldOk' \in [Pods -> BOOLEAN]
        BY <2>2, Zenon DEF Detach, TypeOK
      <3>2. admin' \in [Pods -> {"idle", "captured", "detached", "reattached",
                                 "publishing", "switching"}]
        BY <2>2 DEF Detach, TypeOK
      <3> QED
        BY <2>2, <3>1, <3>2 DEF Detach, TypeOK, refreshVars, loaderVars
    <2>3. CASE Attach(p)
      <3>1. /\ admin' \in [Pods -> {"idle", "captured", "detached", "reattached",
                                    "publishing", "switching"}]
            /\ adminOn' \in [Pods -> Bindings]
            /\ UNCHANGED <<head, cache, served, refreshVars, adminSeen, loaderVars>>
        BY <2>3 DEF Attach, TypeOK
      <3>2. /\ attached' \in [Pods -> BOOLEAN] /\ oldOk' \in [Pods -> BOOLEAN]
            /\ snap' \in [Pods -> Versions] /\ old' \in [Pods -> Versions]
        BY <2>3 DEF Attach, TypeOK
      <3> QED
        BY <3>1, <3>2 DEF TypeOK, refreshVars, loaderVars
    <2>4. CASE VersionProbe(p) \/ VersionProbeFails(p)
      BY <2>4 DEF VersionProbe, VersionProbeFails, AdminIdle, TypeOK, instVars,
                  refreshVars, adminVars, loaderVars
    <2>5. CASE AdminReadsVersion(p)
      <3>1. Seen(p, adminOn[p]) \in Versions
        BY SeenIsVersion
      <3>2. adminSeen' \in [Pods -> Versions]
        BY <2>5, <3>1 DEF AdminReadsVersion, TypeOK
      <3> QED
        BY <2>5, <3>2 DEF AdminReadsVersion, TypeOK, instVars, refreshVars, loaderVars
    <2>6. CASE ReattachPublishes(p)
      BY <2>6 DEF ReattachPublishes, AdminIdle, TypeOK, instVars, refreshVars, loaderVars
    <2> QED
      BY <1>5, <2>1, <2>2, <2>3, <2>4, <2>5, <2>6 DEF Reattach
  <1>6. ASSUME NEW l \in Loaders, Load(l) PROVE TypeOK'
    <2>1. CASE Miss(l)
      <3>1. PodOf[l] \in Pods
        BY RefreshAssumption
      <3>2. /\ key' \in [Loaders -> Versions]
            /\ pc' \in [Loaders -> {"idle", "keyed", "connected", "loaded"}]
            /\ \A m \in Loaders : bound'[m] = "none" <=> pc'[m] \in {"idle", "keyed"}
        BY <2>1, <3>1 DEF Miss, TypeOK
      <3> QED
        BY <2>1, <3>2 DEF Miss, TypeOK, instVars, refreshVars, adminVars
    <2>2. CASE Connect(l)
      BY <2>2 DEF Connect, TypeOK, instVars, refreshVars, adminVars
    <2>3. CASE Query(l)
      <3>1. Seen(PodOf[l], bound[l]) \in Versions
        BY SeenIsVersion, RefreshAssumption
      <3>2. /\ data' \in [Loaders -> Versions]
            /\ pc' \in [Loaders -> {"idle", "keyed", "connected", "loaded"}]
            /\ \A m \in Loaders : bound'[m] = "none" <=> pc'[m] \in {"idle", "keyed"}
        BY <2>3, <3>1 DEF Query, TypeOK
      <3> QED
        BY <2>3, <3>2 DEF Query, TypeOK, instVars, refreshVars, adminVars
    <2>4. CASE LoadFails(l)
      BY <2>4 DEF LoadFails, LoaderIdle, TypeOK, instVars, refreshVars, adminVars
    <2>5. CASE Store(l)
      BY <2>5 DEF Store, LoaderIdle, TypeOK, instVars, refreshVars, adminVars
    <2> QED
      BY <1>6, <2>1, <2>2, <2>3, <2>4, <2>5 DEF Load
  <1>7. CASE UNCHANGED vars
    BY <1>7 DEF vars, TypeOK
  <1> QED
    BY <1>1, <1>2, <1>3, <1>4, <1>5, <1>6, <1>7 DEF Next

(* Every variable keeps its type: versions stay within what was committed, *)
(* and a loader is bound to an instance exactly while it has a connection. *)
THEOREM RefreshTypeCorrect == Spec => []TypeOK
  BY RefreshTypeInit, RefreshTypeStep, PTL DEF Spec

-----------------------------------------------------------------------------
(* The order of publication, swap and build.                               *)

(* Either an attached catalog sees later commits, or none is reattached.   *)
Sound == LiveReads \/ ~AdminReattach

LEMMA VersionsAreNumbers ==
  ASSUME TypeOK
  PROVE  /\ head \in Nat
         /\ cache \in [Versions -> Nat]
         /\ served \in [Pods -> Nat] /\ snap \in [Pods -> Nat] /\ old \in [Pods -> Nat]
         /\ fresh \in [Pods -> Nat] /\ adminSeen \in [Pods -> Nat]
         /\ key \in [Loaders -> Nat] /\ data \in [Loaders -> Nat]
         /\ PodOf \in [Loaders -> Pods]
         /\ \A v \in Versions : v \in Nat
  <1>1. \A v \in Versions : v \in Nat
    BY RefreshAssumption DEF Versions
  <1> QED
    BY <1>1, RefreshAssumption DEF TypeOK

LEMMA RefreshInvInit == Init => RefreshInv
  <1> SUFFICES ASSUME Init PROVE RefreshInv
    OBVIOUS
  <1>1. TypeOK
    BY RefreshTypeInit
  <1>2. PodOf \in [Loaders -> Pods]
    BY RefreshAssumption
  <1>3. Committed /\ LoadedIsRecent /\ NoStaleUnderNewKey
    BY <1>1, VersionsAreNumbers DEF Init, Committed, LoadedIsRecent, NoStaleUnderNewKey,
                                    NoVersion
  <1>4. Ordered
    BY <1>2 DEF Init, Ordered, PodOrdered, LoaderOrdered, NoVersion
  <1> QED
    BY <1>1, <1>3, <1>4 DEF RefreshInv

(* The updater and the expiry of an entry.                                 *)
LEMMA EnvironmentKeeps ==
  ASSUME RefreshInv, TypeOK', Commit \/ \E v \in Versions : Expire(v)
  PROVE  RefreshInv'
  <1>1. /\ UNCHANGED <<served, instVars, refreshVars, adminVars, loaderVars>>
        /\ head <= head'
        /\ \A v \in Versions : cache'[v] \in {cache[v], NoVersion}
    BY VersionsAreNumbers DEF RefreshInv, Commit, Expire, TypeOK
  <1>2. Committed'
    BY <1>1, VersionsAreNumbers DEF RefreshInv, Committed, instVars, refreshVars,
                                    adminVars, loaderVars, TypeOK
  <1>3. LoadedIsRecent'
    BY <1>1 DEF RefreshInv, LoadedIsRecent, loaderVars
  <1>4. Ordered'
    BY <1>1 DEF RefreshInv, Ordered, PodOrdered, LoaderOrdered, instVars, refreshVars,
                adminVars, loaderVars
  <1>5. NoStaleUnderNewKey'
    BY <1>1 DEF RefreshInv, NoStaleUnderNewKey
  <1> QED
    BY <1>2, <1>3, <1>4, <1>5 DEF RefreshInv

(* A probe and its decision change no version that keys or data carry.     *)
LEMMA ProbeKeeps ==
  ASSUME NEW p \in Pods, RefreshInv, TypeOK',
         Tick(p) \/ ForceReload(p) \/ Decide(p) \/ BuildFails(p) \/ PublishFails(p)
  PROVE  RefreshInv'
  <1>1. /\ UNCHANGED <<head, cache, served, instVars, fresh, adminVars, loaderVars>>
        /\ monitor[p] \notin {"built", "draining"}
        /\ \A q \in Pods : q # p => monitor'[q] = monitor[q]
        /\ monitor'[p] \notin {"built", "switching"}
    BY DEF RefreshInv, TypeOK, Tick, Probe, ProbeFails, ForceReload, Decide, BuildFails,
           PublishFails, instVars, adminVars, loaderVars
  <1>2. Committed' /\ LoadedIsRecent' /\ NoStaleUnderNewKey'
    BY <1>1 DEF RefreshInv, Committed, LoadedIsRecent, NoStaleUnderNewKey, instVars,
                adminVars, loaderVars
  <1>3. Ordered'
    BY <1>1, VersionsAreNumbers DEF RefreshInv, Ordered, PodOrdered, LoaderOrdered, instVars,
                                    adminVars, loaderVars
  <1> QED
    BY <1>2, <1>3 DEF RefreshInv

(* What is built is the last commit, at least as recent as what is served. *)
LEMMA BuildKeeps ==
  ASSUME NEW p \in Pods, RefreshInv, TypeOK', Build(p)
  PROVE  RefreshInv'
  <1>1. /\ UNCHANGED <<head, cache, served, instVars, adminVars, loaderVars>>
        /\ monitor[p] = "building"
        /\ \A q \in Pods : q # p => monitor'[q] = monitor[q] /\ fresh'[q] = fresh[q]
        /\ monitor'[p] = "built" /\ fresh'[p] = head
    BY DEF RefreshInv, TypeOK, Build
  <1>2. Committed' /\ LoadedIsRecent' /\ NoStaleUnderNewKey'
    BY <1>1, VersionsAreNumbers DEF RefreshInv, Committed, LoadedIsRecent,
                                    NoStaleUnderNewKey, instVars, adminVars, loaderVars
  <1>3. Ordered'
    BY <1>1, VersionsAreNumbers DEF RefreshInv, Ordered, PodOrdered, LoaderOrdered,
                                    Committed, instVars, adminVars, loaderVars
  <1> QED
    BY <1>2, <1>3 DEF RefreshInv

(* A swap moves the loaders of the live instance, with the version it      *)
(* shows, to the retired one; no loader was on a retired one before.       *)
LEMMA SwapKeeps ==
  ASSUME NEW p \in Pods, RefreshInv, TypeOK', Swap(p)
  PROVE  RefreshInv'
  <1>1. /\ UNCHANGED <<head, cache, served, admin, adminSeen, pc, key, data>>
        /\ monitor[p] = "built" /\ monitor'[p] = "draining"
        /\ snap'[p] = fresh[p] /\ old'[p] = snap[p] /\ fresh'[p] = NoVersion
        /\ \A q \in Pods : q # p => /\ monitor'[q] = monitor[q] /\ snap'[q] = snap[q]
                                    /\ old'[q] = old[q] /\ fresh'[q] = fresh[q]
                                    /\ adminOn'[q] = adminOn[q]
        /\ adminOn[p] = "none" => adminOn'[p] = "none"
    BY DEF RefreshInv, TypeOK, Swap
  <1>2. \A l \in Loaders :
          bound'[l] = IF PodOf[l] = p /\ bound[l] = "live" THEN "old" ELSE bound[l]
    BY DEF Swap
  <1>3. LoadedIsRecent' /\ NoStaleUnderNewKey'
    BY <1>1 DEF RefreshInv, LoadedIsRecent, NoStaleUnderNewKey
  <1>4. Committed'
    BY <1>1, VersionsAreNumbers DEF RefreshInv, Committed, NoVersion
  <1>5. Ordered'
    <2> SUFFICES ASSUME ~LiveReads
                 PROVE  /\ \A q \in Pods : PodOrdered(q)'
                        /\ \A l \in Loaders : LoaderOrdered(l)'
      BY DEF Ordered
    <2>1. ASSUME NEW q \in Pods PROVE PodOrdered(q)'
      BY <1>1, VersionsAreNumbers DEF RefreshInv, Ordered, PodOrdered
    <2>2. ASSUME NEW l \in Loaders PROVE LoaderOrdered(l)'
      <3>1. LoaderOrdered(l) /\ PodOrdered(p) /\ PodOf[l] \in Pods
        BY VersionsAreNumbers DEF RefreshInv, Ordered
      <3>2. /\ bound[l] \in Bindings
            /\ key[l] \in Nat /\ snap[p] \in Nat /\ fresh[p] \in Nat
        BY VersionsAreNumbers DEF RefreshInv, TypeOK
      <3> QED
        BY <1>1, <1>2, <3>1, <3>2 DEF LoaderOrdered, PodOrdered, Bindings
    <2> QED
      BY <2>1, <2>2
  <1> QED
    BY <1>3, <1>4, <1>5 DEF RefreshInv

(* The end of a drain takes the loaders off the retired instance.          *)
LEMMA RetireKeeps ==
  ASSUME NEW p \in Pods, RefreshInv, TypeOK', DrainEnds(p) \/ DrainForced(p)
  PROVE  RefreshInv'
  <1>1. monitor[p] = "draining" /\ Retire(p)
    BY DEF DrainEnds, DrainForced
  <1>2. /\ UNCHANGED <<head, cache, served, snap, fresh, admin, adminSeen, pc, key, data>>
        /\ monitor'[p] = "publishing"
        /\ \A q \in Pods : q # p => /\ monitor'[q] = monitor[q] /\ old'[q] = old[q]
                                    /\ adminOn'[q] = adminOn[q]
        /\ adminOn[p] = "none" => adminOn'[p] = "none"
    BY <1>1 DEF RefreshInv, TypeOK, Retire
  <1>3. \A l \in Loaders :
          bound'[l] = IF PodOf[l] = p /\ bound[l] = "old" THEN "lost" ELSE bound[l]
    BY <1>1 DEF Retire
  <1>4. Committed' /\ LoadedIsRecent' /\ NoStaleUnderNewKey'
    BY <1>2 DEF RefreshInv, Committed, LoadedIsRecent, NoStaleUnderNewKey
  <1>5. Ordered'
    <2> SUFFICES ASSUME ~LiveReads
                 PROVE  /\ \A q \in Pods : PodOrdered(q)'
                        /\ \A l \in Loaders : LoaderOrdered(l)'
      BY DEF Ordered
    <2>1. ASSUME NEW q \in Pods PROVE PodOrdered(q)'
      BY <1>2 DEF RefreshInv, Ordered, PodOrdered
    <2>2. ASSUME NEW l \in Loaders PROVE LoaderOrdered(l)'
      BY <1>2, <1>3, VersionsAreNumbers DEF RefreshInv, Ordered, LoaderOrdered
    <2> QED
      BY <2>1, <2>2
  <1> QED
    BY <1>4, <1>5 DEF RefreshInv

(* The version read is the one the live instance shows.                    *)
LEMMA ReadKeeps ==
  ASSUME NEW p \in Pods, RefreshInv, TypeOK', ReadVersion(p)
  PROVE  RefreshInv'
  <1>1. /\ UNCHANGED <<head, cache, served, instVars, adminVars, loaderVars>>
        /\ monitor[p] = "publishing" /\ monitor'[p] = "switching"
        /\ \A q \in Pods : q # p => monitor'[q] = monitor[q] /\ fresh'[q] = fresh[q]
        /\ fresh'[p] \in {Seen(p, "live"), NoVersion}
    BY DEF RefreshInv, TypeOK, ReadVersion
  <1>2. Seen(p, "live") = IF LiveReads THEN head ELSE snap[p]
    BY DEF Seen
  <1>3. Committed'
    BY <1>1, <1>2, VersionsAreNumbers DEF RefreshInv, Committed, NoVersion, instVars,
                                          adminVars, loaderVars
  <1>4. LoadedIsRecent' /\ NoStaleUnderNewKey'
    BY <1>1 DEF RefreshInv, LoadedIsRecent, NoStaleUnderNewKey, loaderVars
  <1>5. Ordered'
    BY <1>1, <1>2, VersionsAreNumbers DEF RefreshInv, Ordered, PodOrdered, LoaderOrdered,
                                          NoVersion, instVars, adminVars, loaderVars
  <1> QED
    BY <1>3, <1>4, <1>5 DEF RefreshInv

(* The version published is the one that was read.                         *)
LEMMA PublishKeeps ==
  ASSUME NEW p \in Pods, RefreshInv, TypeOK', Publish(p)
  PROVE  RefreshInv'
  <1>1. /\ UNCHANGED <<head, cache, instVars, adminVars, loaderVars>>
        /\ monitor[p] = "switching" /\ monitor'[p] = "idle"
        /\ \A q \in Pods : q # p => /\ monitor'[q] = monitor[q] /\ served'[q] = served[q]
                                    /\ fresh'[q] = fresh[q]
        /\ served'[p] = fresh[p] /\ fresh'[p] = NoVersion
    BY DEF RefreshInv, TypeOK, Publish
  <1>2. Committed'
    BY <1>1, VersionsAreNumbers DEF RefreshInv, Committed, NoVersion, instVars, adminVars,
                                    loaderVars
  <1>3. LoadedIsRecent' /\ NoStaleUnderNewKey'
    BY <1>1 DEF RefreshInv, LoadedIsRecent, NoStaleUnderNewKey, loaderVars
  <1>4. Ordered'
    BY <1>1, VersionsAreNumbers DEF RefreshInv, Ordered, PodOrdered, LoaderOrdered,
                                    instVars, adminVars, loaderVars
  <1> QED
    BY <1>2, <1>3, <1>4 DEF RefreshInv

(* A reattachment takes place only where later commits are seen anyway.    *)
LEMMA ReattachKeeps ==
  ASSUME NEW p \in Pods, Sound, RefreshInv, TypeOK', Reattach(p)
  PROVE  RefreshInv'
  <1>1. LiveReads
    <2>1. CASE ReattachStarts(p)
      BY <2>1 DEF Sound, ReattachStarts
    <2>2. CASE ~ReattachStarts(p)
      BY <2>2 DEF RefreshInv, Ordered, PodOrdered, Reattach, Detach, Attach, ReattachFails,
                  VersionProbe, VersionProbeFails, AdminReadsVersion, ReattachPublishes
    <2> QED
      BY <2>1, <2>2
  <1>2. Ordered'
    BY <1>1 DEF Ordered
  <1>3. /\ UNCHANGED <<head, cache, fresh, loaderVars>>
        /\ \A q \in Pods : /\ served'[q] \in {served[q], adminSeen[q]}
                           /\ snap'[q] \in {snap[q], head}
                           /\ adminSeen'[q] \in {adminSeen[q], head, NoVersion}
    BY <1>1 DEF RefreshInv, TypeOK, Reattach, ReattachStarts, Detach, Attach, ReattachFails,
                VersionProbe, VersionProbeFails, AdminReadsVersion, ReattachPublishes,
                AdminIdle, Seen, instVars, refreshVars
  <1>4. Committed' /\ LoadedIsRecent' /\ NoStaleUnderNewKey'
    BY <1>3, VersionsAreNumbers DEF RefreshInv, Committed, LoadedIsRecent,
                                    NoStaleUnderNewKey, NoVersion, loaderVars
  <1> QED
    BY <1>2, <1>4 DEF RefreshInv

(* A loader: its key is what the pod serves, its data what its instance    *)
(* shows, and its entry carries the one under the other.                   *)
LEMMA LoadKeeps ==
  ASSUME NEW l \in Loaders, RefreshInv, TypeOK', Load(l)
  PROVE  RefreshInv'
  <1>1. /\ UNCHANGED <<head, served, instVars, refreshVars, adminVars>>
        /\ \A m \in Loaders : m # l => /\ key'[m] = key[m] /\ data'[m] = data[m]
                                       /\ bound'[m] = bound[m] /\ pc'[m] = pc[m]
    BY DEF RefreshInv, TypeOK, Load, Miss, Connect, Query, LoadFails, Store, LoaderIdle
  <1> DEFINE p == PodOf[l]
  <1>2. p \in Pods
    BY RefreshAssumption
  <1>3. CASE Miss(l)
    <2>1. /\ key'[l] = served[p] /\ pc'[l] = "keyed"
          /\ UNCHANGED <<cache, bound, data>>
          /\ bound[l] = "none"
      BY <1>3 DEF RefreshInv, TypeOK, Miss
    <2>2. Committed' /\ LoadedIsRecent' /\ NoStaleUnderNewKey'
      BY <1>1, <1>2, <2>1 DEF RefreshInv, Committed, LoadedIsRecent, NoStaleUnderNewKey,
                              instVars, refreshVars, adminVars
    <2>3. Ordered'
      BY <1>1, <1>2, <2>1 DEF RefreshInv, Ordered, PodOrdered, LoaderOrdered, instVars,
                              refreshVars, adminVars
    <2> QED
      BY <2>2, <2>3 DEF RefreshInv
  <1>4. CASE Connect(l)
    <2>1. /\ bound'[l] = "live" /\ pc'[l] = "connected"
          /\ UNCHANGED <<cache, key, data>>
          /\ bound[l] = "none"
      BY <1>4 DEF RefreshInv, TypeOK, Connect
    <2>2. Committed' /\ LoadedIsRecent' /\ NoStaleUnderNewKey'
      BY <1>1, <2>1 DEF RefreshInv, Committed, LoadedIsRecent, NoStaleUnderNewKey,
                        instVars, refreshVars, adminVars
    <2>3. Ordered'
      BY <1>1, <2>1 DEF RefreshInv, Ordered, PodOrdered, LoaderOrdered, instVars,
                        refreshVars, adminVars
    <2> QED
      BY <2>2, <2>3 DEF RefreshInv
  <1>5. CASE Query(l)
    <2>1. /\ pc'[l] = "loaded" /\ data'[l] = Seen(p, bound[l])
          /\ UNCHANGED <<cache, key, bound>>
          /\ bound[l] \in {"live", "old"}
      BY <1>5 DEF RefreshInv, TypeOK, Query, Readable
    <2>2. key[l] <= data'[l]
      <3>1. CASE LiveReads
        BY <2>1, <3>1 DEF RefreshInv, Committed, Seen
      <3>2. CASE ~LiveReads
        BY <2>1, <3>2 DEF RefreshInv, Ordered, LoaderOrdered, Seen
      <3> QED
        BY <3>1, <3>2
    <2>3. Committed' /\ LoadedIsRecent' /\ NoStaleUnderNewKey'
      BY <1>1, <2>1, <2>2 DEF RefreshInv, Committed, LoadedIsRecent, NoStaleUnderNewKey,
                              instVars, refreshVars, adminVars
    <2>4. Ordered'
      BY <1>1, <2>1 DEF RefreshInv, Ordered, PodOrdered, LoaderOrdered, instVars,
                        refreshVars, adminVars
    <2> QED
      BY <2>3, <2>4 DEF RefreshInv
  <1>6. CASE LoadFails(l) \/ Store(l)
    <2>1. /\ pc'[l] = "idle" /\ key'[l] = NoVersion /\ bound'[l] = "none"
      BY <1>6 DEF RefreshInv, TypeOK, LoadFails, Store, LoaderIdle
    <2>2. Committed' /\ LoadedIsRecent'
      BY <1>1, <2>1, VersionsAreNumbers DEF RefreshInv, Committed, LoadedIsRecent,
                                            NoVersion, instVars, refreshVars, adminVars
    <2>3. NoStaleUnderNewKey'
      <3>1. /\ key[l] \in Versions
            /\ \/ cache' = cache
               \/ pc[l] = "loaded" /\ cache' = [cache EXCEPT ![key[l]] = data[l]]
        BY <1>6 DEF RefreshInv, TypeOK, LoadFails, Store
      <3> QED
        BY <3>1 DEF RefreshInv, TypeOK, LoadedIsRecent, NoStaleUnderNewKey
    <2>4. Ordered'
      BY <1>1, <1>2, <2>1, VersionsAreNumbers
         DEF RefreshInv, Ordered, PodOrdered, LoaderOrdered, NoVersion, instVars,
             refreshVars, adminVars
    <2> QED
      BY <2>2, <2>3, <2>4 DEF RefreshInv
  <1> QED
    BY <1>3, <1>4, <1>5, <1>6 DEF Load

LEMMA RefreshInvStep == ASSUME Sound PROVE RefreshInv /\ [Next]_vars => RefreshInv'
  <1> SUFFICES ASSUME RefreshInv, [Next]_vars PROVE RefreshInv'
    OBVIOUS
  <1>1. TypeOK'
    BY RefreshTypeStep DEF RefreshInv
  <1>2. CASE Commit \/ \E v \in Versions : Expire(v)
    BY <1>1, <1>2, EnvironmentKeeps
  <1>3. ASSUME NEW p \in Pods, Tick(p) \/ ForceReload(p) \/ Decide(p) PROVE RefreshInv'
    BY <1>1, <1>3, ProbeKeeps
  <1>4. ASSUME NEW p \in Pods, Reload(p) PROVE RefreshInv'
    BY <1>1, <1>4, ProbeKeeps, BuildKeeps, SwapKeeps, RetireKeeps, ReadKeeps, PublishKeeps
       DEF Reload
  <1>5. ASSUME NEW p \in Pods, Reattach(p) PROVE RefreshInv'
    BY <1>1, <1>5, ReattachKeeps
  <1>6. ASSUME NEW l \in Loaders, Load(l) PROVE RefreshInv'
    BY <1>1, <1>6, LoadKeeps
  <1>7. CASE UNCHANGED vars
    BY <1>1, <1>7 DEF vars, RefreshInv, Committed, LoadedIsRecent, Ordered, PodOrdered,
                      LoaderOrdered, NoStaleUnderNewKey
  <1> QED
    BY <1>2, <1>3, <1>4, <1>5, <1>6, <1>7 DEF Next

(* "No stale data under a new key", in whatever order commits, probes,     *)
(* reloads, forced drains and loads of all pods come: withCache never puts *)
(* data under the key of a version that the data is older than.            *)
THEOREM NoStaleData == Sound => (Spec => []NoStaleUnderNewKey)
  <1> SUFFICES ASSUME Sound PROVE Spec => []NoStaleUnderNewKey
    OBVIOUS
  <1>1. RefreshInv => NoStaleUnderNewKey
    BY DEF RefreshInv
  <1> QED
    BY <1>1, RefreshInvInit, RefreshInvStep, PTL DEF Spec

(* No pod publishes a version its live instance does not show: what         *)
(* initSchemas reads again after the swap is never ahead of the instance.   *)
THEOREM PublishedIsShown == Spec => []ServedIsShown
  <1>1. CASE Sound
    <2>1. RefreshInv => ServedIsShown
      BY DEF RefreshInv, Committed, Ordered, PodOrdered, ServedIsShown, Seen
    <2> QED
      BY <1>1, <2>1, RefreshInvInit, RefreshInvStep, PTL DEF Spec
  <1>2. CASE ~Sound
    <2>1. ServedIsShown
      BY <1>2 DEF Sound, ServedIsShown
    <2>2. [Next]_vars => ServedIsShown'
      BY <1>2 DEF Sound, ServedIsShown
    <2> QED
      BY <2>1, <2>2, PTL DEF Spec
  <1> QED
    BY <1>1, <1>2

=============================================================================
