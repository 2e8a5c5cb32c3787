----------------------------- MODULE LifecycleProofs -----------------------------
(***************************************************************************)
(* Proofs about what a pod does on its own: FreshnessMonitor, for any      *)
(* catalogs, configuration, schemas and contents and any bounds on the     *)
(* writes and the failures, and LoaderBatch and Shutdown, as PodProcess    *)
(* instantiates them, for any batches, keys, connections and requests.     *)
(***************************************************************************)
EXTENDS FreshnessMonitor, PodProcess, SequenceTheorems, TLAPS

-----------------------------------------------------------------------------
(* FreshnessMonitor.  The property is that of a pod nobody wrote to since   *)
(* it published: its probes find nothing changed.  The invariant says why:  *)
(* what is served then is what the lake holds, and so is whatever a probe   *)
(* under way has read, read again or failed to read.                        *)

Reading == {"marking", "relisting"}

-----------------------------------------------------------------------------
(* The probe goes through the catalogs in order, and the markers it reads   *)
(* are of schemas that are served.                                          *)
Course ==
  /\ todo \in Seq(Ids)
  /\ found = [list |-> found.list, marks |-> found.marks]
  /\ phase \in Reading =>
       /\ todo # <<>>
       /\ left \subseteq ToSet(schemas[Catalog])
       /\ DOMAIN found.marks \subseteq Names \cap ToSet(schemas[Catalog])

(* What is served is what the lake holds.                                   *)
ServesTheLake ==
  /\ schemas = [c \in Ids |-> Reconcile(c, DOMAIN lake[c])]
  /\ \A c \in Ids : \A s \in Names \cap ToSet(schemas[c]) :
       Readable(lake[c], s) => versions[<<c, s>>] = lake[c][s].date

(* What a probe has read so far is what the lake holds.                     *)
ReadsTheLake ==
  /\ phase \in Reading \cup {"listing"} => ~changed
  /\ phase \in Reading =>
       /\ found.list \in {Unread, DOMAIN lake[Catalog]}
       /\ \A s \in DOMAIN found.marks : found.marks[s] \in {Unread, Marker(lake[Catalog], s)}

FreshInv ==
  /\ Course
  /\ clean => ServesTheLake /\ ReadsTheLake

-----------------------------------------------------------------------------
(* What is published without a failed read, with the pool's instance as new *)
(* as the lake, is what the lake holds.                                     *)
LEMMA PublishedVersions ==
  ASSUME live = lake, NEW c \in Ids, NEW s \in Names, s \in ToSet(Lists[c]),
         Readable(lake[c], s)
  PROVE  VersionsRead(Lists, {})[<<c, s>>] = lake[c][s].date
  <1>1. <<c, s>> \in {q \in Ids \X Names : q[2] \in ToSet(Lists[q[1]])}
    OBVIOUS
  <1>2. <<c, s>> \notin {} /\ Readable(live[c], s)
    OBVIOUS
  <1> HIDE DEF Lists
  <1> QED
    BY <1>1, <1>2 DEF VersionsRead

(* A catalog of a pod that serves the lake does not look changed to a probe *)
(* that reads the lake.                                                     *)
LEMMA NothingDiffers ==
  ASSUME Course, ServesTheLake, ReadsTheLake, phase \in Reading
  PROVE  ~Differs(Catalog)
  <1>1. Catalog \in Ids
    BY HeadTailProperties DEF Course, Catalog
  <1>2. ~(found.list # Unread
            /\ ToSet(Reconcile(Catalog, found.list)) # ToSet(schemas[Catalog]))
    BY <1>1 DEF ServesTheLake, ReadsTheLake
  <1>3. ASSUME NEW s \in DOMAIN found.marks, found.marks[s] # Unread
        PROVE  found.marks[s] = versions[<<Catalog, s>>]
    <2>1. s \in Names \cap ToSet(schemas[Catalog])
      BY DEF Course
    <2>2. found.marks[s] = Marker(lake[Catalog], s)
      BY <1>3 DEF ReadsTheLake
    <2>3. Readable(lake[Catalog], s) /\ found.marks[s] = lake[Catalog][s].date
      BY <1>3, <2>2 DEF Marker
    <2> QED
      BY <1>1, <2>1, <2>3 DEF ServesTheLake
  <1> QED
    BY <1>2, <1>3 DEF Differs

-----------------------------------------------------------------------------
LEMMA FreshInit == Init => FreshInv
  <1> SUFFICES ASSUME Init PROVE FreshInv
    OBVIOUS
  <1>1. Course
    BY EmptySeq DEF Init, Course, NothingFound, Reading
  <1>2. ServesTheLake
    <2>1. live = lake /\ schemas = Lists /\ versions = VersionsRead(Lists, {})
      BY DEF Init
    <2>2. schemas = [c \in Ids |-> Reconcile(c, DOMAIN lake[c])]
      BY <2>1 DEF Lists
    <2> QED
      BY <2>1, <2>2, PublishedVersions DEF ServesTheLake
  <1>3. ReadsTheLake
    BY DEF Init, ReadsTheLake, Reading
  <1> QED
    BY <1>1, <1>2, <1>3 DEF FreshInv

(* Writers, requests and the beginning of a probe.                          *)
LEMMA OutsideKeeps ==
  ASSUME FreshInv,
         \/ \E u \in Updated : Commit(u[1], u[2])
         \/ ForceReload \/ Tick \/ BeginForced
  PROVE  FreshInv'
  <1>1. CASE \E u \in Updated : Commit(u[1], u[2])
    BY <1>1 DEF Commit, served, probe, FreshInv, Course, Catalog
  <1>2. CASE ForceReload
    BY <1>2 DEF ForceReload, served, probe, FreshInv, Course, Catalog, ServesTheLake,
                ReadsTheLake
  <1>3. CASE Tick \/ BeginForced
    <2>1. /\ phase' = "listing" /\ todo' = Catalogs /\ found' = NothingFound
          /\ changed' = FALSE
          /\ UNCHANGED <<lake, served, clean>>
      BY <1>3 DEF Tick, BeginForced, Begin
    <2>2. Course'
      BY <2>1, CatalogsAssumption DEF Course, NothingFound, Reading
    <2>3. ReadsTheLake'
      BY <2>1 DEF ReadsTheLake, Reading
    <2> QED
      BY <2>1, <2>2, <2>3 DEF FreshInv, ServesTheLake, served
  <1> QED
    BY <1>1, <1>2, <1>3

(* The steps of a probe in one catalog.                                     *)
LEMMA CatalogKeeps ==
  ASSUME FreshInv,
         \/ ListSchemas \/ (\E s \in Names : ReadMarker(s)) \/ ListAgain
  PROVE  FreshInv'
  <1>1. /\ todo' = todo /\ changed' = changed
        /\ UNCHANGED <<lake, served, clean>>
        /\ todo # <<>> /\ phase' \in Reading
        /\ phase \in Reading \cup {"listing"}
    BY DEF ListSchemas, ReadMarker, ListAgain, Steps, FreshInv, Course, Reading
  <1>2. Catalog' = Catalog /\ schemas' = schemas /\ lake' = lake
    BY <1>1 DEF Catalog, served
  <1>3. CASE ListSchemas
    <2>1. left' \subseteq ToSet(schemas[Catalog])
      BY <1>3 DEF ListSchemas
    <2>2. /\ found' = [list |-> found'.list, marks |-> <<>>]
          /\ found'.list \in {Unread, DOMAIN lake[Catalog]}
      BY <1>3 DEF ListSchemas, NothingFound
    <2>3. found'.marks = <<>> /\ DOMAIN <<>> = {}
      BY <2>2
    <2> QED
      BY <1>1, <1>2, <2>1, <2>2, <2>3
         DEF FreshInv, Course, ServesTheLake, ReadsTheLake, served
  <1>4. ASSUME NEW s \in Names, ReadMarker(s) PROVE FreshInv'
    <2>1. phase \in Reading /\ s \in left /\ left' = left \ {s}
      BY <1>4 DEF ReadMarker, Reading
    <2>2. PICK m \in {Unread, Marker(lake[Catalog], s)} :
             found' = [found EXCEPT !.marks = Put(@, s, m)]
      BY <1>4 DEF ReadMarker
    <2>3. /\ found = [list |-> found.list, marks |-> found.marks]
          /\ found'.list = found.list
          /\ found'.marks = Put(found.marks, s, m)
          /\ found' = [list |-> found'.list, marks |-> found'.marks]
      BY <2>2 DEF FreshInv, Course
    <2>4. /\ DOMAIN found'.marks = {s} \cup DOMAIN found.marks
          /\ \A r \in DOMAIN found'.marks :
                found'.marks[r] = IF r = s THEN m ELSE found.marks[r]
      BY <2>3 DEF Put
    <2> QED
      BY <1>1, <1>2, <2>1, <2>3, <2>4
         DEF FreshInv, Course, ServesTheLake, ReadsTheLake, served
  <1>5. CASE ListAgain
    <2>1. phase \in Reading /\ left' = left
      BY <1>5 DEF ListAgain, Reading
    <2>2. CASE found' = found
      BY <1>1, <1>2, <2>1, <2>2
         DEF FreshInv, Course, ServesTheLake, ReadsTheLake, served
    <2>3. CASE found' = [list |-> DOMAIN lake[Catalog],
                         marks |-> Restrict(found.marks,
                                            DOMAIN found.marks \cap DOMAIN lake[Catalog])]
      <3>1. /\ DOMAIN found'.marks \subseteq DOMAIN found.marks
            /\ \A r \in DOMAIN found'.marks : found'.marks[r] = found.marks[r]
            /\ found'.list = DOMAIN lake[Catalog]
            /\ found' = [list |-> found'.list, marks |-> found'.marks]
        BY <2>3 DEF Restrict
      <3> QED
        BY <1>1, <1>2, <2>1, <3>1
           DEF FreshInv, Course, ServesTheLake, ReadsTheLake, served
    <2> QED
      BY <1>5, <2>2, <2>3 DEF ListAgain
  <1> QED
    BY <1>3, <1>4, <1>5

(* A probe passes to its next catalog.                                      *)
LEMMA CatalogEnds ==
  ASSUME FreshInv, CatalogFails \/ NextCatalog
  PROVE  FreshInv'
  <1>1. /\ todo # <<>> /\ todo' = Tail(todo) /\ phase' = "listing"
        /\ UNCHANGED <<lake, served, clean>>
        /\ found' = found \/ found' = NothingFound
    BY DEF CatalogFails, NextCatalog, Steps, FreshInv, Course, Reading
  <1>2. Course'
    <2>1. todo' \in Seq(Ids)
      BY <1>1, HeadTailProperties DEF FreshInv, Course
    <2> QED
      BY <1>1, <2>1 DEF FreshInv, Course, NothingFound, Reading
  <1>3. ASSUME clean PROVE changed' = FALSE
    <2>1. ServesTheLake /\ ReadsTheLake /\ ~changed
      BY <1>3 DEF FreshInv, ReadsTheLake, CatalogFails, NextCatalog, Reading
    <2>2. CASE CatalogFails
      BY <2>1, <2>2 DEF CatalogFails
    <2>3. CASE NextCatalog
      <3>1. ~Differs(Catalog)
        BY <2>1, <2>3, NothingDiffers DEF NextCatalog, Reading, FreshInv
      <3> QED
        BY <2>1, <2>3, <3>1 DEF NextCatalog
    <2> QED
      BY <2>2, <2>3
  <1> QED
    BY <1>1, <1>2, <1>3 DEF FreshInv, ServesTheLake, ReadsTheLake, Reading, served

(* The verdict of a probe, and the reload that may follow.                  *)
LEMMA ReloadKeeps ==
  ASSUME FreshInv, Decide \/ Build \/ Discover \/ Publish \/ ReloadFails
  PROVE  FreshInv'
  <1>1. phase' \notin Reading \cup {"listing"} /\ todo' = todo /\ found' = found
    BY DEF Decide, Build, Discover, Publish, ReloadFails, Steps, Reading
  <1>2. Course'
    BY <1>1 DEF FreshInv, Course
  <1>3. ReadsTheLake'
    BY <1>1 DEF ReadsTheLake
  <1>4. CASE Publish
    <2>1. ASSUME clean' PROVE ServesTheLake'
      <3>1. /\ live = lake /\ lake' = lake /\ schemas' = Lists
            /\ versions' = VersionsRead(Lists, {})
        BY <1>4, <2>1 DEF Publish
      <3>2. schemas' = [c \in Ids |-> Reconcile(c, DOMAIN lake[c])]
        BY <3>1 DEF Lists
      <3> QED
        BY <3>1, <3>2, PublishedVersions DEF ServesTheLake
    <2> QED
      BY <1>2, <1>3, <2>1 DEF FreshInv
  <1>5. CASE Decide \/ Build \/ Discover \/ ReloadFails
    <2>1. UNCHANGED <<lake, served, clean>>
      BY <1>5 DEF Decide, Build, Discover, ReloadFails, Steps
    <2> QED
      BY <1>2, <1>3, <2>1 DEF FreshInv, ServesTheLake, served
  <1> QED
    BY <1>4, <1>5

LEMMA FreshStep == FreshInv /\ [Next]_vars => FreshInv'
  <1> SUFFICES ASSUME FreshInv, [Next]_vars PROVE FreshInv'
    OBVIOUS
  <1>1. CASE Probing
    BY <1>1, CatalogKeeps, CatalogEnds, ReloadKeeps DEF Probing
  <1>2. CASE UNCHANGED vars
    BY <1>2 DEF vars, served, probe, FreshInv, Course, Catalog, ServesTheLake, ReadsTheLake
  <1> QED
    BY <1>1, <1>2, OutsideKeeps DEF Next

(* FreshInv holds in every reachable state.                                 *)
THEOREM WhatIsServedIsRead == Spec => []FreshInv
  <1> QED
    BY FreshInit, FreshStep, PTL DEF Spec

-----------------------------------------------------------------------------
(* A pod nobody wrote to since it published rebuilds its instance only when *)
(* an administrator asked, whatever its probes could not read.              *)
THEOREM QuietPodStays == Spec => UnchangedIsLeftAlone
  <1> DEFINE Local == clean /\ phase = "listing" /\ phase' = "building" => forced
  <1>1. FreshInv /\ [Next]_vars => [Local]_vars
    <2> SUFFICES ASSUME FreshInv, Next, clean, phase = "listing", phase' = "building"
                 PROVE  forced
      OBVIOUS
    <2>1. ~changed
      BY DEF FreshInv, ReadsTheLake
    <2>2. Decide
      BY DEF Next, Probing, Commit, ForceReload, Tick, BeginForced, Begin, CatalogFails,
             ListSchemas, ReadMarker, ListAgain, NextCatalog, Steps, Build, Discover,
             Publish, ReloadFails, probe
    <2> QED
      BY <2>1, <2>2 DEF Decide, Steps
  <1> HIDE DEF Local
  <1>2. Spec => [][Local]_vars
    BY <1>1, WhatIsServedIsRead, PTL DEF Spec
  <1>3. UnchangedIsLeftAlone <=> [][Local]_vars
    BY PTL DEF UnchangedIsLeftAlone, Local
  <1> QED
    BY <1>2, <1>3, PTL

-----------------------------------------------------------------------------
(* LoaderBatch                                                              *)

(* A batch has a request with the pool, queued or opening, exactly while    *)
(* keys wait for it, and a connection it holds is open and not free.        *)
AcquisitionsAreAwaited ==
  \A b \in Batches :
    /\ acquisition[b] \in {"pending", "opening"} => \E k \in BatchKeys : at[b][k] = "waiting"
    /\ \A k \in BatchKeys : at[b][k] = "waiting" => acquisition[b] \in {"pending", "opening"}
    /\ acquisition[b] \in Connections => acquisition[b] \in opened \ free

(* A statement that has not ended belongs to a key that has had a step; as  *)
(* long as the step goes on, it is on the connection of its batch.          *)
StatementsAreOfSteps ==
  \A s \in issued :
    /\ at[s.batch][s.key] \notin {"called", "waiting"}
    /\ at[s.batch][s.key] = "stepping" => acquisition[s.batch] = s.on

BatchInv ==
  /\ Batch!TypeOK
  /\ AcquisitionsAreAwaited
  /\ StatementsAreOfSteps
  /\ BatchesAreSound

KeyStates == {"called", "waiting", "stepping", "storing", "value", "error"}
Acquisitions == {"none", "pending", "opening", "failed", "released"} \cup Connections

(* The parts of the type invariant: batches, and statements.                *)
BatchesTyped ==
  /\ at \in [Batches -> [BatchKeys -> KeyStates]]
  /\ acquisition \in [Batches -> Acquisitions]
  /\ timer \in [Batches -> {"armed", "fired", "cleared"}]
  /\ opened \subseteq Connections /\ free \subseteq Connections
StatementsTyped ==
  /\ issued \subseteq Batch!Statements /\ hit \subseteq issued
  /\ exec \in [Connections -> Batch!Statements \cup {None}]
  /\ \A c \in Connections : exec[c] # None => exec[c] \in issued /\ exec[c].on = c

LEMMA BatchTypes == Batch!TypeOK <=> BatchesTyped /\ StatementsTyped
  BY DEF Batch!TypeOK, Batch!Ended, BatchesTyped, StatementsTyped, KeyStates, Acquisitions

LEMMA BatchInit == Batch!Init => BatchInv
  <1> SUFFICES ASSUME Batch!Init PROVE BatchInv
    OBVIOUS
  <1>1. BatchesTyped /\ StatementsTyped
    BY DEF Batch!Init, BatchesTyped, StatementsTyped, KeyStates, Acquisitions
  <1>2. AcquisitionsAreAwaited /\ StatementsAreOfSteps
    BY ConnectionsAssumption DEF Batch!Init, AcquisitionsAreAwaited, StatementsAreOfSteps
  <1>3. Batch!ConnectionsAreKept /\ Batch!OnlyTheLateAreInterrupted
    BY ConnectionsAssumption
       DEF Batch!Init, Batch!ConnectionsAreKept, Batch!Awaited, Batch!OnlyTheLateAreInterrupted
  <1> QED
    BY <1>1, <1>2, <1>3, BatchTypes DEF BatchInv, BatchesAreSound

(* The keys of a batch become others, with the acquisition they wait for or *)
(* step on: the connections are kept, and none is lost when the body ends.  *)
LEMMA SettleKeeps ==
  ASSUME NEW b \in Batches, NEW keys \in [BatchKeys -> KeyStates], NEW acq \in Acquisitions,
         BatchInv, Batch!Settle(b, keys, acq),
         acq = acquisition[b] \/ (acquisition[b] \notin Connections /\ acq \notin Connections \ free),
         opened \subseteq opened', opened' \subseteq Connections, acq \in Connections => acq \in opened',
         acq \in {"pending", "opening"} => \E k \in BatchKeys : keys[k] = "waiting",
         \A k \in BatchKeys : keys[k] = "waiting" => acq \in {"pending", "opening"},
         \A k \in BatchKeys : keys[k] = "stepping" => acq \in Connections
  PROVE  BatchesTyped' /\ AcquisitionsAreAwaited' /\ Batch!ConnectionsAreKept'
  <1> DEFINE ends == \A k \in BatchKeys : keys[k] \in {"value", "error"}
  <1>1. /\ at' = [at EXCEPT ![b] = keys]
        /\ ends => /\ acquisition' = [acquisition EXCEPT ![b] =
                                        IF acq \in Connections THEN "released" ELSE acq]
                   /\ free' = free \cup ({acq} \cap Connections)
                   /\ timer' = [timer EXCEPT ![b] = IF @ = "armed" THEN "cleared" ELSE @]
        /\ ~ends => /\ acquisition' = [acquisition EXCEPT ![b] = acq]
                    /\ free' = free \ {acq} /\ timer' = timer
    BY DEF Batch!Settle, Batch!BodyEnds, Batch!Ended
  <1>2. BatchesTyped
    BY BatchTypes DEF BatchInv
  <1>3. BatchesTyped'
    BY <1>1, <1>2 DEF BatchesTyped, Acquisitions
  <1>4. /\ at'[b] = keys
        /\ acquisition'[b] = IF ends /\ acq \in Connections THEN "released" ELSE acq
        /\ \A d \in Batches \ {b} : at'[d] = at[d] /\ acquisition'[d] = acquisition[d]
        /\ free' = IF ends THEN free \cup ({acq} \cap Connections) ELSE free \ {acq}
    BY <1>1, <1>2 DEF BatchesTyped
  <1>5. ends => acq \notin {"pending", "opening"} /\ \A k \in BatchKeys : keys[k] \notin {"waiting", "stepping"}
    OBVIOUS
  <1> HIDE DEF ends
  <1>6. /\ {"released", "pending", "opening"} \cap Connections = {}
        /\ \A d \in Batches : acquisition[d] \in Connections => acquisition[d] \in opened \ free
        /\ \A d, e \in Batches :
              d # e /\ acquisition[d] \in Connections => acquisition[d] # acquisition[e]
        /\ \A c \in Connections \ free : \E d \in Batches : acquisition[d] = c
    BY ConnectionsAssumption
       DEF BatchInv, BatchesAreSound, Batch!ConnectionsAreKept, AcquisitionsAreAwaited
  <1>7. AcquisitionsAreAwaited'
    <2> SUFFICES ASSUME NEW d \in Batches
                 PROVE  /\ acquisition'[d] \in {"pending", "opening"} =>
                              \E k \in BatchKeys : at'[d][k] = "waiting"
                        /\ \A k \in BatchKeys :
                              at'[d][k] = "waiting" => acquisition'[d] \in {"pending", "opening"}
                        /\ acquisition'[d] \in Connections => acquisition'[d] \in opened' \ free'
      BY DEF AcquisitionsAreAwaited
    <2>1. CASE d = b
      BY <1>4, <1>5, <1>6, <2>1
    <2>2. CASE d # b
      <3>1. acquisition[d] \in Connections => acq # acquisition[d]
        BY <1>6, <2>2
      <3> QED
        BY <1>4, <1>6, <2>2, <3>1 DEF BatchInv, AcquisitionsAreAwaited
    <2> QED
      BY <2>1, <2>2
  <1>8. \A d \in Batches : \A k \in BatchKeys :
           at'[d][k] = "stepping" => acquisition'[d] \in opened' \ free'
    <2> TAKE d \in Batches
    <2> TAKE k \in BatchKeys
    <2>1. at'[d][k] = "stepping" => acquisition'[d] \in Connections
      BY <1>2, <1>4, <1>5
         DEF BatchInv, BatchesAreSound, Batch!ConnectionsAreKept, BatchesTyped
    <2> QED
      BY <1>7, <2>1 DEF AcquisitionsAreAwaited
  <1>9. \A d, e \in Batches :
           d # e /\ acquisition'[d] \in Connections => acquisition'[d] # acquisition'[e]
    <2> SUFFICES ASSUME NEW d \in Batches, NEW e \in Batches, d # e,
                        acquisition'[d] \in Connections, acquisition'[d] = acquisition'[e]
                 PROVE  FALSE
      OBVIOUS
    <2>1. acquisition'[b] \in Connections =>
            acquisition'[b] = acq /\ (acq = acquisition[b] \/ acq \in free)
      BY <1>4, <1>6
    <2>2. \A f \in Batches : f # b /\ acquisition[f] = acquisition'[b] =>
            acquisition'[b] \notin Connections
      BY <1>6, <2>1
    <2> QED
      BY <1>4, <1>6, <2>2
  <1>10. \A c \in Connections \ free' : \E d \in Batches : acquisition'[d] = c
    <2> TAKE c \in Connections \ free'
    <2>1. CASE c = acq /\ ~ends
      BY <1>4, <2>1
    <2>2. CASE ~(c = acq /\ ~ends)
      <3>1. c \notin free
        BY <1>4, <2>2
      <3>2. PICK d \in Batches : acquisition[d] = c
        BY <1>6, <3>1
      <3>3. d # b
        BY <1>4, <2>2, <3>2
      <3> QED
        BY <1>4, <3>2, <3>3
    <2> QED
      BY <2>1, <2>2
  <1>11. \A d \in Batches : (\A k \in BatchKeys : at'[d][k] \in {"value", "error"}) =>
            acquisition'[d] \notin {"pending", "opening"} \cup Connections
    BY <1>4, <1>5, <1>6
       DEF ends, BatchInv, BatchesAreSound, Batch!ConnectionsAreKept, Batch!BodyEnds, Batch!Ended,
           Batch!Awaited
  <1> QED
    BY <1>3, <1>7, <1>8, <1>9, <1>10, <1>11
       DEF Batch!ConnectionsAreKept, Batch!BodyEnds, Batch!Ended, Batch!Awaited

(* The keys whose statements have not ended have their step behind them, or *)
(* stay where they are with the connection and the deadline of their batch. *)
LEMMA SettleStatements ==
  ASSUME NEW b \in Batches, NEW keys \in [BatchKeys -> KeyStates], NEW acq \in Acquisitions,
         BatchInv, Batch!Settle(b, keys, acq),
         acq = acquisition[b] \/ acquisition[b] \notin Connections,
         \A k \in BatchKeys : \/ keys[k] = at[b][k]
                              \/ at[b][k] \in {"called", "waiting"}
                              \/ keys[k] \in {"value", "error"}
  PROVE  \A s \in issued :
            /\ at'[s.batch][s.key] \notin {"called", "waiting"}
            /\ at'[s.batch][s.key] = "stepping" => /\ at[s.batch][s.key] = "stepping"
                                                   /\ acquisition'[s.batch] = s.on
                                                   /\ timer'[s.batch] = timer[s.batch]
  <1> TAKE s \in issued
  <1>1. /\ at \in [Batches -> [BatchKeys -> KeyStates]] /\ acquisition \in [Batches -> Acquisitions]
        /\ timer \in [Batches -> {"armed", "fired", "cleared"}]
    BY BatchTypes DEF BatchInv, BatchesTyped
  <1>2. /\ s.batch \in Batches /\ s.key \in BatchKeys /\ s.on \in Connections
        /\ at[s.batch][s.key] \notin {"called", "waiting"}
        /\ at[s.batch][s.key] = "stepping" => acquisition[s.batch] = s.on
    BY DEF BatchInv, Batch!TypeOK, Batch!Statements, StatementsAreOfSteps
  <1>3. at' = [at EXCEPT ![b] = keys]
    BY DEF Batch!Settle
  <1>4. CASE s.batch # b
    BY <1>1, <1>2, <1>3, <1>4 DEF Batch!Settle
  <1>5. CASE s.batch = b
    <2>1. at'[s.batch][s.key] = keys[s.key]
      BY <1>1, <1>3, <1>5
    <2>2. \/ keys[s.key] = at[s.batch][s.key]
          \/ keys[s.key] \in {"value", "error"}
      BY <1>2, <1>5
    <2>3. ASSUME keys[s.key] = "stepping"
          PROVE  acquisition'[b] = acq /\ timer'[b] = timer[b]
      BY <1>1, <1>2, <2>3 DEF Batch!Settle, Batch!BodyEnds, Batch!Ended
    <2> QED
      BY <1>2, <1>5, <2>1, <2>2, <2>3
  <1> QED
    BY <1>4, <1>5

(* The statements a step starts with are of its key, on the connection of   *)
(* its batch.                                                               *)
LEMMA FirstStatements ==
  ASSUME NEW b \in Batches, NEW k \in BatchKeys, acquisition'[b] \in Connections
  PROVE  \A s \in Batch!First(b, k) : /\ s \in Batch!Statements
                                      /\ s.batch = b /\ s.key = k /\ s.on = acquisition'[b]
  BY DEF Batch!First, Batch!Statements

(* The parts of the invariant, in the next state.                           *)
LEMMA BatchParts ==
  ASSUME BatchesTyped', StatementsTyped', AcquisitionsAreAwaited', Batch!ConnectionsAreKept',
         \A s \in issued' : /\ at'[s.batch][s.key] \notin {"called", "waiting"}
                            /\ at'[s.batch][s.key] = "stepping" => acquisition'[s.batch] = s.on,
         \A s \in hit' : at'[s.batch][s.key] = "stepping" => timer'[s.batch] = "fired"
  PROVE  BatchInv'
  <1>1. Batch!TypeOK'
    BY BatchTypes, PTL
  <1> QED
    BY <1>1 DEF BatchInv, StatementsAreOfSteps, BatchesAreSound, Batch!OnlyTheLateAreInterrupted

(* What both lemmas say when one key changes, and it was not waiting.       *)
LEMMA KeyMoves ==
  ASSUME NEW b \in Batches, NEW k \in BatchKeys, NEW state \in KeyStates, NEW keys,
         NEW acq \in Acquisitions,
         BatchInv, keys = [at[b] EXCEPT ![k] = state], Batch!Settle(b, keys, acq),
         opened' = opened,
         acq = acquisition[b] \/ (acquisition[b] = "none" /\ acq \in {"pending", "opening", "failed"}),
         at[b][k] # "waiting",
         at[b][k] = "called" \/ state \in {"value", "error"},
         acq \in {"pending", "opening"} => acq = acquisition[b] \/ state = "waiting",
         state = "waiting" => acq \in {"pending", "opening"},
         state = "stepping" => acq \in Connections
  PROVE  /\ BatchesTyped' /\ AcquisitionsAreAwaited' /\ Batch!ConnectionsAreKept'
         /\ \A s \in issued :
               /\ at'[s.batch][s.key] \notin {"called", "waiting"}
               /\ at'[s.batch][s.key] = "stepping" => /\ at[s.batch][s.key] = "stepping"
                                                      /\ acquisition'[s.batch] = s.on
                                                      /\ timer'[s.batch] = timer[s.batch]
  <1>1. /\ at[b] \in [BatchKeys -> KeyStates]
        /\ keys \in [BatchKeys -> KeyStates]
        /\ \A j \in BatchKeys : keys[j] = IF j = k THEN state ELSE at[b][j]
    BY BatchTypes DEF BatchInv, BatchesTyped
  <1>2. /\ acq = acquisition[b] \/ (acq \notin Connections /\ acquisition[b] \notin Connections)
        /\ opened \subseteq Connections
        /\ acq \in Connections => acq \in opened
    BY ConnectionsAssumption, BatchTypes DEF BatchInv, AcquisitionsAreAwaited, BatchesTyped
  <1>3. acq \in {"pending", "opening"} => \E j \in BatchKeys : keys[j] = "waiting"
    <2>1. CASE state = "waiting"
      BY <1>1, <2>1
    <2>2. CASE acquisition[b] = acq
      BY <1>1, <2>2 DEF BatchInv, AcquisitionsAreAwaited
    <2> QED
      BY <2>1, <2>2
  <1>4. \A j \in BatchKeys : /\ keys[j] = "waiting" => acq \in {"pending", "opening"}
                             /\ keys[j] = "stepping" => acq \in Connections
    <2> TAKE j \in BatchKeys
    <2>1. at[b][j] = "waiting" => acquisition[b] \in {"pending", "opening"}
      BY DEF BatchInv, AcquisitionsAreAwaited
    <2>2. at[b][j] = "stepping" => acquisition[b] \in Connections
      BY <1>2 DEF BatchInv, BatchesAreSound, Batch!ConnectionsAreKept
    <2>3. "none" \notin Connections
      BY ConnectionsAssumption
    <2> QED
      BY <1>1, <2>1, <2>2, <2>3
  <1>5. \A j \in BatchKeys : \/ keys[j] = at[b][j]
                             \/ at[b][j] \in {"called", "waiting"}
                             \/ keys[j] \in {"value", "error"}
    BY <1>1
  <1>6. BatchesTyped' /\ AcquisitionsAreAwaited' /\ Batch!ConnectionsAreKept'
    BY <1>1, <1>2, <1>3, <1>4, SettleKeeps
  <1> QED
    BY <1>1, <1>2, <1>5, <1>6, SettleStatements

(* No statement runs or ends, and those that are new are of steps.          *)
LEMMA SameStatements ==
  ASSUME BatchInv, BatchesTyped', AcquisitionsAreAwaited', Batch!ConnectionsAreKept',
         UNCHANGED <<exec, hit>>, issued \subseteq issued',
         \A s \in issued' \ issued : /\ s \in Batch!Statements
                                     /\ at'[s.batch][s.key] = "stepping"
                                     /\ acquisition'[s.batch] = s.on,
         \A s \in issued :
            /\ at'[s.batch][s.key] \notin {"called", "waiting"}
            /\ at'[s.batch][s.key] = "stepping" => /\ at[s.batch][s.key] = "stepping"
                                                   /\ acquisition'[s.batch] = s.on
                                                   /\ timer'[s.batch] = timer[s.batch]
  PROVE  BatchInv'
  <1>1. StatementsTyped /\ StatementsTyped'
    <2>1. StatementsTyped
      BY BatchTypes DEF BatchInv
    <2>2. issued' \subseteq Batch!Statements
      BY <2>1 DEF StatementsTyped
    <2> QED
      BY <2>1, <2>2 DEF StatementsTyped
  <1>2. \A s \in hit' : at'[s.batch][s.key] = "stepping" => timer'[s.batch] = "fired"
    BY <1>1 DEF StatementsTyped, BatchInv, BatchesAreSound, Batch!OnlyTheLateAreInterrupted
  <1> QED
    BY <1>1, <1>2, BatchParts

(* A key is answered by Redis, misses without a connection, or has its      *)
(* value stored.                                                            *)
LEMMA KeyKeeps ==
  ASSUME NEW b \in Batches, NEW k \in BatchKeys, BatchInv,
         \/ Batch!Hit(b, k) \/ Batch!MissFirst(b, k) \/ Batch!MissNext(b, k)
         \/ Batch!Stored(b, k)
  PROVE  BatchInv'
  <1>1. UNCHANGED <<opened, issued, exec, hit>>
    BY DEF Batch!Hit, Batch!MissFirst, Batch!MissNext, Batch!Stored
  <1>2. PICK held \in Acquisitions : held = acquisition[b]
    BY BatchTypes DEF BatchInv, BatchesTyped
  <1>3. /\ {"value", "error", "waiting"} \subseteq KeyStates
        /\ {"pending", "opening", "failed"} \subseteq Acquisitions
    BY DEF KeyStates, Acquisitions
  <1> DEFINE Moved ==
        /\ BatchesTyped' /\ AcquisitionsAreAwaited' /\ Batch!ConnectionsAreKept'
        /\ \A s \in issued :
              /\ at'[s.batch][s.key] \notin {"called", "waiting"}
              /\ at'[s.batch][s.key] = "stepping" => /\ at[s.batch][s.key] = "stepping"
                                                     /\ acquisition'[s.batch] = s.on
                                                     /\ timer'[s.batch] = timer[s.batch]
  <1>4. SUFFICES Moved
    BY <1>1, SameStatements
  <1>5. PICK value, error : /\ value = [at[b] EXCEPT ![k] = "value"]
                            /\ error = [at[b] EXCEPT ![k] = "error"]
    OBVIOUS
  <1>6. CASE Batch!Hit(b, k) \/ Batch!Stored(b, k)
    <2>1. /\ at[b][k] \in {"called", "storing"}
          /\ Batch!Settle(b, value, held) \/ Batch!Settle(b, error, held)
      BY <1>2, <1>5, <1>6
         DEF Batch!Hit, Batch!Stored, Batch!Ended, Batch!Settle, Batch!Becomes
    <2>2. CASE Batch!Settle(b, value, held)
      BY <1>1, <1>2, <1>3, <1>5, <2>1, <2>2, KeyMoves
    <2>3. CASE Batch!Settle(b, error, held)
      BY <1>1, <1>2, <1>3, <1>5, <2>1, <2>3, KeyMoves
    <2> QED
      BY <2>1, <2>2, <2>3
  <1>7. CASE Batch!MissFirst(b, k)
    <2>1. PICK waits, asked : /\ waits = [at[b] EXCEPT ![k] = "waiting"]
                              /\ asked = Batch!Asked /\ asked \in {"pending", "opening"}
      BY DEF Batch!Asked
    <2>2. /\ at[b][k] = "called" /\ acquisition[b] = "none"
          /\ Batch!Settle(b, waits, asked) \/ Batch!Settle(b, error, "failed")
      BY <1>5, <1>7, <2>1 DEF Batch!MissFirst, Batch!Settle, Batch!Becomes
    <2>3. CASE Batch!Settle(b, waits, asked)
      BY <1>1, <1>3, <2>1, <2>2, <2>3, KeyMoves
    <2>4. CASE Batch!Settle(b, error, "failed")
      BY <1>1, <1>3, <1>5, <2>2, <2>4, KeyMoves
    <2> QED
      BY <2>2, <2>3, <2>4
  <1>8. CASE Batch!MissNext(b, k)
    <2>1. PICK state \in {"waiting", "error"} :
             /\ state = IF acquisition[b] \in {"pending", "opening"} THEN "waiting" ELSE "error"
             /\ at[b][k] = "called" /\ acquisition[b] \in {"pending", "opening", "failed"}
      BY <1>8 DEF Batch!MissNext, Batch!Awaited
    <2>2. PICK keys : keys = [at[b] EXCEPT ![k] = state]
      OBVIOUS
    <2>3. Batch!Settle(b, keys, held)
      BY <1>2, <1>8, <2>1, <2>2 DEF Batch!MissNext, Batch!Awaited, Batch!Settle, Batch!Becomes
    <2> QED
      BY <1>1, <1>2, <1>3, <2>1, <2>2, <2>3, KeyMoves
  <1> QED
    BY <1>6, <1>7, <1>8

(* A miss that comes after the connection.                                  *)
LEMMA MissLateKeeps ==
  ASSUME NEW b \in Batches, NEW k \in BatchKeys, BatchInv, Batch!MissLate(b, k)
  PROVE  BatchInv'
  <1>1. PICK held \in Acquisitions : held = acquisition[b]
    BY BatchTypes DEF BatchInv, BatchesTyped
  <1>2. PICK steps, error : /\ steps = [at[b] EXCEPT ![k] = "stepping"]
                            /\ error = [at[b] EXCEPT ![k] = "error"]
    OBVIOUS
  <1>3. /\ at[b][k] = "called" /\ held \in Connections
        /\ UNCHANGED <<opened, exec, hit>>
        /\ \/ Batch!Settle(b, steps, held) /\ issued' = issued \cup Batch!First(b, k)
           \/ Batch!Settle(b, error, held) /\ issued' = issued
    BY <1>1, <1>2 DEF Batch!MissLate, Batch!Settle, Batch!Becomes
  <1>4. {"stepping", "error"} \subseteq KeyStates
    BY DEF KeyStates
  <1>5. CASE Batch!Settle(b, error, held) /\ issued' = issued
    BY <1>1, <1>2, <1>3, <1>4, <1>5, KeyMoves, SameStatements
  <1>6. CASE Batch!Settle(b, steps, held) /\ issued' = issued \cup Batch!First(b, k)
    <2>1. at'[b][k] = "stepping" /\ acquisition'[b] = held
      <3>1. /\ at[b] \in [BatchKeys -> KeyStates] /\ acquisition \in [Batches -> Acquisitions]
            /\ at \in [Batches -> [BatchKeys -> KeyStates]]
        BY BatchTypes DEF BatchInv, BatchesTyped
      <3>2. steps[k] = "stepping"
        BY <1>2, <3>1
      <3> QED
        BY <1>6, <3>1, <3>2 DEF Batch!Settle, Batch!BodyEnds, Batch!Ended
    <2>2. \A s \in issued' \ issued : /\ s \in Batch!Statements
                                      /\ at'[s.batch][s.key] = "stepping"
                                      /\ acquisition'[s.batch] = s.on
      BY <1>3, <1>6, <2>1, FirstStatements
    <2>3. issued \subseteq issued'
      BY <1>6
    <2> QED
      BY <1>1, <1>2, <1>3, <1>4, <1>6, <2>2, <2>3, KeyMoves, SameStatements
  <1> QED
    BY <1>3, <1>5, <1>6

(* The keys that wait for an acquisition fail with it.                      *)
LEMMA AwaitedFails ==
  ASSUME NEW b \in Batches, BatchInv, acquisition[b] \in {"pending", "opening"},
         NEW keys, Batch!Settle(b, keys, "failed"),
         keys = [k \in BatchKeys |-> IF at[b][k] = "waiting" THEN "error" ELSE at[b][k]],
         UNCHANGED <<opened, issued, exec, hit>>
  PROVE  BatchInv'
  <1>1. at[b] \in [BatchKeys -> KeyStates] /\ opened \subseteq Connections
    BY BatchTypes DEF BatchInv, BatchesTyped
  <1>2. keys \in [BatchKeys -> KeyStates] /\ "failed" \in Acquisitions
    BY <1>1 DEF KeyStates, Acquisitions
  <1>3. "failed" \notin Connections /\ acquisition[b] \notin Connections
    BY ConnectionsAssumption
  <1>4. \A k \in BatchKeys : /\ keys[k] # "waiting"
                             /\ keys[k] # "stepping"
                             /\ \/ keys[k] = at[b][k]
                                \/ at[b][k] \in {"called", "waiting"}
                                \/ keys[k] \in {"value", "error"}
    BY <1>1, <1>3 DEF BatchInv, BatchesAreSound, Batch!ConnectionsAreKept
  <1>5. BatchesTyped' /\ AcquisitionsAreAwaited' /\ Batch!ConnectionsAreKept'
    BY <1>1, <1>2, <1>3, <1>4, SettleKeeps
  <1>6. \A s \in issued :
            /\ at'[s.batch][s.key] \notin {"called", "waiting"}
            /\ at'[s.batch][s.key] = "stepping" => /\ at[s.batch][s.key] = "stepping"
                                                   /\ acquisition'[s.batch] = s.on
                                                   /\ timer'[s.batch] = timer[s.batch]
    BY <1>2, <1>3, <1>4, SettleStatements
  <1> QED
    BY <1>5, <1>6, SameStatements

(* The acquisition of a batch fails, and the keys that wait for it with it. *)
LEMMA AcquisitionFailsKeeps ==
  ASSUME NEW b \in Batches, BatchInv, Batch!AcquisitionFails(b) \/ Batch!OpeningFails(b)
  PROVE  BatchInv'
  <1>1. at[b] \in [BatchKeys -> KeyStates] /\ acquisition[b] \in {"pending", "opening"}
    BY BatchTypes DEF BatchInv, BatchesTyped, Batch!AcquisitionFails, Batch!OpeningFails
  <1>2. PICK keys : keys = [k \in BatchKeys |-> IF at[b][k] = "waiting" THEN "error" ELSE at[b][k]]
    OBVIOUS
  <1>3. Batch!Settle(b, keys, "failed") /\ UNCHANGED <<opened, issued, exec, hit>>
    BY <1>2 DEF Batch!AcquisitionFails, Batch!OpeningFails, Batch!Settle, Batch!AllBecome,
                Batch!Waiting
  <1> QED
    BY <1>1, <1>2, <1>3, AwaitedFails

(* dispatch(): the acquisition leaves the queue.                            *)
LEMMA OpensKeeps ==
  ASSUME NEW b \in Batches, BatchInv, Batch!Opens(b)
  PROVE  BatchInv'
  <1>1. BatchesTyped /\ StatementsTyped
    BY BatchTypes DEF BatchInv
  <1>2. /\ acquisition[b] = "pending" /\ acquisition' = [acquisition EXCEPT ![b] = "opening"]
        /\ UNCHANGED <<at, timer, opened, free, issued, exec, hit>>
    BY DEF Batch!Opens
  <1>3. /\ acquisition'[b] = "opening"
        /\ \A d \in Batches \ {b} : acquisition'[d] = acquisition[d]
        /\ {"pending", "opening"} \cap Connections = {}
    BY <1>1, <1>2, ConnectionsAssumption DEF BatchesTyped
  <1>4. BatchesTyped' /\ StatementsTyped'
    BY <1>1, <1>2 DEF BatchesTyped, StatementsTyped, Acquisitions
  <1>5. AcquisitionsAreAwaited'
    BY <1>2, <1>3 DEF BatchInv, AcquisitionsAreAwaited
  <1>6. \A d \in Batches : acquisition'[d] \in Connections \/ acquisition[d] \in Connections =>
                            d # b /\ acquisition'[d] = acquisition[d]
    BY <1>2, <1>3
  <1>7. Batch!ConnectionsAreKept'
    <2>1. \A d \in Batches : \A k \in BatchKeys :
             at'[d][k] = "stepping" => acquisition'[d] \in opened' \ free'
      BY <1>1, <1>2, <1>6
         DEF BatchInv, BatchesAreSound, Batch!ConnectionsAreKept, BatchesTyped
    <2>2. \A d, e \in Batches :
             d # e /\ acquisition'[d] \in Connections => acquisition'[d] # acquisition'[e]
      BY <1>3, <1>6 DEF BatchInv, BatchesAreSound, Batch!ConnectionsAreKept
    <2>3. \A c \in Connections \ free' : \E d \in Batches : acquisition'[d] = c
      BY <1>2, <1>6 DEF BatchInv, BatchesAreSound, Batch!ConnectionsAreKept
    <2>4. \A d \in Batches : Batch!BodyEnds(at'[d]) =>
             acquisition'[d] \notin {"pending", "opening"} \cup Connections
      BY <1>2, <1>3
         DEF BatchInv, BatchesAreSound, Batch!ConnectionsAreKept, Batch!BodyEnds, Batch!Awaited
    <2> QED
      BY <2>1, <2>2, <2>3, <2>4 DEF Batch!ConnectionsAreKept, Batch!BodyEnds, Batch!Awaited
  <1>8. \A s \in issued' : /\ at'[s.batch][s.key] \notin {"called", "waiting"}
                           /\ at'[s.batch][s.key] = "stepping" => acquisition'[s.batch] = s.on
    <2> TAKE s \in issued'
    <2>1. s \in issued /\ s.batch \in Batches /\ s.on \in Connections
      BY <1>1, <1>2 DEF StatementsTyped, Batch!Statements
    <2> QED
      BY <1>2, <1>6, <2>1 DEF BatchInv, StatementsAreOfSteps
  <1>9. \A s \in hit' : at'[s.batch][s.key] = "stepping" => timer'[s.batch] = "fired"
    BY <1>2 DEF BatchInv, BatchesAreSound, Batch!OnlyTheLateAreInterrupted
  <1> QED
    BY <1>4, <1>5, <1>7, <1>8, <1>9, BatchParts

(* A connection comes: every key that waits starts its step on it, or fails *)
(* when the deadline is over, and then the end of the body gives it back.   *)
LEMMA ComesKeeps ==
  ASSUME NEW b \in Batches, BatchInv, Batch!Granted(b) \/ Batch!Opened(b)
  PROVE  BatchInv'
  <1>1. BatchesTyped
    BY BatchTypes DEF BatchInv
  <1>2. PICK c \in free : /\ Batch!Comes(b, c)
                          /\ \/ c \in opened /\ opened' = opened
                             \/ opened' = opened \cup {c}
    BY DEF Batch!Granted, Batch!Opened
  <1>3. /\ acquisition[b] \in {"pending", "opening"} /\ acquisition[b] \notin Connections
        /\ UNCHANGED <<exec, hit>> /\ c \in Connections /\ c \in Acquisitions
        /\ opened \subseteq opened' /\ opened' \subseteq Connections /\ c \in opened'
    BY <1>1, <1>2, ConnectionsAssumption
       DEF Batch!Granted, Batch!Opened, Batch!Comes, BatchesTyped, Acquisitions
  <1>4. at[b] \in [BatchKeys -> KeyStates] /\ \A k \in BatchKeys : at[b][k] # "stepping"
    BY <1>1, <1>3 DEF BatchInv, BatchesAreSound, Batch!ConnectionsAreKept, BatchesTyped
  <1>5. PICK state, keys :
           /\ state \in {"stepping", "error"}
           /\ keys = [k \in BatchKeys |-> IF at[b][k] = "waiting" THEN state ELSE at[b][k]]
           /\ Batch!Settle(b, keys, c)
           /\ \/ /\ state = "stepping"
                 /\ issued' = issued \cup
                      UNION {Batch!First(b, k) : k \in {j \in BatchKeys : at[b][j] = "waiting"}}
              \/ issued' = issued
    BY <1>2 DEF Batch!Comes, Batch!Settle, Batch!AllBecome, Batch!Waiting
  <1>6. keys \in [BatchKeys -> KeyStates]
    BY <1>4, <1>5 DEF KeyStates
  <1>7. \A k \in BatchKeys : /\ keys[k] # "waiting"
                             /\ \/ keys[k] = at[b][k]
                                \/ at[b][k] \in {"called", "waiting"}
                                \/ keys[k] \in {"value", "error"}
    BY <1>5
  <1>8. c \notin {"pending", "opening"}
    BY <1>3, ConnectionsAssumption
  <1>9. BatchesTyped' /\ AcquisitionsAreAwaited' /\ Batch!ConnectionsAreKept'
    BY <1>3, <1>5, <1>6, <1>7, <1>8, SettleKeeps
  <1>10. \A s \in issued :
            /\ at'[s.batch][s.key] \notin {"called", "waiting"}
            /\ at'[s.batch][s.key] = "stepping" => /\ at[s.batch][s.key] = "stepping"
                                                   /\ acquisition'[s.batch] = s.on
                                                   /\ timer'[s.batch] = timer[s.batch]
    BY <1>3, <1>5, <1>6, <1>7, SettleStatements
  <1>11. \A s \in issued' \ issued : /\ s \in Batch!Statements
                                     /\ at'[s.batch][s.key] = "stepping"
                                     /\ acquisition'[s.batch] = s.on
    <2> TAKE s \in issued' \ issued
    <2>1. PICK k \in BatchKeys : at[b][k] = "waiting" /\ s \in Batch!First(b, k) /\ state = "stepping"
      BY <1>5
    <2>2. keys[k] = "stepping"
      BY <1>5, <2>1
    <2>3. at'[b] = keys /\ acquisition'[b] = c
      BY <1>1, <1>5, <2>2 DEF Batch!Settle, Batch!BodyEnds, Batch!Ended, BatchesTyped
    <2> QED
      BY <1>3, <2>1, <2>2, <2>3, FirstStatements
  <1>12. issued \subseteq issued'
    BY <1>5
  <1> QED
    BY <1>3, <1>9, <1>10, <1>11, <1>12, SameStatements

(* The deadline of a batch.  The statement it interrupts is on the batch's  *)
(* connection: a key of another batch that waits for it cannot be there.    *)
LEMMA DeadlineKeeps ==
  ASSUME NEW b \in Batches, BatchInv, Batch!Deadline(b)
  PROVE  BatchInv'
  <1>1. BatchesTyped /\ StatementsTyped
    BY BatchTypes DEF BatchInv
  <1>2. /\ timer' = [timer EXCEPT ![b] = "fired"] /\ UNCHANGED <<opened, free, issued, exec>>
        /\ hit' = hit \cup {s \in issued : /\ acquisition[b] \in Connections
                                           /\ \E k \in BatchKeys : at[b][k] = "stepping"
                                           /\ s = exec[acquisition[b]]}
    BY DEF Batch!Deadline
  <1>3. PICK keys : keys = [k \in BatchKeys |-> IF at[b][k] = "waiting" THEN "error" ELSE at[b][k]]
    OBVIOUS
  <1>4. /\ acquisition[b] = "pending" =>
              at' = [at EXCEPT ![b] = keys] /\ acquisition' = [acquisition EXCEPT ![b] = "failed"]
        /\ acquisition[b] # "pending" => at' = at /\ acquisition' = acquisition
    BY <1>1, <1>3 DEF Batch!Deadline, Batch!AllBecome, Batch!Waiting, BatchesTyped
  <1>5. /\ {"none", "pending", "opening", "failed", "released"} \cap Connections = {}
        /\ \A k \in BatchKeys : keys[k] \in KeyStates /\ keys[k] # "waiting"
        /\ acquisition[b] = "pending" =>
              \A k \in BatchKeys : at[b][k] # "stepping" /\ keys[k] # "stepping"
    BY <1>1, <1>3, ConnectionsAssumption
       DEF BatchInv, BatchesAreSound, Batch!ConnectionsAreKept, BatchesTyped, KeyStates
  <1>6. BatchesTyped'
    BY <1>1, <1>2, <1>3, <1>4, <1>5 DEF BatchesTyped, Acquisitions
  <1>7. AcquisitionsAreAwaited' /\ Batch!ConnectionsAreKept'
    <2>1. CASE acquisition[b] = "pending"
      <3>1. /\ at'[b] = keys /\ acquisition'[b] = "failed"
            /\ \A d \in Batches \ {b} : at'[d] = at[d] /\ acquisition'[d] = acquisition[d]
        BY <1>1, <1>4, <2>1 DEF BatchesTyped
      <3>2. AcquisitionsAreAwaited'
        BY <1>2, <1>5, <3>1 DEF BatchInv, AcquisitionsAreAwaited
      <3>3. \A c \in Connections \ free' : \E d \in Batches : acquisition'[d] = c
        BY <1>2, <1>5, <2>1, <3>1 DEF BatchInv, BatchesAreSound, Batch!ConnectionsAreKept
      <3>4. \A d, e \in Batches :
               d # e /\ acquisition'[d] \in Connections => acquisition'[d] # acquisition'[e]
        BY <1>5, <3>1 DEF BatchInv, BatchesAreSound, Batch!ConnectionsAreKept
      <3>5. \A d \in Batches : \A k \in BatchKeys :
               at'[d][k] = "stepping" => acquisition'[d] \in opened' \ free'
        BY <1>2, <1>3, <1>5, <2>1, <3>1 DEF BatchInv, BatchesAreSound, Batch!ConnectionsAreKept
      <3>6. \A d \in Batches : (\A k \in BatchKeys : at'[d][k] \in Batch!Ended) =>
               acquisition'[d] \notin Batch!Awaited \cup Connections
        BY <1>5, <3>1
           DEF BatchInv, BatchesAreSound, Batch!ConnectionsAreKept, Batch!BodyEnds, Batch!Awaited
      <3> QED
        BY <3>2, <3>3, <3>4, <3>5, <3>6 DEF Batch!ConnectionsAreKept, Batch!BodyEnds
    <2>2. CASE acquisition[b] # "pending"
      BY <1>2, <1>4, <2>2 DEF BatchInv, AcquisitionsAreAwaited, BatchesAreSound,
                              Batch!ConnectionsAreKept, Batch!BodyEnds
    <2> QED
      BY <2>1, <2>2
  <1>8. StatementsTyped'
    BY <1>1, <1>2 DEF StatementsTyped
  <1>9. \A s \in issued :
            /\ at'[s.batch][s.key] \notin {"called", "waiting"}
            /\ at'[s.batch][s.key] = "stepping" => /\ at[s.batch][s.key] = "stepping"
                                                   /\ acquisition'[s.batch] = s.on
    <2> TAKE s \in issued
    <2>1. /\ s.batch \in Batches /\ s.key \in BatchKeys
          /\ at[s.batch][s.key] \notin {"called", "waiting"}
          /\ at[s.batch][s.key] = "stepping" => acquisition[s.batch] = s.on
      BY DEF BatchInv, Batch!TypeOK, Batch!Statements, StatementsAreOfSteps
    <2>2. CASE acquisition[b] = "pending" /\ s.batch = b
      <3>1. at'[s.batch][s.key] = at[s.batch][s.key]
        BY <1>1, <1>3, <1>4, <2>1, <2>2 DEF BatchesTyped
      <3> QED
        BY <1>5, <2>1, <2>2, <3>1
    <2>3. CASE ~(acquisition[b] = "pending" /\ s.batch = b)
      <3>1. at'[s.batch] = at[s.batch] /\ acquisition'[s.batch] = acquisition[s.batch]
        BY <1>1, <1>4, <2>1, <2>3 DEF BatchesTyped
      <3> QED
        BY <2>1, <3>1
    <2> QED
      BY <2>2, <2>3
  <1>10. ASSUME NEW s \in hit', at'[s.batch][s.key] = "stepping"
         PROVE  timer'[s.batch] = "fired"
    <2>1. s \in issued /\ s.batch \in Batches /\ s \in Batch!Statements
      BY <1>1, <1>2 DEF StatementsTyped, Batch!Statements
    <2>2. at[s.batch][s.key] = "stepping" /\ acquisition[s.batch] = s.on
      BY <1>9, <1>10, <2>1 DEF BatchInv, StatementsAreOfSteps
    <2>3. CASE s \in hit
      <3>1. timer[s.batch] = "fired"
        BY <2>2, <2>3 DEF BatchInv, BatchesAreSound, Batch!OnlyTheLateAreInterrupted
      <3> QED
        BY <1>1, <1>2, <2>1, <3>1 DEF BatchesTyped
    <2>4. CASE s \notin hit
      <3>1. acquisition[b] \in Connections /\ s = exec[acquisition[b]]
        BY <1>2, <2>4
      <3>2. s.on = acquisition[b]
        BY <1>1, <2>1, <3>1, NoneAssumption DEF StatementsTyped
      <3>3. s.batch = b
        BY <2>1, <2>2, <3>1, <3>2 DEF BatchInv, BatchesAreSound, Batch!ConnectionsAreKept
      <3> QED
        BY <1>1, <1>2, <3>3 DEF BatchesTyped
    <2> QED
      BY <2>3, <2>4
  <1> QED
    BY <1>2, <1>6, <1>7, <1>8, <1>9, <1>10, BatchParts

(* A statement that waits on a connection runs.                             *)
LEMMA RunsKeeps ==
  ASSUME NEW c \in Connections, BatchInv, Batch!Runs(c)
  PROVE  BatchInv'
  <1>1. BatchesTyped /\ StatementsTyped
    BY BatchTypes DEF BatchInv
  <1>2. UNCHANGED <<at, acquisition, timer, opened, free, issued, hit>>
    BY DEF Batch!Runs
  <1>3. StatementsTyped'
    <2>1. PICK s \in issued : s.on = c /\ exec' = [exec EXCEPT ![c] = s]
      BY DEF Batch!Runs
    <2> QED
      BY <1>1, <1>2, <2>1 DEF StatementsTyped
  <1>4. BatchesTyped'
    BY <1>1, <1>2 DEF BatchesTyped
  <1>5. Batch!TypeOK'
    BY <1>3, <1>4, BatchTypes, PTL
  <1> QED
    BY <1>2, <1>5 DEF BatchInv, AcquisitionsAreAwaited, StatementsAreOfSteps, BatchesAreSound,
       Batch!ConnectionsAreKept, Batch!BodyEnds, Batch!OnlyTheLateAreInterrupted

(* The statement a connection runs, and what is left when it ends.          *)
LEMMA StatementEnds ==
  ASSUME NEW c \in Connections, NEW s, BatchInv, s = exec[c], exec[c] # None,
         exec' = [exec EXCEPT ![c] = None], hit' = hit \ {s},
         issued \ {s} \subseteq issued', issued' \subseteq Batch!Statements
  PROVE  /\ s \in issued /\ s.on = c /\ s \in Batch!Statements
         /\ s.batch \in Batches /\ s.key \in BatchKeys /\ s.n \in {1, 2} /\ s.on \in Connections
         /\ StatementsTyped'
  <1>1. StatementsTyped
    BY BatchTypes DEF BatchInv
  <1>2. s \in issued /\ s.on = c /\ s \in Batch!Statements
    BY <1>1 DEF StatementsTyped
  <1>3. \A d \in Connections : exec'[d] # None => exec'[d] \in issued' /\ exec'[d].on = d
    <2> TAKE d \in Connections
    <2>1. d # c /\ exec[d] # None => exec[d] \in issued /\ exec[d].on = d /\ exec[d] # s
      BY <1>1, <1>2 DEF StatementsTyped
    <2> QED
      BY <1>1, <2>1 DEF StatementsTyped
  <1>4. hit' \subseteq issued' /\ exec' \in [Connections -> Batch!Statements \cup {None}]
    BY <1>1 DEF StatementsTyped
  <1> QED
    BY <1>2, <1>3, <1>4 DEF StatementsTyped, Batch!Statements

(* It succeeds: the step goes on on the same connection, or has ended.      *)
LEMMA SucceedsKeeps ==
  ASSUME NEW c \in Connections, BatchInv, Batch!Succeeds(c)
  PROVE  BatchInv'
  <1>1. BatchesTyped /\ StatementsTyped
    BY BatchTypes DEF BatchInv
  <1>2. PICK s : s = exec[c]
    OBVIOUS
  <1>3. exec[c] # None /\ s \in issued /\ s.on = c /\ s \in Batch!Statements
    BY <1>1, <1>2 DEF Batch!Succeeds, StatementsTyped
  <1>4. s.batch \in Batches /\ s.key \in BatchKeys /\ s.on \in Connections
    BY <1>3 DEF Batch!Statements
  <1>5. PICK follows :
           follows = IF at[s.batch][s.key] = "stepping" /\ ~(s.batch \in Together \/ s.n = 2)
                       THEN {[s EXCEPT !.n = 2]} ELSE {}
    OBVIOUS
  <1>6. /\ exec' = [exec EXCEPT ![c] = None] /\ hit' = hit \ {s}
        /\ issued' = (issued \ {s}) \cup follows
        /\ UNCHANGED <<acquisition, timer, opened, free>>
        /\ \/ at' = at
           \/ /\ at[s.batch][s.key] = "stepping"
              /\ ~\E t \in issued' : t.batch = s.batch /\ t.key = s.key
              /\ at' = [at EXCEPT ![s.batch] = [@ EXCEPT ![s.key] = "storing"]]
    BY <1>2, <1>3, <1>5
       DEF Batch!Succeeds, Batch!Over, Batch!Following, Batch!Becomes
  <1>7. \A t \in follows : /\ t \in Batch!Statements
                           /\ t.batch = s.batch /\ t.key = s.key /\ t.on = s.on
                           /\ at[s.batch][s.key] = "stepping"
    BY <1>3, <1>5 DEF Batch!Statements
  <1>8. StatementsTyped'
    <2>1. issued \ {s} \subseteq issued' /\ issued' \subseteq Batch!Statements
      BY <1>1, <1>6, <1>7 DEF StatementsTyped
    <2> QED
      BY <1>2, <1>3, <1>6, <2>1, StatementEnds
  <1>9. \A t \in issued' : /\ t.batch \in Batches /\ t.key \in BatchKeys
                           /\ at[t.batch][t.key] \notin {"called", "waiting"}
                           /\ at[t.batch][t.key] = "stepping" => acquisition[t.batch] = t.on
    BY <1>3, <1>4, <1>6, <1>7 DEF BatchInv, Batch!TypeOK, Batch!Statements, StatementsAreOfSteps
  <1>same. acquisition' = acquisition /\ timer' = timer /\ free' = free /\ opened' = opened
           /\ hit' \subseteq hit
    BY <1>6
  <1>10. CASE at' = at
    <2>1. BatchesTyped' /\ AcquisitionsAreAwaited' /\ Batch!ConnectionsAreKept'
      BY <1>1, <1>same, <1>10 DEF BatchesTyped, BatchInv, AcquisitionsAreAwaited, BatchesAreSound,
                               Batch!ConnectionsAreKept, Batch!BodyEnds
    <2>2. \A t \in hit' : at'[t.batch][t.key] = "stepping" => timer'[t.batch] = "fired"
      BY <1>same, <1>10 DEF BatchInv, BatchesAreSound, Batch!OnlyTheLateAreInterrupted
    <2>3. \A t \in issued' : /\ at'[t.batch][t.key] \notin {"called", "waiting"}
                             /\ at'[t.batch][t.key] = "stepping" => acquisition'[t.batch] = t.on
      BY <1>same, <1>9, <1>10
    <2> QED
      BY <1>8, <2>1, <2>2, <2>3, BatchParts
  <1>11. CASE /\ at[s.batch][s.key] = "stepping"
              /\ at' = [at EXCEPT ![s.batch] = [@ EXCEPT ![s.key] = "storing"]]
    <2>1. /\ at' \in [Batches -> [BatchKeys -> KeyStates]]
          /\ at'[s.batch][s.key] = "storing"
          /\ \A d \in Batches : \A k \in BatchKeys :
                (d # s.batch \/ k # s.key) => at'[d][k] = at[d][k]
      BY <1>1, <1>4, <1>11 DEF BatchesTyped, KeyStates
    <2>2. \A d \in Batches : \A k \in BatchKeys :
             /\ at'[d][k] = "waiting" <=> at[d][k] = "waiting"
             /\ at'[d][k] = "stepping" => at[d][k] = "stepping"
             /\ at'[d][k] \in {"value", "error"} <=> at[d][k] \in {"value", "error"}
             /\ at'[d][k] = "called" => at[d][k] = "called"
      BY <1>11, <2>1
    <2>3. BatchesTyped' /\ AcquisitionsAreAwaited'
      BY <1>1, <1>same, <2>1, <2>2 DEF BatchesTyped, BatchInv, AcquisitionsAreAwaited
    <2>4. Batch!ConnectionsAreKept'
      BY <1>same, <2>2 DEF BatchInv, BatchesAreSound, Batch!ConnectionsAreKept, Batch!BodyEnds,
                        Batch!Ended
    <2>5. \A t \in issued' : /\ at'[t.batch][t.key] \notin {"called", "waiting"}
                             /\ at'[t.batch][t.key] = "stepping" => acquisition'[t.batch] = t.on
      BY <1>same, <1>9, <2>2
    <2>6. \A t \in hit' : at'[t.batch][t.key] = "stepping" => timer'[t.batch] = "fired"
      <3> TAKE t \in hit'
      <3>1. t.batch \in Batches /\ t.key \in BatchKeys /\ t \in hit
        BY <1>same, <1>8, <1>9 DEF StatementsTyped
      <3> QED
        BY <1>same, <2>2, <3>1 DEF BatchInv, BatchesAreSound, Batch!OnlyTheLateAreInterrupted
    <2> QED
      BY <1>8, <2>3, <2>4, <2>5, <2>6, BatchParts
  <1> QED
    BY <1>6, <1>10, <1>11

(* It fails: so does its key, if it was still at its step.                  *)
LEMMA FailsKeeps ==
  ASSUME NEW c \in Connections, BatchInv, Batch!Fails(c)
  PROVE  BatchInv'
  <1>1. BatchesTyped /\ StatementsTyped
    BY BatchTypes DEF BatchInv
  <1>2. PICK s : s = exec[c]
    OBVIOUS
  <1>3. exec[c] # None /\ s \in issued /\ s.on = c /\ s \in Batch!Statements
    BY <1>1, <1>2 DEF Batch!Fails, StatementsTyped
  <1>4. s.batch \in Batches /\ s.key \in BatchKeys /\ s.on \in Connections
    BY <1>3 DEF Batch!Statements
  <1>5. PICK keys, acq : keys = [at[s.batch] EXCEPT ![s.key] = "error"] /\ acq = acquisition[s.batch]
    OBVIOUS
  <1>6. /\ exec' = [exec EXCEPT ![c] = None] /\ hit' = hit \ {s} /\ issued' = issued \ {s}
        /\ opened' = opened
        /\ \/ at[s.batch][s.key] = "stepping" /\ Batch!Settle(s.batch, keys, acq)
           \/ UNCHANGED <<at, acquisition, timer, free>>
    BY <1>2, <1>3, <1>5 DEF Batch!Fails, Batch!Over, Batch!Settle, Batch!Becomes
  <1>7. StatementsTyped'
    BY <1>1, <1>2, <1>3, <1>6, StatementEnds DEF StatementsTyped
  <1>8. hit' \subseteq issued'
    BY <1>7 DEF StatementsTyped
  <1>9. CASE UNCHANGED <<at, acquisition, timer, free>>
    <2>1. BatchesTyped' /\ AcquisitionsAreAwaited' /\ Batch!ConnectionsAreKept'
      BY <1>1, <1>6, <1>9 DEF BatchesTyped, BatchInv, AcquisitionsAreAwaited, BatchesAreSound,
                        Batch!ConnectionsAreKept, Batch!BodyEnds
    <2> QED
      BY <1>6, <1>7, <1>9, <2>1, BatchParts
         DEF BatchInv, StatementsAreOfSteps, BatchesAreSound, Batch!OnlyTheLateAreInterrupted
  <1>10. CASE at[s.batch][s.key] = "stepping" /\ Batch!Settle(s.batch, keys, acq)
    <2>1. "error" \in KeyStates /\ acq \in Acquisitions
      BY <1>1, <1>4, <1>5 DEF KeyStates, BatchesTyped
    <2>2. /\ BatchesTyped' /\ AcquisitionsAreAwaited' /\ Batch!ConnectionsAreKept'
          /\ \A t \in issued :
                /\ at'[t.batch][t.key] \notin {"called", "waiting"}
                /\ at'[t.batch][t.key] = "stepping" => /\ at[t.batch][t.key] = "stepping"
                                                       /\ acquisition'[t.batch] = t.on
                                                       /\ timer'[t.batch] = timer[t.batch]
      BY <1>4, <1>5, <1>6, <1>10, <2>1, KeyMoves
    <2>3. \A t \in hit' : at'[t.batch][t.key] = "stepping" => timer'[t.batch] = "fired"
      BY <1>1, <1>6, <2>2
         DEF StatementsTyped, BatchInv, BatchesAreSound, Batch!OnlyTheLateAreInterrupted
    <2> QED
      BY <1>6, <1>7, <2>2, <2>3, BatchParts
  <1> QED
    BY <1>6, <1>9, <1>10

LEMMA BatchStep == BatchInv /\ [Batch!Next]_(Batch!vars) => BatchInv'
  <1> SUFFICES ASSUME BatchInv, [Batch!Next]_(Batch!vars) PROVE BatchInv'
    OBVIOUS
  <1>1. CASE UNCHANGED Batch!vars
    BY <1>1 DEF Batch!vars, BatchInv, Batch!TypeOK, AcquisitionsAreAwaited, StatementsAreOfSteps,
                BatchesAreSound, Batch!ConnectionsAreKept, Batch!BodyEnds,
                Batch!OnlyTheLateAreInterrupted
  <1>2. ASSUME NEW b \in Batches,
               \/ Batch!Granted(b) \/ Batch!AcquisitionFails(b) \/ Batch!Opens(b)
               \/ Batch!OpeningEnds(b) \/ Batch!Deadline(b)
        PROVE  BatchInv'
    BY <1>2, ComesKeeps, OpensKeeps, AcquisitionFailsKeeps, DeadlineKeeps DEF Batch!OpeningEnds
  <1>3. ASSUME NEW b \in Batches, NEW k \in BatchKeys, Batch!KeyStep(b, k)
        PROVE  BatchInv'
    BY <1>3, KeyKeeps, MissLateKeeps DEF Batch!KeyStep
  <1>4. ASSUME NEW c \in Connections, Batch!Runs(c) \/ Batch!Returns(c)
        PROVE  BatchInv'
    BY <1>4, RunsKeeps, SucceedsKeeps, FailsKeeps DEF Batch!Returns
  <1> QED
    BY <1>1, <1>2, <1>3, <1>4 DEF Batch!Next

(* A batch steps only on an open connection of its own, which nobody else   *)
(* has; it leaves neither a connection nor an acquisition, queued or        *)
(* opening, behind when it ends, whether its connection came before its     *)
(* deadline or after it; and its deadline interrupts no statement another   *)
(* batch waits for.                                                         *)
THEOREM BatchesKeepToThemselves == Batch!Spec => []BatchesAreSound
  <1>1. BatchInv => BatchesAreSound
    BY DEF BatchInv
  <1> QED
    BY <1>1, BatchInit, BatchStep, PTL DEF Batch!Spec

-----------------------------------------------------------------------------
(* Shutdown                                                                 *)

(* Who holds a connection has not been answered, and who was cut or failed  *)
(* had its time, unless something failed before.                            *)
RequestsHaveTheirTime ==
  \A r \in Requests :
    /\ r \in holds => request[r] \in {"accepted", "cut"}
    /\ request[r] = "cut" => grace

(* The stages of a shutdown, and what is over once each has begun.          *)
StagesAreInOrder ==
  /\ stage # "serving" <=> ~ticking
  /\ watchdog => stage # "serving"
  /\ stage \in {"serving", "draining"} => step = 1 /\ pool = "open"
  /\ stage = "closing" /\ step > 1 => pool = "closed"
  /\ stage = "closing" /\ ~failed => \A r \in Requests : request[r] # "accepted"

StopInv ==
  /\ Stop!TypeOK
  /\ RequestsHaveTheirTime
  /\ StagesAreInOrder
  /\ AcceptedAreServed

LEMMA StopInit == Stop!Init => StopInv
  <1> SUFFICES ASSUME Stop!Init PROVE StopInv
    OBVIOUS
  <1>1. Stop!TypeOK
    <2>1. step \in 1..Stop!LastStep
      BY DEF Stop!Init, Stop!LastStep
    <2>2. code \in {0, 1, Stop!Running} /\ (code = Stop!Running <=> stage # "exited")
      BY DEF Stop!Init
    <2>3. request \in [Requests -> {"none", "accepted", "cut", "answered", "refused", "failed"}]
      BY DEF Stop!Init
    <2>4. /\ failed \in BOOLEAN /\ grace \in BOOLEAN /\ watchdog \in BOOLEAN
          /\ ticking \in BOOLEAN
      BY Zenon DEF Stop!Init
    <2> QED
      BY <2>1, <2>2, <2>3, <2>4 DEF Stop!Init, Stop!TypeOK
  <1> QED
    BY <1>1 DEF Stop!Init, Stop!Running, StopInv, RequestsHaveTheirTime, StagesAreInOrder,
                AcceptedAreServed, Stop!AcceptedAreServed

(* The requests, from their arrival to their answer.                        *)
LEMMA RequestKeeps ==
  ASSUME StopInv, NEW r \in Requests,
         Stop!Arrives(r) \/ Stop!Connects(r) \/ Stop!Answers(r) \/ Stop!Breaks(r)
  PROVE  StopInv'
  <1>1. /\ UNCHANGED <<stage, step, failed, grace, watchdog, code, ticking, pool, running>>
        /\ stage # "exited"
    BY DEF Stop!Arrives, Stop!Connects, Stop!Answers, Stop!Breaks, Stop!server, Stop!Alive
  <1>2. Stop!TypeOK'
    BY <1>1 DEF StopInv, Stop!TypeOK, Stop!Arrives, Stop!Connects, Stop!Answers, Stop!Breaks
  <1>3. CASE Stop!Arrives(r)
    BY <1>1, <1>2, <1>3
       DEF Stop!Arrives, StopInv, Stop!TypeOK, Stop!Running, RequestsHaveTheirTime,
           StagesAreInOrder, AcceptedAreServed, Stop!AcceptedAreServed
  <1>4. CASE Stop!Connects(r)
    BY <1>1, <1>2, <1>4
       DEF Stop!Connects, Stop!Open, StopInv, Stop!TypeOK, Stop!Running,
           RequestsHaveTheirTime, StagesAreInOrder, AcceptedAreServed, Stop!AcceptedAreServed
  <1>5. CASE Stop!Answers(r)
    BY <1>1, <1>2, <1>5
       DEF Stop!Answers, StopInv, Stop!TypeOK, Stop!Running, RequestsHaveTheirTime,
           StagesAreInOrder, AcceptedAreServed, Stop!AcceptedAreServed
  <1>6. CASE Stop!Breaks(r)
    BY <1>1, <1>2, <1>6
       DEF Stop!Breaks, StopInv, Stop!TypeOK, Stop!Running, RequestsHaveTheirTime,
           StagesAreInOrder, AcceptedAreServed, Stop!AcceptedAreServed
  <1> QED
    BY <1>3, <1>4, <1>5, <1>6

(* The monitor, its probe and its reload.                                   *)
LEMMA MonitorKeeps ==
  ASSUME StopInv, Stop!Probes \/ Stop!ProbeEnds \/ Stop!ReloadEnds \/ Stop!Publishes
  PROVE  StopInv'
  <1>1. /\ UNCHANGED <<stage, step, failed, grace, watchdog, code, ticking, pool, request>>
        /\ \A r \in Requests : r \in holds' <=> r \in holds
    BY MonitorAssumption
       DEF Stop!Probes, Stop!ProbeEnds, Stop!ReloadEnds, Stop!Publishes, Stop!server
  <1>2. Stop!TypeOK'
    BY <1>1
       DEF StopInv, Stop!TypeOK, Stop!Probes, Stop!ProbeEnds, Stop!ReloadEnds, Stop!Publishes
  <1> QED
    BY <1>1, <1>2 DEF StopInv, RequestsHaveTheirTime, StagesAreInOrder, AcceptedAreServed,
                      Stop!AcceptedAreServed

(* The signal and the drain of the HTTP server.                             *)
LEMMA DrainKeeps ==
  ASSUME StopInv, Stop!Signal \/ Stop!GraceOver \/ Stop!Drained \/ Stop!DrainFails
  PROVE  StopInv'
  <1>1. /\ UNCHANGED <<step, code, holds, pool, running>>
        /\ stage # "exited" /\ step = 1 /\ code # 0
    BY DEF Stop!Signal, Stop!GraceOver, Stop!Drained, Stop!DrainFails, StopInv, Stop!TypeOK,
           StagesAreInOrder, Stop!Running
  <1>2. Stop!TypeOK'
    BY <1>1
       DEF StopInv, Stop!TypeOK, Stop!Signal, Stop!GraceOver, Stop!Drained, Stop!DrainFails
  <1>3. RequestsHaveTheirTime' /\ AcceptedAreServed'
    BY <1>1
       DEF StopInv, Stop!TypeOK, Stop!Signal, Stop!GraceOver, Stop!Drained, Stop!DrainFails,
           RequestsHaveTheirTime, AcceptedAreServed, Stop!AcceptedAreServed
  <1>4. StagesAreInOrder'
    BY <1>1
       DEF StopInv, Stop!TypeOK, Stop!Signal, Stop!GraceOver, Stop!Drained, Stop!DrainFails,
           StagesAreInOrder
  <1> QED
    BY <1>2, <1>3, <1>4 DEF StopInv

(* The closing steps.  Nobody loses a connection of the pool with the first *)
(* of them unless their time was over: a drain that ended left nobody.      *)
LEMMA ClosingKeeps ==
  ASSUME StopInv, NEW ok \in BOOLEAN, Stop!StepEnds(ok)
  PROVE  StopInv'
  <1>1. /\ stage = "closing" /\ failed' = (failed \/ ~ok)
        /\ UNCHANGED <<grace, ticking, running>>
        /\ code = Stop!Running /\ ~ticking
    BY DEF Stop!StepEnds, StopInv, Stop!TypeOK, StagesAreInOrder
  <1>2. /\ pool' = "closed"
        /\ \A r \in Requests : r \in holds' => r \in holds /\ request'[r] = request[r]
        /\ request' \in [Requests -> {"none", "accepted", "cut", "answered", "refused", "failed"}]
        /\ holds' = {}
    BY DEF Stop!StepEnds, Stop!ClosePool, StopInv, Stop!TypeOK, StagesAreInOrder,
           Stop!LastStep
  <1>3. \A r \in Requests :
           \/ request'[r] = request[r]
           \/ request'[r] = "failed" /\ (grace \/ failed)
    <2> TAKE r \in Requests
    <2>1. r \in holds => grace \/ failed
      BY <1>1 DEF StopInv, RequestsHaveTheirTime, StagesAreInOrder
    <2> QED
      BY <2>1 DEF Stop!StepEnds, Stop!ClosePool, StopInv, Stop!TypeOK
  <1>4. Stop!TypeOK'
    <2>1. step' \in 1..Stop!LastStep
      BY DEF StopInv, Stop!TypeOK, Stop!StepEnds, Stop!LastStep
    <2>2. /\ code' \in {0, 1, Stop!Running}
          /\ code' = Stop!Running <=> stage' # "exited"
          /\ stage' \in {"closing", "exited"}
      BY <1>1 DEF StopInv, Stop!TypeOK, Stop!StepEnds, Stop!Running
    <2>3. watchdog' \in BOOLEAN /\ failed' \in BOOLEAN
      BY <1>1, Zenon DEF StopInv, Stop!TypeOK, Stop!StepEnds
    <2> QED
      BY <1>1, <1>2, <2>1, <2>2, <2>3 DEF StopInv, Stop!TypeOK
  <1>5. /\ stage' \in {"closing", "exited"}
        /\ code' = 0 => ~failed'
    BY <1>1 DEF Stop!StepEnds, Stop!Running
  <1>6. RequestsHaveTheirTime' /\ StagesAreInOrder'
    BY <1>1, <1>2, <1>3, <1>5 DEF StopInv, RequestsHaveTheirTime, StagesAreInOrder
  <1>7. AcceptedAreServed'
    BY <1>1, <1>2, <1>3, <1>5 DEF StopInv, StagesAreInOrder, AcceptedAreServed, Stop!AcceptedAreServed
  <1> QED
    BY <1>4, <1>6, <1>7 DEF StopInv

LEMMA WatchdogKeeps ==
  ASSUME StopInv, Stop!Watchdog
  PROVE  StopInv'
  <1>1. /\ stage' = "exited" /\ code' = 1 /\ stage # "serving"
        /\ UNCHANGED <<step, failed, grace, watchdog, request, holds, pool, ticking, running>>
    BY DEF Stop!Watchdog, Stop!Alive, StopInv, StagesAreInOrder
  <1>2. Stop!TypeOK'
    BY <1>1 DEF StopInv, Stop!TypeOK, Stop!Running
  <1> QED
    BY <1>1, <1>2 DEF StopInv, RequestsHaveTheirTime, StagesAreInOrder, AcceptedAreServed,
                      Stop!AcceptedAreServed

LEMMA StopStep == StopInv /\ [Stop!Next]_(Stop!vars) => StopInv'
  <1> SUFFICES ASSUME StopInv, [Stop!Next]_(Stop!vars) PROVE StopInv'
    OBVIOUS
  <1>1. CASE UNCHANGED Stop!vars
    BY <1>1 DEF Stop!vars, StopInv, Stop!TypeOK, RequestsHaveTheirTime, StagesAreInOrder,
                AcceptedAreServed, Stop!AcceptedAreServed
  <1> QED
    BY <1>1, RequestKeeps, MonitorKeeps, DrainKeeps, ClosingKeeps, WatchdogKeeps DEF Stop!Next

(* A request accepted before the signal loses neither its connection nor    *)
(* the pool before its time is over, unless a step of the shutdown failed;  *)
(* and exit code 0 means that everything was done.                          *)
THEOREM ShutdownServesTheAccepted == Stop!Spec => []AcceptedAreServed
  <1>1. StopInv => AcceptedAreServed
    BY DEF StopInv
  <1> QED
    BY <1>1, StopInit, StopStep, PTL DEF Stop!Spec

=============================================================================
