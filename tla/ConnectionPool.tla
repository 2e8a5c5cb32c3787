---------------------------- MODULE ConnectionPool ----------------------------
(***************************************************************************)
(* The DuckDB connection pool of one pod, class DuckDBPool of              *)
(* src/src/db/pool.ts: one shared DuckDB instance, at most MaxConnections  *)
(* connections on it, a first-in first-out queue of acquisitions, and the  *)
(* zero-interruption reload that replaces the instance while requests run. *)
(*                                                                         *)
(* Node runs one callback at a time.  An action is what runs from one      *)
(* native completion, timer or caller to the next: the opening of a        *)
(* connection, the building of an instance and the drain each span         *)
(* several actions, and everything in between is one step.                 *)
(*                                                                         *)
(* The server builds the first instance before it accepts requests         *)
(* (startServer awaits initSchemas), reloads one at a time and each one    *)
(* to the end of its drain (the queue of CatalogFreshnessMonitor, and      *)
(* DatabaseManager.reloadCatalogs), and closes the pool at most once, in   *)
(* its shutdown, after which getPool throws.                               *)
(***************************************************************************)
EXTENDS Naturals, Sequences, FiniteSets, SequencesExt

CONSTANTS
  Clients,          \* callers of acquire(): loaders, exports, probes
  Conns,            \* identities for connection wrappers
  Instances,        \* identities for DuckDB instances, one per build
  MaxConnections,   \* POOL.MAX_CONNECTIONS
  NoConn, NoInst,   \* null
  FirstInst,        \* the instance startServer built
  CanClose          \* whether the shutdown closes the pool in this instance

ASSUME PoolAssumption ==
  /\ MaxConnections \in Nat \ {0}
  /\ FirstInst \in Instances
  /\ NoConn \notin Conns
  /\ NoInst \notin Instances
  /\ IsFiniteSet(Clients)
  /\ CanClose \in BOOLEAN

VARIABLES
  instance,    \* this.instance
  building,    \* the promise of a lazy build is pending (instancePromise)
  pool,        \* this.pool, the wrappers on offer
  creating,    \* this.creating, slots reserved for connections being opened
  waiters,     \* this.waiters
  inUse,       \* the wrappers whose inUse flag is set
  boundTo,     \* the instance each wrapper was opened on
  openConns,   \* the connections not closed yet
  openInsts,   \* the instances not closed yet
  built,       \* the instances built so far
  reload,      \* the reload under way: none, building the new instance, draining
  retiring,    \* oldInstance of the drain under way
  oldConns,    \* oldConnections of the drain under way
  draining,    \* this.draining, where release() looks for retired connections
  closed,      \* close() has been called
  pc,          \* where each client stands in acquire() / release()
  target,      \* the instance an opening called connect() on; NoInst: it waits for one
  held         \* the wrapper a client was given

poolVars  == <<pool, creating, waiters, inUse, boundTo>>
instVars  == <<instance, building, built>>
drainVars == <<reload, retiring, oldConns, draining>>
vars == <<instance, building, pool, creating, waiters, inUse, boundTo, openConns,
          openInsts, built, reload, retiring, oldConns, draining, closed, pc,
          target, held>>

Status == {"idle", "waiting", "opening", "using"}
Waiting == {waiters[i] : i \in 1..Len(waiters)}

TypeOK ==
  /\ instance \in Instances \cup {NoInst}
  /\ building \in BOOLEAN
  /\ pool \subseteq Conns /\ IsFiniteSet(pool)
  /\ creating \in Nat
  /\ waiters \in Seq(Clients)
  /\ inUse \subseteq Conns
  /\ boundTo \in [Conns -> Instances \cup {NoInst}]
  /\ openConns \subseteq Conns
  /\ openInsts \subseteq Instances
  /\ built \subseteq Instances
  /\ reload \in {"none", "building", "draining"}
  /\ retiring \in Instances \cup {NoInst}
  /\ oldConns \subseteq Conns
  /\ draining \subseteq Conns
  /\ closed \in BOOLEAN
  /\ pc \in [Clients -> Status]
  /\ target \in [Clients -> Instances \cup {NoInst}]
  /\ held \in [Clients -> Conns \cup {NoConn}]

Init ==
  /\ instance = FirstInst
  /\ building = FALSE
  /\ pool = {}
  /\ creating = 0
  /\ waiters = <<>>
  /\ inUse = {}
  /\ boundTo = [k \in Conns |-> NoInst]
  /\ openConns = {}
  /\ openInsts = {FirstInst}
  /\ built = {FirstInst}
  /\ reload = "none"
  /\ retiring = NoInst
  /\ oldConns = {}
  /\ draining = {}
  /\ closed = FALSE
  /\ pc = [c \in Clients |-> "idle"]
  /\ target = [c \in Clients |-> NoInst]
  /\ held = [c \in Clients |-> NoConn]

-----------------------------------------------------------------------------
(* Identities.  A wrapper identity is used again once nothing refers to    *)
(* the wrapper; an instance identity is used once, so the number of        *)
(* instances bounds the number of builds that succeed.                     *)

Referenced == pool \cup draining \cup oldConns \cup {held[c] : c \in Clients}
FreshConns == Conns \ Referenced
NewConn == CHOOSE k \in FreshConns : TRUE

Unbuilt == Instances \ built
NewInst == CHOOSE i \in Unbuilt : TRUE

Idle == pool \ inUse

(* Faulty: the slots being opened are not counted.                          *)
FaultyHasCapacity(size, slots) == size < MaxConnections

(* hasCapacity(), with `size` connections pooled and `slots` reserved.      *)
HasCapacity(size, slots) == size + slots < MaxConnections

(* The number of acquisitions of the queue `ws` that dispatch() serves.     *)
Dispatched(size, slots, ws) ==
  LET free == MaxConnections - (size + slots)
  IN IF ~HasCapacity(size, slots) THEN 0
     ELSE IF Len(ws) <= free THEN Len(ws) ELSE free

(* dispatch(), as the tail of a step that leaves the pool `size` long,      *)
(* `slots` slots reserved, the queue `ws` and the clients in `status`: the  *)
(* head of the queue reserves the free slots and enters openConnection(),   *)
(* which calls connect() on the live instance `inst`, or waits for the lazy *)
(* build it starts (`pending`: one is already under way).                   *)
Dispatch(size, slots, ws, status, inst, pending) ==
  LET n == Dispatched(size, slots, ws)
      served == {ws[i] : i \in 1..n}
  IN /\ creating' = slots + n
     /\ waiters' = SubSeq(ws, n + 1, Len(ws))
     /\ pc' = [c \in Clients |-> IF c \in served THEN "opening" ELSE status[c]]
     /\ target' = [c \in Clients |-> IF c \in served THEN inst ELSE target[c]]
     /\ building' = (pending \/ (inst = NoInst /\ served # {}))

-----------------------------------------------------------------------------
(* acquire() *)

Calls(c) == pc[c] = "idle" /\ ~closed

(* Nobody queued: an idle connection is reused.                             *)
ReuseIdle(c) ==
  /\ Calls(c)
  /\ waiters = <<>>
  /\ \E k \in Idle :
        /\ inUse' = inUse \cup {k}
        /\ held' = [held EXCEPT ![c] = k]
  /\ pc' = [pc EXCEPT ![c] = "using"]
  /\ UNCHANGED <<instVars, drainVars, pool, creating, waiters, boundTo, openConns,
                 openInsts, closed, target>>

(* Nobody queued, none idle, room left: a slot is reserved before any       *)
(* await, then connect() is called.                                         *)
ReserveSlot(c) ==
  /\ Calls(c)
  /\ waiters = <<>>
  /\ Idle = {}
  /\ HasCapacity(Cardinality(pool), creating)
  /\ creating' = creating + 1
  /\ pc' = [pc EXCEPT ![c] = "opening"]
  /\ target' = [target EXCEPT ![c] = instance]
  /\ building' = (building \/ instance = NoInst)
  /\ UNCHANGED <<drainVars, instance, built, pool, waiters, inUse, boundTo, openConns,
                 openInsts, closed, held>>

(* Otherwise the call joins the queue.                                      *)
JoinQueue(c) ==
  /\ Calls(c)
  /\ \/ waiters # <<>>
     \/ Idle = {} /\ ~HasCapacity(Cardinality(pool), creating)
  /\ Dispatch(Cardinality(pool), creating, Append(waiters, c),
              [pc EXCEPT ![c] = "waiting"], instance, building)
  /\ UNCHANGED <<drainVars, instance, built, pool, inUse, boundTo, openConns,
                 openInsts, closed, held>>

(* The acquireTimeout of a queued call elapses, or its signal aborts.       *)
LeaveQueue(c) ==
  /\ \E i \in 1..Len(waiters) : waiters[i] = c /\ waiters' = RemoveAt(waiters, i)
  /\ pc' = [pc EXCEPT ![c] = "idle"]
  /\ UNCHANGED <<instVars, drainVars, pool, creating, inUse, boundTo, openConns,
                 openInsts, closed, target, held>>

-----------------------------------------------------------------------------
(* openInReservedSlot() and openConnection() *)

Connecting(c) == pc[c] = "opening" /\ target[c] # NoInst

(* Faulty: the instance is not compared after connect().                    *)
FaultyConnected(c) ==
  /\ Connecting(c)
  /\ FreshConns # {}
  /\ LET k == NewConn
     IN /\ pool' = pool \cup {k}
        /\ inUse' = inUse \cup {k}
        /\ boundTo' = [boundTo EXCEPT ![k] = target[c]]
        /\ openConns' = openConns \cup {k}
        /\ held' = [held EXCEPT ![c] = k]
  /\ Dispatch(Cardinality(pool) + 1, creating - 1, waiters,
              [pc EXCEPT ![c] = "using"], instance, building)
  /\ UNCHANGED <<drainVars, instance, built, openInsts, closed>>

(* connect() succeeds on the instance still live: the wrapper joins the     *)
(* pool in use, and the reserved slot becomes its place.                    *)
Connected(c) ==
  /\ Connecting(c)
  /\ target[c] = instance
  /\ FreshConns # {}
  /\ LET k == NewConn
     IN /\ pool' = pool \cup {k}
        /\ inUse' = inUse \cup {k}
        /\ boundTo' = [boundTo EXCEPT ![k] = instance]
        /\ openConns' = openConns \cup {k}
        /\ held' = [held EXCEPT ![c] = k]
  /\ Dispatch(Cardinality(pool) + 1, creating - 1, waiters,
              [pc EXCEPT ![c] = "using"], instance, building)
  /\ UNCHANGED <<drainVars, instance, built, openInsts, closed>>

(* connect() succeeds on an instance replaced meanwhile: that connection is *)
(* closed and the opening starts again.                                     *)
Reconnect(c) ==
  /\ Connecting(c)
  /\ target[c] # instance
  /\ target' = [target EXCEPT ![c] = instance]
  /\ building' = (building \/ instance = NoInst)
  /\ UNCHANGED <<drainVars, poolVars, instance, built, openConns, openInsts, closed,
                 pc, held>>

(* Faulty: the slot of a failed opening is kept.                            *)
FaultyOpenFailedKeepsSlot(c) ==
  /\ Connecting(c)
  /\ pc' = [pc EXCEPT ![c] = "idle"]
  /\ UNCHANGED <<drainVars, instVars, poolVars, openConns, openInsts, closed, target,
                 held>>

(* Faulty: the slot of a failed opening is given back twice.                *)
FaultyOpenFailedTwice(c) ==
  /\ Connecting(c)
  /\ Dispatch(Cardinality(pool), creating - 2, waiters,
              [pc EXCEPT ![c] = "idle"], instance, building)
  /\ UNCHANGED <<drainVars, instance, built, pool, inUse, boundTo, openConns,
                 openInsts, closed, held>>

(* connect() fails, on a live or a retired instance: the slot goes to the   *)
(* head of the queue.                                                       *)
OpenFailed(c) ==
  /\ Connecting(c)
  /\ Dispatch(Cardinality(pool), creating - 1, waiters,
              [pc EXCEPT ![c] = "idle"], instance, building)
  /\ UNCHANGED <<drainVars, instance, built, pool, inUse, boundTo, openConns,
                 openInsts, closed, held>>

-----------------------------------------------------------------------------
(* initializeInstance() *)

AwaitingInstance == {c \in Clients : pc[c] = "opening" /\ target[c] = NoInst}

LazyBuilt ==
  /\ building
  /\ Unbuilt # {}
  /\ instance' = NewInst
  /\ built' = built \cup {NewInst}
  /\ openInsts' = openInsts \cup {NewInst}
  /\ building' = FALSE
  /\ target' = [c \in Clients |-> IF c \in AwaitingInstance THEN NewInst ELSE target[c]]
  /\ UNCHANGED <<poolVars, drainVars, openConns, closed, pc, held>>

(* Every opening that awaited the build is rejected.                        *)
LazyBuildFailed ==
  /\ building
  /\ Dispatch(Cardinality(pool), creating - Cardinality(AwaitingInstance), waiters,
              [c \in Clients |-> IF c \in AwaitingInstance THEN "idle" ELSE pc[c]],
              instance, FALSE)
  /\ UNCHANGED <<drainVars, instance, built, pool, inUse, boundTo, openConns,
                 openInsts, closed, held>>

-----------------------------------------------------------------------------
(* release() *)

(* Faulty: the connection goes to the client that came last.                *)
FaultyReleaseLast(c) ==
  /\ pc[c] = "using"
  /\ LET k == held[c]
     IN IF k \in pool /\ waiters # <<>>
        THEN /\ pc' = [pc EXCEPT ![c] = "idle", ![Last(waiters)] = "using"]
             /\ held' = [held EXCEPT ![c] = NoConn, ![Last(waiters)] = k]
             /\ waiters' = Front(waiters)
             /\ UNCHANGED inUse
        ELSE /\ pc' = [pc EXCEPT ![c] = "idle"]
             /\ held' = [held EXCEPT ![c] = NoConn]
             /\ inUse' = IF k \in pool \cup draining THEN inUse \ {k} ELSE inUse
             /\ UNCHANGED waiters
  /\ UNCHANGED <<instVars, drainVars, pool, creating, boundTo, openConns, openInsts,
                 closed, target>>

(* Faulty: the connection is marked idle although handed over.              *)
FaultyReleaseIdle(c) ==
  /\ pc[c] = "using"
  /\ LET k == held[c]
     IN /\ inUse' = inUse \ {k}
        /\ IF k \in pool /\ waiters # <<>>
           THEN /\ pc' = [pc EXCEPT ![c] = "idle", ![Head(waiters)] = "using"]
                /\ held' = [held EXCEPT ![c] = NoConn, ![Head(waiters)] = k]
                /\ waiters' = Tail(waiters)
           ELSE /\ pc' = [pc EXCEPT ![c] = "idle"]
                /\ held' = [held EXCEPT ![c] = NoConn]
                /\ UNCHANGED waiters
  /\ UNCHANGED <<instVars, drainVars, pool, creating, boundTo, openConns, openInsts,
                 closed, target>>

(* Faulty: the connection becomes idle without a look at the queue.         *)
FaultyReleaseNoHandOver(c) ==
  /\ pc[c] = "using"
  /\ pc' = [pc EXCEPT ![c] = "idle"]
  /\ held' = [held EXCEPT ![c] = NoConn]
  /\ inUse' = inUse \ {held[c]}
  /\ UNCHANGED <<instVars, drainVars, pool, creating, waiters, boundTo, openConns,
                 openInsts, closed, target>>

(* A pooled connection goes straight to the head of the queue, staying in   *)
(* use, or becomes idle; a retired one is marked free for its drain; one    *)
(* that is in neither list is forgotten.                                    *)
Release(c) ==
  /\ pc[c] = "using"
  /\ LET k == held[c]
     IN IF k \in pool /\ waiters # <<>>
        THEN /\ pc' = [pc EXCEPT ![c] = "idle", ![Head(waiters)] = "using"]
             /\ held' = [held EXCEPT ![c] = NoConn, ![Head(waiters)] = k]
             /\ waiters' = Tail(waiters)
             /\ UNCHANGED inUse
        ELSE /\ pc' = [pc EXCEPT ![c] = "idle"]
             /\ held' = [held EXCEPT ![c] = NoConn]
             /\ inUse' = IF k \in pool \cup draining THEN inUse \ {k} ELSE inUse
             /\ UNCHANGED waiters
  /\ UNCHANGED <<instVars, drainVars, pool, creating, boundTo, openConns, openInsts,
                 closed, target>>

-----------------------------------------------------------------------------
(* reload(), drainAndClose() and awaitDrain() *)

ReloadStarts ==
  /\ reload = "none"
  /\ ~closed
  /\ Unbuilt # {}
  /\ reload' = "building"
  /\ UNCHANGED <<instVars, poolVars, retiring, oldConns, draining, openConns, openInsts,
                 closed, pc, target, held>>

(* buildInstance() throws: the instance it made is closed, nothing else.    *)
ReloadFails ==
  /\ reload = "building"
  /\ reload' = "none"
  /\ UNCHANGED <<instVars, poolVars, retiring, oldConns, draining, openConns, openInsts,
                 closed, pc, target, held>>

(* Faulty: the queue is not served on the new instance.                     *)
FaultyReloadSwaps ==
  /\ reload = "building"
  /\ Unbuilt # {}
  /\ instance' = NewInst
  /\ built' = built \cup {NewInst}
  /\ openInsts' = openInsts \cup {NewInst}
  /\ pool' = {}
  /\ reload' = "draining"
  /\ retiring' = instance
  /\ oldConns' = pool
  /\ draining' = draining \cup pool
  /\ UNCHANGED <<building, creating, waiters, inUse, boundTo, openConns, closed, pc,
                 target, held>>

(* The new instance is swapped in with an empty pool, the drain of the old  *)
(* one starts, and the queue is served on the new one.                      *)
ReloadSwaps ==
  /\ reload = "building"
  /\ Unbuilt # {}
  /\ instance' = NewInst
  /\ built' = built \cup {NewInst}
  /\ openInsts' = openInsts \cup {NewInst}
  /\ pool' = {}
  /\ reload' = "draining"
  /\ retiring' = instance
  /\ oldConns' = pool
  /\ draining' = draining \cup pool
  /\ Dispatch(0, creating, waiters, pc, NewInst, building)
  /\ UNCHANGED <<inUse, boundTo, openConns, closed, held>>

DrainCloses ==
  /\ openConns' = openConns \ oldConns
  /\ openInsts' = openInsts \ {retiring}
  /\ draining' = draining \ oldConns
  /\ reload' = "none"
  /\ retiring' = NoInst
  /\ oldConns' = {}
  /\ UNCHANGED <<instVars, poolVars, closed, pc, target, held>>

(* A poll of the drain finds every old connection free.                     *)
DrainEnds ==
  /\ reload = "draining"
  /\ oldConns \cap inUse = {}
  /\ DrainCloses

(* Faulty: the drain has no deadline.                                       *)
FaultyDrainForced == FALSE

(* drainTimeout elapses: what is still in use is closed under its client.   *)
DrainForced ==
  /\ reload = "draining"
  /\ oldConns \cap inUse # {}
  /\ DrainCloses

-----------------------------------------------------------------------------
(* close(): the queue is rejected, every connection and the instance are    *)
(* closed, and the fields are reset.                                        *)
Close ==
  /\ CanClose
  /\ ~closed
  /\ closed' = TRUE
  /\ waiters' = <<>>
  /\ pc' = [c \in Clients |-> IF pc[c] = "waiting" THEN "idle" ELSE pc[c]]
  /\ openConns' = openConns \ (pool \cup draining)
  /\ openInsts' = openInsts \ {instance}
  /\ pool' = {}
  /\ draining' = {}
  /\ instance' = NoInst
  /\ building' = FALSE
  /\ UNCHANGED <<creating, inUse, boundTo, built, reload, retiring, oldConns, target,
                 held>>

-----------------------------------------------------------------------------
Acquire(c) == ReuseIdle(c) \/ ReserveSlot(c) \/ JoinQueue(c)
Opening(c) == Connected(c) \/ Reconnect(c) \/ OpenFailed(c)
LazyBuild == LazyBuilt \/ LazyBuildFailed
Reload == ReloadStarts \/ ReloadFails \/ ReloadSwaps \/ DrainEnds \/ DrainForced

Next ==
  \/ \E c \in Clients : Acquire(c) \/ LeaveQueue(c) \/ Opening(c) \/ Release(c)
  \/ LazyBuild
  \/ Reload
  \/ Close

Spec == Init /\ [][Next]_vars

(* A native call completes and a drain ends.  Nothing is asked of a client, *)
(* whose query may never return, nor of the timer of a queued call.         *)
Fairness ==
  /\ \A c \in Clients : WF_vars(Opening(c))
  /\ WF_vars(LazyBuild)
  /\ WF_vars(ReloadFails \/ ReloadSwaps)
  /\ WF_vars(DrainEnds \/ DrainForced)

FairSpec == Spec /\ Fairness

-----------------------------------------------------------------------------
(* Properties *)

(* acquire, dispatch and a reload in the middle of an opening never exceed  *)
(* maxConnections together, counting the connections being opened (the      *)
(* comment of acquire(): "concurrent callers can never open more").         *)
CapacityRespected == Cardinality(pool) + creating <= MaxConnections

(* No lost wake-up: an acquisition is queued only while every connection is *)
(* in use and every slot taken, whatever failed, was released, left the     *)
(* queue or was swapped before.                                             *)
QueuedOnlyWhenSaturated ==
  waiters # <<>> => Idle = {} /\ ~HasCapacity(Cardinality(pool), creating)

(* A connection is never given to two clients, and the inUse flags that     *)
(* decide the reuse of a connection and the end of a drain tell exactly     *)
(* which ones a client still holds.                                         *)
InUseMeansHeld ==
  /\ \A c, d \in Clients : held[c] = held[d] /\ held[c] # NoConn => c = d
  /\ \A k \in pool \cup draining : k \in inUse <=> \E c \in Clients : held[c] = k

(* Each reserved slot is accounted to exactly one opening: a failed or      *)
(* restarted opening neither leaks a slot nor gives it back twice.          *)
SlotsAreOpenings == creating = Cardinality({c \in Clients : pc[c] = "opening"})

(* While the pod serves, the pool offers only open connections of the live, *)
(* open instance: "a retired connection never enters the live pool".  And   *)
(* when awaitDrain() returns, "no connection of the retired instance is     *)
(* still running a query, so every connection in use reads the current      *)
(* catalog state": outside a reload what clients hold is on the live        *)
(* instance or closed, and no other instance is left open.                  *)
PoolIsLive ==
  ~closed =>
    /\ instance \in openInsts
    /\ \A k \in pool : k \in openConns /\ boundTo[k] = instance
    /\ reload = "none" =>
         /\ openInsts = {instance}
         /\ \A c \in Clients : held[c] \in openConns => boundTo[held[c]] = instance

(* If clients give their connections back, every queued acquisition leaves  *)
(* the queue for a connection, or an error of the opening, even if its own  *)
(* timer never fires.                                                       *)
QueuedIsServed ==
  (\A c \in Clients : []<>(pc[c] # "using"))
    => \A c \in Clients : []<>(pc[c] # "waiting")

(* A reload ends whatever the clients of the old instance do, even if they  *)
(* never give a connection back; so the probe that waits for it does too,   *)
(* and instances do not pile up (PoolIsLive).                               *)
ReloadEnds == reload # "none" ~> reload = "none"

-----------------------------------------------------------------------------
(* The pool implements MaxConnections servers and a first-come first-served *)
(* queue: a slot being opened or a pooled connection is a server, and a     *)
(* connection that left the pool under its client a retired one.            *)

Queue == INSTANCE ServerQueue WITH
  queue   <- waiters,
  active  <- {c \in Clients : pc[c] = "opening" \/ held[c] \in pool},
  retired <- {c \in Clients : pc[c] = "using" /\ held[c] \notin pool}

ImplementsServerQueue == Queue!Spec

=============================================================================
