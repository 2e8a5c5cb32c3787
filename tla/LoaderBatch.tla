------------------------------ MODULE LoaderBatch ------------------------------
(***************************************************************************)
(* The keys of DataLoader batches, from their call to their value or error *)
(* (BaseQueryLoader.withLazyConnection and createLoader, runInterruptible).*)
(* The keys of a batch are read from Redis first; those that miss share    *)
(* one connection, asked for once; every key is one step on it, of one or  *)
(* several statements.  The deadline of the batch covers the wait and the  *)
(* steps.  It takes a queued acquisition out of the pool's queue, but not  *)
(* one whose connection is being opened: that one settles in its own time, *)
(* and the keys that wait for it fail then.  A connection runs one         *)
(* statement at a time, and an interrupt reaches the one it runs, not      *)
(* those that wait behind it.                                              *)
(*                                                                         *)
(* ConnectionPool says which of the queued callers is served, and follows  *)
(* reloads; here an idle connection or a slot goes to any of them.         *)
(* CatalogRefresh follows the data.                                        *)
(***************************************************************************)
EXTENDS Naturals, FiniteSets

CONSTANTS
  Batches,      \* batches of one loader or of several
  Keys,         \* the keys of a batch (maxBatchSize)
  Together,     \* batches of cross-database loaders, whose steps start their two
                \* statements at once; the others start the second after the first
  Connections,  \* those the pool may open (maxConnections)
  None

VARIABLES
  at,           \* where each key of each batch stands
  acquisition,  \* of each batch: "none", "pending" (in the queue of the pool), "opening",
                \* "failed", its connection, or "released"
  timer,        \* the deadline of each batch
  opened,       \* connections the pool has opened
  free,         \* connections nobody holds, opened or not
  issued,       \* the statements given to DuckDB and not ended yet
  exec,         \* the statement each connection runs
  hit           \* the statements an interrupt has reached

vars == <<at, acquisition, timer, opened, free, issued, exec, hit>>

Statements == [batch : Batches, key : Keys, n : {1, 2}, on : Connections]
Ended == {"value", "error"}

TypeOK ==
  /\ at \in [Batches -> [Keys -> {"called", "waiting", "stepping", "storing"} \cup Ended]]
  /\ acquisition \in [Batches -> {"none", "pending", "opening", "failed", "released"} \cup Connections]
  /\ timer \in [Batches -> {"armed", "fired", "cleared"}]
  /\ opened \subseteq Connections /\ free \subseteq Connections
  /\ issued \subseteq Statements /\ hit \subseteq issued
  /\ exec \in [Connections -> Statements \cup {None}]
  /\ \A c \in Connections : exec[c] # None => exec[c] \in issued /\ exec[c].on = c

Init ==
  /\ at = [b \in Batches |-> [k \in Keys |-> "called"]]
  /\ acquisition = [b \in Batches |-> "none"]
  /\ timer = [b \in Batches |-> "armed"]
  /\ opened = {} /\ free = Connections
  /\ issued = {} /\ hit = {}
  /\ exec = [c \in Connections |-> None]

-----------------------------------------------------------------------------
(* The statements a step starts with, and those that follow statement n.    *)
First(b, k) ==
  {[batch |-> b, key |-> k, n |-> i, on |-> acquisition'[b]] : i \in IF b \in Together THEN {1, 2} ELSE {1}}
Following(s) == IF s.batch \in Together \/ s.n = 2 THEN {} ELSE {[s EXCEPT !.n = 2]}

(* Faulty: the body ends with the first key that fails.                     *)
FaultyBodyEnds(keys) == "error" \in {keys[k] : k \in Keys} \/ \A k \in Keys : keys[k] \in Ended

(* The body of a batch is a Promise.all over keys whose errors were caught: *)
(* it ends when the last of them has.                                       *)
BodyEnds(keys) == \A k \in Keys : keys[k] \in Ended

(* The keys of b become `keys` and its acquisition `acq`.  When the body    *)
(* has ended the timer is cleared and the connection given back.            *)
Settle(b, keys, acq) ==
  /\ at' = [at EXCEPT ![b] = keys]
  /\ IF BodyEnds(keys)
       THEN /\ acquisition' = [acquisition EXCEPT ![b] = IF acq \in Connections THEN "released" ELSE acq]
            /\ free' = free \cup ({acq} \cap Connections)
            /\ timer' = [timer EXCEPT ![b] = IF @ = "armed" THEN "cleared" ELSE @]
       ELSE /\ acquisition' = [acquisition EXCEPT ![b] = acq]
            /\ free' = free \ {acq}
            /\ UNCHANGED timer

Becomes(b, k, state) == [at[b] EXCEPT ![k] = state]
Waiting(b) == {k \in Keys : at[b][k] = "waiting"}
AllBecome(b, state) == [k \in Keys |-> IF k \in Waiting(b) THEN state ELSE at[b][k]]

(* What acquire() does with the call: it is queued, unless nobody is, no    *)
(* connection is idle, and one more may be opened (hasCapacity).  A call    *)
(* that finds an idle connection is a queued one that Granted serves.       *)
Awaited == {"pending", "opening"}
HasCapacity ==
  Cardinality(opened) + Cardinality({b \in Batches : acquisition[b] = "opening"})
    < Cardinality(Connections)
Asked ==
  IF HasCapacity /\ free \cap opened = {} /\ \A b \in Batches : acquisition[b] # "pending"
    THEN "opening" ELSE "pending"

-----------------------------------------------------------------------------
(* A key is answered by Redis, or refused: by the version guard, before     *)
(* Redis is read (assertKeyAllowed) or before a connection is asked for.    *)
Hit(b, k) ==
  /\ at[b][k] = "called"
  /\ \E end \in Ended : Settle(b, Becomes(b, k, end), acquisition[b])
  /\ UNCHANGED <<opened, issued, exec, hit>>

(* The first miss asks for the connection; once the deadline is over that   *)
(* fails at once.                                                           *)
MissFirst(b, k) ==
  /\ at[b][k] = "called" /\ acquisition[b] = "none"
  /\ IF timer[b] = "armed"
       THEN Settle(b, Becomes(b, k, "waiting"), Asked)
       ELSE Settle(b, Becomes(b, k, "error"), "failed")
  /\ UNCHANGED <<opened, issued, exec, hit>>

(* The others share it, and its failure.                                    *)
MissNext(b, k) ==
  /\ at[b][k] = "called" /\ acquisition[b] \in Awaited \cup {"failed"}
  /\ Settle(b, Becomes(b, k, IF acquisition[b] \in Awaited THEN "waiting" ELSE "error"),
            acquisition[b])
  /\ UNCHANGED <<opened, issued, exec, hit>>

(* A miss that finds the connection there starts its step, unless the       *)
(* deadline is over.                                                        *)
MissLate(b, k) ==
  /\ at[b][k] = "called" /\ acquisition[b] \in Connections
  /\ IF timer[b] = "armed"
       THEN /\ Settle(b, Becomes(b, k, "stepping"), acquisition[b])
            /\ issued' = issued \cup First(b, k)
       ELSE /\ Settle(b, Becomes(b, k, "error"), acquisition[b])
            /\ UNCHANGED issued
  /\ UNCHANGED <<opened, exec, hit>>

(* A connection comes to the keys that wait: they start their steps, or     *)
(* fail when the deadline is over (runInterruptible).                       *)
Comes(b, c) ==
  /\ IF timer[b] = "armed"
       THEN /\ Settle(b, AllBecome(b, "stepping"), c)
            /\ issued' = issued \cup UNION {First(b, k) : k \in Waiting(b)}
       ELSE /\ Settle(b, AllBecome(b, "error"), c)
            /\ UNCHANGED issued
  /\ UNCHANGED <<exec, hit>>

(* The pool hands over a connection.                                        *)
Granted(b) ==
  /\ acquisition[b] = "pending"
  /\ \E c \in free \cap opened : Comes(b, c)
  /\ UNCHANGED opened

(* dispatch(): a queued call gets a slot, and leaves the queue with its     *)
(* timer and its abort listener.                                            *)
Opens(b) ==
  /\ acquisition[b] = "pending" /\ HasCapacity
  /\ acquisition' = [acquisition EXCEPT ![b] = "opening"]
  /\ UNCHANGED <<at, timer, opened, free, issued, exec, hit>>

(* The connection is opened, before or after the deadline, or cannot be.    *)
Opened(b) ==
  /\ acquisition[b] = "opening"
  /\ \E c \in free \ opened :
       /\ opened' = opened \cup {c}
       /\ Comes(b, c)

OpeningFails(b) ==
  /\ acquisition[b] = "opening"
  /\ Settle(b, AllBecome(b, "error"), "failed")
  /\ UNCHANGED <<opened, issued, exec, hit>>

(* The queue's own timer fires.                                             *)
AcquisitionFails(b) ==
  /\ acquisition[b] = "pending"
  /\ Settle(b, AllBecome(b, "error"), "failed")
  /\ UNCHANGED <<opened, issued, exec, hit>>

(* The deadline: an acquisition in the queue is given up, one that is       *)
(* opening is not, and every running step interrupts the connection.        *)
Deadline(b) ==
  /\ timer[b] = "armed"
  /\ LET acq == acquisition[b]
         fails == acq = "pending"
         keys == IF fails THEN AllBecome(b, "error") ELSE at[b]
         reached == {s \in issued : /\ acq \in Connections
                                    /\ \E k \in Keys : at[b][k] = "stepping"
                                    /\ s = exec[acq]}
     IN /\ at' = [at EXCEPT ![b] = keys]
        /\ hit' = hit \cup reached
        /\ acquisition' = [acquisition EXCEPT ![b] = IF fails THEN "failed" ELSE @]
        /\ timer' = [timer EXCEPT ![b] = "fired"]
  /\ UNCHANGED <<opened, free, issued, exec>>

-----------------------------------------------------------------------------
(* DuckDB: one of the statements waiting on a connection runs.              *)
Runs(c) ==
  /\ exec[c] = None
  /\ \E s \in issued : s.on = c /\ exec' = [exec EXCEPT ![c] = s]
  /\ UNCHANGED <<at, acquisition, timer, opened, free, issued, hit>>

Over(s) ==
  /\ exec' = [exec EXCEPT ![s.on] = None]
  /\ hit' = hit \ {s}

(* It succeeds.  The next statement of the step follows, deadline or not;   *)
(* the last one ends the step, and the result goes to Redis.                *)
Succeeds(c) ==
  /\ exec[c] # None
  /\ LET s == exec[c]
         left == (issued \ {s}) \cup IF at[s.batch][s.key] = "stepping" THEN Following(s) ELSE {}
         over == ~\E t \in left : t.batch = s.batch /\ t.key = s.key
     IN /\ Over(s)
        /\ issued' = left
        /\ IF at[s.batch][s.key] = "stepping" /\ over
             THEN at' = [at EXCEPT ![s.batch] = Becomes(s.batch, s.key, "storing")]
             ELSE UNCHANGED at
        /\ UNCHANGED <<acquisition, timer, opened, free>>

(* It fails, interrupted or not: its key has failed, at once, though the    *)
(* other statement of a cross-database step goes on.                        *)
Fails(c) ==
  /\ exec[c] # None
  /\ LET s == exec[c]
     IN /\ Over(s)
        /\ issued' = issued \ {s}
        /\ IF at[s.batch][s.key] = "stepping"
             THEN Settle(s.batch, Becomes(s.batch, s.key, "error"), acquisition[s.batch])
             ELSE UNCHANGED <<at, acquisition, timer, free>>
        /\ UNCHANGED opened

(* SET has answered, or failed; the value is the key's.                     *)
Stored(b, k) ==
  /\ at[b][k] = "storing"
  /\ Settle(b, Becomes(b, k, "value"), acquisition[b])
  /\ UNCHANGED <<opened, issued, exec, hit>>

-----------------------------------------------------------------------------
KeyStep(b, k) == Hit(b, k) \/ MissFirst(b, k) \/ MissNext(b, k) \/ MissLate(b, k) \/ Stored(b, k)
Returns(c) == Succeeds(c) \/ Fails(c)

OpeningEnds(b) == Opened(b) \/ OpeningFails(b)

Next ==
  \/ \E b \in Batches :
       \/ Granted(b) \/ AcquisitionFails(b) \/ Opens(b) \/ OpeningEnds(b) \/ Deadline(b)
       \/ \E k \in Keys : KeyStep(b, k)
  \/ \E c \in Connections : Runs(c) \/ Returns(c)

(* Redis answers or fails, a statement ends, DuckDB opens a connection or   *)
(* refuses to, timers fire.  Nothing is assumed of the queue of the pool,   *)
(* nor of the clients.                                                      *)
Fairness ==
  /\ \A b \in Batches :
       /\ WF_vars(Deadline(b)) /\ WF_vars(OpeningEnds(b))
       /\ \A k \in Keys : WF_vars(KeyStep(b, k))
  /\ \A c \in Connections : WF_vars(Runs(c)) /\ WF_vars(Returns(c))

Spec == Init /\ [][Next]_vars
FairSpec == Spec /\ Fairness

-----------------------------------------------------------------------------
(* Properties *)

(* A step only ever runs on an open connection its batch holds, no two      *)
(* batches hold the same one, and none is lost: a batch that has ended,     *)
(* with whatever mixture of values and errors, has given its connection     *)
(* back, also the one that was opened for it after its deadline, and has    *)
(* left no acquisition behind, queued or opening.                           *)
ConnectionsAreKept ==
  /\ \A b \in Batches : \A k \in Keys :
       at[b][k] = "stepping" => acquisition[b] \in opened \ free
  /\ \A b, d \in Batches : b # d /\ acquisition[b] \in Connections => acquisition[b] # acquisition[d]
  /\ \A c \in Connections \ free : \E b \in Batches : acquisition[b] = c
  /\ \A b \in Batches : BodyEnds(at[b]) => acquisition[b] \notin Awaited \cup Connections

(* An interrupt makes no key fail but those of the batch that is late: what *)
(* it reaches is a statement of that batch, or one that nobody waits for    *)
(* any more.                                                                *)
OnlyTheLateAreInterrupted ==
  \A s \in hit : at[s.batch][s.key] = "stepping" => timer[s.batch] = "fired"

(* Every batch ends, although the pool may never serve it from its queue,   *)
(* although its statements may wait behind those another batch has left on  *)
(* the connection, and although its deadline does not reach the opening of  *)
(* its connection: that one has to end by itself (Fairness), no timer of    *)
(* the batch or of the pool bounds it.                                      *)
EveryBatchEnds == \A b \in Batches : <>BodyEnds(at[b])

=============================================================================
