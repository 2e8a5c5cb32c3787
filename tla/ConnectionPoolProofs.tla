------------------------ MODULE ConnectionPoolProofs ------------------------
(***************************************************************************)
(* Proofs about ConnectionPool, for any number of clients, connections and *)
(* instances and any capacity.                                             *)
(*                                                                         *)
(* PoolInv is inductive: types; the waiting clients are exactly those in   *)
(* the queue, each once; the reserved slots are counted by the openings;   *)
(* the capacity holds; and nobody waits beside an idle connection or a     *)
(* free slot.  Each action reaches it through a fact about dispatch().     *)
(* Two more invariants rest on it: HeldInv, who holds which connection,    *)
(* and LiveInv, which instance the connections are on.  With the first two *)
(* every step of the pool is a step of ServerQueue or a stutter.           *)
(***************************************************************************)
EXTENDS ConnectionPool, SequenceTheorems, FiniteSetTheorems, TLAPS

-----------------------------------------------------------------------------
(* The clients being served with a new connection, by their status.        *)
Openers(status) == {c \in Clients : status[c] = "opening"}

(* A queue without repetition that holds the waiting clients.              *)
QueueOf(ws, status) ==
  /\ ws \in Seq(Clients)
  /\ \A i, j \in 1..Len(ws) : ws[i] = ws[j] => i = j
  /\ \A c \in Clients : status[c] = "waiting" <=> \E i \in 1..Len(ws) : ws[i] = c

PoolInv ==
  /\ TypeOK
  /\ QueueOf(waiters, pc)
  /\ SlotsAreOpenings
  /\ CapacityRespected
  /\ QueuedOnlyWhenSaturated

-----------------------------------------------------------------------------
(* dispatch() serves a part of the queue, never beyond the capacity, and   *)
(* leaves nobody waiting beside a free slot.                               *)
LEMMA DispatchedBounds ==
  ASSUME NEW size \in Nat, NEW slots \in Nat, NEW ws \in Seq(Clients),
         size + slots <= MaxConnections
  PROVE  LET n == Dispatched(size, slots, ws)
         IN /\ n \in 0..Len(ws)
            /\ size + (slots + n) <= MaxConnections
            /\ n < Len(ws) => size + (slots + n) = MaxConnections
  <1>1. Len(ws) \in Nat
    BY LenProperties
  <1>2. MaxConnections \in Nat
    BY PoolAssumption
  <1> QED
    BY <1>1, <1>2 DEF Dispatched, HasCapacity

(* What is left of a sequence without its first n elements.                *)
LEMMA SuffixProperties ==
  ASSUME NEW S, NEW s \in Seq(S), NEW n \in 0..Len(s)
  PROVE  /\ SubSeq(s, n + 1, Len(s)) \in Seq(S)
         /\ Len(SubSeq(s, n + 1, Len(s))) = Len(s) - n
         /\ \A i \in 1..(Len(s) - n) : SubSeq(s, n + 1, Len(s))[i] = s[n + i]
  <1>1. Len(s) \in Nat /\ \A i \in 1..Len(s) : s[i] \in S
    BY LenProperties
  <1>2. n + 1 \in Int /\ Len(s) \in Int /\ \A i \in (n + 1)..Len(s) : s[i] \in S
    BY <1>1
  <1>3. /\ SubSeq(s, n + 1, Len(s)) \in Seq(S)
        /\ Len(SubSeq(s, n + 1, Len(s)))
              = IF n + 1 <= Len(s) THEN Len(s) - (n + 1) + 1 ELSE 0
        /\ \A i \in 1..(Len(s) - (n + 1) + 1) :
              SubSeq(s, n + 1, Len(s))[i] = s[(n + 1) + i - 1]
    BY <1>2, SubSeqProperties
  <1>4. Len(SubSeq(s, n + 1, Len(s))) = Len(s) - n
    BY <1>1, <1>3
  <1>5. ASSUME NEW i \in 1..(Len(s) - n)
        PROVE  SubSeq(s, n + 1, Len(s))[i] = s[n + i]
    <2>1. i \in 1..(Len(s) - (n + 1) + 1) /\ (n + 1) + i - 1 = n + i
      BY <1>1
    <2> QED
      BY <1>3, <2>1
  <1> QED
    BY <1>3, <1>4, <1>5

(* The first n clients of a queue without repetition are n clients.        *)
LEMMA PrefixCardinality ==
  ASSUME NEW ws \in Seq(Clients), NEW n \in 0..Len(ws),
         \A i, j \in 1..Len(ws) : ws[i] = ws[j] => i = j
  PROVE  Cardinality({ws[i] : i \in 1..n}) = n
  <1> DEFINE S == {ws[i] : i \in 1..n}
             f == [i \in 1..n |-> ws[i]]
  <1>1. n \in Nat /\ Len(ws) \in Nat
    BY LenProperties
  <1>2. f \in Bijection(1..n, S)
    BY <1>1 DEF Bijection, Injection, Surjection, IsInjective
  <1>3. ExistsBijection(1..n, S)
    BY <1>2 DEF ExistsBijection
  <1>4. IsFiniteSet(1..n) /\ Cardinality(1..n) = n
    BY <1>1, FS_Interval
  <1> QED
    BY <1>3, <1>4, FS_Bijection

LEMMA OpenersFinite ==
  ASSUME NEW status
  PROVE  IsFiniteSet(Openers(status)) /\ Cardinality(Openers(status)) \in Nat
  <1>1. IsFiniteSet(Clients)
    BY PoolAssumption
  <1> QED
    BY <1>1, FS_Subset, FS_CardinalityType DEF Openers

(* What dispatch() makes of a pool that is consistent but for its queue:    *)
(* the slots still count the openings, the queue still holds the waiting   *)
(* clients, and it is empty unless the pool is full.                       *)
LEMMA DispatchKeeps ==
  ASSUME NEW size \in Nat, NEW slots \in Nat, NEW ws,
         NEW status \in [Clients -> Status],
         NEW inst \in Instances \cup {NoInst}, NEW pending \in BOOLEAN,
         size + slots <= MaxConnections,
         QueueOf(ws, status),
         Cardinality(Openers(status)) = slots,
         target \in [Clients -> Instances \cup {NoInst}],
         Dispatch(size, slots, ws, status, inst, pending)
  PROVE  /\ creating' \in Nat
         /\ building' \in BOOLEAN
         /\ pc' \in [Clients -> Status]
         /\ target' \in [Clients -> Instances \cup {NoInst}]
         /\ QueueOf(waiters', pc')
         /\ Cardinality(Openers(pc')) = creating'
         /\ size + creating' <= MaxConnections
         /\ waiters' # <<>> => ws # <<>> /\ size + creating' = MaxConnections
  <1> DEFINE n == Dispatched(size, slots, ws)
             served == {ws[i] : i \in 1..n}
  <1>1. ws \in Seq(Clients) /\ Len(ws) \in Nat
    BY LenProperties DEF QueueOf
  <1>2. /\ n \in 0..Len(ws)
        /\ size + (slots + n) <= MaxConnections
        /\ n < Len(ws) => size + (slots + n) = MaxConnections
    BY <1>1, DispatchedBounds
  <1> HIDE DEF n
  <1>3. /\ creating' = slots + n
        /\ waiters' = SubSeq(ws, n + 1, Len(ws))
        /\ pc' = [c \in Clients |-> IF c \in served THEN "opening" ELSE status[c]]
        /\ target' = [c \in Clients |-> IF c \in served THEN inst ELSE target[c]]
        /\ building' = (pending \/ (inst = NoInst /\ served # {}))
    BY DEF Dispatch, n
  <1>4. \A i \in 1..Len(ws) : ws[i] \in Clients
    BY <1>1
  <1>5. /\ waiters' \in Seq(Clients)
        /\ Len(waiters') = Len(ws) - n
        /\ \A i \in 1..Len(waiters') : waiters'[i] = ws[n + i]
    <2>1. /\ SubSeq(ws, n + 1, Len(ws)) \in Seq(Clients)
          /\ Len(SubSeq(ws, n + 1, Len(ws))) = Len(ws) - n
          /\ \A i \in 1..(Len(ws) - n) : SubSeq(ws, n + 1, Len(ws))[i] = ws[n + i]
      BY <1>1, <1>2, SuffixProperties
    <2> QED
      BY <1>3, <2>1
  <1>6. QueueOf(waiters', pc')
    <2>1. ASSUME NEW i \in 1..Len(waiters'), NEW j \in 1..Len(waiters'),
                 waiters'[i] = waiters'[j]
          PROVE  i = j
      <3>1. n + i \in 1..Len(ws) /\ n + j \in 1..Len(ws)
        BY <1>1, <1>2, <1>5
      <3>2. ws[n + i] = ws[n + j]
        BY <1>5, <2>1
      <3> QED
        BY <1>2, <3>1, <3>2 DEF QueueOf
    <2>2. ASSUME NEW c \in Clients
          PROVE  pc'[c] = "waiting" <=> \E i \in 1..Len(waiters') : waiters'[i] = c
      <3>1. CASE c \in served
        <4>1. PICK j \in 1..n : ws[j] = c
          BY <3>1
        <4>2. ASSUME NEW i \in 1..Len(waiters'), waiters'[i] = c
              PROVE  FALSE
          <5>1. n + i \in 1..Len(ws) /\ j \in 1..Len(ws) /\ n + i # j
            BY <1>1, <1>2, <1>5
          <5> QED
            BY <1>5, <4>1, <4>2, <5>1 DEF QueueOf
        <4> QED
          BY <1>3, <3>1, <4>2
      <3>2. CASE c \notin served
        <4>1. pc'[c] = status[c]
          BY <1>3, <3>2
        <4>2. ASSUME NEW i \in 1..Len(ws), ws[i] = c
              PROVE  \E k \in 1..Len(waiters') : waiters'[k] = c
          <5>1. i \notin 1..n
            BY <3>2, <4>2
          <5>2. i - n \in 1..Len(waiters') /\ n + (i - n) = i
            BY <1>1, <1>2, <1>5, <5>1
          <5> QED
            BY <1>5, <4>2, <5>2
        <4>3. ASSUME NEW k \in 1..Len(waiters'), waiters'[k] = c
              PROVE  \E i \in 1..Len(ws) : ws[i] = c
          <5>1. n + k \in 1..Len(ws)
            BY <1>1, <1>2, <1>5
          <5> QED
            BY <1>5, <4>3, <5>1
        <4> QED
          BY <4>1, <4>2, <4>3 DEF QueueOf
      <3> QED
        BY <3>1, <3>2
    <2> QED
      BY <1>5, <2>1, <2>2 DEF QueueOf
  <1>7. Cardinality(Openers(pc')) = creating'
    <2>1. Openers(pc') = Openers(status) \cup served
      <3>1. served \subseteq Clients
        BY <1>2, <1>4
      <3> QED
        BY <1>3, <3>1 DEF Openers
    <2>2. Openers(status) \cap served = {}
      <3>1. ASSUME NEW c \in served PROVE status[c] = "waiting"
        BY <1>2, <1>4 DEF QueueOf
      <3> QED
        BY <3>1 DEF Openers
    <2>3. IsFiniteSet(served)
      <3>1. served \subseteq Clients /\ IsFiniteSet(Clients)
        BY <1>2, <1>4, PoolAssumption
      <3> QED
        BY <3>1, FS_Subset
    <2>4. Cardinality(served) = n
      BY <1>1, <1>2, PrefixCardinality DEF QueueOf
    <2>5. Cardinality(Openers(pc')) = slots + n - Cardinality({})
      BY <2>1, <2>2, <2>3, <2>4, OpenersFinite, FS_Union
    <2> QED
      BY <1>1, <1>2, <1>3, <2>5, FS_EmptySet
  <1>8. pc' \in [Clients -> Status]
    BY <1>3 DEF Status
  <1>9. waiters' # <<>> => ws # <<>> /\ n < Len(ws)
    <2> SUFFICES ASSUME waiters' # <<>> PROVE ws # <<>> /\ n < Len(ws)
      OBVIOUS
    <2>1. Len(waiters') \in Nat \ {0}
      BY <1>5, EmptySeq
    <2>2. n < Len(ws)
      BY <1>1, <1>2, <1>5, <2>1
    <2> QED
      BY <1>1, <1>2, <2>2, EmptySeq
  <1>10. MaxConnections \in Nat
    BY PoolAssumption
  <1> QED
    BY <1>1, <1>2, <1>3, <1>6, <1>7, <1>8, <1>9, <1>10

(* An opening that ends gives one slot back and does not touch the queue.  *)
LEMMA OpeningEnds ==
  ASSUME PoolInv, NEW c \in Clients, pc[c] = "opening", NEW s \in {"idle", "using"}
  PROVE  LET status == [pc EXCEPT ![c] = s]
         IN /\ status \in [Clients -> Status]
            /\ QueueOf(waiters, status)
            /\ Cardinality(Openers(status)) = creating - 1
            /\ creating - 1 \in Nat
  <1> DEFINE status == [pc EXCEPT ![c] = s]
  <1>1. pc \in [Clients -> Status] /\ creating \in Nat /\ QueueOf(waiters, pc)
    BY DEF PoolInv, TypeOK
  <1>2. status \in [Clients -> Status]
    BY <1>1 DEF Status
  <1>3. QueueOf(waiters, status)
    BY <1>1 DEF QueueOf
  <1>4. Openers(status) = Openers(pc) \ {c} /\ c \in Openers(pc)
    BY <1>1 DEF Openers
  <1>5. Cardinality(Openers(pc)) = creating
    BY DEF PoolInv, SlotsAreOpenings, Openers
  <1>6. Cardinality(Openers(status)) = creating - 1
    BY <1>4, <1>5, OpenersFinite, FS_RemoveElement
  <1>7. creating - 1 \in Nat
    BY <1>6, OpenersFinite
  <1> QED
    BY <1>2, <1>3, <1>6, <1>7

(* The size of the pool as a number, and what the invariant says of it.    *)
LEMMA PoolSize ==
  ASSUME PoolInv
  PROVE  /\ Cardinality(pool) \in Nat
         /\ creating \in Nat
         /\ MaxConnections \in Nat
         /\ Cardinality(pool) + creating <= MaxConnections
         /\ waiters # <<>> => Idle = {} /\ Cardinality(pool) + creating = MaxConnections
         /\ Cardinality(Openers(pc)) = creating
  <1>1. Cardinality(pool) \in Nat
    BY FS_CardinalityType DEF PoolInv, TypeOK
  <1>2. creating \in Nat /\ MaxConnections \in Nat
    BY PoolAssumption DEF PoolInv, TypeOK
  <1> QED
    BY <1>1, <1>2 DEF PoolInv, CapacityRespected, QueuedOnlyWhenSaturated, HasCapacity,
                      SlotsAreOpenings, Openers

(* The queue with one more client, who was idle.                            *)
LEMMA JoinedQueue ==
  ASSUME PoolInv, NEW c \in Clients, pc[c] = "idle"
  PROVE  QueueOf(Append(waiters, c), [pc EXCEPT ![c] = "waiting"])
  <1> DEFINE ws == Append(waiters, c)
             status == [pc EXCEPT ![c] = "waiting"]
  <1>1. /\ pc \in [Clients -> Status]
        /\ waiters \in Seq(Clients) /\ Len(waiters) \in Nat
    BY LenProperties DEF PoolInv, TypeOK
  <1>2. /\ ws \in Seq(Clients)
        /\ Len(ws) = Len(waiters) + 1
        /\ \A i \in 1..Len(ws) : ws[i] = IF i <= Len(waiters) THEN waiters[i] ELSE c
    BY <1>1
  <1>3. \A i \in 1..Len(waiters) : waiters[i] # c
    BY <1>1 DEF PoolInv, QueueOf
  <1>4. \A i, j \in 1..Len(ws) : ws[i] = ws[j] => i = j
    BY <1>1, <1>2, <1>3 DEF PoolInv, QueueOf
  <1>5. ASSUME NEW d \in Clients
        PROVE  status[d] = "waiting" <=> \E i \in 1..Len(ws) : ws[i] = d
    <2>1. CASE d = c
      BY <1>1, <1>2, <2>1
    <2>2. CASE d # c
      BY <1>1, <1>2, <2>2 DEF PoolInv, QueueOf
    <2> QED
      BY <2>1, <2>2
  <1> QED
    BY <1>2, <1>4, <1>5 DEF QueueOf

(* The slots left when the openings that await the build are rejected.      *)
LEMMA AwaitingSlots ==
  ASSUME PoolInv
  PROVE  /\ Cardinality(Openers(pc) \ AwaitingInstance)
              = creating - Cardinality(AwaitingInstance)
         /\ creating - Cardinality(AwaitingInstance) \in Nat
         /\ creating - Cardinality(AwaitingInstance) <= creating
  <1>1. AwaitingInstance \subseteq Openers(pc)
    BY DEF AwaitingInstance, Openers
  <1>2. Openers(pc) \cap AwaitingInstance = AwaitingInstance
    BY <1>1
  <1>3. Cardinality(Openers(pc) \ AwaitingInstance)
          = Cardinality(Openers(pc)) - Cardinality(AwaitingInstance)
    BY <1>2, OpenersFinite, FS_Difference
  <1>4. Cardinality(AwaitingInstance) \in Nat
    BY <1>1, OpenersFinite, FS_Subset, FS_CardinalityType
  <1>5. Cardinality(Openers(pc) \ AwaitingInstance) \in Nat
    BY OpenersFinite, FS_Subset, FS_CardinalityType
  <1> QED
    BY <1>3, <1>4, <1>5, PoolSize

-----------------------------------------------------------------------------
(* One lemma per action. *)

LEMMA ReuseIdleKeeps ==
  ASSUME PoolInv, NEW c \in Clients, ReuseIdle(c)
  PROVE  PoolInv'
  <1>1. PICK k \in Idle : inUse' = inUse \cup {k} /\ held' = [held EXCEPT ![c] = k]
    BY DEF ReuseIdle
  <1>2. TypeOK'
    BY <1>1 DEF ReuseIdle, PoolInv, TypeOK, Idle, Status, instVars, drainVars
  <1>3. QueueOf(waiters, pc)'
    BY DEF ReuseIdle, PoolInv, TypeOK, QueueOf, Calls
  <1>4. SlotsAreOpenings'
    <2>1. Openers(pc') = Openers(pc)
      BY DEF ReuseIdle, Calls, PoolInv, TypeOK, Openers
    <2> QED
      BY <2>1 DEF ReuseIdle, PoolInv, SlotsAreOpenings, Openers
  <1>5. CapacityRespected' /\ QueuedOnlyWhenSaturated'
    BY DEF ReuseIdle, PoolInv, CapacityRespected, QueuedOnlyWhenSaturated
  <1> QED
    BY <1>2, <1>3, <1>4, <1>5 DEF PoolInv

LEMMA ReserveSlotKeeps ==
  ASSUME PoolInv, NEW c \in Clients, ReserveSlot(c)
  PROVE  PoolInv'
  <1>1. TypeOK'
    BY DEF ReserveSlot, PoolInv, TypeOK, Status, drainVars
  <1>2. QueueOf(waiters, pc)'
    BY DEF ReserveSlot, PoolInv, TypeOK, QueueOf, Calls
  <1>3. SlotsAreOpenings'
    <2>1. Openers(pc') = Openers(pc) \cup {c} /\ c \notin Openers(pc)
      BY DEF ReserveSlot, Calls, PoolInv, TypeOK, Openers
    <2>2. Cardinality(Openers(pc')) = Cardinality(Openers(pc)) + 1
      BY <2>1, OpenersFinite, FS_AddElement
    <2> QED
      BY <2>2, PoolSize DEF ReserveSlot, SlotsAreOpenings, Openers
  <1>4. CapacityRespected' /\ QueuedOnlyWhenSaturated'
    BY PoolSize DEF ReserveSlot, HasCapacity, CapacityRespected, QueuedOnlyWhenSaturated
  <1> QED
    BY <1>1, <1>2, <1>3, <1>4 DEF PoolInv

LEMMA JoinQueueKeeps ==
  ASSUME PoolInv, NEW c \in Clients, JoinQueue(c)
  PROVE  PoolInv'
  <1> DEFINE ws == Append(waiters, c)
             status == [pc EXCEPT ![c] = "waiting"]
  <1>1. /\ pc \in [Clients -> Status] /\ pc[c] = "idle"
        /\ waiters \in Seq(Clients) /\ Len(waiters) \in Nat
        /\ instance \in Instances \cup {NoInst} /\ building \in BOOLEAN
        /\ target \in [Clients -> Instances \cup {NoInst}]
    BY LenProperties DEF JoinQueue, Calls, PoolInv, TypeOK
  <1>3. status \in [Clients -> Status]
    BY <1>1 DEF Status
  <1>4. QueueOf(ws, status)
    BY <1>1, JoinedQueue
  <1>5. Openers(status) = Openers(pc)
    BY <1>1 DEF Openers
  <1>6. Dispatch(Cardinality(pool), creating, ws, status, instance, building)
    BY DEF JoinQueue
  <1>7. Idle = {} /\ Cardinality(pool) + creating = MaxConnections
    BY PoolSize DEF JoinQueue, HasCapacity
  <1>8. /\ creating' \in Nat
        /\ building' \in BOOLEAN
        /\ pc' \in [Clients -> Status]
        /\ target' \in [Clients -> Instances \cup {NoInst}]
        /\ QueueOf(waiters', pc')
        /\ Cardinality(Openers(pc')) = creating'
        /\ Cardinality(pool) + creating' <= MaxConnections
        /\ waiters' # <<>> => Cardinality(pool) + creating' = MaxConnections
    <2>1. /\ Cardinality(pool) \in Nat
          /\ creating \in Nat
          /\ Cardinality(pool) + creating <= MaxConnections
          /\ Cardinality(Openers(status)) = creating
      BY <1>5, PoolSize
    <2> HIDE DEF ws, status
    <2> QED
      BY <1>1, <1>3, <1>4, <1>6, <2>1, DispatchKeeps
  <1>9. TypeOK'
    BY <1>8 DEF JoinQueue, PoolInv, TypeOK, QueueOf, drainVars
  <1>10. SlotsAreOpenings' /\ CapacityRespected'
    BY <1>8 DEF JoinQueue, SlotsAreOpenings, CapacityRespected, Openers
  <1>11. QueuedOnlyWhenSaturated'
    BY <1>7, <1>8, PoolSize DEF JoinQueue, QueuedOnlyWhenSaturated, HasCapacity, Idle
  <1> QED
    BY <1>8, <1>9, <1>10, <1>11 DEF PoolInv

LEMMA LeaveQueueKeeps ==
  ASSUME PoolInv, NEW c \in Clients, LeaveQueue(c)
  PROVE  PoolInv'
  <1>1. PICK i \in 1..Len(waiters) : waiters[i] = c /\ waiters' = RemoveAt(waiters, i)
    BY DEF LeaveQueue
  <1> DEFINE before == SubSeq(waiters, 1, i - 1)
             after == SubSeq(waiters, i + 1, Len(waiters))
  <1>2. /\ waiters \in Seq(Clients) /\ Len(waiters) \in Nat
        /\ \A j \in 1..Len(waiters) : waiters[j] \in Clients
        /\ pc \in [Clients -> Status]
        /\ i \in Nat
    BY LenProperties DEF PoolInv, TypeOK
  <1>3. /\ before \in Seq(Clients)
        /\ Len(before) = i - 1
        /\ \A j \in 1..(i - 1) : before[j] = waiters[j]
    <2>1. \A j \in 1..(i - 1) : waiters[j] \in Clients
      BY <1>2
    <2> QED
      BY <1>2, <2>1, SubSeqProperties
  <1>4. /\ after \in Seq(Clients)
        /\ Len(after) = Len(waiters) - i
        /\ \A j \in 1..(Len(waiters) - i) : after[j] = waiters[i + j]
    BY <1>2, SuffixProperties
  <1>5. waiters' = before \o after
    BY <1>1 DEF RemoveAt
  <1> HIDE DEF before, after
  <1>6. /\ waiters' \in Seq(Clients)
        /\ Len(waiters') = Len(waiters) - 1
        /\ \A j \in 1..Len(waiters') :
              waiters'[j] = IF j < i THEN waiters[j] ELSE waiters[j + 1]
    <2>1. /\ before \o after \in Seq(Clients)
          /\ Len(before \o after) = Len(before) + Len(after)
          /\ \A j \in 1..(Len(before) + Len(after)) :
               (before \o after)[j] = IF j <= Len(before) THEN before[j]
                                      ELSE after[j - Len(before)]
      BY <1>3, <1>4, ConcatProperties
    <2>2. ASSUME NEW j \in 1..Len(waiters')
          PROVE  waiters'[j] = IF j < i THEN waiters[j] ELSE waiters[j + 1]
      <3>1. CASE j < i
        BY <1>2, <1>3, <1>4, <1>5, <2>1, <3>1
      <3>2. CASE ~(j < i)
        <4>1. /\ j - (i - 1) \in 1..(Len(waiters) - i)
              /\ i + (j - (i - 1)) = j + 1
              /\ ~(j <= Len(before))
              /\ j \in 1..(Len(before) + Len(after))
          BY <1>2, <1>3, <1>4, <1>5, <2>1, <3>2
        <4>2. (before \o after)[j] = after[j - (i - 1)]
          BY <1>3, <2>1, <4>1
        <4>3. after[j - (i - 1)] = waiters[j + 1]
          BY <1>4, <4>1
        <4> QED
          BY <1>5, <3>2, <4>2, <4>3
      <3> QED
        BY <3>1, <3>2
    <2> QED
      BY <1>2, <1>3, <1>4, <1>5, <2>1, <2>2
  <1>7. pc' = [pc EXCEPT ![c] = "idle"]
    BY DEF LeaveQueue
  <1>8. QueueOf(waiters, pc)'
    <2>1. ASSUME NEW j \in 1..Len(waiters'), NEW k \in 1..Len(waiters'),
                 waiters'[j] = waiters'[k]
          PROVE  j = k
      BY <1>2, <1>6, <2>1 DEF PoolInv, QueueOf
    <2>2. ASSUME NEW d \in Clients
          PROVE  pc'[d] = "waiting" <=> \E j \in 1..Len(waiters') : waiters'[j] = d
      <3>1. CASE d = c
        <4>1. \A j \in 1..Len(waiters') : waiters'[j] # c
          BY <1>1, <1>2, <1>6 DEF PoolInv, QueueOf
        <4> QED
          BY <1>2, <1>7, <3>1, <4>1
      <3>2. CASE d # c
        <4>1. ASSUME NEW j \in 1..Len(waiters), waiters[j] = d
              PROVE  \E k \in 1..Len(waiters') : waiters'[k] = d
          <5>1. CASE j < i
            BY <1>2, <1>6, <4>1, <5>1
          <5>2. CASE ~(j < i)
            <6>1. j # i
              BY <1>1, <3>2, <4>1
            <6>2. j - 1 \in 1..Len(waiters') /\ ~(j - 1 < i) /\ (j - 1) + 1 = j
              BY <1>2, <1>6, <5>2, <6>1
            <6> QED
              BY <1>6, <4>1, <6>2
          <5> QED
            BY <5>1, <5>2
        <4>2. ASSUME NEW k \in 1..Len(waiters'), waiters'[k] = d
              PROVE  \E j \in 1..Len(waiters) : waiters[j] = d
          <5>1. k \in 1..Len(waiters) /\ k + 1 \in 1..Len(waiters)
            BY <1>2, <1>6
          <5> QED
            BY <1>6, <4>2, <5>1
        <4>3. pc'[d] = pc[d]
          BY <1>2, <1>7, <3>2
        <4> QED
          BY <4>1, <4>2, <4>3 DEF PoolInv, QueueOf
      <3> QED
        BY <3>1, <3>2
    <2> QED
      BY <1>6, <2>1, <2>2 DEF QueueOf
  <1>9. TypeOK'
    BY <1>2, <1>6, <1>7 DEF LeaveQueue, PoolInv, TypeOK, Status, instVars, drainVars
  <1>10. SlotsAreOpenings'
    <2>1. pc[c] = "waiting"
      BY <1>1, <1>2 DEF PoolInv, QueueOf
    <2>2. Openers(pc') = Openers(pc)
      BY <1>2, <1>7, <2>1 DEF Openers
    <2> QED
      BY <2>2 DEF LeaveQueue, PoolInv, SlotsAreOpenings, Openers
  <1>11. CapacityRespected'
    BY DEF LeaveQueue, PoolInv, CapacityRespected
  <1>12. QueuedOnlyWhenSaturated'
    <2>1. waiters # <<>>
      BY <1>2, EmptySeq
    <2> QED
      BY <2>1 DEF LeaveQueue, PoolInv, QueuedOnlyWhenSaturated, HasCapacity, Idle
  <1> QED
    BY <1>8, <1>9, <1>10, <1>11, <1>12 DEF PoolInv

LEMMA ConnectedKeeps ==
  ASSUME PoolInv, NEW c \in Clients, Connected(c)
  PROVE  PoolInv'
  <1> DEFINE status == [pc EXCEPT ![c] = "using"]
             k == NewConn
  <1>1. k \in Conns /\ k \notin pool
    BY DEF Connected, NewConn, FreshConns, Referenced
  <1> HIDE DEF k
  <1>2. /\ pool' = pool \cup {k}
        /\ inUse' = inUse \cup {k}
        /\ boundTo' = [boundTo EXCEPT ![k] = instance]
        /\ openConns' = openConns \cup {k}
        /\ held' = [held EXCEPT ![c] = k]
        /\ Dispatch(Cardinality(pool) + 1, creating - 1, waiters, status, instance, building)
    BY DEF Connected, k
  <1>3. /\ status \in [Clients -> Status]
        /\ QueueOf(waiters, status)
        /\ Cardinality(Openers(status)) = creating - 1
        /\ creating - 1 \in Nat
    BY OpeningEnds DEF Connected, Connecting
  <1>4. IsFiniteSet(pool') /\ Cardinality(pool') = Cardinality(pool) + 1
    BY <1>1, <1>2, FS_AddElement DEF PoolInv, TypeOK
  <1>5. /\ Cardinality(pool) + 1 \in Nat
        /\ (Cardinality(pool) + 1) + (creating - 1) <= MaxConnections
    BY <1>3, PoolSize
  <1>6. /\ instance \in Instances \cup {NoInst} /\ building \in BOOLEAN
        /\ target \in [Clients -> Instances \cup {NoInst}]
    BY DEF PoolInv, TypeOK
  <1> HIDE DEF status
  <1>7. /\ creating' \in Nat
        /\ building' \in BOOLEAN
        /\ pc' \in [Clients -> Status]
        /\ target' \in [Clients -> Instances \cup {NoInst}]
        /\ QueueOf(waiters', pc')
        /\ Cardinality(Openers(pc')) = creating'
        /\ (Cardinality(pool) + 1) + creating' <= MaxConnections
        /\ waiters' # <<>> =>
             waiters # <<>> /\ (Cardinality(pool) + 1) + creating' = MaxConnections
    BY <1>2, <1>3, <1>5, <1>6, DispatchKeeps
  <1>8. TypeOK'
    <2>1. UNCHANGED <<drainVars, instance, built, openInsts, closed>>
      BY DEF Connected
    <2>2. waiters' \in Seq(Clients)
      BY <1>7 DEF QueueOf
    <2>3. pool' \subseteq Conns /\ IsFiniteSet(pool')
      BY <1>1, <1>2, <1>4 DEF PoolInv, TypeOK
    <2>4. boundTo' \in [Conns -> Instances \cup {NoInst}]
      BY <1>1, <1>2, <1>6 DEF PoolInv, TypeOK
    <2>5. inUse' \subseteq Conns /\ openConns' \subseteq Conns
      BY <1>1, <1>2 DEF PoolInv, TypeOK
    <2>6. held' \in [Clients -> Conns \cup {NoConn}]
      BY <1>1, <1>2 DEF PoolInv, TypeOK
    <2> QED
      BY <1>7, <2>1, <2>2, <2>3, <2>4, <2>5, <2>6 DEF PoolInv, TypeOK, drainVars
  <1>9. SlotsAreOpenings' /\ CapacityRespected'
    BY <1>4, <1>7 DEF SlotsAreOpenings, CapacityRespected, Openers
  <1>10. QueuedOnlyWhenSaturated'
    BY <1>2, <1>4, <1>5, <1>7, PoolSize DEF QueuedOnlyWhenSaturated, HasCapacity, Idle
  <1> QED
    BY <1>7, <1>8, <1>9, <1>10 DEF PoolInv

LEMMA ReconnectKeeps ==
  ASSUME PoolInv, NEW c \in Clients, Reconnect(c)
  PROVE  PoolInv'
  <1>1. TypeOK'
    BY DEF Reconnect, PoolInv, TypeOK, drainVars, poolVars
  <1> QED
    BY <1>1 DEF Reconnect, PoolInv, QueueOf, SlotsAreOpenings, CapacityRespected,
                QueuedOnlyWhenSaturated, HasCapacity, Idle, poolVars

LEMMA OpenFailedKeeps ==
  ASSUME PoolInv, NEW c \in Clients, OpenFailed(c)
  PROVE  PoolInv'
  <1> DEFINE status == [pc EXCEPT ![c] = "idle"]
  <1>1. /\ status \in [Clients -> Status]
        /\ QueueOf(waiters, status)
        /\ Cardinality(Openers(status)) = creating - 1
        /\ creating - 1 \in Nat
    BY OpeningEnds DEF OpenFailed, Connecting
  <1>2. /\ Cardinality(pool) \in Nat
        /\ Cardinality(pool) + (creating - 1) <= MaxConnections
    BY <1>1, PoolSize
  <1>3. /\ instance \in Instances \cup {NoInst} /\ building \in BOOLEAN
        /\ target \in [Clients -> Instances \cup {NoInst}]
        /\ Dispatch(Cardinality(pool), creating - 1, waiters, status, instance, building)
    BY DEF PoolInv, TypeOK, OpenFailed
  <1> HIDE DEF status
  <1>4. /\ creating' \in Nat
        /\ building' \in BOOLEAN
        /\ pc' \in [Clients -> Status]
        /\ target' \in [Clients -> Instances \cup {NoInst}]
        /\ QueueOf(waiters', pc')
        /\ Cardinality(Openers(pc')) = creating'
        /\ Cardinality(pool) + creating' <= MaxConnections
        /\ waiters' # <<>> =>
             waiters # <<>> /\ Cardinality(pool) + creating' = MaxConnections
    BY <1>1, <1>2, <1>3, DispatchKeeps
  <1>5. TypeOK'
    BY <1>4 DEF OpenFailed, PoolInv, TypeOK, QueueOf, drainVars
  <1>6. SlotsAreOpenings' /\ CapacityRespected' /\ QueuedOnlyWhenSaturated'
    BY <1>2, <1>4, PoolSize DEF OpenFailed, SlotsAreOpenings, CapacityRespected, Openers,
                                QueuedOnlyWhenSaturated, HasCapacity, Idle
  <1> QED
    BY <1>4, <1>5, <1>6 DEF PoolInv

LEMMA LazyBuiltKeeps ==
  ASSUME PoolInv, LazyBuilt
  PROVE  PoolInv'
  <1>1. NewInst \in Instances
    BY DEF LazyBuilt, NewInst, Unbuilt
  <1>2. TypeOK'
    BY <1>1 DEF LazyBuilt, PoolInv, TypeOK, drainVars, poolVars
  <1> QED
    BY <1>2 DEF LazyBuilt, PoolInv, QueueOf, SlotsAreOpenings, CapacityRespected,
                QueuedOnlyWhenSaturated, HasCapacity, Idle, poolVars

LEMMA LazyBuildFailedKeeps ==
  ASSUME PoolInv, LazyBuildFailed
  PROVE  PoolInv'
  <1> DEFINE gone == AwaitingInstance
             slots == creating - Cardinality(gone)
             status == [c \in Clients |-> IF c \in gone THEN "idle" ELSE pc[c]]
  <1>1. /\ pc \in [Clients -> Status] /\ QueueOf(waiters, pc)
        /\ instance \in Instances \cup {NoInst}
        /\ target \in [Clients -> Instances \cup {NoInst}]
    BY DEF PoolInv, TypeOK
  <1>3. status \in [Clients -> Status] /\ QueueOf(waiters, status)
    BY <1>1 DEF QueueOf, Status, AwaitingInstance
  <1>4. Openers(status) = Openers(pc) \ gone
    BY <1>1 DEF Openers
  <1>5. Cardinality(Openers(status)) = slots /\ slots \in Nat /\ slots <= creating
    BY <1>4, AwaitingSlots
  <1>6. Dispatch(Cardinality(pool), slots, waiters, status, instance, FALSE)
    BY DEF LazyBuildFailed
  <1>7. /\ Cardinality(pool) \in Nat
        /\ Cardinality(pool) + slots <= MaxConnections
    BY <1>5, PoolSize
  <1> HIDE DEF status, slots
  <1>8. /\ creating' \in Nat
        /\ building' \in BOOLEAN
        /\ pc' \in [Clients -> Status]
        /\ target' \in [Clients -> Instances \cup {NoInst}]
        /\ QueueOf(waiters', pc')
        /\ Cardinality(Openers(pc')) = creating'
        /\ Cardinality(pool) + creating' <= MaxConnections
        /\ waiters' # <<>> =>
             waiters # <<>> /\ Cardinality(pool) + creating' = MaxConnections
    BY <1>1, <1>3, <1>5, <1>6, <1>7, DispatchKeeps
  <1>9. TypeOK'
    BY <1>8 DEF LazyBuildFailed, PoolInv, TypeOK, QueueOf, drainVars
  <1>10. SlotsAreOpenings' /\ CapacityRespected' /\ QueuedOnlyWhenSaturated'
    BY <1>7, <1>8, PoolSize DEF LazyBuildFailed, SlotsAreOpenings, CapacityRespected,
         Openers, QueuedOnlyWhenSaturated, HasCapacity, Idle
  <1> QED
    BY <1>8, <1>9, <1>10 DEF PoolInv

LEMMA ReleaseKeeps ==
  ASSUME PoolInv, NEW c \in Clients, Release(c)
  PROVE  PoolInv'
  <1>1. /\ pc \in [Clients -> Status] /\ pc[c] = "using" /\ QueueOf(waiters, pc)
        /\ held \in [Clients -> Conns \cup {NoConn}]
        /\ UNCHANGED <<instVars, drainVars, pool, creating, boundTo, openConns,
                       openInsts, closed, target>>
    BY DEF PoolInv, TypeOK, Release
  <1>2. CASE held[c] \in pool /\ waiters # <<>>
    <2>1. /\ pc' = [pc EXCEPT ![c] = "idle", ![Head(waiters)] = "using"]
          /\ held' = [held EXCEPT ![c] = NoConn, ![Head(waiters)] = held[c]]
          /\ waiters' = Tail(waiters)
          /\ inUse' = inUse
      BY <1>2 DEF Release
    <2>2. /\ waiters \in Seq(Clients) /\ Len(waiters) \in Nat /\ Len(waiters) > 0
          /\ Head(waiters) = waiters[1] /\ Head(waiters) \in Clients
      BY <1>1, <1>2, EmptySeq DEF QueueOf
    <2>3. /\ waiters' \in Seq(Clients)
          /\ Len(waiters') = Len(waiters) - 1
          /\ \A i \in 1..Len(waiters') : waiters'[i] = waiters[i + 1]
      BY <1>2, <2>1, <2>2, HeadTailProperties
    <2>4. pc[Head(waiters)] = "waiting" /\ Head(waiters) # c
      BY <1>1, <2>2 DEF QueueOf
    <2>5. QueueOf(waiters, pc)'
      <3>1. ASSUME NEW i \in 1..Len(waiters'), NEW j \in 1..Len(waiters'),
                   waiters'[i] = waiters'[j]
            PROVE  i = j
        <4>1. i + 1 \in 1..Len(waiters) /\ j + 1 \in 1..Len(waiters)
          BY <2>2, <2>3
        <4>2. waiters[i + 1] = waiters[j + 1]
          BY <2>3, <3>1
        <4>3. i + 1 = j + 1
          BY <1>1, <4>1, <4>2 DEF QueueOf
        <4> QED
          BY <4>3
      <3>2. ASSUME NEW d \in Clients
            PROVE  pc'[d] = "waiting" <=> \E i \in 1..Len(waiters') : waiters'[i] = d
        <4>1. CASE d = Head(waiters)
          <5>1. ASSUME NEW i \in 1..Len(waiters') PROVE waiters'[i] # d
            <6>1. i + 1 \in 1..Len(waiters) /\ 1 \in 1..Len(waiters) /\ i + 1 # 1
              BY <2>2, <2>3
            <6> QED
              BY <1>1, <2>2, <2>3, <4>1, <6>1 DEF QueueOf
          <5> QED
            BY <1>1, <2>1, <2>2, <2>4, <4>1, <5>1
        <4>2. CASE d # Head(waiters)
          <5>1. ASSUME NEW i \in 1..Len(waiters), waiters[i] = d
                PROVE  \E k \in 1..Len(waiters') : waiters'[k] = d
            <6>1. i - 1 \in 1..Len(waiters') /\ (i - 1) + 1 = i
              BY <2>2, <2>3, <4>2, <5>1
            <6> QED
              BY <2>3, <5>1, <6>1
          <5>2. ASSUME NEW k \in 1..Len(waiters'), waiters'[k] = d
                PROVE  \E i \in 1..Len(waiters) : waiters[i] = d
            <6>1. k + 1 \in 1..Len(waiters)
              BY <2>2, <2>3
            <6> QED
              BY <2>3, <5>2, <6>1
          <5>3. pc'[d] = "waiting" <=> pc[d] = "waiting"
            BY <1>1, <2>1, <2>2, <4>2
          <5> QED
            BY <1>1, <5>1, <5>2, <5>3 DEF QueueOf
        <4> QED
          BY <4>1, <4>2
      <3> QED
        BY <2>3, <3>1, <3>2 DEF QueueOf
    <2>6. TypeOK'
      BY <1>1, <2>1, <2>2, <2>3 DEF PoolInv, TypeOK, Status, instVars, drainVars
    <2>7. Openers(pc') = Openers(pc)
      BY <1>1, <2>1, <2>2, <2>4 DEF Openers
    <2>8. SlotsAreOpenings' /\ CapacityRespected'
      BY <1>1, <2>7 DEF PoolInv, SlotsAreOpenings, CapacityRespected, Openers
    <2>9. QueuedOnlyWhenSaturated'
      BY <1>1, <1>2, <2>1 DEF PoolInv, QueuedOnlyWhenSaturated, HasCapacity, Idle
    <2> QED
      BY <2>5, <2>6, <2>8, <2>9 DEF PoolInv
  <1>3. CASE ~(held[c] \in pool /\ waiters # <<>>)
    <2>1. /\ pc' = [pc EXCEPT ![c] = "idle"]
          /\ held' = [held EXCEPT ![c] = NoConn]
          /\ inUse' = IF held[c] \in pool \cup draining THEN inUse \ {held[c]} ELSE inUse
          /\ waiters' = waiters
      BY <1>3 DEF Release
    <2>2. TypeOK'
      BY <1>1, <2>1 DEF PoolInv, TypeOK, Status, instVars, drainVars
    <2>3. QueueOf(waiters, pc)'
      BY <1>1, <2>1 DEF QueueOf
    <2>4. Openers(pc') = Openers(pc)
      BY <1>1, <2>1 DEF Openers
    <2>5. SlotsAreOpenings' /\ CapacityRespected'
      BY <1>1, <2>4 DEF PoolInv, SlotsAreOpenings, CapacityRespected, Openers
    <2>6. QueuedOnlyWhenSaturated'
      BY <1>1, <1>3, <2>1 DEF PoolInv, QueuedOnlyWhenSaturated, HasCapacity, Idle
    <2> QED
      BY <2>2, <2>3, <2>5, <2>6 DEF PoolInv
  <1> QED
    BY <1>2, <1>3

LEMMA ReloadSwapsKeeps ==
  ASSUME PoolInv, ReloadSwaps
  PROVE  PoolInv'
  <1>1. NewInst \in Instances
    BY DEF ReloadSwaps, NewInst, Unbuilt
  <1>2. /\ pc \in [Clients -> Status] /\ QueueOf(waiters, pc) /\ building \in BOOLEAN
        /\ target \in [Clients -> Instances \cup {NoInst}]
        /\ Dispatch(0, creating, waiters, pc, NewInst, building)
    BY DEF PoolInv, TypeOK, ReloadSwaps
  <1>3. 0 \in Nat /\ creating \in Nat /\ 0 + creating <= MaxConnections
        /\ Cardinality(Openers(pc)) = creating
    BY PoolSize
  <1>4. /\ creating' \in Nat
        /\ building' \in BOOLEAN
        /\ pc' \in [Clients -> Status]
        /\ target' \in [Clients -> Instances \cup {NoInst}]
        /\ QueueOf(waiters', pc')
        /\ Cardinality(Openers(pc')) = creating'
        /\ 0 + creating' <= MaxConnections
        /\ waiters' # <<>> => waiters # <<>> /\ 0 + creating' = MaxConnections
    BY <1>1, <1>2, <1>3, DispatchKeeps
  <1>5. pool' = {} /\ IsFiniteSet(pool') /\ Cardinality(pool') = 0
    BY FS_EmptySet DEF ReloadSwaps
  <1>6. TypeOK'
    <2>1. /\ instance' = NewInst /\ built' = built \cup {NewInst}
          /\ openInsts' = openInsts \cup {NewInst} /\ reload' = "draining"
          /\ retiring' = instance /\ oldConns' = pool
          /\ draining' = draining \cup pool
          /\ UNCHANGED <<inUse, boundTo, openConns, closed, held>>
      BY DEF ReloadSwaps
    <2>2. waiters' \in Seq(Clients)
      BY <1>4 DEF QueueOf
    <2> QED
      BY <1>1, <1>4, <1>5, <2>1, <2>2 DEF PoolInv, TypeOK
  <1>7. SlotsAreOpenings' /\ CapacityRespected'
    BY <1>4, <1>5 DEF SlotsAreOpenings, CapacityRespected, Openers
  <1>8. QueuedOnlyWhenSaturated'
    BY <1>4, <1>5, PoolSize DEF QueuedOnlyWhenSaturated, HasCapacity, Idle
  <1> QED
    BY <1>4, <1>6, <1>7, <1>8 DEF PoolInv

(* The steps of a reload that leave the pool and its queue alone.          *)
LEMMA DrainKeeps ==
  ASSUME PoolInv, ReloadStarts \/ ReloadFails \/ DrainEnds \/ DrainForced
  PROVE  PoolInv'
  <1>1. UNCHANGED <<poolVars, instVars, closed, pc, target, held>>
    BY DEF ReloadStarts, ReloadFails, DrainEnds, DrainForced, DrainCloses
  <1>2. TypeOK'
    <2>1. CASE ReloadStarts \/ ReloadFails
      BY <1>1, <2>1 DEF ReloadStarts, ReloadFails, PoolInv, TypeOK, poolVars, instVars
    <2>2. CASE DrainEnds \/ DrainForced
      BY <1>1, <2>2 DEF DrainEnds, DrainForced, DrainCloses, PoolInv, TypeOK, poolVars,
                        instVars
    <2> QED
      BY <2>1, <2>2
  <1> QED
    BY <1>1, <1>2 DEF PoolInv, QueueOf, SlotsAreOpenings, CapacityRespected,
                      QueuedOnlyWhenSaturated, HasCapacity, Idle, poolVars

LEMMA CloseKeeps ==
  ASSUME PoolInv, Close
  PROVE  PoolInv'
  <1>1. /\ pc \in [Clients -> Status] /\ QueueOf(waiters, pc)
        /\ pc' = [c \in Clients |-> IF pc[c] = "waiting" THEN "idle" ELSE pc[c]]
        /\ waiters' = <<>> /\ creating' = creating
    BY DEF PoolInv, TypeOK, Close
  <1>2. pool' = {} /\ IsFiniteSet(pool') /\ Cardinality(pool') = 0
    BY FS_EmptySet DEF Close
  <1>3. TypeOK'
    <2>1. /\ instance' = NoInst /\ building' = FALSE /\ closed' = TRUE /\ draining' = {}
          /\ openConns' = openConns \ (pool \cup draining)
          /\ openInsts' = openInsts \ {instance}
          /\ UNCHANGED <<creating, inUse, boundTo, built, reload, retiring, oldConns,
                         target, held>>
      BY DEF Close
    <2>2. waiters' \in Seq(Clients)
      BY <1>1, EmptySeq
    <2>3. pc' \in [Clients -> Status]
      BY <1>1 DEF Status
    <2> QED
      BY <1>2, <2>1, <2>2, <2>3 DEF PoolInv, TypeOK
  <1>4. QueueOf(waiters, pc)'
    <2>1. Len(<<>>) = 0 /\ waiters' \in Seq(Clients)
      BY <1>1, EmptySeq
    <2>2. \A c \in Clients : pc'[c] # "waiting"
      BY <1>1
    <2> QED
      BY <1>1, <2>1, <2>2 DEF QueueOf
  <1>5. Openers(pc') = Openers(pc)
    BY <1>1 DEF Openers
  <1>6. SlotsAreOpenings'
    BY <1>1, <1>5 DEF PoolInv, SlotsAreOpenings, Openers
  <1>7. CapacityRespected'
    BY <1>1, <1>2, PoolSize DEF CapacityRespected
  <1>8. QueuedOnlyWhenSaturated'
    BY <1>1 DEF QueuedOnlyWhenSaturated
  <1> QED
    BY <1>3, <1>4, <1>6, <1>7, <1>8 DEF PoolInv

-----------------------------------------------------------------------------
(* The pool as startServer leaves it satisfies the invariant.              *)
LEMMA PoolInvInit == Init => PoolInv
  <1> SUFFICES ASSUME Init PROVE PoolInv
    OBVIOUS
  <1>1. pool = {} /\ IsFiniteSet(pool) /\ Cardinality(pool) = 0
    BY FS_EmptySet DEF Init
  <1>2. Len(<<>>) = 0 /\ waiters = <<>> /\ waiters \in Seq(Clients)
    BY EmptySeq DEF Init
  <1>3. TypeOK
    BY <1>1, <1>2, PoolAssumption DEF Init, TypeOK, Status
  <1>4. QueueOf(waiters, pc)
    BY <1>2 DEF Init, QueueOf
  <1>5. SlotsAreOpenings
    <2>1. {c \in Clients : pc[c] = "opening"} = {}
      BY DEF Init
    <2> QED
      BY <2>1, FS_EmptySet DEF Init, SlotsAreOpenings
  <1>6. CapacityRespected /\ QueuedOnlyWhenSaturated
    BY <1>1, PoolAssumption DEF Init, CapacityRespected, QueuedOnlyWhenSaturated
  <1> QED
    BY <1>3, <1>4, <1>5, <1>6 DEF PoolInv

(* Every step of the pool, and stuttering, preserves the invariant.        *)
LEMMA PoolInvStep == PoolInv /\ [Next]_vars => PoolInv'
  <1> SUFFICES ASSUME PoolInv, [Next]_vars PROVE PoolInv'
    OBVIOUS
  <1>1. ASSUME NEW c \in Clients, Acquire(c) PROVE PoolInv'
    BY <1>1, ReuseIdleKeeps, ReserveSlotKeeps, JoinQueueKeeps DEF Acquire
  <1>2. ASSUME NEW c \in Clients, LeaveQueue(c) PROVE PoolInv'
    BY <1>2, LeaveQueueKeeps
  <1>3. ASSUME NEW c \in Clients, Opening(c) PROVE PoolInv'
    BY <1>3, ConnectedKeeps, ReconnectKeeps, OpenFailedKeeps DEF Opening
  <1>4. ASSUME NEW c \in Clients, Release(c) PROVE PoolInv'
    BY <1>4, ReleaseKeeps
  <1>5. CASE LazyBuild
    BY <1>5, LazyBuiltKeeps, LazyBuildFailedKeeps DEF LazyBuild
  <1>6. CASE Reload
    BY <1>6, ReloadSwapsKeeps, DrainKeeps DEF Reload
  <1>7. CASE Close
    BY <1>7, CloseKeeps
  <1>8. CASE UNCHANGED vars
    BY <1>8 DEF vars, PoolInv, TypeOK, QueueOf, SlotsAreOpenings, CapacityRespected,
                QueuedOnlyWhenSaturated, HasCapacity, Idle
  <1> QED
    BY <1>1, <1>2, <1>3, <1>4, <1>5, <1>6, <1>7, <1>8 DEF Next

(* PoolInv holds in every reachable state of the pool.                     *)
THEOREM PoolInvariant == Spec => []PoolInv
  <1> QED
    BY PoolInvInit, PoolInvStep, PTL DEF Spec

(* Type correctness of DuckDBPool.                                         *)
THEOREM TypeCorrect == Spec => []TypeOK
  <1>1. PoolInv => TypeOK
    BY DEF PoolInv
  <1> QED
    BY <1>1, PoolInvariant, PTL

(* acquire() and reload() together never open more than maxConnections     *)
(* connections of the live instance.                                       *)
THEOREM CapacityIsRespected == Spec => []CapacityRespected
  <1>1. PoolInv => CapacityRespected
    BY DEF PoolInv
  <1> QED
    BY <1>1, PoolInvariant, PTL

(* release(), dispatch() and the reload leave no acquisition queued beside *)
(* an idle connection or a free slot.                                      *)
THEOREM NoLostWakeUp == Spec => []QueuedOnlyWhenSaturated
  <1>1. PoolInv => QueuedOnlyWhenSaturated
    BY DEF PoolInv
  <1> QED
    BY <1>1, PoolInvariant, PTL

(* The creating counter of DuckDBPool counts the openings under way.       *)
THEOREM SlotsAreAccounted == Spec => []SlotsAreOpenings
  <1>1. PoolInv => SlotsAreOpenings
    BY DEF PoolInv
  <1> QED
    BY <1>1, PoolInvariant, PTL

-----------------------------------------------------------------------------
(* Who holds which connection. *)

(* What the flags and the clients' places say of each other: a client holds *)
(* a connection exactly between acquire() and release(), no two the same,   *)
(* and inUse marks what is held.                                            *)
HeldInv ==
  /\ InUseMeansHeld
  /\ \A c \in Clients : held[c] # NoConn <=> pc[c] = "using"

(* dispatch() only moves clients from the queue into an opening.            *)
LEMMA DispatchMoves ==
  ASSUME NEW size \in Nat, NEW slots \in Nat, NEW ws, NEW status,
         NEW inst, NEW pending,
         size + slots <= MaxConnections,
         QueueOf(ws, status),
         Dispatch(size, slots, ws, status, inst, pending)
  PROVE  \A c \in Clients :
           \/ pc'[c] = status[c]
           \/ status[c] = "waiting" /\ pc'[c] = "opening"
  <1> DEFINE n == Dispatched(size, slots, ws)
             served == {ws[i] : i \in 1..n}
  <1>1. ws \in Seq(Clients) /\ Len(ws) \in Nat
    BY LenProperties DEF QueueOf
  <1>2. n \in 0..Len(ws)
    BY <1>1, DispatchedBounds
  <1> HIDE DEF n
  <1>3. pc' = [c \in Clients |-> IF c \in served THEN "opening" ELSE status[c]]
    BY DEF Dispatch, n
  <1>4. ASSUME NEW c \in Clients, c \in served PROVE status[c] = "waiting"
    BY <1>1, <1>2, <1>4 DEF QueueOf
  <1> QED
    BY <1>3, <1>4

(* The connection a new wrapper stands for is referenced nowhere.           *)
LEMMA NewConnIsFresh ==
  ASSUME FreshConns # {}
  PROVE  /\ NewConn \in Conns /\ NewConn # NoConn
         /\ NewConn \notin pool /\ NewConn \notin draining /\ NewConn \notin oldConns
         /\ \A c \in Clients : held[c] # NewConn
  <1>1. NewConn \in FreshConns
    BY DEF NewConn
  <1> QED
    BY <1>1, PoolAssumption DEF FreshConns, Referenced

LEMMA ReuseIdleHeld ==
  ASSUME PoolInv, HeldInv, NEW c \in Clients, ReuseIdle(c)
  PROVE  HeldInv'
  <1>1. PICK k \in Idle : inUse' = inUse \cup {k} /\ held' = [held EXCEPT ![c] = k]
    BY DEF ReuseIdle
  <1>2. /\ pool' = pool /\ draining' = draining
        /\ pc' = [pc EXCEPT ![c] = "using"] /\ pc[c] = "idle"
        /\ held \in [Clients -> Conns \cup {NoConn}] /\ pc \in [Clients -> Status]
    BY DEF ReuseIdle, Calls, drainVars, PoolInv, TypeOK
  <1>3. k \in pool /\ k \notin inUse /\ k # NoConn
    BY PoolAssumption DEF Idle, PoolInv, TypeOK
  <1>4. held[c] = NoConn
    BY <1>2 DEF HeldInv
  <1>5. \A d \in Clients : held[d] # k
    BY <1>3 DEF HeldInv, InUseMeansHeld
  <1>6. \A d \in Clients : held'[d] = IF d = c THEN k ELSE held[d]
    BY <1>1, <1>2
  <1>7. ASSUME NEW j \in pool \cup draining
        PROVE  j \in inUse' <=> \E d \in Clients : held'[d] = j
    <2>1. j \in inUse <=> \E d \in Clients : held[d] = j
      BY DEF HeldInv, InUseMeansHeld
    <2>2. CASE j = k
      BY <1>1, <1>6, <2>2
    <2>3. CASE j # k
      <3>1. j # NoConn
        BY PoolAssumption DEF PoolInv, TypeOK
      <3> QED
        BY <1>1, <1>4, <1>6, <2>1, <2>3, <3>1
    <2> QED
      BY <2>2, <2>3
  <1>8. \A d, e \in Clients : held'[d] = held'[e] /\ held'[d] # NoConn => d = e
    BY <1>5, <1>6 DEF HeldInv, InUseMeansHeld
  <1>9. \A d \in Clients : held'[d] # NoConn <=> pc'[d] = "using"
    BY <1>2, <1>3, <1>6 DEF HeldInv
  <1> QED
    BY <1>2, <1>7, <1>8, <1>9 DEF HeldInv, InUseMeansHeld

LEMMA ConnectedHeld ==
  ASSUME PoolInv, HeldInv, NEW c \in Clients, Connected(c)
  PROVE  HeldInv'
  <1> DEFINE status == [pc EXCEPT ![c] = "using"]
             k == NewConn
  <1>1. /\ k \in Conns /\ k # NoConn
        /\ k \notin pool /\ k \notin draining
        /\ \A d \in Clients : held[d] # k
    BY NewConnIsFresh DEF Connected
  <1> HIDE DEF k
  <1>2. /\ pool' = pool \cup {k} /\ draining' = draining
        /\ inUse' = inUse \cup {k}
        /\ held' = [held EXCEPT ![c] = k]
        /\ Dispatch(Cardinality(pool) + 1, creating - 1, waiters, status, instance, building)
        /\ pc[c] = "opening"
    BY DEF Connected, Connecting, drainVars, k
  <1>3. /\ QueueOf(waiters, status)
        /\ creating - 1 \in Nat
        /\ held \in [Clients -> Conns \cup {NoConn}] /\ pc \in [Clients -> Status]
    BY <1>2, OpeningEnds DEF PoolInv, TypeOK
  <1>4. \A d \in Clients : status[d] = IF d = c THEN "using" ELSE pc[d]
    BY <1>3
  <1>5. /\ Cardinality(pool) + 1 \in Nat
        /\ (Cardinality(pool) + 1) + (creating - 1) <= MaxConnections
    BY <1>3, PoolSize
  <1> HIDE DEF status
  <1>6. \A d \in Clients : \/ pc'[d] = status[d]
                           \/ status[d] = "waiting" /\ pc'[d] = "opening"
    BY <1>2, <1>3, <1>5, DispatchMoves
  <1>7. \A d \in Clients : held'[d] = IF d = c THEN k ELSE held[d]
    BY <1>2, <1>3
  <1>8. held[c] = NoConn
    BY <1>2 DEF HeldInv
  <1>9. ASSUME NEW j \in pool' \cup draining'
        PROVE  j \in inUse' <=> \E d \in Clients : held'[d] = j
    <2>1. CASE j = k
      BY <1>2, <1>7, <2>1
    <2>2. CASE j # k
      <3>1. j \in pool \cup draining /\ j # NoConn
        BY <1>2, <2>2, PoolAssumption DEF PoolInv, TypeOK
      <3>2. j \in inUse <=> \E d \in Clients : held[d] = j
        BY <3>1 DEF HeldInv, InUseMeansHeld
      <3> QED
        BY <1>2, <1>7, <1>8, <2>2, <3>1, <3>2
    <2> QED
      BY <2>1, <2>2
  <1>10. \A d, e \in Clients : held'[d] = held'[e] /\ held'[d] # NoConn => d = e
    BY <1>1, <1>7 DEF HeldInv, InUseMeansHeld
  <1>11. \A d \in Clients : held'[d] # NoConn <=> pc'[d] = "using"
    BY <1>1, <1>4, <1>6, <1>7 DEF HeldInv
  <1> QED
    BY <1>9, <1>10, <1>11 DEF HeldInv, InUseMeansHeld

LEMMA ReleaseHeld ==
  ASSUME PoolInv, HeldInv, NEW c \in Clients, Release(c)
  PROVE  HeldInv'
  <1>1. /\ pc \in [Clients -> Status] /\ pc[c] = "using" /\ QueueOf(waiters, pc)
        /\ held \in [Clients -> Conns \cup {NoConn}]
        /\ pool' = pool /\ draining' = draining
        /\ held[c] # NoConn
        /\ NoConn \notin pool \cup draining
    BY PoolAssumption DEF PoolInv, TypeOK, Release, drainVars, HeldInv
  <1>2. CASE held[c] \in pool /\ waiters # <<>>
    <2> DEFINE h == Head(waiters)
    <2>1. /\ pc' = [pc EXCEPT ![c] = "idle", ![h] = "using"]
          /\ held' = [held EXCEPT ![c] = NoConn, ![h] = held[c]]
          /\ inUse' = inUse
      BY <1>2 DEF Release
    <2>2. h \in Clients /\ h # c /\ pc[h] = "waiting" /\ held[h] = NoConn
      <3>1. h = waiters[1] /\ 1 \in 1..Len(waiters) /\ h \in Clients
        BY <1>1, <1>2, EmptySeq DEF QueueOf
      <3>2. pc[h] = "waiting"
        BY <1>1, <3>1 DEF QueueOf
      <3> QED
        BY <1>1, <3>1, <3>2 DEF HeldInv
    <2> HIDE DEF h
    <2>3. \A d \in Clients : /\ held'[d] = IF d = c THEN NoConn
                                           ELSE IF d = h THEN held[c] ELSE held[d]
                             /\ pc'[d] = IF d = c THEN "idle"
                                         ELSE IF d = h THEN "using" ELSE pc[d]
      BY <1>1, <2>1, <2>2
    <2>4. ASSUME NEW j \in pool \cup draining
          PROVE  (\E d \in Clients : held'[d] = j) <=> (\E d \in Clients : held[d] = j)
      <3>1. CASE j = held[c]
        BY <2>2, <2>3, <3>1
      <3>2. CASE j # held[c]
        BY <1>1, <2>2, <2>3, <3>2
      <3> QED
        BY <3>1, <3>2
    <2>5. \A d, e \in Clients : held'[d] = held'[e] /\ held'[d] # NoConn => d = e
      BY <2>3 DEF HeldInv, InUseMeansHeld
    <2>6. \A d \in Clients : held'[d] # NoConn <=> pc'[d] = "using"
      BY <1>1, <2>2, <2>3 DEF HeldInv
    <2> QED
      BY <1>1, <2>1, <2>4, <2>5, <2>6 DEF HeldInv, InUseMeansHeld
  <1>3. CASE ~(held[c] \in pool /\ waiters # <<>>)
    <2>1. /\ pc' = [pc EXCEPT ![c] = "idle"]
          /\ held' = [held EXCEPT ![c] = NoConn]
          /\ inUse' = IF held[c] \in pool \cup draining THEN inUse \ {held[c]} ELSE inUse
      BY <1>3 DEF Release
    <2>2. \A d \in Clients : /\ held'[d] = IF d = c THEN NoConn ELSE held[d]
                             /\ pc'[d] = IF d = c THEN "idle" ELSE pc[d]
      BY <1>1, <2>1
    <2>3. ASSUME NEW j \in pool \cup draining
          PROVE  j \in inUse' <=> \E d \in Clients : held'[d] = j
      <3>1. j \in inUse <=> \E d \in Clients : held[d] = j
        BY DEF HeldInv, InUseMeansHeld
      <3>2. CASE j = held[c]
        <4>1. \A d \in Clients : held'[d] # j
          BY <1>1, <2>2, <3>2 DEF HeldInv, InUseMeansHeld
        <4> QED
          BY <2>1, <3>2, <4>1
      <3>3. CASE j # held[c]
        BY <1>1, <2>1, <2>2, <3>1, <3>3
      <3> QED
        BY <3>2, <3>3
    <2>4. \A d, e \in Clients : held'[d] = held'[e] /\ held'[d] # NoConn => d = e
      BY <2>2 DEF HeldInv, InUseMeansHeld
    <2>5. \A d \in Clients : held'[d] # NoConn <=> pc'[d] = "using"
      BY <2>2 DEF HeldInv
    <2> QED
      BY <1>1, <2>3, <2>4, <2>5 DEF HeldInv, InUseMeansHeld
  <1> QED
    BY <1>2, <1>3

(* A step that gives no connection to a client, takes none back and brings  *)
(* none into the pool.                                                      *)
LEMMA HeldUntouched ==
  ASSUME HeldInv,
         held' = held, inUse' = inUse,
         pool' \cup draining' \subseteq pool \cup draining,
         \A c \in Clients : pc'[c] = "using" <=> pc[c] = "using"
  PROVE  HeldInv'
  BY DEF HeldInv, InUseMeansHeld

LEMMA ReserveSlotHeld ==
  ASSUME PoolInv, HeldInv, NEW c \in Clients, ReserveSlot(c)
  PROVE  HeldInv'
  <1>1. /\ held' = held /\ inUse' = inUse /\ pool' = pool /\ draining' = draining
        /\ pc[c] = "idle" /\ pc' = [pc EXCEPT ![c] = "opening"]
        /\ pc \in [Clients -> Status]
    BY DEF ReserveSlot, Calls, drainVars, PoolInv, TypeOK
  <1> QED
    BY <1>1, HeldUntouched

LEMMA JoinQueueHeld ==
  ASSUME PoolInv, HeldInv, NEW c \in Clients, JoinQueue(c)
  PROVE  HeldInv'
  <1> DEFINE ws == Append(waiters, c)
             status == [pc EXCEPT ![c] = "waiting"]
  <1>1. /\ held' = held /\ inUse' = inUse /\ pool' = pool /\ draining' = draining
        /\ pc[c] = "idle" /\ pc \in [Clients -> Status]
        /\ Dispatch(Cardinality(pool), creating, ws, status, instance, building)
    BY DEF JoinQueue, Calls, drainVars, PoolInv, TypeOK
  <1>2. QueueOf(ws, status)
    BY <1>1, JoinedQueue
  <1>3. \A d \in Clients : status[d] = IF d = c THEN "waiting" ELSE pc[d]
    BY <1>1
  <1> HIDE DEF ws, status
  <1>4. \A d \in Clients : \/ pc'[d] = status[d]
                           \/ status[d] = "waiting" /\ pc'[d] = "opening"
    BY <1>1, <1>2, PoolSize, DispatchMoves
  <1> QED
    BY <1>1, <1>3, <1>4, HeldUntouched

LEMMA LeaveQueueHeld ==
  ASSUME PoolInv, HeldInv, NEW c \in Clients, LeaveQueue(c)
  PROVE  HeldInv'
  <1>1. /\ held' = held /\ inUse' = inUse /\ pool' = pool /\ draining' = draining
        /\ pc' = [pc EXCEPT ![c] = "idle"] /\ pc \in [Clients -> Status]
    BY DEF LeaveQueue, drainVars, PoolInv, TypeOK
  <1>2. pc[c] = "waiting"
    BY DEF LeaveQueue, PoolInv, QueueOf
  <1> QED
    BY <1>1, <1>2, HeldUntouched

LEMMA OpenFailedHeld ==
  ASSUME PoolInv, HeldInv, NEW c \in Clients, OpenFailed(c)
  PROVE  HeldInv'
  <1> DEFINE status == [pc EXCEPT ![c] = "idle"]
  <1>1. /\ held' = held /\ inUse' = inUse /\ pool' = pool /\ draining' = draining
        /\ pc[c] = "opening" /\ pc \in [Clients -> Status]
        /\ Dispatch(Cardinality(pool), creating - 1, waiters, status, instance, building)
    BY DEF OpenFailed, Connecting, drainVars, PoolInv, TypeOK
  <1>2. QueueOf(waiters, status) /\ creating - 1 \in Nat
    BY <1>1, OpeningEnds
  <1>3. Cardinality(pool) \in Nat /\ Cardinality(pool) + (creating - 1) <= MaxConnections
    BY <1>2, PoolSize
  <1>4. \A d \in Clients : status[d] = IF d = c THEN "idle" ELSE pc[d]
    BY <1>1
  <1> HIDE DEF status
  <1>5. \A d \in Clients : \/ pc'[d] = status[d]
                           \/ status[d] = "waiting" /\ pc'[d] = "opening"
    BY <1>1, <1>2, <1>3, DispatchMoves
  <1> QED
    BY <1>1, <1>4, <1>5, HeldUntouched

LEMMA LazyBuildFailedHeld ==
  ASSUME PoolInv, HeldInv, LazyBuildFailed
  PROVE  HeldInv'
  <1> DEFINE slots == creating - Cardinality(AwaitingInstance)
             status == [c \in Clients |-> IF c \in AwaitingInstance THEN "idle" ELSE pc[c]]
  <1>1. /\ held' = held /\ inUse' = inUse /\ pool' = pool /\ draining' = draining
        /\ Dispatch(Cardinality(pool), slots, waiters, status, instance, FALSE)
    BY DEF LazyBuildFailed, drainVars
  <1>2. QueueOf(waiters, status)
    BY DEF PoolInv, TypeOK, QueueOf, AwaitingInstance
  <1>3. slots \in Nat /\ slots <= creating
    BY AwaitingSlots
  <1>4. Cardinality(pool) \in Nat /\ Cardinality(pool) + slots <= MaxConnections
    BY <1>3, PoolSize
  <1>5. \A d \in Clients : status[d] = IF d \in AwaitingInstance THEN "idle" ELSE pc[d]
    OBVIOUS
  <1>6. \A d \in AwaitingInstance : pc[d] = "opening"
    BY DEF AwaitingInstance
  <1> HIDE DEF status, slots
  <1>7. \A d \in Clients : \/ pc'[d] = status[d]
                           \/ status[d] = "waiting" /\ pc'[d] = "opening"
    BY <1>1, <1>2, <1>3, <1>4, DispatchMoves
  <1> QED
    BY <1>1, <1>5, <1>6, <1>7, HeldUntouched

LEMMA ReloadSwapsHeld ==
  ASSUME PoolInv, HeldInv, ReloadSwaps
  PROVE  HeldInv'
  <1>1. /\ held' = held /\ inUse' = inUse /\ pool' = {} /\ draining' = draining \cup pool
        /\ Dispatch(0, creating, waiters, pc, NewInst, building)
        /\ QueueOf(waiters, pc)
    BY DEF ReloadSwaps, PoolInv
  <1>2. 0 \in Nat /\ creating \in Nat /\ 0 + creating <= MaxConnections
    BY PoolSize
  <1>3. \A d \in Clients : \/ pc'[d] = pc[d]
                           \/ pc[d] = "waiting" /\ pc'[d] = "opening"
    BY <1>1, <1>2, DispatchMoves
  <1> QED
    BY <1>1, <1>3, HeldUntouched

(* The steps that change neither the flags nor what clients hold.           *)
LEMMA QuietHeld ==
  ASSUME PoolInv, HeldInv,
         \/ \E c \in Clients : Reconnect(c)
         \/ LazyBuilt \/ ReloadStarts \/ ReloadFails \/ DrainEnds \/ DrainForced \/ Close
         \/ UNCHANGED vars
  PROVE  HeldInv'
  <1>1. held' = held /\ inUse' = inUse
    BY DEF Reconnect, LazyBuilt, ReloadStarts, ReloadFails, DrainEnds, DrainForced,
           DrainCloses, Close, vars, poolVars
  <1>2. pool' \cup draining' \subseteq pool \cup draining
    BY DEF Reconnect, LazyBuilt, ReloadStarts, ReloadFails, DrainEnds, DrainForced,
           DrainCloses, Close, vars, poolVars, drainVars
  <1>3. \A c \in Clients : pc'[c] = "using" <=> pc[c] = "using"
    BY DEF Reconnect, LazyBuilt, ReloadStarts, ReloadFails, DrainEnds, DrainForced,
           DrainCloses, Close, vars
  <1> QED
    BY <1>1, <1>2, <1>3, HeldUntouched

(* Initially nobody holds anything.                                         *)
LEMMA HeldInit == Init => HeldInv
  BY DEF Init, HeldInv, InUseMeansHeld

LEMMA HeldStep == PoolInv /\ HeldInv /\ [Next]_vars => HeldInv'
  <1> SUFFICES ASSUME PoolInv, HeldInv, [Next]_vars PROVE HeldInv'
    OBVIOUS
  <1>1. ASSUME NEW c \in Clients, Acquire(c) PROVE HeldInv'
    BY <1>1, ReuseIdleHeld, ReserveSlotHeld, JoinQueueHeld DEF Acquire
  <1>2. ASSUME NEW c \in Clients, LeaveQueue(c) PROVE HeldInv'
    BY <1>2, LeaveQueueHeld
  <1>3. ASSUME NEW c \in Clients, Opening(c) PROVE HeldInv'
    BY <1>3, ConnectedHeld, QuietHeld, OpenFailedHeld DEF Opening
  <1>4. ASSUME NEW c \in Clients, Release(c) PROVE HeldInv'
    BY <1>4, ReleaseHeld
  <1>5. CASE LazyBuild
    BY <1>5, QuietHeld, LazyBuildFailedHeld DEF LazyBuild
  <1>6. CASE Reload
    BY <1>6, ReloadSwapsHeld, QuietHeld DEF Reload
  <1>7. CASE Close \/ UNCHANGED vars
    BY <1>7, QuietHeld
  <1> QED
    BY <1>1, <1>2, <1>3, <1>4, <1>5, <1>6, <1>7 DEF Next

LEMMA HeldInvariant == Spec => []HeldInv
  <1> QED
    BY HeldInit, HeldStep, PoolInvariant, PTL DEF Spec

(* acquire() never gives a connection to two clients, and inUse marks what  *)
(* is held.                                                                 *)
THEOREM HeldByOne == Spec => []InUseMeansHeld
  <1>1. HeldInv => InUseMeansHeld
    BY DEF HeldInv
  <1> QED
    BY <1>1, HeldInvariant, PTL

-----------------------------------------------------------------------------
(* Which instance the connections are on. *)

(* While the pod serves, the live instance is open and no build is pending, *)
(* every other open instance is the one being drained, the pool holds open  *)
(* connections of the live one, and whatever else a client holds open is    *)
(* in the list the drain will close.                                        *)
LiveInv ==
  /\ reload # "draining" => oldConns = {}
  /\ ~closed =>
       /\ ~building
       /\ instance \in openInsts
       /\ openInsts \subseteq built
       /\ openInsts \ {instance} \subseteq IF reload = "draining" THEN {retiring} ELSE {}
       /\ reload = "draining" => retiring # instance
       /\ \A k \in pool : k \in openConns /\ boundTo[k] = instance
       /\ \A c \in Clients : held[c] \in openConns => held[c] \in pool \cup oldConns
       /\ pool \cap oldConns = {}

(* Steps that leave the connections, the instances and the drain alone; a   *)
(* client may come to hold a pooled connection, or what another held.       *)
LEMMA LiveUntouched ==
  ASSUME LiveInv,
         UNCHANGED <<reload, oldConns, retiring, closed, instance, openInsts, built, pool,
                     openConns, boundTo>>,
         ~closed => ~building',
         \A c \in Clients : held'[c] \in openConns =>
           held'[c] \in pool \cup {held[d] : d \in Clients}
  PROVE  LiveInv'
  BY DEF LiveInv

LEMMA DispatchBuilds ==
  ASSUME TypeOK, LiveInv, ~closed,
         NEW size, NEW slots, NEW ws, NEW status,
         Dispatch(size, slots, ws, status, instance, building)
  PROVE  ~building'
  BY PoolAssumption DEF LiveInv, TypeOK, Dispatch

LEMMA ClientStepLive ==
  ASSUME PoolInv, LiveInv, NEW c \in Clients,
         \/ ReuseIdle(c) \/ ReserveSlot(c) \/ JoinQueue(c) \/ LeaveQueue(c)
         \/ Reconnect(c) \/ OpenFailed(c) \/ Release(c)
  PROVE  LiveInv'
  <1>1. held \in [Clients -> Conns \cup {NoConn}] /\ TypeOK /\ NoConn \notin openConns
    BY PoolAssumption DEF PoolInv, TypeOK
  <1>2. UNCHANGED <<reload, oldConns, retiring, closed, instance, openInsts, built, pool,
                    openConns, boundTo>>
    BY DEF ReuseIdle, ReserveSlot, JoinQueue, LeaveQueue, Reconnect, OpenFailed, Release,
           drainVars, instVars, poolVars
  <1>3. ~closed => ~building'
    <2>1. CASE ReuseIdle(c) \/ LeaveQueue(c) \/ Release(c)
      BY <2>1 DEF ReuseIdle, LeaveQueue, Release, instVars, LiveInv
    <2>2. CASE ReserveSlot(c) \/ Reconnect(c)
      BY <1>1, <2>2, PoolAssumption DEF ReserveSlot, Reconnect, LiveInv, TypeOK
    <2>3. CASE JoinQueue(c)
      BY <1>1, <2>3, DispatchBuilds DEF JoinQueue
    <2>4. CASE OpenFailed(c)
      BY <1>1, <2>4, DispatchBuilds DEF OpenFailed
    <2> QED
      BY <2>1, <2>2, <2>3, <2>4
  <1>4. ASSUME NEW d \in Clients, held'[d] \in openConns
        PROVE  held'[d] \in pool \cup {held[e] : e \in Clients}
    <2>1. CASE ReserveSlot(c) \/ JoinQueue(c) \/ LeaveQueue(c) \/ Reconnect(c)
                 \/ OpenFailed(c)
      BY <2>1 DEF ReserveSlot, JoinQueue, LeaveQueue, Reconnect, OpenFailed
    <2>2. CASE ReuseIdle(c)
      <3>1. PICK k \in pool : held' = [held EXCEPT ![c] = k]
        BY <2>2 DEF ReuseIdle, Idle
      <3> QED
        BY <1>1, <3>1
    <2>3. CASE Release(c)
      <3>1. \/ held' = [held EXCEPT ![c] = NoConn]
            \/ held' = [held EXCEPT ![c] = NoConn, ![Head(waiters)] = held[c]]
        BY <2>3 DEF Release
      <3>2. held'[d] \in {NoConn, held[c], held[d]}
        BY <1>1, <3>1
      <3> QED
        BY <1>1, <1>4, <3>2
    <2> QED
      BY <2>1, <2>2, <2>3
  <1> QED
    BY <1>2, <1>3, <1>4, LiveUntouched

LEMMA ConnectedLive ==
  ASSUME PoolInv, LiveInv, NEW c \in Clients, Connected(c)
  PROVE  LiveInv'
  <1> DEFINE k == NewConn
  <1>1. /\ k \in Conns
        /\ k \notin pool /\ k \notin oldConns
        /\ \A d \in Clients : held[d] # k
    BY NewConnIsFresh DEF Connected
  <1> HIDE DEF k
  <1>2. /\ pool' = pool \cup {k}
        /\ boundTo' = [boundTo EXCEPT ![k] = instance]
        /\ openConns' = openConns \cup {k}
        /\ held' = [held EXCEPT ![c] = k]
        /\ UNCHANGED <<reload, oldConns, retiring, closed, instance, openInsts, built>>
    BY DEF Connected, drainVars, k
  <1>3. /\ boundTo \in [Conns -> Instances \cup {NoInst}] /\ TypeOK
        /\ held \in [Clients -> Conns \cup {NoConn}] /\ pool \subseteq Conns
    BY DEF PoolInv, TypeOK
  <1>4. ~closed => ~building'
    BY <1>3, DispatchBuilds DEF Connected
  <1>5. \A j \in pool : boundTo'[j] = boundTo[j]
    BY <1>1, <1>2, <1>3
  <1>6. boundTo'[k] = instance
    BY <1>1, <1>2, <1>3
  <1>7. \A d \in Clients : held'[d] = IF d = c THEN k ELSE held[d]
    BY <1>2, <1>3
  <1> QED
    BY <1>1, <1>2, <1>4, <1>5, <1>6, <1>7 DEF LiveInv

LEMMA LazyBuildLive ==
  ASSUME PoolInv, LiveInv, LazyBuild
  PROVE  LiveInv'
  <1>1. building
    BY DEF LazyBuild, LazyBuilt, LazyBuildFailed
  <1>2. closed
    BY <1>1 DEF LiveInv
  <1>3. UNCHANGED <<reload, oldConns, closed>>
    BY DEF LazyBuild, LazyBuilt, LazyBuildFailed, drainVars
  <1> QED
    BY <1>2, <1>3 DEF LiveInv

LEMMA ReloadLive ==
  ASSUME PoolInv, LiveInv, Reload
  PROVE  LiveInv'
  <1>1. CASE ReloadStarts \/ ReloadFails
    BY <1>1 DEF ReloadStarts, ReloadFails, instVars, poolVars, LiveInv
  <1>2. CASE ReloadSwaps
    <2>1. NewInst \in Instances \ built
      BY <1>2 DEF ReloadSwaps, NewInst, Unbuilt
    <2>2. /\ reload = "building" /\ oldConns = {}
          /\ instance' = NewInst /\ built' = built \cup {NewInst}
          /\ openInsts' = openInsts \cup {NewInst}
          /\ pool' = {} /\ reload' = "draining" /\ retiring' = instance
          /\ oldConns' = pool
          /\ UNCHANGED <<boundTo, openConns, closed, held>>
      BY <1>2 DEF ReloadSwaps, LiveInv
    <2>3. ~closed => ~building'
      <3>1. NewInst # NoInst
        BY <2>1, PoolAssumption
      <3> QED
        BY <1>2, <3>1 DEF ReloadSwaps, Dispatch, LiveInv
    <2> QED
      BY <2>1, <2>2, <2>3 DEF LiveInv
  <1>3. CASE DrainEnds \/ DrainForced
    <2>1. /\ reload = "draining"
          /\ openConns' = openConns \ oldConns
          /\ openInsts' = openInsts \ {retiring}
          /\ reload' = "none" /\ oldConns' = {}
          /\ UNCHANGED <<instance, building, built, pool, boundTo, closed, held>>
      BY <1>3 DEF DrainEnds, DrainForced, DrainCloses, instVars, poolVars
    <2> QED
      BY <2>1 DEF LiveInv
  <1> QED
    BY <1>1, <1>2, <1>3 DEF Reload

LEMMA LiveInit == Init => LiveInv
  BY DEF Init, LiveInv

LEMMA LiveStep == PoolInv /\ LiveInv /\ [Next]_vars => LiveInv'
  <1> SUFFICES ASSUME PoolInv, LiveInv, [Next]_vars PROVE LiveInv'
    OBVIOUS
  <1>1. ASSUME NEW c \in Clients, Acquire(c) \/ LeaveQueue(c) \/ Opening(c) \/ Release(c)
        PROVE  LiveInv'
    BY <1>1, ClientStepLive, ConnectedLive DEF Acquire, Opening
  <1>2. CASE LazyBuild
    BY <1>2, LazyBuildLive
  <1>3. CASE Reload
    BY <1>3, ReloadLive
  <1>4. CASE Close
    BY <1>4 DEF Close, LiveInv
  <1>5. CASE UNCHANGED vars
    BY <1>5 DEF vars, LiveInv
  <1> QED
    BY <1>1, <1>2, <1>3, <1>4, <1>5 DEF Next

LEMMA LiveInvariant == Spec => []LiveInv
  <1> QED
    BY LiveInit, LiveStep, PoolInvariant, PTL DEF Spec

(* While the pod serves, the pool offers open connections of the live       *)
(* instance only, and outside a reload nothing of a retired one is left.    *)
THEOREM OnlyTheLiveInstance == Spec => []PoolIsLive
  <1>1. LiveInv => PoolIsLive
    BY DEF LiveInv, PoolIsLive
  <1> QED
    BY <1>1, LiveInvariant, PTL

-----------------------------------------------------------------------------
(* The refinement of ServerQueue. *)

(* The servers taken, and the retired ones still held.                      *)
Active == {c \in Clients : pc[c] = "opening" \/ held[c] \in pool}
Retired == {c \in Clients : pc[c] = "using" /\ held[c] \notin pool}

(* A server is taken for each slot reserved and each pooled connection that *)
(* is not idle.                                                             *)
LEMMA ActiveSize ==
  ASSUME PoolInv, HeldInv
  PROVE  /\ IsFiniteSet(Active)
         /\ Cardinality(Idle) \in Nat
         /\ Cardinality(Active) = creating + Cardinality(pool) - Cardinality(Idle)
         /\ Idle # {} => Cardinality(Idle) > 0
  <1> DEFINE Holders == {c \in Clients : held[c] \in pool}
             busy == pool \ Idle
             f == [c \in Holders |-> held[c]]
  <1>1. NoConn \notin pool /\ held \in [Clients -> Conns \cup {NoConn}]
    BY PoolAssumption DEF PoolInv, TypeOK
  <1>2. IsFiniteSet(Clients) /\ IsFiniteSet(pool)
    BY PoolAssumption DEF PoolInv, TypeOK
  <1>3. f \in Bijection(Holders, busy)
    <2>1. \A c \in Holders : held[c] \in busy
      BY DEF HeldInv, InUseMeansHeld, Idle
    <2>2. \A c, d \in Holders : held[c] = held[d] => c = d
      BY <1>1 DEF HeldInv, InUseMeansHeld
    <2>3. \A k \in busy : \E c \in Holders : held[c] = k
      BY DEF HeldInv, InUseMeansHeld, Idle
    <2> QED
      BY <2>1, <2>2, <2>3 DEF Bijection, Injection, Surjection, IsInjective
  <1>4. IsFiniteSet(Holders) /\ IsFiniteSet(busy)
    BY <1>2, FS_Subset DEF Idle
  <1>5. Cardinality(Holders) = Cardinality(busy)
    BY <1>3, <1>4, FS_Bijection DEF ExistsBijection
  <1>6. IsFiniteSet(Idle) /\ Cardinality(Idle) \in Nat
    BY <1>2, FS_Subset, FS_CardinalityType DEF Idle
  <1>7. Cardinality(busy) = Cardinality(pool) - Cardinality(Idle)
    <2>1. pool \cap Idle = Idle
      BY DEF Idle
    <2> QED
      BY <1>2, <2>1, FS_Difference
  <1>8. Active = Openers(pc) \cup Holders /\ Openers(pc) \cap Holders = {}
    BY <1>1 DEF Active, Openers, HeldInv
  <1>9. Cardinality(Active) = creating + Cardinality(Holders)
    <2>1. Cardinality(Active)
             = Cardinality(Openers(pc)) + Cardinality(Holders) - Cardinality({})
      BY <1>4, <1>8, OpenersFinite, FS_Union
    <2>2. Cardinality(Holders) \in Nat
      BY <1>4, FS_CardinalityType
    <2> QED
      BY <2>1, <2>2, PoolSize, FS_EmptySet
  <1>10. Idle # {} => Cardinality(Idle) > 0
    BY <1>6, FS_EmptySet
  <1>11. IsFiniteSet(Active)
    BY <1>2, FS_Subset DEF Active
  <1> QED
    BY <1>5, <1>6, <1>7, <1>9, <1>10, <1>11, PoolSize

(* Who waits has no server, and with a queue every server is taken.         *)
LEMMA QueuedHaveNone ==
  ASSUME PoolInv, HeldInv
  PROVE  /\ waiters # <<>> => Cardinality(Active) = MaxConnections
         /\ \A c \in Clients : pc[c] \in {"idle", "waiting"} =>
               c \notin Active /\ c \notin Retired /\ held[c] \notin pool
         /\ \A c \in Clients : pc[c] = "opening" => held[c] \notin pool
         /\ \A c \in Clients : held[c] \in pool => pc[c] = "using"
  <1>1. NoConn \notin pool
    BY PoolAssumption DEF PoolInv, TypeOK
  <1>2. \A c \in Clients : held[c] # NoConn <=> pc[c] = "using"
    BY DEF HeldInv
  <1>3. waiters # <<>> => Cardinality(Active) = MaxConnections
    <2> SUFFICES ASSUME waiters # <<>> PROVE Cardinality(Active) = MaxConnections
      OBVIOUS
    <2>1. Idle = {}
      BY PoolSize
    <2>2. Cardinality(Idle) = 0
      BY <2>1, FS_EmptySet, Zenon
    <2>3. /\ Cardinality(Active) = creating + Cardinality(pool) - 0
          /\ Cardinality(pool) + creating = MaxConnections
          /\ Cardinality(pool) \in Nat /\ creating \in Nat /\ MaxConnections \in Nat
      BY <2>2, PoolSize, ActiveSize
    <2> QED
      BY <2>3
  <1>4. \A c \in Clients : pc[c] # "using" => held[c] \notin pool
    BY <1>1, <1>2
  <1>5. \A c \in Clients : pc[c] \in {"idle", "waiting"} =>
          pc[c] # "using" /\ pc[c] # "opening"
    OBVIOUS
  <1> QED
    BY <1>3, <1>4, <1>5 DEF Active, Retired

(* ServerQueue counts with the same Cardinality.                            *)
LEMMA SameCardinality == \A S : Queue!Cardinality(S) = Cardinality(S)
  BY DEF Queue!Cardinality, Cardinality

(* Serve(busy) of ServerQueue, in terms of the pool.                        *)
ServesQueue(busy) ==
  \E n \in 0..Len(waiters) :
     /\ n = Len(waiters) \/ Cardinality(busy) + n >= MaxConnections
     /\ n = 0 \/ Cardinality(busy) + n <= MaxConnections
     /\ Active' = busy \cup {waiters[i] : i \in 1..n}
     /\ waiters' = SubSeq(waiters, n + 1, Len(waiters))

(* dispatch() hands the free servers to the head of the queue.              *)
LEMMA DispatchServes ==
  ASSUME NEW size \in Nat, NEW slots \in Nat, NEW status, NEW inst, NEW pending, NEW busy,
         size + slots <= MaxConnections,
         waiters \in Seq(Clients),
         Dispatch(size, slots, waiters, status, inst, pending),
         waiters # <<>> => Cardinality(busy) = size + slots,
         busy \subseteq Clients,
         \A c \in Clients : c \in busy <=> status[c] = "opening" \/ held'[c] \in pool'
  PROVE  ServesQueue(busy)
  <1> DEFINE n == Dispatched(size, slots, waiters)
             served == {waiters[i] : i \in 1..n}
  <1>1. Len(waiters) \in Nat /\ MaxConnections \in Nat
    BY LenProperties, PoolAssumption
  <1>2. /\ n \in 0..Len(waiters)
        /\ size + (slots + n) <= MaxConnections
        /\ n < Len(waiters) => size + (slots + n) = MaxConnections
    BY DispatchedBounds
  <1> HIDE DEF n
  <1>3. /\ waiters' = SubSeq(waiters, n + 1, Len(waiters))
        /\ pc' = [c \in Clients |-> IF c \in served THEN "opening" ELSE status[c]]
    BY DEF Dispatch, n
  <1>4. served \subseteq Clients
    BY <1>1, <1>2
  <1>5. Active' = busy \cup served
    BY <1>3, <1>4 DEF Active
  <1>6. n # 0 \/ n # Len(waiters) => waiters # <<>>
    BY <1>1, <1>2, EmptySeq
  <1>7. n = Len(waiters) \/ Cardinality(busy) + n >= MaxConnections
    BY <1>1, <1>2, <1>6
  <1>8. n = 0 \/ Cardinality(busy) + n <= MaxConnections
    BY <1>1, <1>2, <1>6
  <1> QED
    BY <1>2, <1>3, <1>5, <1>7, <1>8 DEF ServesQueue

(* dispatch() with no free server leaves the queue and the clients alone.   *)
LEMMA DispatchNothing ==
  ASSUME NEW size, NEW slots, NEW ws \in Seq(Clients), NEW status \in [Clients -> Status],
         NEW inst, NEW pending,
         Dispatched(size, slots, ws) = 0,
         Dispatch(size, slots, ws, status, inst, pending)
  PROVE  waiters' = ws /\ pc' = status
  <1> DEFINE n == Dispatched(size, slots, ws)
             served == {ws[i] : i \in 1..n}
  <1>1. /\ waiters' = SubSeq(ws, n + 1, Len(ws))
        /\ pc' = [c \in Clients |-> IF c \in served THEN "opening" ELSE status[c]]
    BY DEF Dispatch
  <1> HIDE DEF n
  <1>2. 1..n = {} /\ n + 1 = 1
    BY DEF n
  <1>3. served = {}
    BY <1>2
  <1> HIDE DEF served
  <1>4. waiters' = ws
    BY <1>1, <1>2, SubSeqFull
  <1>5. pc' = [c \in Clients |-> status[c]]
    BY <1>1, <1>3
  <1> QED
    BY <1>4, <1>5

(* acquire() is the request of a server: at once when nobody waits and a    *)
(* connection is idle or a slot free, in the queue otherwise.               *)
LEMMA AcquireRequests ==
  ASSUME PoolInv, HeldInv, NEW c \in Clients, Acquire(c)
  PROVE  Queue!Request(c)
  <1>1. /\ pc \in [Clients -> Status] /\ held \in [Clients -> Conns \cup {NoConn}]
        /\ waiters \in Seq(Clients) /\ pc[c] = "idle"
        /\ NoConn \notin pool
    BY PoolAssumption DEF Acquire, ReuseIdle, ReserveSlot, JoinQueue, Calls, PoolInv, TypeOK
  <1>2. c \notin Queue!Queued \cup Active \cup Retired /\ held[c] \notin pool
    <2>1. c \notin Queue!Queued
      BY <1>1 DEF Queue!Queued, PoolInv, QueueOf
    <2> QED
      BY <1>1, <2>1, QueuedHaveNone
  <1>3. CASE ReuseIdle(c)
    <2>1. PICK k \in Idle : held' = [held EXCEPT ![c] = k]
      BY <1>3 DEF ReuseIdle
    <2>2. /\ waiters = <<>> /\ waiters' = waiters /\ pool' = pool
          /\ pc' = [pc EXCEPT ![c] = "using"]
      BY <1>3 DEF ReuseIdle
    <2>3. Active' = Active \cup {c}
      BY <1>1, <1>2, <2>1, <2>2 DEF Active, Idle
    <2>4. Retired' = Retired
      BY <1>1, <1>2, <2>1, <2>2 DEF Retired, Idle
    <2>5. Cardinality(Active) < MaxConnections
      <3>1. Idle # {}
        BY <2>1
      <3> QED
        BY <3>1, ActiveSize, PoolSize
    <2> QED
      BY <1>2, <2>2, <2>3, <2>4, <2>5, SameCardinality DEF Queue!Request, Active, Retired
  <1>4. CASE ReserveSlot(c)
    <2>1. /\ waiters = <<>> /\ waiters' = waiters /\ pool' = pool /\ held' = held
          /\ pc' = [pc EXCEPT ![c] = "opening"]
          /\ Cardinality(pool) + creating < MaxConnections
      BY <1>4 DEF ReserveSlot, HasCapacity
    <2>2. Active' = Active \cup {c}
      BY <1>1, <2>1 DEF Active
    <2>3. Retired' = Retired
      BY <1>1, <2>1 DEF Retired
    <2>4. Cardinality(Active) < MaxConnections
      BY <2>1, ActiveSize, PoolSize
    <2> QED
      BY <1>2, <2>1, <2>2, <2>3, <2>4, SameCardinality DEF Queue!Request, Active, Retired
  <1>5. CASE JoinQueue(c)
    <2> DEFINE ws == Append(waiters, c)
               n == Dispatched(Cardinality(pool), creating, ws)
    <2>1. Idle = {} /\ Cardinality(pool) + creating = MaxConnections
      BY <1>5, PoolSize DEF JoinQueue, HasCapacity
    <2>2. n = 0
      BY <2>1, PoolSize DEF Dispatched, HasCapacity
    <2>3. ws \in Seq(Clients) /\ [pc EXCEPT ![c] = "waiting"] \in [Clients -> Status]
      BY <1>1 DEF Status
    <2>4. /\ Dispatch(Cardinality(pool), creating, ws, [pc EXCEPT ![c] = "waiting"],
                      instance, building)
          /\ pool' = pool /\ held' = held
      BY <1>5 DEF JoinQueue
    <2> HIDE DEF ws
    <2>5. waiters' = ws /\ pc' = [pc EXCEPT ![c] = "waiting"]
      BY <2>2, <2>3, <2>4, DispatchNothing
    <2>6. Active' = Active /\ Retired' = Retired
      BY <1>1, <1>2, <2>4, <2>5 DEF Active, Retired
    <2>7. ~(waiters = <<>> /\ Cardinality(Active) < MaxConnections)
      <3>1. Cardinality(Idle) = 0
        BY <2>1, FS_EmptySet, Zenon
      <3> QED
        BY <2>1, <3>1, ActiveSize, PoolSize
    <2> QED
      BY <1>2, <2>5, <2>6, <2>7, SameCardinality DEF Queue!Request, Active, Retired, ws
  <1> QED
    BY <1>3, <1>4, <1>5 DEF Acquire

LEMMA LeaveQueueWithdraws ==
  ASSUME PoolInv, HeldInv, NEW c \in Clients, LeaveQueue(c)
  PROVE  Queue!Withdraw(c)
  <1>1. /\ pc \in [Clients -> Status] /\ pc' = [pc EXCEPT ![c] = "idle"]
        /\ pool' = pool /\ held' = held /\ pc[c] = "waiting"
    BY DEF LeaveQueue, PoolInv, TypeOK, QueueOf
  <1>2. Active' = Active /\ Retired' = Retired
    BY <1>1 DEF Active, Retired
  <1>3. \E i \in 1..Len(waiters) :
          /\ waiters[i] = c
          /\ waiters' = SubSeq(waiters, 1, i - 1) \o SubSeq(waiters, i + 1, Len(waiters))
    BY DEF LeaveQueue, RemoveAt
  <1> QED
    BY <1>2, <1>3 DEF Queue!Withdraw, Active, Retired

(* connect() succeeding turns a slot into a connection: the same client has *)
(* the same server, and nobody else gets one.                               *)
LEMMA ConnectedStutters ==
  ASSUME PoolInv, HeldInv, NEW c \in Clients, Connected(c)
  PROVE  UNCHANGED <<waiters, Active, Retired>>
  <1> DEFINE k == NewConn
  <1>1. k # NoConn /\ k \notin pool /\ \A d \in Clients : held[d] # k
    BY NewConnIsFresh DEF Connected
  <1> HIDE DEF k
  <1>2. /\ pool' = pool \cup {k} /\ held' = [held EXCEPT ![c] = k]
        /\ Dispatch(Cardinality(pool) + 1, creating - 1, waiters, [pc EXCEPT ![c] = "using"],
                    instance, building)
        /\ pc[c] = "opening"
    BY DEF Connected, Connecting, k
  <1>3. /\ pc \in [Clients -> Status] /\ held \in [Clients -> Conns \cup {NoConn}]
        /\ waiters \in Seq(Clients)
    BY DEF PoolInv, TypeOK
  <1>4. Dispatched(Cardinality(pool) + 1, creating - 1, waiters) = 0
    BY PoolSize, EmptySeq DEF Dispatched, HasCapacity
  <1>5. [pc EXCEPT ![c] = "using"] \in [Clients -> Status]
    BY <1>3 DEF Status
  <1>6. waiters' = waiters /\ pc' = [pc EXCEPT ![c] = "using"]
    BY <1>2, <1>3, <1>4, <1>5, DispatchNothing
  <1>7. Active' = Active
    BY <1>1, <1>2, <1>3, <1>6 DEF Active
  <1>8. Retired' = Retired
    BY <1>1, <1>2, <1>3, <1>6 DEF Retired
  <1> QED
    BY <1>6, <1>7, <1>8

(* A step in which servers come free, in the terms of the pool.             *)
LEMMA FinishServes ==
  ASSUME NEW S \in SUBSET Active, S # {}, ServesQueue(Active \ S), Retired' = Retired
  PROVE  Queue!Next
  BY SameCardinality
     DEF Queue!Next, Queue!Finish, Queue!Serve, ServesQueue, Active, Retired

(* A step in which the servers of S are retired.                            *)
LEMMA RetireServes ==
  ASSUME NEW S \in SUBSET Active, ServesQueue(Active \ S), Retired' = Retired \cup S
  PROVE  Queue!Next
  BY SameCardinality
     DEF Queue!Next, Queue!Retire, Queue!Serve, ServesQueue, Active, Retired

(* A failed opening gives its server back, to the head of the queue.        *)
LEMMA OpenFailedFinishes ==
  ASSUME PoolInv, HeldInv, NEW c \in Clients, OpenFailed(c)
  PROVE  Queue!Next
  <1> DEFINE status == [pc EXCEPT ![c] = "idle"]
  <1>1. /\ held' = held /\ pool' = pool
        /\ pc[c] = "opening" /\ pc \in [Clients -> Status]
        /\ waiters \in Seq(Clients)
        /\ Dispatch(Cardinality(pool), creating - 1, waiters, status, instance, building)
    BY DEF OpenFailed, Connecting, PoolInv, TypeOK
  <1>2. QueueOf(waiters, status) /\ creating - 1 \in Nat
    BY <1>1, OpeningEnds
  <1>3. Cardinality(pool) \in Nat /\ Cardinality(pool) + (creating - 1) <= MaxConnections
    BY <1>2, PoolSize
  <1>4. c \in Active /\ held[c] \notin pool
    BY <1>1, QueuedHaveNone DEF Active
  <1>5. /\ Active \ {c} \subseteq Clients
        /\ \A d \in Clients :
             d \in Active \ {c} <=> status[d] = "opening" \/ held'[d] \in pool'
    BY <1>1, <1>4 DEF Active
  <1>6. waiters # <<>> => Cardinality(Active \ {c}) = Cardinality(pool) + (creating - 1)
    <2>1. Cardinality(Active \ {c}) = Cardinality(Active) - 1
      BY <1>4, ActiveSize, FS_RemoveElement
    <2> QED
      BY <2>1, PoolSize, QueuedHaveNone
  <1>7. \A d \in Clients : status[d] = IF d = c THEN "idle" ELSE pc[d]
    BY <1>1
  <1> HIDE DEF status
  <1>8. ServesQueue(Active \ {c})
    BY <1>1, <1>2, <1>3, <1>5, <1>6, DispatchServes
  <1>9. \A d \in Clients : \/ pc'[d] = status[d]
                           \/ status[d] = "waiting" /\ pc'[d] = "opening"
    BY <1>1, <1>2, <1>3, DispatchMoves
  <1>10. Retired' = Retired
    BY <1>1, <1>7, <1>9 DEF Retired
  <1> QED
    BY <1>4, <1>8, <1>10, FinishServes

(* A failed lazy build gives the servers of the openings it rejects back.   *)
LEMMA LazyBuildFailedFinishes ==
  ASSUME PoolInv, HeldInv, LazyBuildFailed
  PROVE  Queue!Next
  <1> DEFINE slots == creating - Cardinality(AwaitingInstance)
             status == [c \in Clients |-> IF c \in AwaitingInstance THEN "idle" ELSE pc[c]]
  <1>1. PICK S : S = AwaitingInstance
    OBVIOUS
  <1>2. /\ held' = held /\ pool' = pool /\ waiters \in Seq(Clients)
        /\ Dispatch(Cardinality(pool), slots, waiters, status, instance, FALSE)
    BY DEF LazyBuildFailed, PoolInv, TypeOK
  <1>3. QueueOf(waiters, status)
    BY DEF PoolInv, TypeOK, QueueOf, AwaitingInstance
  <1>4. slots \in Nat /\ slots <= creating
    BY AwaitingSlots
  <1>5. Cardinality(pool) \in Nat /\ Cardinality(pool) + slots <= MaxConnections
    BY <1>4, PoolSize
  <1>6. \A d \in Clients : status[d] = IF d \in AwaitingInstance THEN "idle" ELSE pc[d]
    OBVIOUS
  <1>7. /\ AwaitingInstance \subseteq Clients
        /\ \A d \in AwaitingInstance : pc[d] = "opening" /\ held[d] \notin pool
    BY QueuedHaveNone DEF AwaitingInstance
  <1>8. AwaitingInstance \subseteq Active /\ IsFiniteSet(AwaitingInstance)
    BY <1>7, ActiveSize, FS_Subset DEF Active
  <1>9. waiters # <<>> => Cardinality(Active \ AwaitingInstance) = Cardinality(pool) + slots
    <2>1. Active \cap AwaitingInstance = AwaitingInstance
      BY <1>8
    <2>2. Cardinality(Active \ AwaitingInstance)
             = Cardinality(Active) - Cardinality(AwaitingInstance)
      <3>1. Cardinality(Active \ AwaitingInstance)
               = Cardinality(Active) - Cardinality(Active \cap AwaitingInstance)
        BY ActiveSize, FS_Difference
      <3> QED
        BY <2>1, <3>1, Zenon
    <2>3. Cardinality(AwaitingInstance) \in Nat
      BY <1>8, FS_CardinalityType
    <2> QED
      BY <2>2, <2>3, PoolSize, QueuedHaveNone
  <1> HIDE DEF status
  <1>10. /\ Active \ AwaitingInstance \subseteq Clients
         /\ \A d \in Clients :
              d \in Active \ AwaitingInstance <=> status[d] = "opening" \/ held'[d] \in pool'
    BY <1>2, <1>6, <1>7 DEF Active
  <1> HIDE DEF slots
  <1>11. ServesQueue(Active \ AwaitingInstance)
    BY <1>2, <1>4, <1>5, <1>9, <1>10, DispatchServes
  <1>12. \A d \in Clients : \/ pc'[d] = status[d]
                            \/ status[d] = "waiting" /\ pc'[d] = "opening"
    BY <1>2, <1>3, <1>4, <1>5, DispatchMoves
  <1>13. Retired' = Retired
    BY <1>2, <1>6, <1>7, <1>12 DEF Retired
  <1>14. S \in SUBSET Active /\ ServesQueue(Active \ S)
    BY <1>1, <1>8, <1>11
  <1>15. CASE S = {}
    BY <1>13, <1>14, <1>15, RetireServes
  <1>16. CASE S # {}
    BY <1>13, <1>14, <1>16, FinishServes
  <1> QED
    BY <1>15, <1>16

(* release() gives a server back, which the head of the queue takes over    *)
(* with the connection; a connection that left the pool was a retired one.  *)
LEMMA ReleaseFinishes ==
  ASSUME PoolInv, HeldInv, NEW c \in Clients, Release(c)
  PROVE  Queue!Next
  <1>1. /\ pc \in [Clients -> Status] /\ pc[c] = "using" /\ QueueOf(waiters, pc)
        /\ held \in [Clients -> Conns \cup {NoConn}] /\ waiters \in Seq(Clients)
        /\ pool' = pool /\ NoConn \notin pool
    BY PoolAssumption DEF PoolInv, TypeOK, Release
  <1>2. CASE held[c] \in pool /\ waiters # <<>>
    <2> DEFINE h == Head(waiters)
    <2>1. /\ pc' = [pc EXCEPT ![c] = "idle", ![h] = "using"]
          /\ held' = [held EXCEPT ![c] = NoConn, ![h] = held[c]]
          /\ waiters' = Tail(waiters)
      BY <1>2 DEF Release
    <2>2. Len(waiters) \in Nat /\ Len(waiters) > 0 /\ h = waiters[1]
      BY <1>1, <1>2, EmptySeq
    <2>3. h \in Clients /\ pc[h] = "waiting" /\ h # c
      <3>1. 1 \in 1..Len(waiters)
        BY <2>2
      <3> QED
        BY <1>1, <2>2, <3>1 DEF QueueOf
    <2>4. waiters' = SubSeq(waiters, 2, Len(waiters))
      BY <1>1, <1>2, <2>1, TailIsSubSeq
    <2> HIDE DEF h
    <2>5. \A d \in Clients : /\ held'[d] = IF d = c THEN NoConn
                                           ELSE IF d = h THEN held[c] ELSE held[d]
                             /\ pc'[d] = IF d = c THEN "idle"
                                         ELSE IF d = h THEN "using" ELSE pc[d]
      BY <1>1, <2>1, <2>3
    <2>6. c \in Active
      BY <1>2 DEF Active
    <2>7. Active' = (Active \ {c}) \cup {h}
      BY <1>1, <1>2, <2>3, <2>5 DEF Active
    <2>8. Retired' = Retired
      BY <1>1, <1>2, <2>3, <2>5 DEF Retired
    <2>9. Cardinality(Active \ {c}) + 1 = MaxConnections
      <3>1. Cardinality(Active \ {c}) = Cardinality(Active) - 1
        BY <2>6, ActiveSize, FS_RemoveElement
      <3> QED
        BY <1>2, <3>1, PoolSize, QueuedHaveNone
    <2>10. ServesQueue(Active \ {c})
      <3>1. {waiters[i] : i \in 1..1} = {h}
        BY <2>2
      <3>2. 1 \in 0..Len(waiters) /\ 1 + 1 = 2
        BY <2>2
      <3>3. MaxConnections \in Nat
        BY PoolAssumption
      <3>4. Cardinality(Active \ {c}) + 1 >= MaxConnections
        BY <2>9, <3>3
      <3>5. Cardinality(Active \ {c}) + 1 <= MaxConnections
        BY <2>9, <3>3
      <3>6. Active' = (Active \ {c}) \cup {waiters[i] : i \in 1..1}
        BY <2>7, <3>1, Zenon
      <3>7. waiters' = SubSeq(waiters, 1 + 1, Len(waiters))
        BY <2>4, <3>2
      <3> QED
        BY <3>2, <3>4, <3>5, <3>6, <3>7 DEF ServesQueue
    <2> QED
      BY <2>6, <2>8, <2>10, FinishServes
  <1>3. CASE held[c] \in pool /\ waiters = <<>>
    <2>1. /\ pc' = [pc EXCEPT ![c] = "idle"]
          /\ held' = [held EXCEPT ![c] = NoConn]
          /\ waiters' = waiters
      BY <1>3 DEF Release
    <2>2. c \in Active
      BY <1>3 DEF Active
    <2>3. Active' = Active \ {c}
      BY <1>1, <2>1 DEF Active
    <2>4. Retired' = Retired
      BY <1>1, <1>3, <2>1 DEF Retired
    <2>5. ServesQueue(Active \ {c})
      <3>1. Len(waiters) = 0
        BY <1>3, EmptySeq
      <3>2. 1..0 = {} /\ 0 \in 0..0
        OBVIOUS
      <3>3. {waiters[i] : i \in 1..0} = {}
        BY <3>2
      <3>4. waiters' = SubSeq(waiters, 0 + 1, Len(waiters))
        BY <1>1, <2>1, <3>1, SubSeqFull
      <3> QED
        BY <2>3, <3>1, <3>2, <3>3, <3>4 DEF ServesQueue
    <2> QED
      BY <2>2, <2>4, <2>5, FinishServes
  <1>4. CASE held[c] \notin pool
    <2>1. /\ pc' = [pc EXCEPT ![c] = "idle"]
          /\ held' = [held EXCEPT ![c] = NoConn]
          /\ waiters' = waiters
      BY <1>4 DEF Release
    <2>2. c \in Retired /\ Retired' = Retired \ {c}
      BY <1>1, <1>4, <2>1 DEF Retired
    <2>3. Active' = Active
      BY <1>1, <1>4, <2>1 DEF Active
    <2> QED
      BY <2>1, <2>2, <2>3 DEF Queue!Next, Queue!FinishRetired, Active, Retired
  <1> QED
    BY <1>2, <1>3, <1>4

(* The swap of a reload retires every pooled connection at once.            *)
LEMMA ReloadSwapsRetires ==
  ASSUME PoolInv, HeldInv, ReloadSwaps
  PROVE  Queue!Next
  <1>1. PICK S : S = {c \in Clients : held[c] \in pool}
    OBVIOUS
  <1>2. /\ held' = held /\ pool' = {} /\ waiters \in Seq(Clients)
        /\ Dispatch(0, creating, waiters, pc, NewInst, building)
        /\ QueueOf(waiters, pc)
    BY DEF ReloadSwaps, PoolInv, TypeOK
  <1>3. 0 \in Nat /\ creating \in Nat /\ 0 + creating <= MaxConnections
    BY PoolSize
  <1>4. S \subseteq Active
    BY <1>1 DEF Active
  <1>5. Active \ S = Openers(pc)
    BY <1>1, QueuedHaveNone DEF Active, Openers
  <1>6. /\ Active \ S \subseteq Clients
        /\ \A d \in Clients : d \in Active \ S <=> pc[d] = "opening" \/ held'[d] \in pool'
    BY <1>2, <1>5 DEF Openers
  <1>7. waiters # <<>> => Cardinality(Active \ S) = 0 + creating
    <2>1. Cardinality(Active \ S) = Cardinality(Openers(pc))
      BY <1>5, Zenon
    <2> QED
      BY <2>1, PoolSize
  <1>8. ServesQueue(Active \ S)
    BY <1>2, <1>3, <1>6, <1>7, DispatchServes
  <1>9. \A d \in Clients : \/ pc'[d] = pc[d]
                           \/ pc[d] = "waiting" /\ pc'[d] = "opening"
    BY <1>2, <1>3, DispatchMoves
  <1>10. Retired' = Retired \cup S
    BY <1>1, <1>2, <1>9, QueuedHaveNone DEF Retired
  <1> QED
    BY <1>4, <1>8, <1>10, RetireServes

(* close() dismisses the queue and withdraws the pooled connections.        *)
LEMMA CloseDismisses ==
  ASSUME PoolInv, HeldInv, Close
  PROVE  Queue!Next
  <1>1. PICK S : S = {c \in Clients : held[c] \in pool}
    OBVIOUS
  <1>2. /\ held' = held /\ pool' = {} /\ waiters' = <<>>
        /\ pc' = [c \in Clients |-> IF pc[c] = "waiting" THEN "idle" ELSE pc[c]]
    BY DEF Close
  <1>3. S \subseteq Active
    BY <1>1 DEF Active
  <1>4. Active' = Active \ S
    BY <1>1, <1>2, QueuedHaveNone DEF Active
  <1>5. Retired' = Retired \cup S
    BY <1>1, <1>2, QueuedHaveNone DEF Retired
  <1> QED
    BY <1>2, <1>3, <1>4, <1>5 DEF Queue!Next, Queue!Dismiss, Active, Retired

(* The steps no caller of the pool sees.                                    *)
LEMMA HiddenStutters ==
  ASSUME \/ \E c \in Clients : Reconnect(c)
         \/ LazyBuilt \/ ReloadStarts \/ ReloadFails \/ DrainEnds \/ DrainForced
         \/ UNCHANGED vars
  PROVE  UNCHANGED <<waiters, Active, Retired>>
  <1>1. UNCHANGED <<waiters, pool, pc, held>>
    BY DEF Reconnect, LazyBuilt, ReloadStarts, ReloadFails, DrainEnds, DrainForced,
           DrainCloses, vars, poolVars
  <1> QED
    BY <1>1 DEF Active, Retired

LEMMA QueueInit == Init => Queue!Init
  BY PoolAssumption DEF Init, Queue!Init

(* Every step of the pool is a step of ServerQueue, or a stutter.           *)
LEMMA QueueStep == PoolInv /\ HeldInv /\ [Next]_vars => [Queue!Next]_(Queue!vars)
  <1> SUFFICES ASSUME PoolInv, HeldInv, [Next]_vars
               PROVE  Queue!Next \/ UNCHANGED <<waiters, Active, Retired>>
    BY DEF Queue!vars, Active, Retired
  <1>1. ASSUME NEW c \in Clients, Acquire(c) PROVE Queue!Next
    BY <1>1, AcquireRequests DEF Queue!Next
  <1>2. ASSUME NEW c \in Clients, LeaveQueue(c) PROVE Queue!Next
    BY <1>2, LeaveQueueWithdraws DEF Queue!Next
  <1>3. ASSUME NEW c \in Clients, Opening(c)
        PROVE  Queue!Next \/ UNCHANGED <<waiters, Active, Retired>>
    BY <1>3, ConnectedStutters, HiddenStutters, OpenFailedFinishes DEF Opening
  <1>4. ASSUME NEW c \in Clients, Release(c) PROVE Queue!Next
    BY <1>4, ReleaseFinishes
  <1>5. CASE LazyBuild
    BY <1>5, HiddenStutters, LazyBuildFailedFinishes DEF LazyBuild
  <1>6. CASE Reload
    BY <1>6, HiddenStutters, ReloadSwapsRetires DEF Reload
  <1>7. CASE Close
    BY <1>7, CloseDismisses
  <1>8. CASE UNCHANGED vars
    BY <1>8, HiddenStutters
  <1> QED
    BY <1>1, <1>2, <1>3, <1>4, <1>5, <1>6, <1>7, <1>8 DEF Next

(* acquire(), release(), reload() and close() of DuckDBPool together behave *)
(* as MaxConnections servers with one first-come first-served queue.        *)
THEOREM PoolRefinesServerQueue == Spec => ImplementsServerQueue
  <1> QED
    BY QueueInit, QueueStep, PoolInvariant, HeldInvariant, PTL
       DEF Spec, ImplementsServerQueue, Queue!Spec

=============================================================================
