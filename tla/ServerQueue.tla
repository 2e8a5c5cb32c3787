----------------------------- MODULE ServerQueue -----------------------------
(***************************************************************************)
(* What the connection pool promises to its callers, without connections,  *)
(* instances or promises: MaxConnections servers and one first-come        *)
(* first-served queue.                                                     *)
(*                                                                         *)
(*   - a request is served at once when a server is free and nobody waits, *)
(*     and joins the queue otherwise;                                      *)
(*   - whenever servers come free, the head of the queue takes them in the *)
(*     same step, so a request never waits beside a free server;           *)
(*   - servers may be retired together: the clients they serve keep them   *)
(*     until they are done, and as many new servers are available at once; *)
(*   - a queued client may give up, and the queue may be dismissed.        *)
(*                                                                         *)
(* ConnectionPool is shown to implement this module.                       *)
(***************************************************************************)
EXTENDS Naturals, Sequences, FiniteSets

CONSTANTS
  Clients,         \* the callers of the pool
  MaxConnections   \* the number of servers

VARIABLES
  queue,    \* the clients waiting, oldest first
  active,   \* the clients holding one of the MaxConnections servers
  retired   \* the clients still holding a retired server

vars == <<queue, active, retired>>

Queued == {queue[i] : i \in 1..Len(queue)}

TypeOK ==
  /\ queue \in Seq(Clients)
  /\ active \subseteq Clients
  /\ retired \subseteq Clients

Init ==
  /\ queue = <<>>
  /\ active = {}
  /\ retired = {}

(* With the servers of `busy` taken, the oldest waiting clients take the   *)
(* free ones, as many as there are.                                        *)
Serve(busy) ==
  \E n \in 0..Len(queue) :
     /\ \/ n = Len(queue)
        \/ Cardinality(busy) + n >= MaxConnections
     /\ n = 0 \/ Cardinality(busy) + n <= MaxConnections
     /\ active' = busy \cup {queue[i] : i \in 1..n}
     /\ queue' = SubSeq(queue, n + 1, Len(queue))

Request(c) ==
  /\ c \notin Queued \cup active \cup retired
  /\ IF queue = <<>> /\ Cardinality(active) < MaxConnections
       THEN active' = active \cup {c} /\ UNCHANGED queue
       ELSE queue' = Append(queue, c) /\ UNCHANGED active
  /\ UNCHANGED retired

(* Clients give their servers back, or fail to get them working.           *)
Finish(done) ==
  /\ done # {}
  /\ Serve(active \ done)
  /\ UNCHANGED retired

FinishRetired(c) ==
  /\ c \in retired
  /\ retired' = retired \ {c}
  /\ UNCHANGED <<queue, active>>

(* The servers of `gone` are replaced; their clients keep the old ones.    *)
Retire(gone) ==
  /\ retired' = retired \cup gone
  /\ Serve(active \ gone)

Withdraw(c) ==
  /\ \E i \in 1..Len(queue) :
        /\ queue[i] = c
        /\ queue' = SubSeq(queue, 1, i - 1) \o SubSeq(queue, i + 1, Len(queue))
  /\ UNCHANGED <<active, retired>>

(* The queue is sent away and the servers of `gone` withdrawn.             *)
Dismiss(gone) ==
  /\ queue' = <<>>
  /\ active' = active \ gone
  /\ retired' = retired \cup gone

Next ==
  \/ \E c \in Clients : Request(c) \/ FinishRetired(c) \/ Withdraw(c)
  \/ \E S \in SUBSET active : Finish(S) \/ Retire(S) \/ Dismiss(S)

Spec == Init /\ [][Next]_vars

=============================================================================
