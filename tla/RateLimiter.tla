------------------------------ MODULE RateLimiter ------------------------------
(***************************************************************************)
(* security/rate-limiter.ts: the in-memory limiter of one process, a       *)
(* sliding window of Window ms for the sustained rate and a burst counter  *)
(* reset every BurstWindow ms, with its periodic cleanup.  checkLimit has  *)
(* no await, so a check is one step.                                       *)
(*                                                                         *)
(* Time is in milliseconds and does not go back.  The requests let through *)
(* and the delay announced to a refused client are kept beside the store,  *)
(* for the properties.                                                     *)
(***************************************************************************)
EXTENDS Integers, Sequences, FiniteSets, FiniteSetsExt

CONSTANTS Clients,       \* client addresses
          MaxRequests, Window,
          MaxBurst, BurstWindow,
          MaxTime        \* bound on the clock

LimiterAssumption ==
  /\ {MaxRequests, Window, MaxBurst, BurstWindow, MaxTime} \subseteq Nat \ {0}
  /\ Window >= BurstWindow      \* as in every configuration of config/security.yaml

VARIABLES
  now,
  store,    \* the entry of each client that has one
  granted,  \* the instants at which requests of each client were let through
  told      \* the instant until which a refusal asked each client to wait

vars == <<now, store, granted, told>>

Times == 0..MaxTime
NotTold == -1
NoEntry == [requests |-> <<>>, burst |-> 0, reset |-> -1]

TypeOK ==
  /\ now \in Times
  /\ DOMAIN store \subseteq Clients
  /\ \A c \in DOMAIN store :
       /\ store[c] \in [requests : Seq(Times), burst : 0..MaxBurst, reset : 0..now]
       /\ Len(store[c].requests) <= MaxRequests
  /\ granted \in [Clients -> Seq(Times)]
  /\ told \in [Clients -> Int]

Init ==
  /\ now = 0
  /\ store = [c \in {} |-> NoEntry]
  /\ granted = [c \in Clients |-> <<>>]
  /\ told = [c \in Clients |-> NotTold]

-----------------------------------------------------------------------------
Entry(c) == IF c \in DOMAIN store THEN store[c] ELSE [NoEntry EXCEPT !.reset = now]

(* Those still in the window.  Instants are appended as time goes on, so    *)
(* the filter drops the first ones.                                         *)
Recent(requests) ==
  LET expired == {i \in 1..Len(requests) : now - requests[i] >= Window}
  IN  SubSeq(requests, Cardinality(expired) + 1, Len(requests))

(* The entry of c as a check at this instant sees it.                       *)
Current(c) ==
  LET e == [Entry(c) EXCEPT !.requests = Recent(@)]
  IN  IF now - e.reset > BurstWindow THEN [e EXCEPT !.burst = 0, !.reset = now] ELSE e

SustainedOver(e) == Len(e.requests) >= MaxRequests

BurstOver(e) == e.burst >= MaxBurst
Over(e) == SustainedOver(e) \/ BurstOver(e)

(* The delay announced: the longest of those of the limits exceeded.        *)
Delays(e) ==
  (IF SustainedOver(e) THEN {Window - (now - e.requests[1])} ELSE {})
  \cup (IF BurstOver(e) THEN {BurstWindow - (now - e.reset)} ELSE {})

RetryAfter(e) == Max({0} \cup Delays(e))

Put(c, e) == [k \in DOMAIN store \cup {c} |-> IF k = c THEN e ELSE store[k]]

-----------------------------------------------------------------------------
(* checkLimit().                                                            *)

Allow(c) ==
  LET e == Current(c) IN
    /\ ~Over(e)
    /\ store' = Put(c, [e EXCEPT !.requests = Append(@, now), !.burst = @ + 1])
    /\ granted' = [granted EXCEPT ![c] = Append(@, now)]
    /\ told' = [told EXCEPT ![c] = NotTold]
    /\ UNCHANGED now

Refuse(c) ==
  LET e == Current(c) IN
    /\ Over(e)
    /\ store' = Put(c, e)
    /\ told' = [told EXCEPT ![c] = now + RetryAfter(e)]
    /\ UNCHANGED <<now, granted>>

(* The cleanup timer, which may run late: an entry goes once all its        *)
(* requests have expired.                                                   *)
Cleanup ==
  LET dead == {c \in DOMAIN store : \A i \in 1..Len(store[c].requests) :
                                      now - store[c].requests[i] > Window} IN
    /\ dead # {}
    /\ store' = [c \in DOMAIN store \ dead |-> store[c]]
    /\ UNCHANGED <<now, granted, told>>

Tick == now < MaxTime /\ now' = now + 1 /\ UNCHANGED <<store, granted, told>>

Next == (\E c \in Clients : Allow(c) \/ Refuse(c)) \/ Cleanup \/ Tick

Spec == Init /\ [][Next]_vars

-----------------------------------------------------------------------------
(* Properties *)

(* The sustained limit is a true sliding window, whatever the refusals and  *)
(* the cleanups in between: no WINDOW_MS milliseconds hold more than        *)
(* MAX_REQUESTS requests that checkLimit allowed.                           *)
SustainedLimit ==
  \A c \in Clients : \A i \in 1..Len(granted[c]) - MaxRequests :
    granted[c][i + MaxRequests] - granted[c][i] >= Window

(* The burst limit is not: its counter restarts with the first check after  *)
(* the window, so what any BURST_WINDOW_MS + 1 milliseconds can hold is     *)
(* twice MAX_BURST_REQUESTS.                                                *)
BurstLimit ==
  \A c \in Clients : \A i \in 1..Len(granted[c]) - 2 * MaxBurst :
    granted[c][i + 2 * MaxBurst] - granted[c][i] > BurstWindow

(* A client that waits longer than a refusal asked it to is served, whether *)
(* its entry was cleaned up meanwhile or not.                               *)
WaitingLongerIsEnough ==
  \A c \in Clients : told[c] # NotTold /\ now > told[c] => ~Over(Current(c))

=============================================================================
