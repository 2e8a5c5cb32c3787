----------------------------- MODULE RequestBudgets -----------------------------
(***************************************************************************)
(* What rations the requests of a client: a limiter with its window        *)
(* (RateLimiter), and the chain of middlewares that asks one of two        *)
(* limiters, each a budget for a window, before the key is compared and    *)
(* before a document is priced (Admission).                                *)
(***************************************************************************)
EXTENDS Integers, FiniteSets

CONSTANTS
  Callers, MaxRequests, Window, MaxBurst, BurstWindow, MaxTime,   \* those of RateLimiter
  Requests, Kinds, Addresses, Proxies, Listed, Budgets, Unasked,  \* those of Admission
  TooDeep(_), TooExpensive(_)

VARIABLES
  now, store, granted, told,
  keySet, enabled, stopping, kindOf, place, status, used, failures, compared

Limits == INSTANCE RateLimiter WITH Clients <- Callers
Chain == INSTANCE Admission WITH Clients <- Addresses, asked <- kindOf

ASSUME WindowAssumption == Limits!LimiterAssumption

(* A budget is a number, and no request is "not arrived".                   *)
ASSUME BudgetsAssumption ==
  /\ IsFiniteSet(Requests)
  /\ \A l \in Chain!Limiters : Budgets[l] \in Nat
  /\ Unasked \notin Kinds

(* x-forwarded-for: what follows the address of the sender was written by   *)
(* trusted proxies, and the sender is none.                                 *)
ASSUME HopsAssumption ==
  \A k \in Kinds :
    /\ DOMAIN k.hops \subseteq Nat \ {0}
    /\ k.sender \in Addresses \ Proxies
    /\ \E i \in DOMAIN k.hops :
         /\ k.hops[i] = k.sender
         /\ \A j \in DOMAIN k.hops : j > i => k.hops[j] \in Proxies

-----------------------------------------------------------------------------
(* What a client may do is bounded.  RateLimiter: both limits are kept, and *)
(* who waits longer than a refusal says is served.  Admission: the admin    *)
(* budget bounds the keys compared, the public one the operations and       *)
(* exports of a client, whatever addresses it claims.                       *)
BudgetsAreKept ==
  /\ Limits!SustainedLimit /\ Limits!BurstLimit /\ Limits!WaitingLongerIsEnough
  /\ Chain!KeysAreRationed /\ Chain!OneBudget

=============================================================================
