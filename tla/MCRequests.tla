-------------------------------- MODULE MCRequests --------------------------------
(***************************************************************************)
(* What stands between a request and its handler, and the routes that      *)
(* flush the cache, in one run.  A behaviour is that of one instance,      *)
(* chosen by the initial state, while the others stay where they are: the  *)
(* manual flushes (CacheInvalidation), one limiter (RateLimiter), the      *)
(* chain of middlewares with two requests, or with one that may carry any  *)
(* of many documents (Admission).                                          *)
(***************************************************************************)
EXTENDS MCCacheInvalidation, MCDocuments, RequestBudgets

CONSTANTS q1, q2, q3

VARIABLE mode

limiterVars == <<now, store, granted, told>>
chainVars == <<keySet, enabled, stopping, kindOf, place, status, used, failures, compared>>

Pricing == INSTANCE QueryComplexity WITH
  Price <- MCPrice, Scores <- MCScores, MaxAllowed <- 350, MaxRootFields <- 3, MaxDepth <- 5,
  MaxLimit <- 120, DefaultLimit <- 100, SdlLimits <- MCSdlLimits, Columns <- MCColumns,
  Supported <- {"main", "other"}, DefaultTarget <- "main"

Given(k) == Pricing!Effective(k.vars, k.document.defaults)
MCTooDeep(doc) == Pricing!DepthOf(doc.root, doc.fragments, 0) > 5
MCTooExpensive(k) == ~Pricing!Affordable(k.document, Given(k))

MCBudgets == [admin |-> 1, public |-> 1]

(* The same chain, with requests that may carry any document.               *)
Priced == INSTANCE Admission WITH
  Clients <- Addresses, Kinds <- DocumentKinds, asked <- kindOf

-----------------------------------------------------------------------------
MCInit ==
  /\ mode \in {"flushes", "limits", "chain", "documents"}
  /\ Init /\ Limits!Init /\ Chain!Init
  /\ mode \in {"flushes", "limits"} => keySet /\ enabled["public"] /\ enabled["admin"]
  /\ mode = "documents" => ~keySet /\ ~enabled["public"] /\ ~enabled["admin"]

(* Two requests through the chain, or a third with any document.            *)
MCNext ==
  \/ mode = "flushes" /\ Next /\ UNCHANGED <<mode, limiterVars, chainVars>>
  \/ mode = "limits" /\ Limits!Next /\ UNCHANGED <<mode, vars, chainVars>>
  \/ mode = "chain" /\ ((\E q \in {q1, q2} : Chain!Step(q)) \/ Chain!Stop)
     /\ UNCHANGED <<mode, vars, limiterVars>>
  \/ mode = "documents" /\ (Priced!Step(q3) \/ Priced!Stop) /\ UNCHANGED <<mode, vars, limiterVars>>
MCSpec == MCInit /\ [][MCNext]_<<mode, vars, limiterVars, chainVars>>

(* Two clients of the limiter, and two requests of the chain, are alike.    *)
MCSymmetry == Permutations(Callers) \cup Permutations({q1, q2})

(* What the three modules say of their variables; and the requests a check  *)
(* keeps are those of the code's filter.                                    *)
StatesAreTyped ==
  /\ TypeOK /\ Limits!TypeOK /\ Chain!TypeOK
  /\ \A c \in DOMAIN store :
       Limits!Recent(store[c].requests) = SelectSeq(store[c].requests, LAMBDA t : now - t < Window)

(* Admission: an operation executed reads what its price allows.            *)
PriceBoundsTheWork ==
  \A q \in Chain!Ran({"/graphql"}) : Pricing!WithinPrice(kindOf[q].document, Given(kindOf[q]))

=============================================================================
