------------------------------- MODULE Admission -------------------------------
(***************************************************************************)
(* What a request goes through before its handler: the Express chain of    *)
(* startServer, in the order of its app.use, and for /graphql what Apollo  *)
(* runs before any resolver (createDepthLimitRule, validateRequest,        *)
(* validateComplexity).  The requests of several clients interleave where  *)
(* the chain awaits: the body, the limiter, the columns counted.           *)
(*                                                                         *)
(* A limiter is its budget for one window: RateLimiter says what a budget  *)
(* is, and that a window lets no more than it through.  What a document is *)
(* worth is QueryComplexity's matter: here it is too deep or not, and its  *)
(* request too expensive or not.                                           *)
(***************************************************************************)
EXTENDS Integers, Sequences, FiniteSets, FiniteSetsExt

CONSTANTS
  Requests,     \* the requests of one window, by name
  Kinds,        \* what they can be: [route, method, body, key, sender, hops, document, vars]
  Clients,      \* the addresses requests come from
  Proxies,      \* SECURITY.RATE_LIMIT.TRUSTED_PROXIES
  Listed,       \* SECURITY.METRICS.ALLOWED_IPS
  Budgets,      \* the requests of a client that each limiter lets through
  Unasked,      \* not arrived yet
  TooDeep(_),   \* createDepthLimitRule refuses the document
  TooExpensive(_)   \* validateComplexity refuses the request

VARIABLES
  keySet,       \* ADMIN_API_KEY has a value
  enabled,      \* ADMIN_RATE_LIMIT.ENABLED and RATE_LIMIT.ENABLED
  stopping,     \* the shutdown has started
  asked,        \* the request behind each name, or Unasked
  place,        \* how far it is: the middleware that handles it next
  status,       \* the status of its answer, 0 before
  used,         \* what is used of the budget of each client, by limiter
  failures,     \* the checks that failed
  compared      \* the requests whose key was compared, and was wrong

vars == <<keySet, enabled, stopping, asked, place, status, used, failures, compared>>

Limiters == {"public", "admin"}
Probes == {"/health", "/ready"}
Guarded == {"/api/cache", "/api/catalog"}

(* req.ip: of x-forwarded-for and the socket's address, the last one that   *)
(* is not a trusted proxy, else the first.                                  *)
ClientIp(hops) ==
  LET strangers == {i \in DOMAIN hops : hops[i] \notin Proxies}
  IN hops[IF strangers = {} THEN 1 ELSE Max(strangers)]

Ip(q) == ClientIp(asked[q].hops)

Init ==
  /\ keySet \in BOOLEAN
  /\ enabled \in [Limiters -> BOOLEAN]
  /\ stopping = FALSE
  /\ asked = [q \in Requests |-> Unasked]
  /\ place = [q \in Requests |-> "outside"]
  /\ status = [q \in Requests |-> 0]
  /\ used = [l \in Limiters |-> [c \in Clients |-> 0]]
  /\ failures = [l \in Limiters |-> [c \in Clients |-> 0]]
  /\ compared = {}

settings == <<keySet, enabled>>
Goes(q, to) == place' = [place EXCEPT ![q] = to] /\ UNCHANGED status
Answers(q, n) ==
  /\ place' = [place EXCEPT ![q] = "answered"]
  /\ status' = [status EXCEPT ![q] = n]

-----------------------------------------------------------------------------
(* The guard of the shutdown, then createCorsMiddleware().                  *)
Arrive(q) ==
  /\ place[q] = "outside"
  /\ \E k \in Kinds :
       /\ asked' = [asked EXCEPT ![q] = k]
       /\ IF stopping /\ k.route \notin Probes THEN Answers(q, 503)
          ELSE IF k.method = "OPTIONS" THEN Answers(q, 204)
          ELSE Goes(q, "body")
  /\ UNCHANGED <<settings, stopping, used, failures, compared>>

(* applyRequestLimits(): the body is read, and bounded, on every route.     *)
ReadBody(q) ==
  /\ place[q] = "body"
  /\ IF asked[q].body \in {"too large", "query too long"} THEN Answers(q, 400)
     ELSE Goes(q, CASE asked[q].route \in Guarded -> "admin limiter"
                    [] asked[q].route = "/metrics" -> "metrics"
                    [] asked[q].route \in {"/graphql", "/api/export"} -> "public limiter"
                    [] OTHER -> "handler")
  /\ UNCHANGED <<settings, stopping, asked, used, failures, compared>>

(* Faulty: the key is looked at before the limiter.                         *)
FaultyMetricsAccess(q) ==
  /\ place[q] = "metrics"
  /\ Goes(q, IF Ip(q) \in Listed THEN "handler" ELSE "key")
  /\ UNCHANGED <<settings, stopping, asked, used, failures, compared>>

(* createMetricsAccess(): a listed address goes through; the others go by   *)
(* the limiter of the admin routes.                                         *)
MetricsAccess(q) ==
  /\ place[q] = "metrics"
  /\ Goes(q, IF Ip(q) \in Listed THEN "handler" ELSE "admin limiter")
  /\ UNCHANGED <<settings, stopping, asked, used, failures, compared>>

(* createRateLimitMiddleware(), by one of the two limiters.                 *)
Limiter(q) == IF place[q] = "admin limiter" THEN "admin" ELSE "public"
AfterLimiter(q) == IF Limiter(q) = "admin" THEN "key"
                   ELSE IF asked[q].route = "/graphql" THEN "document" ELSE "handler"

Limit(q) ==
  /\ place[q] \in {"admin limiter", "public limiter"}
  /\ LET l == Limiter(q)
         c == Ip(q)
     IN  IF ~enabled[l] THEN Goes(q, AfterLimiter(q)) /\ UNCHANGED used
         ELSE IF used[l][c] < Budgets[l]
         THEN Goes(q, AfterLimiter(q)) /\ used' = [used EXCEPT ![l][c] = @ + 1]
         ELSE Answers(q, 429) /\ UNCHANGED used
  /\ UNCHANGED <<settings, stopping, asked, failures, compared>>

(* The check fails: the request goes on.                                    *)
LimiterFails(q) ==
  /\ place[q] \in {"admin limiter", "public limiter"} /\ enabled[Limiter(q)]
  /\ failures' = [failures EXCEPT ![Limiter(q)][Ip(q)] = @ + 1]
  /\ Goes(q, AfterLimiter(q))
  /\ UNCHANGED <<settings, stopping, asked, used, compared>>

(* requireAdminKey() of the admin routes, checkKey() of /metrics.           *)
CheckKey(q) ==
  /\ place[q] = "key"
  /\ IF ~keySet THEN Answers(q, IF asked[q].route = "/metrics" THEN 401 ELSE 503)
     ELSE IF asked[q].key = "right" THEN Goes(q, "handler")
     ELSE Answers(q, 401)
  /\ compared' = IF keySet /\ asked[q].key = "wrong" THEN compared \cup {q} ELSE compared
  /\ UNCHANGED <<settings, stopping, asked, used, failures>>

(* The validation of a document, then didResolveOperation: validateRequest. *)
Validate(q) ==
  /\ place[q] = "document"
  /\ IF TooDeep(asked[q].document) \/ asked[q].document.operation # "query"
     THEN Answers(q, 400) ELSE Goes(q, "price")
  /\ UNCHANGED <<settings, stopping, asked, used, failures, compared>>

(* validateComplexity(), on the coerced variables.                          *)
PriceIt(q) ==
  /\ place[q] = "price"
  /\ IF TooExpensive(asked[q]) THEN Answers(q, 400) ELSE Goes(q, "handler")
  /\ UNCHANGED <<settings, stopping, asked, used, failures, compared>>

(* The handler: /ready alone minds the shutdown.                            *)
Handle(q) ==
  /\ place[q] = "handler"
  /\ place' = [place EXCEPT ![q] = "handled"]
  /\ status' = [status EXCEPT ![q] = IF asked[q].route = "/ready" /\ stopping THEN 503 ELSE 200]
  /\ UNCHANGED <<settings, stopping, asked, used, failures, compared>>

Stop ==
  /\ ~stopping /\ stopping' = TRUE
  /\ UNCHANGED <<settings, asked, place, status, used, failures, compared>>

Step(q) ==
  \/ Arrive(q) \/ ReadBody(q) \/ MetricsAccess(q) \/ Limit(q) \/ LimiterFails(q)
  \/ CheckKey(q) \/ Validate(q) \/ PriceIt(q) \/ Handle(q)

Next == (\E q \in Requests : Step(q)) \/ Stop

Spec == Init /\ [][Next]_vars

-----------------------------------------------------------------------------
(* Properties *)

Places == {"outside", "body", "metrics", "admin limiter", "public limiter", "key",
           "document", "price", "handler", "handled", "answered"}

TypeOK ==
  /\ keySet \in BOOLEAN /\ stopping \in BOOLEAN /\ enabled \in [Limiters -> BOOLEAN]
  /\ place \in [Requests -> Places]
  /\ status \in [Requests -> {0, 200, 204, 400, 401, 429, 503}]
  /\ \A q \in Requests : /\ asked[q] = Unasked <=> place[q] = "outside"
                         /\ status[q] # 0 <=> place[q] \in {"handled", "answered"}
  /\ \A l \in Limiters, c \in Clients : used[l][c] \in 0..Budgets[l]
  /\ compared \subseteq Requests

Of(c, some) == Cardinality({q \in some : asked[q] # Unasked /\ asked[q].sender = c})
Ran(routes) == {q \in Requests : place[q] = "handled" /\ asked[q].route \in routes}

(* "every request counts, rejected keys included": of one client, a window  *)
(* compares no more wrong keys than the admin budget, over the admin routes *)
(* and /metrics together, whatever way its requests came; and what runs *)
(* behind the key had the right one, or a listed address.                   *)
KeysAreRationed ==
  /\ enabled["admin"] =>
       \A c \in Clients : Of(c, compared) <= Budgets["admin"] + failures["admin"][c]
  /\ \A q \in Ran(Guarded \cup {"/metrics"}) :
       \/ keySet /\ asked[q].key = "right"
       \/ asked[q].route = "/metrics" /\ asked[q].sender \in Listed

(* /graphql and /api/export "share the limiter, hence one budget per        *)
(* client", and every operation priced has used some of it.                 *)
OneBudget ==
  enabled["public"] =>
    \A c \in Clients :
      Of(c, {q \in Requests : \/ place[q] \in {"document", "price"}
                              \/ asked[q] # Unasked /\ asked[q].route \in {"/graphql", "/api/export"}
                                 /\ place[q] \in {"handler", "handled"}})
      <= Budgets["public"] + failures["public"][c]

=============================================================================
