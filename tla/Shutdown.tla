-------------------------------- MODULE Shutdown --------------------------------
(***************************************************************************)
(* The graceful shutdown of a pod (createShutdown, and its wiring in       *)
(* startServer): the first signal makes every new request be refused,      *)
(* stops the timer of the freshness monitor and drains the HTTP server,    *)
(* for a share of the time there is; then the resources are closed one     *)
(* after the other, and a watchdog ends the process whatever hangs.        *)
(***************************************************************************)
EXTENDS Naturals, FiniteSets

CONSTANTS
  Requests,    \* requests to the API, those of administrators among them
  Monitor      \* the freshness monitor, as a holder of a connection

Steps == <<"database pool", "security manager", "redis", "graphql tracing">>
LastStep == 4

VARIABLES
  stage,       \* "serving", "draining", "closing", "exited"
  step,        \* the resource being closed
  failed,      \* something failed on the way
  grace,       \* whether the share of the drain is over, and the sockets cut
  watchdog,    \* whether the timer on the whole shutdown is armed
  code,        \* the exit code; Running until then
  request,     \* each request: how it stands, and how it was answered
  holds,       \* who holds a connection of the pool
  pool,        \* "open" or "closed"
  timer,       \* whether the monitor's periodic timer is set
  probe        \* where its probe, or the reload that follows it, stands

vars == <<stage, step, failed, grace, watchdog, code, request, holds, pool, timer, probe>>
server == <<stage, step, failed, grace, watchdog, code, timer>>

Running == 2

TypeOK ==
  /\ stage \in {"serving", "draining", "closing", "exited"}
  /\ step \in 1..LastStep
  /\ failed \in BOOLEAN /\ grace \in BOOLEAN /\ watchdog \in BOOLEAN /\ timer \in BOOLEAN
  /\ code \in {0, 1, Running} /\ (code = Running <=> stage # "exited")
  /\ request \in [Requests -> {"none", "accepted", "cut", "answered", "refused", "failed"}]
  /\ holds \subseteq Requests \cup {Monitor}
  /\ pool \in {"open", "closed"} /\ (pool = "closed" => holds = {})
  /\ probe \in {"idle", "reading", "reloading", "publishing"}

(* startServer(): the schemas are known, the timer set, the port open.      *)
Init ==
  /\ stage = "serving" /\ step = 1
  /\ failed = FALSE /\ grace = FALSE /\ watchdog = FALSE /\ code = Running
  /\ request = [r \in Requests |-> "none"]
  /\ holds = {}
  /\ pool = "open" /\ timer = TRUE /\ probe = "idle"

Alive == stage # "exited"
Open(r) == request[r] \in {"accepted", "cut"}

-----------------------------------------------------------------------------
(* Requests.  The guard answers 503 from the first signal on.               *)
Arrives(r) ==
  /\ Alive /\ request[r] = "none"
  /\ request' = [request EXCEPT ![r] = IF stage = "serving" THEN "accepted" ELSE "refused"]
  /\ UNCHANGED <<server, holds, pool, probe>>

Connects(r) ==
  /\ Alive /\ Open(r) /\ r \notin holds /\ pool = "open"
  /\ holds' = holds \cup {r}
  /\ UNCHANGED <<server, request, pool, probe>>

(* The handler ends; of a cut connection nobody reads the answer.           *)
Answers(r) ==
  /\ Alive /\ request[r] = "accepted"
  /\ request' = [request EXCEPT ![r] = "answered"]
  /\ holds' = holds \ {r}
  /\ UNCHANGED <<server, pool, probe>>

(* A cut handler ends, or one that asks a closed pool for a connection.     *)
Breaks(r) ==
  /\ Alive /\ (request[r] = "cut" \/ (request[r] = "accepted" /\ pool = "closed"))
  /\ request' = [request EXCEPT ![r] = "failed"]
  /\ holds' = holds \ {r}
  /\ UNCHANGED <<server, pool, probe>>

-----------------------------------------------------------------------------
(* The monitor.  Its timer is all that the shutdown stops: a probe that     *)
(* runs, or that an administrator's request has asked for, goes on to its   *)
(* reload.                                                                  *)
Probes ==
  /\ Alive /\ probe = "idle"
  /\ (timer \/ \E r \in Requests : Open(r))
  /\ probe' = "reading"
  /\ UNCHANGED <<server, request, holds, pool>>

ProbeEnds ==
  /\ Alive /\ probe = "reading"
  /\ probe' \in {"idle", "reloading"}
  /\ UNCHANGED <<server, request, holds, pool>>

(* The new instance is there and the old one drained: the versions are read *)
(* with a connection of the pool, if it is still there.                     *)
ReloadEnds ==
  /\ Alive /\ probe = "reloading"
  /\ IF pool = "open"
       THEN probe' = "publishing" /\ holds' = holds \cup {Monitor}
       ELSE probe' = "idle" /\ UNCHANGED holds
  /\ UNCHANGED <<server, request, pool>>

Publishes ==
  /\ Alive /\ probe = "publishing"
  /\ probe' = "idle"
  /\ holds' = holds \ {Monitor}
  /\ UNCHANGED <<server, request, pool>>

-----------------------------------------------------------------------------
(* SIGTERM or SIGINT; a second one changes nothing.                         *)
Signal ==
  /\ stage = "serving"
  /\ stage' = "draining" /\ watchdog' = TRUE /\ timer' = FALSE
  /\ UNCHANGED <<step, failed, grace, code, request, holds, pool, probe>>

(* 80 % of the budget are over: the open connections are cut.  Handlers are *)
(* not stopped by that.                                                     *)
GraceOver ==
  /\ stage = "draining" /\ ~grace
  /\ grace' = TRUE
  /\ request' = [r \in Requests |-> IF request[r] = "accepted" THEN "cut" ELSE request[r]]
  /\ UNCHANGED <<stage, step, failed, watchdog, code, holds, pool, timer, probe>>

(* Faulty: the resources are closed without waiting for the drain.          *)
FaultyDrained ==
  /\ stage = "draining"
  /\ stage' = "closing"
  /\ UNCHANGED <<step, failed, grace, watchdog, code, request, holds, pool, timer, probe>>

(* Every connection of the HTTP server is closed.                           *)
Drained ==
  /\ stage = "draining"
  /\ \A r \in Requests : request[r] # "accepted"
  /\ stage' = "closing"
  /\ UNCHANGED <<step, failed, grace, watchdog, code, request, holds, pool, timer, probe>>

(* server.stop() throws: the resources are closed all the same.             *)
DrainFails ==
  /\ stage = "draining"
  /\ stage' = "closing" /\ failed' = TRUE
  /\ UNCHANGED <<step, grace, watchdog, code, request, holds, pool, timer, probe>>

(* Closing the pool closes every connection, lent or not, and the instance. *)
ClosePool ==
  IF step = 1
    THEN /\ pool' = "closed" /\ holds' = {}
         /\ request' = [r \in Requests |-> IF r \in holds THEN "failed" ELSE request[r]]
    ELSE UNCHANGED <<pool, holds, request>>

(* A step ends, well or not; the last one ends the process.                 *)
StepEnds(ok) ==
  /\ stage = "closing"
  /\ failed' = (failed \/ ~ok)
  /\ IF step = LastStep
       THEN /\ stage' = "exited" /\ code' = (IF failed' THEN 1 ELSE 0)
            /\ watchdog' = FALSE
            /\ UNCHANGED step
       ELSE step' = step + 1 /\ UNCHANGED <<stage, code, watchdog>>
  /\ ClosePool
  /\ UNCHANGED <<grace, timer, probe>>

(* The whole budget is over; that of the drain was over before.             *)
Watchdog ==
  /\ watchdog /\ Alive
  /\ stage = "draining" => grace
  /\ stage' = "exited" /\ code' = 1
  /\ UNCHANGED <<step, failed, grace, watchdog, request, holds, pool, timer, probe>>

Next ==
  \/ \E r \in Requests : Arrives(r) \/ Connects(r) \/ Answers(r) \/ Breaks(r)
  \/ Probes \/ ProbeEnds \/ ReloadEnds \/ Publishes
  \/ Signal \/ GraceOver \/ Drained \/ DrainFails \/ StepEnds(TRUE) \/ StepEnds(FALSE) \/ Watchdog

Spec == Init /\ [][Next]_vars

(* Timers fire.  Requests, the drain and the closing steps may hang.        *)
FairSpec == Spec /\ WF_vars(GraceOver) /\ WF_vars(Watchdog)

-----------------------------------------------------------------------------
(* Properties *)

(* A request accepted before the signal does not lose its connection or its *)
(* pool before its time is over, and exit code 0 means that every request   *)
(* was answered or cut, the pool closed and no step failed.                 *)
AcceptedAreServed ==
  /\ \A r \in Requests : request[r] \in {"cut", "failed"} => grace \/ failed
  /\ code = 0 => /\ \A r \in Requests : request[r] # "accepted"
                 /\ pool = "closed" /\ ~failed /\ ~timer

(* The process always leaves, whatever hangs.                               *)
ShutdownEnds == stage = "draining" ~> stage = "exited"

(* shutdown.ts: the steps run "in order - pool, limiters, Redis: nothing    *)
(* holds a connection any more when they are closed".  Of a shutdown that   *)
(* did not have to cut anybody, at least.                                   *)
NothingHoldsAConnection == [][pool' # pool /\ ~grace /\ ~failed => holds = {}]_vars

=============================================================================
