----------------------------- MODULE GatewayPod -----------------------------
(***************************************************************************)
(* One gateway pod from serving to its end: the requests it has open       *)
(* (api/stream.py and, by its time budget alone, api/chat.py), the drain   *)
(* counter (draining.py), the lifespan (main.py), and around them what the *)
(* deployment adds: the kubelet's preStop, SIGTERM and SIGKILL, and        *)
(* uvicorn's graceful shutdown, which closes the listeners, waits for the  *)
(* open requests, cancels the rest, and only then runs the code after the  *)
(* lifespan's yield.                                                       *)
(*                                                                         *)
(* Time is discrete; clock starts when the pod is deleted.                 *)
(***************************************************************************)
EXTENDS Naturals, FiniteSets

CONSTANTS Streams, Unaries,  \* requests with stream=True, without
          PreStop,           \* the preStop sleep
          Graceful,          \* uvicorn --timeout-graceful-shutdown
          Grace,             \* terminationGracePeriodSeconds
          DrainTimeout,      \* settings.drain_timeout_s
          UnaryBudget,       \* settings.total_timeout_s
          SseExitCut         \* does the SSE library end streams on SIGTERM?

Requests == Streams \cup Unaries

ASSUME PodAssumption ==
    /\ Streams \cap Unaries = {} /\ IsFiniteSet(Requests)
    /\ PreStop \in Nat /\ Graceful \in Nat /\ Grace \in Nat
    /\ DrainTimeout \in Nat /\ UnaryBudget \in Nat
    /\ SseExitCut \in BOOLEAN

VARIABLES stage,      \* serving, prestop, closing, draining, exited or killed
          clock,      \* time since the pod was deleted
          st,         \* st[r]: where the request is
          status,     \* status[r]: HTTP status sent, 0 before
          scope,      \* scope[r]: none, gauge, or drain (gauge and drain counter)
          age,        \* age[r]: time a unary request has been open
          inflight,   \* gauge gateway_inflight_requests
          isDraining, \* DrainState._draining
          count,      \* DrainState._count
          zeroEvent,  \* DrainState._zero_event is set
          drainSince  \* clock when wait_for_drain began

drainVars == <<isDraining, count, zeroEvent, drainSince>>
requestVars == <<st, status, scope, age>>
vars == <<stage, clock, requestVars, inflight, drainVars>>

(* connecting - a stream awaits the upstream's response headers            *)
(* pulling    - it awaits the first chunk                                  *)
(* ready      - the handler returned its SSE response, which has not begun *)
(* streaming  - the response body runs inside the scopes                   *)
(* working    - a unary request is in its handler                          *)
(* cancelled  - uvicorn cancelled the task, which has not unwound          *)
OpenStates == {"connecting", "pulling", "ready", "streaming", "working", "cancelled"}
(* done, failed (answered with an error), broken (after the first byte),   *)
(* gone (the client left), cut (by the shutdown)                           *)
EndStates == {"done", "failed", "broken", "gone", "cut"}

IsOpen(r) == st[r] \in OpenStates
Alive == stage \notin {"exited", "killed"}

TypeOK ==
    /\ stage \in {"serving", "prestop", "closing", "draining", "exited", "killed"}
    /\ clock \in Nat
    /\ st \in [Requests -> {"new"} \cup OpenStates \cup EndStates]
    /\ status \in [Requests -> {0, 200, 429, 500, 502, 504}]
    /\ scope \in [Requests -> {"none", "gauge", "drain"}]
    /\ age \in [Requests -> Nat]
    /\ inflight \in Nat
    /\ isDraining \in BOOLEAN
    /\ count \in Nat
    /\ zeroEvent \in BOOLEAN
    /\ drainSince \in Nat

Init ==
    /\ stage = "serving" /\ clock = 0
    /\ st = [r \in Requests |-> "new"]
    /\ status = [r \in Requests |-> 0]
    /\ scope = [r \in Requests |-> "none"]
    /\ age = [r \in Requests |-> 0]
    /\ inflight = 0
    /\ isDraining = FALSE /\ count = 0 /\ zeroEvent = TRUE /\ drainSince = 0
-----------------------------------------------------------------------------
(* The scopes around a request.                                            *)

\* track_inflight (and track_upstream_inflight, which moves with it), then
\* DrainState.track_request: count up and clear the event.
Enter(r, s) ==
    /\ scope' = [scope EXCEPT ![r] = s]
    /\ inflight' = inflight + 1
    /\ IF s = "drain" THEN count' = count + 1 /\ zeroEvent' = FALSE
                      ELSE UNCHANGED <<count, zeroEvent>>
    /\ UNCHANGED <<isDraining, drainSince>>

\* Slip: the gauge goes down for a request that never entered its scope.
LeaveAlways(r) ==
    /\ scope' = [scope EXCEPT ![r] = "none"]
    /\ inflight' = inflight - 1
    /\ IF scope[r] = "drain"
       THEN count' = count - 1 /\ zeroEvent' = (zeroEvent \/ count = 1)
       ELSE UNCHANGED <<count, zeroEvent>>
    /\ UNCHANGED <<isDraining, drainSince>>

\* Slip: the event is set by whichever body leaves first.
LeaveSets(r) ==
    /\ scope' = [scope EXCEPT ![r] = "none"]
    /\ inflight' = IF scope[r] = "none" THEN inflight ELSE inflight - 1
    /\ IF scope[r] = "drain"
       THEN count' = count - 1 /\ zeroEvent' = TRUE
       ELSE UNCHANGED <<count, zeroEvent>>
    /\ UNCHANGED <<isDraining, drainSince>>

\* The finally clauses: the event is set when the last one leaves.
Leave(r) ==
    /\ scope' = [scope EXCEPT ![r] = "none"]
    /\ inflight' = IF scope[r] = "none" THEN inflight ELSE inflight - 1
    /\ IF scope[r] = "drain"
       THEN count' = count - 1 /\ zeroEvent' = (zeroEvent \/ count = 1)
       ELSE UNCHANGED <<count, zeroEvent>>
    /\ UNCHANGED <<isDraining, drainSince>>

Moves(r, s) == st' = [st EXCEPT ![r] = s] /\ UNCHANGED <<stage, clock, age>>

\* Slip: a failure is remapped though the status is sent.
EndsRemapped(r, s, code) ==
    /\ Moves(r, s)
    /\ status' = [status EXCEPT ![r] = code]
    /\ Leave(r)

\* The request ends in state s; code is the HTTP status if none was sent yet.
Ends(r, s, code) ==
    /\ Moves(r, s)
    /\ status' = [status EXCEPT ![r] = IF @ = 0 THEN code ELSE @]
    /\ Leave(r)

\* A body that is dropped while it is suspended at a yield keeps its scopes
\* until the interpreter closes the generator.
Abandoned(r, s) == Moves(r, s) /\ UNCHANGED <<status, scope, inflight, drainVars>>

\* How the server ends a request on its own account.
Drops(r, s, code) == Ends(r, s, code) \/ (scope[r] = "drain" /\ Abandoned(r, s))

Reclaim(r) ==
    /\ Alive /\ ~IsOpen(r) /\ scope[r] = "drain"
    /\ Leave(r)
    /\ UNCHANGED <<stage, clock, st, status, age>>
-----------------------------------------------------------------------------
(* Requests. The listener is open until SIGTERM.                           *)

Accepting == stage \in {"serving", "prestop"}

OpenStream(r) ==
    /\ r \in Streams /\ st[r] = "new" /\ Accepting
    /\ Moves(r, "connecting")
    /\ UNCHANGED <<status, scope, inflight, drainVars>>

OpenUnary(r) ==
    /\ r \in Unaries /\ st[r] = "new" /\ Accepting
    /\ Moves(r, "working")
    /\ Enter(r, "gauge")
    /\ UNCHANGED status

\* The unary handler answers within its budget, with or without success.
UnaryEnds(r) ==
    /\ st[r] = "working"
    /\ \/ Ends(r, "done", 200)
       \/ \E code \in {429, 500, 502, 504} : Ends(r, "failed", code)

\* The upstream's headers: a mapped failure, one that no adapter maps, or a
\* response to read (any status _raise_for_status lets through).
Headers(r) ==
    /\ st[r] = "connecting"
    /\ \/ \E code \in {429, 500, 502, 504} : Ends(r, "failed", code)
       \/ Moves(r, "pulling") /\ UNCHANGED <<status, scope, inflight, drainVars>>

\* The eager first pull: a chunk, the end of an empty stream, or a line that is
\* not what the adapter expects.
FirstPull(r) ==
    /\ st[r] = "pulling"
    /\ \/ Moves(r, "ready") /\ UNCHANGED <<status, scope, inflight, drainVars>>
       \/ Ends(r, "failed", 500)

\* The adapter maps a timeout of the headers only: one of the first chunk is the
\* server's plain 500.
PullTimesOut(r) == st[r] = "pulling" /\ Ends(r, "failed", 500)

\* The SSE response starts the body, which enters the scopes: from here on the
\* status is sent and no failure is remapped.
BodyStarts(r) ==
    /\ st[r] = "ready"
    /\ Moves(r, "streaming")
    /\ status' = [status EXCEPT ![r] = 200]
    /\ Enter(r, "drain")

\* The client left before the body began: it never enters its scopes.
BodyNeverStarts(r) == st[r] = "ready" /\ Ends(r, "gone", 200)

\* [DONE], an upstream failure in mid-stream, or a client that leaves.
BodyEnds(r) ==
    /\ st[r] = "streaming"
    /\ (\E s \in {"done", "broken"} : Ends(r, s, 200)) \/ Drops(r, "gone", 200)

\* The SSE library's own reaction to SIGTERM, if it has one.
SseCut(r) ==
    /\ SseExitCut /\ stage = "closing" /\ st[r] = "streaming"
    /\ Drops(r, "cut", 200)

\* A cancelled task unwinds.
CancelLands(r) ==
    /\ Alive /\ st[r] = "cancelled"
    /\ Drops(r, "cut", 500)

Request(r) ==
    /\ Alive
    /\ \/ UnaryEnds(r) \/ Headers(r) \/ FirstPull(r) \/ PullTimesOut(r)
       \/ BodyStarts(r) \/ BodyNeverStarts(r) \/ BodyEnds(r) \/ SseCut(r)
-----------------------------------------------------------------------------
(* The end of the pod.                                                     *)

Delete ==
    /\ stage = "serving" /\ stage' = "prestop"
    /\ UNCHANGED <<clock, requestVars, inflight, drainVars>>

SigtermDue == stage = "prestop" /\ clock = PreStop
Sigterm ==
    /\ SigtermDue
    /\ stage' = "closing"
    /\ UNCHANGED <<clock, requestVars, inflight, drainVars>>

\* The code after the lifespan's yield: begin_drain, then wait_for_drain.
LifespanShutdown ==
    /\ stage' = "draining"
    /\ isDraining' = TRUE
    /\ drainSince' = clock
    /\ UNCHANGED <<count, zeroEvent>>

\* Slip: the shutdown waits for the requests the drain counter knows of.
FinishedTracked == count = 0

\* uvicorn saw its last open request end.
Finished == \A r \in Requests : ~IsOpen(r)

ClosedDue == stage = "closing" /\ Finished
ServerClosed ==
    /\ ClosedDue
    /\ LifespanShutdown
    /\ UNCHANGED <<clock, requestVars, inflight>>

\* uvicorn gives up waiting, cancels what is open, and goes on.
\* Slip: a graceful timeout that ends before a unary request's budget.
GracefulDueShort == stage = "closing" /\ clock = PreStop + 2

GracefulDue == stage = "closing" /\ clock = PreStop + Graceful
GracefulExpires ==
    /\ GracefulDue /\ ~Finished
    /\ st' = [r \in Requests |-> IF IsOpen(r) THEN "cancelled" ELSE st[r]]
    /\ LifespanShutdown
    /\ UNCHANGED <<clock, status, scope, age, inflight>>

\* The process ends in stage s and takes what is still open with it.
ProcessEnds(s) ==
    /\ stage' = s
    /\ st' = [r \in Requests |-> IF IsOpen(r) THEN "cut" ELSE st[r]]
    /\ scope' = [r \in Requests |-> "none"]
    /\ inflight' = 0 /\ count' = 0 /\ zeroEvent' = TRUE
    /\ UNCHANGED <<clock, status, age, isDraining, drainSince>>

\* Slip: wait_for_drain without its timeout.
DrainTimeoutNever == FALSE

\* wait_for_drain returns True on the event, False on its timeout.
DrainTimeoutDue == stage = "draining" /\ clock = drainSince + DrainTimeout
DrainDue == stage = "draining" /\ (zeroEvent \/ DrainTimeoutDue)
DrainEnds ==
    /\ DrainDue
    /\ ProcessEnds("exited")

SigkillDue == stage \in {"prestop", "closing", "draining"} /\ clock = Grace
Sigkill ==
    /\ SigkillDue
    /\ ProcessEnds("killed")

\* Whatever waits for nothing more happens before time passes.
Tick ==
    /\ Alive
    /\ ~SigtermDue /\ ~ClosedDue /\ ~GracefulDue /\ ~DrainDue /\ ~SigkillDue
    /\ \A r \in Unaries : st[r] = "working" => age[r] < UnaryBudget
    /\ clock' = IF stage = "serving" THEN clock ELSE clock + 1
    /\ age' = [r \in Requests |-> IF st[r] = "working" THEN age[r] + 1 ELSE age[r]]
    /\ UNCHANGED <<stage, st, status, scope, inflight, drainVars>>

Next ==
    \/ \E r \in Requests : OpenStream(r) \/ OpenUnary(r) \/ Request(r) \/ CancelLands(r)
                           \/ Reclaim(r)
    \/ Delete \/ Sigterm \/ ServerClosed \/ GracefulExpires \/ DrainEnds \/ Sigkill
    \/ Tick

Spec == Init /\ [][Next]_vars

\* Time passes, what is due happens, uvicorn and asyncio make progress, and the
\* unary handler keeps its budget. An upstream may stall a stream for ever, and
\* the interpreter need never close an abandoned body.
Fairness ==
    /\ WF_vars(Tick) /\ WF_vars(Sigterm) /\ WF_vars(ServerClosed) /\ WF_vars(GracefulExpires)
    /\ WF_vars(DrainEnds) /\ WF_vars(Sigkill)
    /\ \A r \in Requests : WF_vars(CancelLands(r)) /\ WF_vars(Alive /\ UnaryEnds(r))

FairSpec == Spec /\ Fairness
-----------------------------------------------------------------------------
(* Properties.                                                             *)

Tracked == {r \in Requests : scope[r] = "drain"}

\* The event wait_for_drain awaits is set exactly when no stream body is inside
\* its scopes, through every way a body can end, also one whose request is long
\* over; and the gauge counts every open scope.
DrainTracksBodies ==
    /\ count = Cardinality(Tracked)
    /\ zeroEvent <=> Tracked = {}
    /\ \A r \in Requests : st[r] = "streaming" => r \in Tracked
    /\ inflight = Cardinality({r \in Requests : scope[r] # "none"})

\* Before the drain budget nobody but the SSE library cuts an open request: not
\* the end of the process, a cancellation or SIGKILL, though the drain counter
\* knows neither of unary requests nor of streams before their body.
OnlySseCutsEarly ==
    [][\A r \in Requests : st[r] # "cut" /\ st'[r] = "cut"
                              => clock >= PreStop + DrainTimeout \/ SseCut(r)]_vars

\* A unary request accepted before SIGTERM is always answered, though nothing
\* in the drain counter knows of it.
UnaryNeverCut == \A r \in Unaries : st[r] # "cut"

\* A pod whose drain begins early enough ends by its own shutdown and not by
\* SIGKILL, though abandoned bodies stay in the counter for ever.
ShutdownTerminates ==
    stage = "draining" /\ drainSince + DrainTimeout < Grace ~> stage = "exited"

\* The unary requests of a pod, its SIGTERM and its end included, keep the
\* contract that api/chat.py establishes.
UnaryPart == INSTANCE UnaryContract WITH
    Requests <- Unaries,
    Budget <- UnaryBudget,
    phase <- [u \in Unaries |-> IF st[u] \in {"new", "working"} THEN st[u]
                                ELSE IF st[u] \in {"done", "failed"} THEN "ended" ELSE "cut"],
    status <- [u \in Unaries |-> status[u]],
    age <- [u \in Unaries |-> age[u]],
    inflight <- Cardinality({u \in Unaries : scope[u] # "none"})

\* A rolling deploy is invisible to them: each one that was accepted ends once,
\* within its budget, with a status of its own.
KeepsContract == UnaryPart!Spec

\* Where a stream in state x, with status c, stands in its contract. A cancelled
\* task is still what it was before.
StreamPhase(x, c) ==
    CASE x \in {"connecting", "pulling", "ready"} -> "waiting"
      [] x = "streaming" -> "sending"
      [] x = "cancelled" -> IF c = 0 THEN "waiting" ELSE "sending"
      [] x \in {"new", "done"} -> x
      [] OTHER -> IF c = 0 THEN "lost" ELSE IF c = 200 THEN "broken" ELSE "failed"

StreamPart == INSTANCE StreamContract WITH
    phase <- [s \in Streams |-> StreamPhase(st[s], status[s])],
    status <- [s \in Streams |-> status[s]]

\* stream.py:26-29: whichever of client, upstream, cancellation, SIGKILL ends
\* a stream, an error is answered only while nothing was sent, and only once.
KeepsStreamContract == StreamPart!Spec

\* SIGKILL finds a pod that has not drained only if the drain began too late for
\* its timeout: abandoned bodies and stalled streams do not hold it up.
KilledOnlyWhenLate ==
    [][stage = "draining" /\ stage' = "killed" => drainSince + DrainTimeout >= Grace]_vars

(* What the repository says of the pod and the code does not keep.         *)

\* README.md:115-116: a rolling deploy never cuts an open stream shorter than
\* the budget. It does with an SSE library that ends its streams on SIGTERM.
NoEarlyCut ==
    [][\A r \in Requests : st[r] # "cut" /\ st'[r] = "cut"
                              => clock >= PreStop + DrainTimeout]_vars
=============================================================================
