-------------------------- MODULE GatewayPodProofs --------------------------
(***************************************************************************)
(* Proofs about GatewayPod for any finite sets of streams and unary        *)
(* requests and any timeouts; what needs an order among the timeouts says  *)
(* so in its theorem.                                                      *)
(***************************************************************************)
EXTENDS GatewayPod, FiniteSetTheorems, TLAPS

-----------------------------------------------------------------------------
(* The inductive invariant, in parts.                                      *)

Held == {r \in Requests : scope[r] # "none"}

\* The counters and the event count the open scopes.
Counts ==
    /\ count = Cardinality(Tracked)
    /\ zeroEvent <=> Tracked = {}
    /\ inflight = Cardinality(Held)

\* Which scopes a request has at each point of its life.
Scoped == \A r \in Requests :
    /\ st[r] \in {"new", "connecting", "pulling", "ready"} => scope[r] = "none"
    /\ st[r] = "working" => scope[r] = "gauge" /\ r \in Unaries
    /\ st[r] = "streaming" => scope[r] = "drain"
    /\ st[r] \in {"connecting", "pulling", "ready", "streaming"} => r \in Streams

\* How far the clock is at each stage, and whom a stage still finds open.
Timed ==
    /\ stage = "serving" => clock = 0
    /\ stage = "prestop" => clock <= PreStop
    /\ stage \in {"draining", "exited", "killed"} => \A r \in Requests : IsOpen(r) => st[r] = "cancelled"
    /\ \A r \in Requests : st[r] = "cancelled" => clock >= PreStop + Graceful

\* A unary request at work is within its budget, and has aged since SIGTERM
\* like the pod.
Aged == \A u \in Unaries :
    /\ st[u] = "new" => age[u] = 0
    /\ st[u] \in {"new", "working"} => status[u] = 0
    /\ st[u] = "working" => age[u] <= UnaryBudget
    /\ st[u] = "working" /\ stage = "closing" => clock <= PreStop + age[u]

IInv == TypeOK /\ Counts /\ Scoped /\ Timed /\ Aged
-----------------------------------------------------------------------------
(* The scopes.                                                             *)

LEMMA HeldFinite == IsFiniteSet(Held) /\ IsFiniteSet(Tracked) /\ Tracked \subseteq Held
  <1>1. Held \in SUBSET Requests /\ Tracked \in SUBSET Requests /\ Tracked \subseteq Held
    BY DEF Held, Tracked
  <1> QED
    BY <1>1, PodAssumption, FS_Subset

ScopeTypes ==
    /\ scope \in [Requests -> {"none", "gauge", "drain"}]
    /\ inflight \in Nat /\ count \in Nat
    /\ isDraining \in BOOLEAN /\ zeroEvent \in BOOLEAN /\ drainSince \in Nat

\* Entering from no scope at all keeps the counts.
LEMMA EnterCounts ==
  ASSUME ScopeTypes, Counts, NEW r \in Requests, scope[r] = "none",
         NEW s \in {"gauge", "drain"}, Enter(r, s)
  PROVE  ScopeTypes' /\ Counts'
  <1>1. ScopeTypes'
    <2>1. /\ scope' \in [Requests -> {"none", "gauge", "drain"}]
          /\ inflight' \in Nat /\ isDraining' \in BOOLEAN /\ drainSince' \in Nat
      BY DEF ScopeTypes, Enter
    <2>2. count' \in Nat
      BY DEF ScopeTypes, Enter
    <2>3. zeroEvent' \in BOOLEAN
      BY DEF ScopeTypes, Enter
    <2> QED
      BY <2>1, <2>2, <2>3 DEF ScopeTypes
  <1>2. Held' = Held \cup {r} /\ r \notin Held
    BY DEF ScopeTypes, Enter, Held
  <1>3. inflight' = Cardinality(Held')
    BY <1>2, HeldFinite, FS_AddElement DEF Counts, Enter
  <1>4. CASE s = "gauge"
    <2>1. Tracked' = Tracked /\ UNCHANGED <<count, zeroEvent>>
      BY <1>4 DEF ScopeTypes, Enter, Tracked
    <2> QED
      BY <1>1, <1>3, <2>1 DEF Counts
  <1>5. CASE s = "drain"
    <2>1. Tracked' = Tracked \cup {r} /\ r \notin Tracked /\ count' = count + 1 /\ ~zeroEvent'
      BY <1>5 DEF ScopeTypes, Enter, Tracked
    <2>2. count' = Cardinality(Tracked')
      BY <2>1, HeldFinite, FS_AddElement DEF Counts
    <2> QED
      BY <1>1, <1>3, <2>1, <2>2 DEF Counts
  <1> QED
    BY <1>4, <1>5

\* The finally clauses keep the counts, whatever the request had entered; the
\* event is set exactly by the last to leave.
LEMMA LeaveCounts ==
  ASSUME ScopeTypes, Counts, NEW r \in Requests, Leave(r)
  PROVE  ScopeTypes' /\ Counts'
  <1>1. Held' = Held \ {r} /\ Tracked' = Tracked \ {r}
    BY DEF ScopeTypes, Leave, Held, Tracked
  <1>2. /\ Cardinality(Held') = IF r \in Held THEN Cardinality(Held) - 1 ELSE Cardinality(Held)
        /\ Cardinality(Tracked') = IF r \in Tracked THEN Cardinality(Tracked) - 1 ELSE Cardinality(Tracked)
        /\ IsFiniteSet(Held') /\ IsFiniteSet(Tracked')
    BY <1>1, HeldFinite, FS_RemoveElement
  <1>3. /\ Cardinality(Held') \in Nat /\ Cardinality(Tracked') \in Nat
        /\ Cardinality(Tracked') = 0 <=> Tracked' = {}
    BY <1>2, FS_CardinalityType, FS_EmptySet
  <1>4. inflight' = Cardinality(Held')
    BY <1>2 DEF Counts, Leave, Held
  <1>5. CASE scope[r] = "drain"
    <2>1. r \in Tracked /\ count' = count - 1 /\ zeroEvent' = (zeroEvent \/ count = 1)
      BY <1>5 DEF Tracked, Leave
    <2>2. count' = Cardinality(Tracked')
      BY <1>2, <2>1 DEF Counts
    <2>3. ~zeroEvent
      BY <2>1 DEF Counts
    <2>4. count = 1 <=> Tracked' = {}
      BY <1>3, <2>1, <2>2 DEF ScopeTypes
    <2>5. zeroEvent' <=> Tracked' = {}
      BY <2>1, <2>3, <2>4
    <2> QED
      BY <1>3, <1>4, <2>1, <2>2, <2>5 DEF ScopeTypes, Counts, Leave
  <1>6. CASE scope[r] # "drain"
    <2>1. r \notin Tracked /\ UNCHANGED <<count, zeroEvent>>
      BY <1>6 DEF Tracked, Leave
    <2> QED
      BY <1>1, <1>2, <1>3, <1>4, <2>1 DEF ScopeTypes, Counts, Leave
  <1> QED
    BY <1>5, <1>6
-----------------------------------------------------------------------------
(* The invariant is inductive.                                             *)

LEMMA InvInit == Init => IInv
  <1> SUFFICES ASSUME Init PROVE IInv
    OBVIOUS
  <1>1. Held = {} /\ Tracked = {}
    BY DEF Init, Held, Tracked
  <1>2. Counts
    BY <1>1, FS_EmptySet DEF Init, Counts
  <1>3. TypeOK
    <2>1. /\ st \in [Requests -> {"new"} \cup OpenStates \cup EndStates]
          /\ status \in [Requests -> {0, 200, 429, 500, 502, 504}]
          /\ scope \in [Requests -> {"none", "gauge", "drain"}]
          /\ age \in [Requests -> Nat]
      BY DEF Init
    <2>2. /\ stage = "serving" /\ clock = 0 /\ inflight = 0 /\ isDraining = FALSE
          /\ count = 0 /\ zeroEvent = TRUE /\ drainSince = 0
      BY DEF Init
    <2> QED
      BY <2>1, <2>2 DEF TypeOK
  <1>4. Scoped /\ Timed /\ Aged
    BY DEF Init, Scoped, Timed, Aged, IsOpen, OpenStates, Requests
  <1> QED
    BY <1>2, <1>3, <1>4 DEF IInv

\* A request moves on within its handler, without touching its scopes.
LEMMA MovesInv ==
  ASSUME IInv, NEW r \in Streams, Alive, stage # "draining",
         st[r] = "new" \/ st[r] \in {"connecting", "pulling"},
         NEW s \in {"connecting", "pulling", "ready"},
         Moves(r, s), UNCHANGED <<status, scope, inflight, drainVars>>
  PROVE  IInv'
  <1> USE DEF IInv, drainVars
  <1>1. r \in Requests /\ r \notin Unaries
    BY PodAssumption DEF Requests
  <1>2. TypeOK'
    BY <1>1 DEF TypeOK, Moves, OpenStates
  <1>3. Counts'
    BY DEF Counts, Held, Tracked
  <1>4. Scoped'
    BY <1>1 DEF TypeOK, Scoped, Moves
  <1>5. Timed'
    BY <1>1 DEF TypeOK, Timed, Moves, Alive, IsOpen, OpenStates
  <1>6. Aged'
    BY <1>1 DEF TypeOK, Aged, Moves, Requests
  <1> QED
    BY <1>2, <1>3, <1>4, <1>5, <1>6

\* A request ends: it leaves its scopes and takes no part in the rest.
LEMMA EndsInv ==
  ASSUME IInv, NEW r \in Requests, st[r] # "new", NEW s \in EndStates,
         NEW code \in {200, 429, 500, 502, 504}, Ends(r, s, code)
  PROVE  IInv'
  <1> USE DEF IInv
  <1>1. ScopeTypes' /\ Counts'
    BY LeaveCounts DEF TypeOK, ScopeTypes, Ends
  <1>2. st' = [st EXCEPT ![r] = s] /\ s \notin OpenStates \cup {"new"}
    BY DEF Ends, Moves, EndStates, OpenStates
  <1>3. status' = [status EXCEPT ![r] = IF @ = 0 THEN code ELSE @]
    BY DEF Ends
  <1>4. UNCHANGED <<stage, clock, age>>
    BY DEF Ends, Moves
  <1>5. scope' = [scope EXCEPT ![r] = "none"]
    BY DEF Ends, Leave
  <1>6. TypeOK'
    BY <1>1, <1>2, <1>3, <1>4 DEF TypeOK, ScopeTypes
  <1>7. Scoped'
    BY <1>2, <1>5 DEF TypeOK, Scoped, OpenStates
  <1>8. Timed'
    BY <1>2, <1>4 DEF TypeOK, Timed, IsOpen, OpenStates
  <1>9. Aged'
    BY <1>2, <1>3, <1>4 DEF TypeOK, Aged, Requests, OpenStates
  <1> QED
    BY <1>1, <1>6, <1>7, <1>8, <1>9

\* A body that is dropped in its scopes ends too, and stays counted.
LEMMA AbandonedInv ==
  ASSUME IInv, NEW r \in Requests, st[r] # "new", NEW s \in EndStates, Abandoned(r, s)
  PROVE  IInv'
  <1> USE DEF IInv, drainVars
  <1>1. st' = [st EXCEPT ![r] = s] /\ s \notin OpenStates \cup {"new"}
    BY DEF Abandoned, Moves, EndStates, OpenStates
  <1>2. UNCHANGED <<stage, clock, age, status, scope, inflight, drainVars>>
    BY DEF Abandoned, Moves
  <1>3. TypeOK'
    BY <1>1, <1>2 DEF TypeOK
  <1>4. Counts'
    BY <1>2 DEF Counts, Held, Tracked
  <1>5. Scoped'
    BY <1>1, <1>2 DEF TypeOK, Scoped, OpenStates
  <1>6. Timed'
    BY <1>1, <1>2 DEF TypeOK, Timed, IsOpen, OpenStates
  <1>7. Aged'
    BY <1>1, <1>2 DEF TypeOK, Aged, Requests, OpenStates
  <1> QED
    BY <1>3, <1>4, <1>5, <1>6, <1>7

LEMMA DropsInv ==
  ASSUME IInv, NEW r \in Requests, st[r] # "new", NEW s \in EndStates,
         NEW code \in {200, 429, 500, 502, 504}, Drops(r, s, code)
  PROVE  IInv'
  BY EndsInv, AbandonedInv DEF Drops

LEMMA OpenUnaryInv ==
  ASSUME IInv, NEW r \in Requests, OpenUnary(r)
  PROVE  IInv'
  <1> USE DEF IInv
  <1>1. ScopeTypes' /\ Counts'
    BY EnterCounts DEF TypeOK, ScopeTypes, Scoped, OpenUnary
  <1>2. /\ r \in Unaries /\ st[r] = "new" /\ stage \in {"serving", "prestop"}
        /\ st' = [st EXCEPT ![r] = "working"] /\ scope' = [scope EXCEPT ![r] = "gauge"]
        /\ UNCHANGED <<stage, clock, age, status>>
    BY DEF OpenUnary, Accepting, Moves, Enter
  <1>3. TypeOK'
    BY <1>1, <1>2 DEF TypeOK, ScopeTypes, OpenStates
  <1>4. Scoped'
    BY <1>2 DEF TypeOK, Scoped
  <1>5. Timed'
    BY <1>2 DEF TypeOK, Timed, IsOpen, OpenStates
  <1>6. Aged'
    BY <1>2, PodAssumption DEF TypeOK, Aged, Requests
  <1> QED
    BY <1>1, <1>3, <1>4, <1>5, <1>6

LEMMA BodyStartsInv ==
  ASSUME IInv, NEW r \in Requests, Alive, BodyStarts(r)
  PROVE  IInv'
  <1> USE DEF IInv
  <1>1. ScopeTypes' /\ Counts'
    BY EnterCounts DEF TypeOK, ScopeTypes, Scoped, BodyStarts
  <1>2. /\ st[r] = "ready" /\ st' = [st EXCEPT ![r] = "streaming"]
        /\ status' = [status EXCEPT ![r] = 200] /\ scope' = [scope EXCEPT ![r] = "drain"]
        /\ UNCHANGED <<stage, clock, age>>
    BY DEF BodyStarts, Moves, Enter
  <1>3. r \in Streams /\ r \notin Unaries
    BY <1>2, PodAssumption DEF Scoped
  <1>4. TypeOK'
    BY <1>1, <1>2 DEF TypeOK, ScopeTypes, OpenStates
  <1>5. Scoped'
    BY <1>2, <1>3 DEF TypeOK, Scoped
  <1>6. Timed'
    BY <1>2 DEF TypeOK, Timed, IsOpen, OpenStates
  <1>7. Aged'
    BY <1>2, <1>3 DEF TypeOK, Aged, Requests
  <1> QED
    BY <1>1, <1>4, <1>5, <1>6, <1>7

LEMMA ReclaimInv ==
  ASSUME IInv, NEW r \in Requests, Reclaim(r)
  PROVE  IInv'
  <1> USE DEF IInv
  <1>1. ScopeTypes' /\ Counts'
    BY LeaveCounts DEF TypeOK, ScopeTypes, Reclaim
  <1>2. /\ ~IsOpen(r) /\ scope' = [scope EXCEPT ![r] = "none"]
        /\ UNCHANGED <<stage, clock, st, status, age>>
    BY DEF Reclaim, Leave
  <1>3. TypeOK'
    BY <1>1, <1>2 DEF TypeOK, ScopeTypes
  <1>4. Scoped'
    BY <1>2 DEF TypeOK, Scoped, IsOpen, OpenStates
  <1>5. Timed' /\ Aged'
    BY <1>2 DEF TypeOK, Timed, Aged, IsOpen
  <1> QED
    BY <1>1, <1>3, <1>4, <1>5

\* Whatever a request does on its own.
LEMMA RequestInv ==
  ASSUME IInv, NEW r \in Requests, Request(r)
  PROVE  IInv'
  <1> DEFINE Codes == {200, 429, 500, 502, 504}
  <1>1. \A s \in {"done", "failed", "broken", "gone", "cut"} : s \in EndStates
    BY DEF EndStates
  <1>2. ASSUME NEW s \in EndStates, NEW code \in Codes, st[r] # "new", Ends(r, s, code)
        PROVE  IInv'
    BY <1>2, EndsInv
  <1>3. ASSUME NEW s \in EndStates, st[r] # "new", Drops(r, s, 200)
        PROVE  IInv'
    BY <1>3, DropsInv
  <1>4. CASE UnaryEnds(r)
    BY <1>1, <1>2, <1>4 DEF UnaryEnds
  <1>5. ASSUME st[r] \in {"connecting", "pulling"}, NEW s \in {"pulling", "ready"},
               Moves(r, s), UNCHANGED <<status, scope, inflight, drainVars>>
        PROVE  IInv'
    <2>1. Alive /\ r \in Streams /\ stage # "draining"
      BY <1>5 DEF Request, IInv, Scoped, Timed, IsOpen, OpenStates
    <2> QED
      BY <1>5, <2>1, MovesInv
  <1>6. CASE Headers(r)
    BY <1>1, <1>2, <1>5, <1>6 DEF Headers
  <1>7. CASE FirstPull(r) \/ PullTimesOut(r)
    BY <1>1, <1>2, <1>5, <1>7 DEF FirstPull, PullTimesOut
  <1>8. CASE BodyStarts(r)
    BY <1>8, BodyStartsInv DEF Request
  <1>9. CASE BodyNeverStarts(r)
    BY <1>1, <1>2, <1>9 DEF BodyNeverStarts
  <1>10. CASE BodyEnds(r)
    BY <1>1, <1>2, <1>3, <1>10 DEF BodyEnds
  <1>11. CASE SseCut(r)
    BY <1>1, <1>3, <1>11 DEF SseCut
  <1> QED
    BY <1>4, <1>6, <1>7, <1>8, <1>9, <1>10, <1>11 DEF Request

\* SIGTERM finds the clock at the end of preStop.
LEMMA StageInv ==
  ASSUME IInv, Delete \/ Sigterm
  PROVE  IInv'
  <1> USE DEF IInv
  <1>1. TypeOK' /\ Counts' /\ Scoped'
    <2>1. stage' \in {"prestop", "closing"} /\ UNCHANGED <<clock, requestVars, inflight, drainVars>>
      BY DEF Delete, Sigterm
    <2>2. TypeOK'
      BY <2>1 DEF TypeOK, requestVars, drainVars
    <2>3. Counts' /\ Scoped'
      BY <2>1 DEF Counts, Held, Tracked, Scoped, requestVars, drainVars
    <2> QED
      BY <2>2, <2>3
  <1>2. Timed'
    BY PodAssumption DEF Delete, Sigterm, SigtermDue, requestVars, Timed, IsOpen
  <1>3. Aged'
    BY PodAssumption DEF Delete, Sigterm, SigtermDue, requestVars, Aged, TypeOK, Requests
  <1> QED
    BY <1>1, <1>2, <1>3

LEMMA ServerClosedInv ==
  ASSUME IInv, ServerClosed
  PROVE  IInv'
  <1> USE DEF IInv
  <1>1. TypeOK' /\ Counts' /\ Scoped'
    BY DEF ServerClosed, LifespanShutdown, requestVars, TypeOK, Counts, Held, Tracked, Scoped
  <1>2. Timed' /\ Aged'
    BY DEF ServerClosed, ClosedDue, LifespanShutdown, Finished, requestVars, Timed, Aged, IsOpen
  <1> QED
    BY <1>1, <1>2

LEMMA GracefulExpiresInv ==
  ASSUME IInv, GracefulExpires
  PROVE  IInv'
  <1> USE DEF IInv
  <1>1. /\ st' = [r \in Requests |-> IF IsOpen(r) THEN "cancelled" ELSE st[r]]
        /\ stage' = "draining" /\ clock = PreStop + Graceful
        /\ UNCHANGED <<clock, status, scope, age, inflight, count, zeroEvent>>
        /\ isDraining' = TRUE /\ drainSince' = clock
    BY DEF GracefulExpires, GracefulDue, LifespanShutdown
  <1>2. TypeOK'
    BY <1>1 DEF TypeOK, OpenStates, IsOpen
  <1>3. Counts'
    BY <1>1 DEF Counts, Held, Tracked
  <1>4. Scoped'
    BY <1>1 DEF TypeOK, Scoped, IsOpen, OpenStates
  <1>5. Timed'
    BY <1>1, PodAssumption DEF TypeOK, Timed, IsOpen, OpenStates
  <1>6. Aged'
    BY <1>1 DEF TypeOK, Aged, IsOpen, OpenStates, Requests
  <1> QED
    BY <1>2, <1>3, <1>4, <1>5, <1>6

\* The process ends, by itself or by SIGKILL: nothing stays open.
LEMMA ProcessEndsInv ==
  ASSUME IInv, NEW s \in {"exited", "killed"}, ProcessEnds(s)
  PROVE  IInv'
  <1> USE DEF IInv
  <1>1. /\ st' = [r \in Requests |-> IF IsOpen(r) THEN "cut" ELSE st[r]]
        /\ scope' = [r \in Requests |-> "none"]
        /\ inflight' = 0 /\ count' = 0 /\ zeroEvent' = TRUE /\ stage' = s
        /\ UNCHANGED <<clock, status, age, isDraining, drainSince>>
    BY DEF ProcessEnds
  <1>2. TypeOK'
    BY <1>1 DEF TypeOK, EndStates
  <1>3. Counts'
    <2>1. Held' = {} /\ Tracked' = {}
      BY <1>1 DEF Held, Tracked
    <2> QED
      BY <1>1, <2>1, FS_EmptySet DEF Counts
  <1>4. Scoped'
    BY <1>1 DEF TypeOK, Scoped, IsOpen, OpenStates
  <1>5. Timed'
    BY <1>1 DEF TypeOK, Timed, IsOpen, OpenStates
  <1>6. Aged'
    BY <1>1 DEF TypeOK, Aged, IsOpen, OpenStates, Requests
  <1> QED
    BY <1>2, <1>3, <1>4, <1>5, <1>6

\* The clock and the ages move together, and neither passes what is due.
LEMMA TickInv ==
  ASSUME IInv, Tick
  PROVE  IInv'
  <1> USE DEF IInv
  <1>1. /\ clock' = IF stage = "serving" THEN clock ELSE clock + 1
        /\ age' = [r \in Requests |-> IF st[r] = "working" THEN age[r] + 1 ELSE age[r]]
        /\ \A u \in Unaries : st[u] = "working" => age[u] < UnaryBudget
        /\ ~(stage = "prestop" /\ clock = PreStop)
        /\ UNCHANGED <<stage, st, status, scope, inflight, isDraining, count, zeroEvent, drainSince>>
    BY DEF Tick, SigtermDue, drainVars
  <1>2. TypeOK'
    BY <1>1 DEF TypeOK
  <1>3. Counts' /\ Scoped'
    BY <1>1 DEF Counts, Held, Tracked, Scoped
  <1>4. Timed'
    BY <1>1, PodAssumption DEF TypeOK, Timed, IsOpen
  <1>5. Aged'
    BY <1>1, PodAssumption DEF TypeOK, Aged, Requests
  <1> QED
    BY <1>2, <1>3, <1>4, <1>5

LEMMA InvStep == IInv /\ [Next]_vars => IInv'
  <1> SUFFICES ASSUME IInv, [Next]_vars PROVE IInv'
    OBVIOUS
  <1>1. ASSUME NEW r \in Requests, OpenStream(r) PROVE IInv'
    BY <1>1, MovesInv DEF OpenStream, Accepting, Alive
  <1>2. ASSUME NEW r \in Requests, OpenUnary(r) PROVE IInv'
    BY <1>2, OpenUnaryInv
  <1>3. ASSUME NEW r \in Requests, Request(r) PROVE IInv'
    BY <1>3, RequestInv
  <1>4. ASSUME NEW r \in Requests, CancelLands(r) PROVE IInv'
    BY <1>4, DropsInv DEF CancelLands, EndStates
  <1>5. ASSUME NEW r \in Requests, Reclaim(r) PROVE IInv'
    BY <1>5, ReclaimInv
  <1>6. CASE Delete \/ Sigterm
    BY <1>6, StageInv
  <1>7. CASE ServerClosed \/ GracefulExpires
    BY <1>7, ServerClosedInv, GracefulExpiresInv
  <1>8. CASE DrainEnds \/ Sigkill
    BY <1>8, ProcessEndsInv DEF DrainEnds, Sigkill
  <1>9. CASE Tick
    BY <1>9, TickInv
  <1>10. CASE UNCHANGED vars
    BY <1>10 DEF vars, requestVars, drainVars, IInv, TypeOK, Counts, Held, Tracked, Scoped, Timed, Aged, IsOpen
  <1> QED
    BY <1>1, <1>2, <1>3, <1>4, <1>5, <1>6, <1>7, <1>8, <1>9, <1>10 DEF Next

LEMMA Invariance == Spec => []IInv
  BY InvInit, InvStep, PTL DEF Spec
-----------------------------------------------------------------------------
(* What the properties say, for every value of the constants.              *)

\* Every variable keeps its type; no scope count falls below zero.
THEOREM TypeCorrect == Spec => []TypeOK
  BY Invariance, PTL DEF IInv

\* The event, the drain counter and the gauge count the open scopes, through
\* every way a body can end.
THEOREM DrainTracks == Spec => []DrainTracksBodies
  <1>1. IInv => DrainTracksBodies
    BY DEF IInv, Counts, Scoped, Held, Tracked, DrainTracksBodies
  <1> QED
    BY <1>1, Invariance, PTL

\* Where the order among the timeouts comes in: a unary request outlives neither
\* uvicorn's patience nor the kubelet's.
UnaryOrder == UnaryBudget < Graceful /\ PreStop + UnaryBudget < Grace

Uncut == \A u \in Unaries :
    /\ st[u] \in {"new", "working", "done", "failed"}
    /\ st[u] # "working" => scope[u] = "none"

\* A step that no unary request notices.
Quiet == \A u \in Unaries :
    st'[u] = st[u] /\ status'[u] = status[u] /\ age'[u] = age[u] /\ scope'[u] = scope[u]

\* Every other step opens one, ends one, or lets time pass: shutdown and signals
\* find none at work.
LEMMA UnarySteps ==
  ASSUME UnaryOrder, IInv, Uncut, [Next]_vars
  PROVE  Quiet \/ Tick \/ \E u \in Unaries : OpenUnary(u) \/ UnaryEnds(u)
  <1> USE DEF IInv
  <1>1. ASSUME NEW r \in Requests, OpenStream(r) \/ Request(r) \/ CancelLands(r) \/ Reclaim(r), ~UnaryEnds(r)
        PROVE  Quiet
    <2>1. r \notin Unaries
      BY <1>1, PodAssumption DEF Uncut, Scoped, OpenStream, Request, CancelLands, Reclaim, Headers, FirstPull,
         PullTimesOut, BodyStarts, BodyNeverStarts, BodyEnds, SseCut
    <2>2. age' = age
      BY <1>1 DEF OpenStream, Request, CancelLands, Reclaim, Headers, FirstPull, PullTimesOut,
         BodyStarts, BodyNeverStarts, BodyEnds, SseCut, Drops, Abandoned, Ends, Moves
    <2>3. st' = st \/ \E s : st' = [st EXCEPT ![r] = s]
      BY <1>1 DEF OpenStream, Request, CancelLands, Reclaim, Headers, FirstPull, PullTimesOut,
         BodyStarts, BodyNeverStarts, BodyEnds, SseCut, Drops, Abandoned, Ends, Moves
    <2>4. status' = status \/ \E c : status' = [status EXCEPT ![r] = c]
      BY <1>1 DEF OpenStream, Request, CancelLands, Reclaim, Headers, FirstPull, PullTimesOut,
         BodyStarts, BodyNeverStarts, BodyEnds, SseCut, Drops, Abandoned, Ends, Moves
    <2>5. scope' = scope \/ \E s : scope' = [scope EXCEPT ![r] = s]
      BY <1>1 DEF OpenStream, Request, CancelLands, Reclaim, Headers, FirstPull, PullTimesOut,
         BodyStarts, BodyNeverStarts, BodyEnds, SseCut, Drops, Abandoned, Ends, Moves, Enter, Leave
    <2> SUFFICES ASSUME NEW u \in Unaries
                 PROVE  st'[u] = st[u] /\ status'[u] = status[u] /\ scope'[u] = scope[u]
      BY <2>2 DEF Quiet
    <2>6. u # r /\ u \in Requests
      BY <2>1 DEF Requests
    <2>7. st'[u] = st[u]
      BY <2>3, <2>6 DEF TypeOK
    <2>8. status'[u] = status[u]
      BY <2>4, <2>6 DEF TypeOK
    <2>9. scope'[u] = scope[u]
      BY <2>5, <2>6 DEF TypeOK
    <2> QED
      BY <2>7, <2>8, <2>9
  <1>2. CASE GracefulExpires
    <2>1. \A u \in Unaries : st[u] # "working"
      BY <1>2, PodAssumption DEF GracefulExpires, GracefulDue, UnaryOrder, Aged, TypeOK, Requests
    <2>2. \A u \in Unaries : u \in Requests /\ ~IsOpen(u)
      BY <2>1 DEF Uncut, Scoped, Timed, IsOpen, OpenStates, Requests
    <2>3. /\ st' = [r \in Requests |-> IF IsOpen(r) THEN "cancelled" ELSE st[r]]
          /\ UNCHANGED <<status, scope, age>>
      BY <1>2 DEF GracefulExpires
    <2> QED
      BY <2>2, <2>3 DEF Quiet
  <1>3. ASSUME NEW z \in {"exited", "killed"}, ProcessEnds(z), \A u \in Unaries : st[u] # "working"
        PROVE  Quiet
    <2>1. \A u \in Unaries : u \in Requests /\ ~IsOpen(u) /\ scope[u] = "none"
      BY <1>3 DEF Uncut, IsOpen, OpenStates, Requests
    <2>2. /\ st' = [r \in Requests |-> IF IsOpen(r) THEN "cut" ELSE st[r]]
          /\ scope' = [r \in Requests |-> "none"]
          /\ UNCHANGED <<status, age>>
      BY <1>3 DEF ProcessEnds
    <2> QED
      BY <2>1, <2>2 DEF Quiet
  <1>4. CASE DrainEnds \/ Sigkill
    <2>1. CASE DrainEnds
      <3>1. \A u \in Unaries : st[u] # "working"
        BY <2>1 DEF DrainEnds, DrainDue, Timed, IsOpen, OpenStates, Requests
      <3> QED
        BY <1>3, <2>1, <3>1 DEF DrainEnds
    <2>2. CASE Sigkill
      <3>1. \A u \in Unaries : st[u] # "working"
        BY <2>2, PodAssumption DEF Sigkill, SigkillDue, UnaryOrder, Timed, Aged, TypeOK, Requests,
           IsOpen, OpenStates
      <3> QED
        BY <1>3, <2>2, <3>1 DEF Sigkill
    <2> QED
      BY <1>4, <2>1, <2>2
  <1>5. CASE Delete \/ Sigterm \/ ServerClosed \/ UNCHANGED vars
    BY <1>5 DEF Delete, Sigterm, ServerClosed, vars, requestVars, Quiet
  <1>6. \A r \in Requests : OpenUnary(r) \/ UnaryEnds(r) => r \in Unaries
    BY DEF OpenUnary, UnaryEnds, Scoped
  <1> QED
    BY <1>1, <1>2, <1>3, <1>4, <1>5, <1>6 DEF Next

\* No step of the pod cuts a unary request or keeps it in its scope.
LEMMA UncutStep ==
  ASSUME UnaryOrder, IInv, Uncut, [Next]_vars
  PROVE  Uncut'
  <1> USE DEF IInv
  <1>1. CASE Quiet
    BY <1>1 DEF Quiet, Uncut
  <1>2. CASE Tick
    BY <1>2 DEF Tick, Uncut
  <1>3. ASSUME NEW u \in Unaries, OpenUnary(u)
        PROVE  Uncut'
    BY <1>3 DEF OpenUnary, Moves, Enter, Uncut, TypeOK, Requests
  <1>4. ASSUME NEW u \in Unaries, UnaryEnds(u)
        PROVE  Uncut'
    <2>1. \E s \in {"done", "failed"} : st' = [st EXCEPT ![u] = s]
      BY <1>4 DEF UnaryEnds, Ends, Moves
    <2>2. scope' = [scope EXCEPT ![u] = "none"]
      BY <1>4 DEF UnaryEnds, Ends, Leave
    <2> QED
      BY <2>1, <2>2 DEF Uncut, TypeOK, Requests
  <1> QED
    BY <1>1, <1>2, <1>3, <1>4, UnarySteps

\* With such timeouts a unary request accepted before SIGTERM is answered, though
\* nothing in the drain counter knows of it.
THEOREM UnaryAlwaysAnswered ==
  ASSUME UnaryOrder
  PROVE  Spec => []UnaryNeverCut
  <1>1. Init => Uncut
    BY DEF Init, Uncut, Requests
  <1>2. Uncut => UnaryNeverCut
    BY DEF Uncut, UnaryNeverCut
  <1>3. IInv /\ Uncut /\ [Next]_vars => Uncut'
    BY UncutStep
  <1> QED
    BY <1>1, <1>2, <1>3, Invariance, PTL DEF Spec

-----------------------------------------------------------------------------
(* Refinement: a pod keeps the contract of its unary requests to its end.  *)

PhaseOf == [u \in Unaries |-> IF st[u] \in {"new", "working"} THEN st[u]
                              ELSE IF st[u] \in {"done", "failed"} THEN "ended" ELSE "cut"]
HeldUnaries == {u \in Unaries : scope[u] # "none"}
ContractView == <<PhaseOf, [u \in Unaries |-> status[u]], [u \in Unaries |-> age[u]],
                  Cardinality(HeldUnaries)>>

LEMMA HeldUnariesFinite == IsFiniteSet(HeldUnaries)
  <1>1. HeldUnaries \in SUBSET Requests
    BY DEF HeldUnaries, Requests
  <1> QED
    BY <1>1, PodAssumption, FS_Subset

LEMMA StepMaps ==
  ASSUME UnaryOrder, IInv, Uncut, [Next]_vars
  PROVE  [UnaryPart!Next]_(UnaryPart!contractVars)
  <1> USE DEF IInv
  <1> SUFFICES UnaryPart!Next \/ UNCHANGED ContractView
    BY DEF UnaryPart!contractVars, ContractView, PhaseOf, HeldUnaries
  <1>0. /\ DOMAIN st = Unaries \cup Streams /\ DOMAIN scope = Unaries \cup Streams
        /\ DOMAIN status = Unaries \cup Streams
    BY DEF TypeOK, Requests
  <1> HIDE DEF IInv
  <1>1. CASE Quiet
    <2>1. HeldUnaries' = HeldUnaries /\ PhaseOf' = PhaseOf
      BY <1>1 DEF Quiet, HeldUnaries, PhaseOf
    <2>2. UNCHANGED <<[u \in Unaries |-> status[u]], [u \in Unaries |-> age[u]]>>
      BY <1>1 DEF Quiet
    <2> QED
      BY <2>1, <2>2 DEF ContractView
  <1>2. CASE Tick
    <2>1. HeldUnaries' = HeldUnaries /\ PhaseOf' = PhaseOf /\ UNCHANGED [u \in Unaries |-> status[u]]
      BY <1>2 DEF Tick, HeldUnaries, PhaseOf
    <2>2. \A u \in Unaries : PhaseOf[u] = "working" <=> st[u] = "working"
      BY DEF PhaseOf
    <2>3. \A u \in Unaries : PhaseOf[u] = "working" => [v \in Unaries |-> age[v]][u] < UnaryBudget
      BY <1>2, <2>2 DEF Tick
    <2>4. [u \in Unaries |-> age[u]]' =
            [u \in Unaries |-> IF PhaseOf[u] = "working" THEN [v \in Unaries |-> age[v]][u] + 1
                               ELSE [v \in Unaries |-> age[v]][u]]
      BY <1>2, <2>2 DEF Tick, Requests
    <2>5. UnaryPart!Pass
      BY <2>1, <2>3, <2>4 DEF UnaryPart!Pass, PhaseOf, HeldUnaries
    <2> QED
      BY <2>5 DEF UnaryPart!Next
  <1>3. ASSUME NEW u \in Unaries, OpenUnary(u)
        PROVE  UnaryPart!Open(u)
    <2>1. /\ st[u] = "new" /\ st' = [st EXCEPT ![u] = "working"] /\ scope[u] = "none"
          /\ scope' = [scope EXCEPT ![u] = "gauge"] /\ UNCHANGED <<age, status>>
      BY <1>3 DEF OpenUnary, Moves, Enter, Uncut
    <2>2. HeldUnaries' = HeldUnaries \cup {u} /\ u \notin HeldUnaries
      BY <2>1, <1>0 DEF HeldUnaries
    <2>3. Cardinality(HeldUnaries') = Cardinality(HeldUnaries) + 1
      BY <2>2, HeldUnariesFinite, FS_AddElement
    <2>4. PhaseOf[u] = "new"
      BY <2>1 DEF PhaseOf
    <2>5. PhaseOf' = [PhaseOf EXCEPT ![u] = "working"]
      <3>1. \A v \in Unaries : st'[v] = IF v = u THEN "working" ELSE st[v]
        BY <2>1, <1>0
      <3> QED
        BY <3>1 DEF PhaseOf
    <2>6. UNCHANGED <<[v \in Unaries |-> status[v]], [v \in Unaries |-> age[v]]>>
      BY <2>1
    <2> QED
      BY <2>3, <2>4, <2>5, <2>6 DEF UnaryPart!Open, PhaseOf, HeldUnaries
  <1>4. ASSUME NEW u \in Unaries, NEW s \in {"done", "failed"}, NEW code \in UnaryPart!Statuses,
               st[u] = "working", Ends(u, s, code)
        PROVE  UnaryPart!End(u, code)
    <2>1. /\ st' = [st EXCEPT ![u] = s] /\ scope' = [scope EXCEPT ![u] = "none"]
          /\ status' = [status EXCEPT ![u] = code] /\ UNCHANGED age
      <3>1. status[u] = 0
        BY <1>4 DEF IInv, Aged
      <3> QED
        BY <1>4, <3>1 DEF Ends, Moves, Leave
    <2>2. HeldUnaries' = HeldUnaries \ {u} /\ u \in HeldUnaries
      <3>1. scope[u] # "none"
        BY <1>4 DEF IInv, Scoped, Requests
      <3>2. \A v \in Unaries : scope'[v] = IF v = u THEN "none" ELSE scope[v]
        BY <2>1, <1>0
      <3> QED
        BY <3>1, <3>2 DEF HeldUnaries
    <2>3. Cardinality(HeldUnaries') = Cardinality(HeldUnaries) - 1
      BY <2>2, HeldUnariesFinite, FS_RemoveElement
    <2>4. PhaseOf[u] = "working"
      BY <1>4 DEF PhaseOf
    <2>5. PhaseOf' = [PhaseOf EXCEPT ![u] = "ended"]
      <3>1. \A v \in Unaries : st'[v] = IF v = u THEN s ELSE st[v]
        BY <2>1, <1>0
      <3> QED
        BY <3>1 DEF PhaseOf
    <2>6. [v \in Unaries |-> status[v]]' = [[v \in Unaries |-> status[v]] EXCEPT ![u] = code]
      <3>1. \A v \in Unaries : status'[v] = IF v = u THEN code ELSE status[v]
        BY <2>1, <1>0
      <3> QED
        BY <3>1
    <2> QED
      BY <2>1, <2>3, <2>4, <2>5, <2>6 DEF UnaryPart!End, PhaseOf, HeldUnaries
  <1>5. ASSUME NEW u \in Unaries, UnaryEnds(u)
        PROVE  UnaryPart!Next
    <2>1. \E s \in {"done", "failed"}, code \in UnaryPart!Statuses : Ends(u, s, code)
      BY <1>5 DEF UnaryEnds, UnaryPart!Statuses, UnaryPart!Mapped, UnaryPart!Unmapped
    <2>2. st[u] = "working"
      BY <1>5 DEF UnaryEnds
    <2> QED
      BY <1>4, <2>1, <2>2 DEF UnaryPart!Next
  <1> QED
    BY <1>1, <1>2, <1>3, <1>5, UnarySteps DEF UnaryPart!Next

\* Through SIGTERM, drain and end, a pod implements the contract that the
\* non-streaming handler establishes.
THEOREM PodKeepsContract ==
  ASSUME UnaryOrder
  PROVE  Spec => KeepsContract
  <1>1. Init => UnaryPart!Init
    <2> SUFFICES ASSUME Init PROVE UnaryPart!Init
      OBVIOUS
    <2>1. HeldUnaries = {}
      BY DEF Init, HeldUnaries, Requests
    <2> QED
      BY <2>1, FS_EmptySet DEF Init, UnaryPart!Init, HeldUnaries, Requests
  <1>2. Init => Uncut
    BY DEF Init, Uncut, Requests
  <1>3. IInv /\ Uncut /\ [Next]_vars => Uncut'
    BY UncutStep
  <1>4. IInv /\ Uncut /\ [Next]_vars => [UnaryPart!Next]_(UnaryPart!contractVars)
    BY StepMaps
  <1> QED
    BY <1>1, <1>2, <1>3, <1>4, Invariance, PTL DEF Spec, KeepsContract, UnaryPart!Spec
-----------------------------------------------------------------------------
(* Streams.                                                                *)

\* Where a stream's budget comes in: uvicorn's patience and the kubelet's cover it.
StreamOrder == DrainTimeout <= Graceful /\ PreStop + DrainTimeout <= Grace

\* No step cuts a request early; what is cut is a cancelled task that unwinds,
\* one that dies with the process, or a body the SSE library ends.
LEMMA CutStep ==
  ASSUME StreamOrder, IInv, [Next]_vars, NEW r \in Requests, st[r] # "cut", st'[r] = "cut"
  PROVE  clock >= PreStop + DrainTimeout \/ SseCut(r)
  <1> USE DEF IInv
  <1>1. ASSUME NEW q \in Requests, OpenStream(q) \/ OpenUnary(q) \/ Reclaim(q) \/ CancelLands(q)
        PROVE  clock >= PreStop + DrainTimeout
    <2>1. CASE CancelLands(q)
      <3>1. r = q
        BY <2>1 DEF CancelLands, Drops, Abandoned, Ends, Moves, TypeOK
      <3> QED
        BY <2>1, <3>1, PodAssumption DEF CancelLands, Timed, StreamOrder, TypeOK
    <2>2. CASE OpenStream(q) \/ OpenUnary(q) \/ Reclaim(q)
      BY <2>2 DEF OpenStream, OpenUnary, Reclaim, Moves, TypeOK
    <2> QED
      BY <1>1, <2>1, <2>2
  <1>2. ASSUME NEW q \in Requests, Request(q)
        PROVE  SseCut(r)
    <2>1. CASE SseCut(q)
      <3>1. r = q
        BY <2>1 DEF SseCut, Drops, Abandoned, Ends, Moves, TypeOK
      <3> QED
        BY <2>1, <3>1
    <2>2. CASE ~SseCut(q)
      <3>1. \E s \in {"done", "failed", "pulling", "ready", "streaming", "gone", "broken"} :
              st' = [st EXCEPT ![q] = s]
        BY <1>2, <2>2 DEF Request, UnaryEnds, Headers, FirstPull, PullTimesOut, BodyStarts,
           BodyNeverStarts, BodyEnds, Drops, Abandoned, Ends, Moves
      <3> QED
        BY <3>1 DEF TypeOK
    <2> QED
      BY <2>1, <2>2
  <1>3. CASE DrainEnds
    BY <1>3, PodAssumption DEF DrainEnds, DrainDue, ProcessEnds, Timed, StreamOrder, TypeOK
  <1>4. CASE Sigkill
    BY <1>4, PodAssumption DEF Sigkill, SigkillDue, StreamOrder
  <1>5. CASE Delete \/ Sigterm \/ ServerClosed \/ GracefulExpires \/ Tick \/ UNCHANGED vars
    BY <1>5 DEF Delete, Sigterm, ServerClosed, GracefulExpires, Tick, vars, requestVars
  <1> QED
    BY <1>1, <1>2, <1>3, <1>4, <1>5 DEF Next

\* With such timeouts nobody but the SSE library cuts a request before the
\* budget is over.
THEOREM StreamsNotCutEarly ==
  ASSUME StreamOrder
  PROVE  Spec => OnlySseCutsEarly
  <1>1. IInv /\ [Next]_vars =>
          [\A r \in Requests : st[r] # "cut" /\ st'[r] = "cut"
                                  => clock >= PreStop + DrainTimeout \/ SseCut(r)]_vars
    BY CutStep
  <1> QED
    BY <1>1, Invariance, PTL DEF Spec, OnlySseCutsEarly

\* With an SSE library that lets its streams be, a rolling deploy would keep what
\* README.md:115-116 says of it.
THEOREM RollingDeployWithoutSseCut ==
  ASSUME StreamOrder, ~SseExitCut
  PROVE  Spec => NoEarlyCut
  <1>1. IInv /\ [Next]_vars =>
          [\A r \in Requests : st[r] # "cut" /\ st'[r] = "cut"
                                  => clock >= PreStop + DrainTimeout]_vars
    BY CutStep DEF SseCut
  <1> QED
    BY <1>1, Invariance, PTL DEF Spec, NoEarlyCut

-----------------------------------------------------------------------------
(* The drain flag.                                                         *)

\* While a readiness probe can still connect, the flag it reports is down.
FlagUnseen == Accepting => ~isDraining

\* README.md:109 has readiness flip to 503 on SIGTERM. No probe ever reads the
\* flag up: the lifespan raises it when the listener has long been closed.
THEOREM ReadinessNeverFlips == Spec => []FlagUnseen
  <1>1. Init => FlagUnseen
    BY DEF Init, FlagUnseen
  <1>2. FlagUnseen /\ [Next]_vars => FlagUnseen'
    <2> SUFFICES ASSUME FlagUnseen, [Next]_vars PROVE FlagUnseen'
      OBVIOUS
    <2>1. ASSUME NEW r \in Requests, OpenStream(r) \/ OpenUnary(r) \/ Request(r) \/ CancelLands(r) \/ Reclaim(r)
          PROVE  UNCHANGED <<stage, isDraining>>
      BY <2>1 DEF OpenStream, OpenUnary, Request, CancelLands, Reclaim, UnaryEnds, Headers, FirstPull,
         PullTimesOut, BodyStarts, BodyNeverStarts, BodyEnds, SseCut, Drops, Abandoned, Ends, Moves,
         Enter, Leave, drainVars
    <2>2. CASE Delete \/ Sigterm
      BY <2>2 DEF Delete, Sigterm, drainVars, FlagUnseen, Accepting
    <2>3. CASE ServerClosed \/ GracefulExpires \/ DrainEnds \/ Sigkill
      BY <2>3 DEF ServerClosed, GracefulExpires, LifespanShutdown, DrainEnds, Sigkill, ProcessEnds,
         FlagUnseen, Accepting
    <2>4. CASE Tick \/ UNCHANGED vars
      BY <2>4 DEF Tick, vars, drainVars, FlagUnseen, Accepting
    <2> QED
      BY <2>1, <2>2, <2>3, <2>4 DEF Next, FlagUnseen, Accepting
  <1> QED
    BY <1>1, <1>2, PTL DEF Spec

-----------------------------------------------------------------------------
(* Refinement: a pod keeps the contract of its streams to its end.         *)

\* What was sent to the client of a stream at each point of its life.
Sent == \A s \in Streams :
    /\ st[s] \in {"new", "connecting", "pulling", "ready"} => status[s] = 0
    /\ st[s] \in {"streaming", "done"} => status[s] = 200
    /\ st[s] = "cancelled" => status[s] \in {0, 200}
    /\ st[s] # "working"
    /\ scope[s] = "drain" => status[s] = 200

\* One stream moves to state x with status c; the others do not notice.
MovesTo(s, x, c) ==
    /\ st' = [st EXCEPT ![s] = x]
    /\ status' = [status EXCEPT ![s] = c]
    /\ \A t \in Streams \ {s} : scope'[t] = scope[t]
    /\ scope'[s] = "drain" => c = 200

\* What a step of a stream may do to its state and its status.
Allowed(s, x, c) ==
    \/ st[s] = "new" /\ x = "connecting" /\ c = 0
    \/ st[s] \in {"connecting", "pulling"} /\ x \in {"pulling", "ready"} /\ c = 0
    \/ st[s] \in {"connecting", "pulling"} /\ x = "failed" /\ c \in StreamPart!Errors
    \/ st[s] = "ready" /\ x \in {"streaming", "gone"} /\ c = 200
    \/ st[s] = "streaming" /\ x \in {"done", "broken", "gone", "cut"} /\ c = 200
    \/ st[s] = "cancelled" /\ x = "cut" /\ c = (IF status[s] = 0 THEN 500 ELSE 200)

\* Every step that a stream takes by itself is one of these.
LEMMA StreamMoves ==
  ASSUME IInv, Sent, NEW s \in Streams, OpenStream(s) \/ Request(s) \/ CancelLands(s)
  PROVE  \E x, c : MovesTo(s, x, c) /\ Allowed(s, x, c)
  <1> USE DEF IInv
  <1>1. s \in Requests /\ s \notin Unaries /\ Streams \subseteq Requests
    BY PodAssumption DEF Requests
  <1>2. ASSUME NEW x, Moves(s, x), UNCHANGED <<status, scope>>
        PROVE  MovesTo(s, x, status[s])
    <2>1. status' = [status EXCEPT ![s] = status[s]]
      BY <1>1, <1>2 DEF TypeOK
    <2> QED
      BY <1>1, <1>2, <2>1 DEF Moves, MovesTo, Sent
  <1>3. ASSUME NEW x, NEW code, Ends(s, x, code)
        PROVE  MovesTo(s, x, IF status[s] = 0 THEN code ELSE status[s])
    BY <1>1, <1>3 DEF Ends, Moves, Leave, MovesTo, TypeOK
  <1>4. ASSUME NEW x, NEW code, Drops(s, x, code)
        PROVE  MovesTo(s, x, IF status[s] = 0 THEN code ELSE status[s])
    <2>1. CASE Ends(s, x, code)
      BY <1>3, <2>1
    <2>2. CASE scope[s] = "drain" /\ Abandoned(s, x)
      BY <1>2, <2>2 DEF Abandoned, Sent
    <2> QED
      BY <1>4, <2>1, <2>2 DEF Drops
  <1> USE DEF Allowed, StreamPart!Errors, StreamPart!Mapped, StreamPart!Unmapped, Sent
  <1>5. CASE OpenStream(s)
    BY <1>2, <1>5 DEF OpenStream
  <1>6. CASE CancelLands(s)
    BY <1>4, <1>6 DEF CancelLands
  <1>7. CASE Headers(s)
    BY <1>2, <1>3, <1>7 DEF Headers
  <1>8. CASE FirstPull(s) \/ PullTimesOut(s)
    BY <1>2, <1>3, <1>8 DEF FirstPull, PullTimesOut
  <1>9. CASE BodyStarts(s)
    <2>1. MovesTo(s, "streaming", 200)
      BY <1>1, <1>9 DEF BodyStarts, Moves, Enter, MovesTo, TypeOK
    <2> QED
      BY <1>9, <2>1 DEF BodyStarts
  <1>10. CASE BodyNeverStarts(s)
    BY <1>3, <1>10 DEF BodyNeverStarts
  <1>11. CASE BodyEnds(s)
    BY <1>3, <1>4, <1>11 DEF BodyEnds
  <1>12. CASE SseCut(s)
    BY <1>4, <1>12 DEF SseCut
  <1>13. ~UnaryEnds(s)
    BY DEF UnaryEnds
  <1> QED
    BY <1>5, <1>6, <1>7, <1>8, <1>9, <1>10, <1>11, <1>12, <1>13 DEF Request

\* Nothing a client of a stream could notice.
Unnoticed == \A s \in Streams :
    st'[s] = st[s] /\ status'[s] = status[s] /\ (scope'[s] = "drain" => scope[s] = "drain")

\* All other steps go unnoticed, or are the ends of a wait or of the process.
LEMMA StreamSteps ==
  ASSUME IInv, Sent, [Next]_vars
  PROVE  \/ Unnoticed
         \/ GracefulExpires
         \/ \E x \in {"exited", "killed"} : ProcessEnds(x)
         \/ \E s \in Streams : \E x, c : MovesTo(s, x, c) /\ Allowed(s, x, c)
  <1> USE DEF IInv
  <1>1. ASSUME NEW r \in Unaries, OpenStream(r) \/ Request(r) \/ CancelLands(r) \/ OpenUnary(r)
        PROVE  Unnoticed
    <2>1. r \notin Streams
      BY PodAssumption
    <2>2. st' = st \/ \E x : st' = [st EXCEPT ![r] = x]
      BY <1>1 DEF OpenStream, OpenUnary, Request, CancelLands, UnaryEnds, Headers, FirstPull, PullTimesOut,
         BodyStarts, BodyNeverStarts, BodyEnds, SseCut, Drops, Abandoned, Ends, Moves
    <2>3. status' = status \/ \E c : status' = [status EXCEPT ![r] = c]
      BY <1>1 DEF OpenStream, OpenUnary, Request, CancelLands, UnaryEnds, Headers, FirstPull, PullTimesOut,
         BodyStarts, BodyNeverStarts, BodyEnds, SseCut, Drops, Abandoned, Ends, Moves
    <2>4. scope' = scope \/ \E x : scope' = [scope EXCEPT ![r] = x]
      BY <1>1 DEF OpenStream, OpenUnary, Request, CancelLands, UnaryEnds, Headers, FirstPull, PullTimesOut,
         BodyStarts, BodyNeverStarts, BodyEnds, SseCut, Drops, Abandoned, Ends, Moves, Enter, Leave
    <2> SUFFICES ASSUME NEW s \in Streams
                 PROVE  st'[s] = st[s] /\ status'[s] = status[s] /\ scope'[s] = scope[s]
      BY DEF Unnoticed
    <2>5. s # r /\ s \in Requests
      BY <2>1 DEF Requests
    <2>6. st'[s] = st[s]
      BY <2>2, <2>5 DEF TypeOK
    <2>7. status'[s] = status[s]
      BY <2>3, <2>5 DEF TypeOK
    <2>8. scope'[s] = scope[s]
      BY <2>4, <2>5 DEF TypeOK
    <2> QED
      BY <2>6, <2>7, <2>8
  <1>2. ASSUME NEW r \in Requests, Reclaim(r)
        PROVE  Unnoticed
    BY <1>2 DEF Reclaim, Leave, Unnoticed, TypeOK, Requests
  <1>3. CASE Delete \/ Sigterm \/ ServerClosed \/ Tick \/ UNCHANGED vars
    BY <1>3 DEF Delete, Sigterm, ServerClosed, Tick, vars, requestVars, Unnoticed
  <1>4. CASE DrainEnds \/ Sigkill
    BY <1>4 DEF DrainEnds, Sigkill
  <1>5. \A s \in Streams : ~OpenUnary(s)
    BY PodAssumption DEF OpenUnary
  <1> QED
    BY <1>1, <1>2, <1>3, <1>4, <1>5, StreamMoves DEF Next, Requests

LEMMA SentStep ==
  ASSUME IInv, Sent, [Next]_vars
  PROVE  Sent'
  <1> USE DEF IInv
  <1>1. CASE Unnoticed
    BY <1>1 DEF Unnoticed, Sent
  <1>2. CASE GracefulExpires
    BY <1>2 DEF GracefulExpires, Sent, IsOpen, OpenStates, Requests
  <1>3. ASSUME NEW x \in {"exited", "killed"}, ProcessEnds(x)
        PROVE  Sent'
    BY <1>3 DEF ProcessEnds, Sent, IsOpen, OpenStates, Requests
  <1>4. ASSUME NEW s \in Streams, NEW x, NEW c, MovesTo(s, x, c), Allowed(s, x, c)
        PROVE  Sent'
    BY <1>4 DEF MovesTo, Allowed, Sent, TypeOK, Requests
  <1> QED
    BY <1>1, <1>2, <1>3, <1>4, StreamSteps

PhasesOf == [s \in Streams |-> StreamPhase(st[s], status[s])]
StatusOf == [s \in Streams |-> status[s]]

\* Every step is one of the contract's, or a stutter.
LEMMA StreamStepMaps ==
  ASSUME IInv, Sent, [Next]_vars
  PROVE  [StreamPart!Next]_(StreamPart!contractVars)
  <1> USE DEF IInv
  <1> SUFFICES StreamPart!Next \/ UNCHANGED <<PhasesOf, StatusOf>>
    BY DEF StreamPart!contractVars, PhasesOf, StatusOf
  <1>1. CASE Unnoticed
    BY <1>1 DEF Unnoticed, PhasesOf, StatusOf
  <1>2. CASE GracefulExpires
    <2>1. \A s \in Streams : StreamPhase(st'[s], status[s]) = StreamPhase(st[s], status[s])
      BY <1>2 DEF GracefulExpires, Sent, StreamPhase, IsOpen, OpenStates, Requests
    <2> QED
      BY <1>2, <2>1 DEF GracefulExpires, PhasesOf, StatusOf
  <1>3. ASSUME NEW x \in {"exited", "killed"}, ProcessEnds(x)
        PROVE  StreamPart!Stop
    <2>1. \A s \in Streams : st'[s] = IF IsOpen(s) THEN "cut" ELSE st[s]
      BY <1>3 DEF ProcessEnds, Requests
    <2>2. \A s \in Streams : StreamPhase(st'[s], status[s]) =
             IF PhasesOf[s] = "waiting" THEN "lost" ELSE IF PhasesOf[s] = "sending" THEN "broken" ELSE PhasesOf[s]
      BY <2>1 DEF Sent, StreamPhase, PhasesOf, IsOpen, OpenStates
    <2> QED
      BY <1>3, <2>2 DEF ProcessEnds, StreamPart!Stop, PhasesOf
  <1>4. ASSUME NEW s \in Streams, NEW x, NEW c, MovesTo(s, x, c), Allowed(s, x, c)
        PROVE  StreamPart!Next \/ UNCHANGED <<PhasesOf, StatusOf>>
    <2>1. PhasesOf' = [PhasesOf EXCEPT ![s] = StreamPhase(x, c)]
      BY <1>4 DEF MovesTo, PhasesOf, TypeOK, Requests
    <2>2. StatusOf' = [StatusOf EXCEPT ![s] = c] /\ (c = status[s] => UNCHANGED StatusOf)
      <3>1. \A t \in Streams : status'[t] = IF t = s THEN c ELSE status[t]
        BY <1>4 DEF MovesTo, TypeOK, Requests
      <3> QED
        BY <3>1 DEF StatusOf
    <2>3. PhasesOf[s] = StreamPhase(st[s], status[s])
      BY DEF PhasesOf
    <2> HIDE DEF IInv
    <2>4. CASE st[s] = "new" /\ x = "connecting" /\ c = 0
      <3>1. PhasesOf[s] = "new" /\ StreamPhase(x, c) = "waiting" /\ UNCHANGED StatusOf
        BY <2>2, <2>3, <2>4 DEF Sent, StreamPhase, StatusOf
      <3> QED
        BY <2>1, <3>1 DEF StreamPart!Next, StreamPart!Open, StreamPart!Goes, PhasesOf, StatusOf
    <2>5. CASE st[s] \in {"connecting", "pulling"} /\ x \in {"pulling", "ready"} /\ c = 0
      <3>1. PhasesOf[s] = StreamPhase(x, c) /\ UNCHANGED StatusOf
        BY <2>2, <2>3, <2>5 DEF Sent, StreamPhase, StatusOf
      <3> QED
        BY <2>1, <3>1 DEF PhasesOf
    <2>6. CASE st[s] \in {"connecting", "pulling"} /\ x = "failed" /\ c \in StreamPart!Errors
      <3>1. PhasesOf[s] = "waiting" /\ StreamPhase(x, c) = "failed"
        BY <2>3, <2>6 DEF StreamPhase, StreamPart!Errors, StreamPart!Mapped, StreamPart!Unmapped
      <3>2. StreamPart!Refuse(s, c)
        BY <2>1, <2>2, <3>1 DEF StreamPart!Refuse, StreamPart!Goes, PhasesOf, StatusOf
      <3> QED
        BY <2>6, <3>2 DEF StreamPart!Next
    <2>7. CASE st[s] = "ready" /\ x \in {"streaming", "gone"} /\ c = 200
      <3>1. PhasesOf[s] = "waiting" /\ StreamPhase(x, c) \in {"sending", "broken"}
        BY <2>3, <2>7 DEF StreamPhase
      <3>2. StreamPart!Respond(s)
        BY <2>1, <2>2, <2>7, <3>1 DEF StreamPart!Respond, StreamPart!Goes, PhasesOf, StatusOf
      <3> QED
        BY <3>2 DEF StreamPart!Next
    <2>8. ASSUME PhasesOf[s] = "sending", StreamPhase(x, c) \in {"done", "broken"}, UNCHANGED StatusOf
          PROVE  StreamPart!Next
      BY <2>1, <2>8 DEF StreamPart!Next, StreamPart!Finish, StreamPart!Goes, PhasesOf, StatusOf
    <2>9. CASE st[s] = "streaming" /\ x \in {"done", "broken", "gone", "cut"} /\ c = 200
      <3>1. PhasesOf[s] = "sending" /\ StreamPhase(x, c) \in {"done", "broken"} /\ UNCHANGED StatusOf
        BY <2>2, <2>3, <2>9 DEF Sent, StreamPhase, StatusOf
      <3> QED
        BY <2>8, <3>1
    <2>10. CASE st[s] = "cancelled" /\ x = "cut" /\ status[s] = 200 /\ c = 200
      <3>1. PhasesOf[s] = "sending" /\ StreamPhase(x, c) = "broken" /\ UNCHANGED StatusOf
        BY <2>2, <2>3, <2>10 DEF StreamPhase, StatusOf
      <3> QED
        BY <2>8, <3>1
    <2>11. CASE st[s] = "cancelled" /\ x = "cut" /\ status[s] = 0 /\ c = 500
      <3>1. PhasesOf[s] = "waiting" /\ StreamPhase(x, c) = "failed"
        BY <2>3, <2>11 DEF StreamPhase
      <3>2. StreamPart!Refuse(s, c)
        BY <2>1, <2>2, <3>1 DEF StreamPart!Refuse, StreamPart!Goes, PhasesOf, StatusOf
      <3>3. c \in StreamPart!Errors
        BY <2>11 DEF StreamPart!Errors, StreamPart!Mapped, StreamPart!Unmapped
      <3> QED
        BY <3>2, <3>3 DEF StreamPart!Next
    <2> QED
      BY <1>4, <2>4, <2>5, <2>6, <2>7, <2>9, <2>10, <2>11 DEF Allowed, Sent
  <1> QED
    BY <1>1, <1>2, <1>3, <1>4, StreamSteps DEF StreamPart!Next

\* Whatever client, upstream, library and shutdown do, a stream of the pod keeps
\* its contract; no order among the timeouts is needed.
THEOREM PodKeepsStreamContract == Spec => KeepsStreamContract
  <1>1. Init => StreamPart!Init
    BY DEF Init, StreamPart!Init, StreamPhase, Requests
  <1>2. Init => Sent
    BY DEF Init, Sent, Requests
  <1>3. IInv /\ Sent /\ [Next]_vars => Sent'
    BY SentStep
  <1>4. IInv /\ Sent /\ [Next]_vars => [StreamPart!Next]_(StreamPart!contractVars)
    BY StreamStepMaps
  <1> QED
    BY <1>1, <1>2, <1>3, <1>4, Invariance, PTL DEF Spec, KeepsStreamContract, StreamPart!Spec
-----------------------------------------------------------------------------
(* The end of the pod.                                                     *)

\* The drain has begun, and is over when its timeout is.
Draining == stage = "draining" => isDraining /\ drainSince <= clock /\ clock <= drainSince + DrainTimeout

LEMMA DrainingStep ==
  ASSUME IInv, Draining, [Next]_vars
  PROVE  Draining'
  <1> USE DEF IInv
  <1>1. ASSUME NEW r \in Requests, OpenStream(r) \/ OpenUnary(r) \/ Request(r) \/ CancelLands(r) \/ Reclaim(r)
        PROVE  UNCHANGED <<stage, clock, isDraining, drainSince>>
    BY <1>1 DEF OpenStream, OpenUnary, Request, CancelLands, Reclaim, UnaryEnds, Headers, FirstPull,
       PullTimesOut, BodyStarts, BodyNeverStarts, BodyEnds, SseCut, Drops, Abandoned, Ends, Moves,
       Enter, Leave, drainVars
  <1>2. CASE Tick
    BY <1>2, PodAssumption DEF Tick, DrainDue, DrainTimeoutDue, Draining, TypeOK, drainVars
  <1>3. CASE ServerClosed \/ GracefulExpires
    BY <1>3, PodAssumption DEF ServerClosed, ClosedDue, GracefulExpires, LifespanShutdown, Draining, TypeOK
  <1>4. CASE Delete \/ Sigterm \/ DrainEnds \/ Sigkill \/ UNCHANGED vars
    BY <1>4 DEF Delete, Sigterm, DrainEnds, Sigkill, ProcessEnds, Draining, vars, drainVars
  <1> QED
    BY <1>1, <1>2, <1>3, <1>4 DEF Next, Draining

\* SIGKILL overtakes a drain only if it began too late for its timeout.
THEOREM DrainsEndInTime == Spec => KilledOnlyWhenLate
  <1>1. Init => Draining
    BY DEF Init, Draining
  <1>2. IInv /\ Draining /\ [Next]_vars => Draining'
    BY DrainingStep
  <1>3. IInv /\ Draining /\ [Next]_vars =>
          [stage = "draining" /\ stage' = "killed" => drainSince + DrainTimeout >= Grace]_vars
    <2> SUFFICES ASSUME IInv, Draining, Next, stage = "draining", stage' = "killed"
                 PROVE  drainSince + DrainTimeout >= Grace
      OBVIOUS
    <2>1. CASE Sigkill
      BY <2>1, PodAssumption DEF Sigkill, SigkillDue, Draining, IInv, TypeOK
    <2>2. CASE ~Sigkill
      BY <2>2 DEF Next, OpenStream, OpenUnary, Request, CancelLands, Reclaim, UnaryEnds, Headers, FirstPull,
         PullTimesOut, BodyStarts, BodyNeverStarts, BodyEnds, SseCut, Drops, Abandoned, Ends, Moves,
         Delete, Sigterm, ServerClosed, GracefulExpires, LifespanShutdown, DrainEnds, ProcessEnds, Tick
    <2> QED
      BY <2>1, <2>2
  <1> QED
    BY <1>1, <1>2, <1>3, Invariance, PTL DEF Spec, KilledOnlyWhenLate

\* Every stage ends at its timer, and a drain begins no later than the server's
\* wait can last.
Punctual ==
    /\ stage = "closing" => clock <= PreStop + Graceful
    /\ stage = "draining" => drainSince <= PreStop + Graceful
    /\ stage # "killed"

LEMMA PunctualStep ==
  ASSUME PreStop + Graceful + DrainTimeout < Grace,
         IInv, Draining, Punctual, [Next]_vars
  PROVE  Punctual'
  <1>1. ASSUME UNCHANGED <<stage, clock, drainSince>>
        PROVE  Punctual'
    BY <1>1 DEF Punctual
  <1>2. ASSUME NEW r \in Requests, OpenStream(r) \/ OpenUnary(r) \/ Request(r) \/ CancelLands(r) \/ Reclaim(r)
        PROVE  UNCHANGED <<stage, clock, drainSince>>
    BY <1>2 DEF OpenStream, OpenUnary, Request, CancelLands, Reclaim, UnaryEnds, Headers, FirstPull,
       PullTimesOut, BodyStarts, BodyNeverStarts, BodyEnds, SseCut, Drops, Abandoned, Ends, Moves,
       Enter, Leave, drainVars
  <1>3. /\ stage = "prestop" => clock <= PreStop
        /\ clock \in Nat /\ drainSince \in Nat
    BY DEF IInv, TypeOK, Timed
  <1>4. CASE Tick
    <2>1. stage' = stage /\ drainSince' = drainSince /\ stage # "killed" /\ ~GracefulDue
      BY <1>4 DEF Tick, Alive, drainVars
    <2>2. stage = "closing" => clock' = clock + 1
      BY <1>4 DEF Tick
    <2> QED
      BY <1>3, <2>1, <2>2, PodAssumption DEF Punctual, GracefulDue
  <1>5. CASE Delete \/ Sigterm
    BY <1>3, <1>5, PodAssumption DEF Delete, Sigterm, SigtermDue, Punctual
  <1>6. CASE ServerClosed \/ GracefulExpires
    <2>1. stage = "closing" /\ stage' = "draining" /\ drainSince' = clock
      BY <1>6 DEF ServerClosed, ClosedDue, GracefulExpires, GracefulDue, LifespanShutdown
    <2> QED
      BY <2>1 DEF Punctual
  <1>7. CASE DrainEnds
    BY <1>7 DEF DrainEnds, ProcessEnds, Punctual
  <1>8. CASE Sigkill
    <2>1. stage \in {"prestop", "closing", "draining"} /\ clock = Grace
      BY <1>8 DEF Sigkill, SigkillDue
    <2> QED
      BY <1>3, <2>1, PodAssumption DEF Punctual, Draining
  <1>9. CASE UNCHANGED vars
    BY <1>1, <1>9 DEF vars, drainVars
  <1> QED
    BY <1>1, <1>2, <1>4, <1>5, <1>6, <1>7, <1>8, <1>9 DEF Next

\* What the manifest would have to grant for SIGKILL never to decide: a grace
\* period longer than preStop, the server's wait and the drain in a row.
THEOREM NeverKilled ==
  ASSUME PreStop + Graceful + DrainTimeout < Grace
  PROVE  Spec => [](stage # "killed")
  <1>1. Init => Draining /\ Punctual
    BY DEF Init, Draining, Punctual
  <1>2. IInv /\ Draining /\ Punctual /\ [Next]_vars => Draining' /\ Punctual'
    BY DrainingStep, PunctualStep
  <1>3. Punctual => stage # "killed"
    BY DEF Punctual
  <1> QED
    BY <1>1, <1>2, <1>3, Invariance, PTL DEF Spec
=============================================================================
