--------------------------- MODULE UnaryChatProofs ---------------------------
(***************************************************************************)
(* Proofs about UnaryChat for any finite set of requests, either adapter,  *)
(* any upstream and any settings of attempts, timeouts and delays.         *)
(***************************************************************************)
EXTENDS UnaryChat, FiniteSetTheorems, TLAPS

-----------------------------------------------------------------------------
(* The inductive invariant: how a request's attempts and outcomes stand to *)
(* each other at each point of the retry loop.                             *)

\* Every attempt before the current one ended, and in a way that is retried.
Counted(r) ==
    /\ pc[r] = "calling"  => attempt[r] \in 1..MaxAttempts /\ Len(outcomes[r]) = attempt[r] - 1
    /\ pc[r] = "sleeping" => attempt[r] \in 1..(MaxAttempts - 1) /\ Len(outcomes[r]) = attempt[r]
    /\ pc[r] = "new" => outcomes[r] = <<>>
    /\ \A i \in 1..Len(outcomes[r]) :
          pc[r] # "answered" \/ i < Len(outcomes[r]) => IsRetryable(outcomes[r][i])

\* The status goes out with the end of the request.
Silent(r) == pc[r] # "answered" => answer[r] = 0 /\ recorded[r] = 0

IInv ==
    /\ TypeOK
    /\ BudgetHolds
    /\ GaugesBalance
    /\ AnswerExplained
    /\ \A r \in Requests : Counted(r) /\ Silent(r)
-----------------------------------------------------------------------------
(* Lemmas about the helpers.                                               *)

\* A backoff is a natural number, whatever the attempt and the hint.
LEMMA DelaysType == ASSUME NEW n, NEW x PROVE Delays(n, x) \subseteq Nat
  BY ChatAssumption DEF Delays, Largest

\* Each exception has one status of the error contract.
LEMMA StatusOf ==
  ASSUME NEW e
  PROVE  /\ Status(e) \in {429, 500, 502, 504}
         /\ Status(e) = 429 => e = "ProviderRateLimited"
         /\ Status(e) = 502 => e = "ProviderUnavailable"
         /\ Status(e) = 504 => e = "ProviderTimeout"
         /\ Status(e) = 500 => e \notin {"ProviderRateLimited", "ProviderUnavailable", "ProviderTimeout"}
  BY DEF Status

\* What an attempt must have come to for each exception.
LEMMA ExceptionOf ==
  ASSUME NEW x \in Outcomes \ {"ok"}
  PROVE  /\ Exception(x) = "ProviderRateLimited" => x \in {"rate_limited", "retry_after"}
         /\ Exception(x) = "ProviderUnavailable" => x \in {"transient", "client_error"}
         /\ Exception(x) = "ProviderTimeout" => x \in {"timeout", "slow_model"}
         /\ x \in {"rate_limited", "retry_after"} => Exception(x) = "ProviderRateLimited"
         /\ x \in {"transient", "client_error"} => Exception(x) = "ProviderUnavailable"
         /\ x = "slow_model" => Exception(x) = "ProviderTimeout"
  BY DEF Exception, Outcomes, ReplyKinds

ActiveSet == {r \in Requests : Active(r)}

LEMMA ActiveFinite == IsFiniteSet(ActiveSet)
  BY ChatAssumption, FS_Subset DEF ActiveSet
-----------------------------------------------------------------------------
(* Type correctness.                                                       *)

LEMMA TypeInit == Init => TypeOK
  BY ChatAssumption DEF Init, TypeOK

LEMMA AnswerType ==
  ASSUME TypeOK, NEW r \in Requests, NEW s \in {200, 429, 500, 502, 504}, Answer(r, s),
         inflight > 0, upstream > 0, outcomes' \in [Requests -> Seq(Outcomes)]
  PROVE  TypeOK'
  <1>1. inflight' \in Nat /\ upstream' \in Nat
    BY DEF TypeOK, Answer
  <1>2. recorded' \in [Requests -> {0, 200}]
    BY DEF TypeOK, Answer
  <1>3. answer' \in [Requests -> {0, 200, 429, 500, 502, 504}]
    BY DEF TypeOK, Answer
  <1>4. timer' \in [Requests -> Nat]
    BY DEF TypeOK, Answer
  <1> QED
    BY <1>1, <1>2, <1>3, <1>4 DEF TypeOK, Answer

LEMMA SleepType ==
  ASSUME TypeOK, NEW r \in Requests, NEW x, Sleep(r, x), outcomes' \in [Requests -> Seq(Outcomes)]
  PROVE  TypeOK'
  <1>1. timer' \in [Requests -> Nat]
    BY DelaysType DEF TypeOK, Sleep
  <1> QED
    BY <1>1 DEF TypeOK, Sleep

\* An active request is in both gauges.
LEMMA ActiveCounts ==
  ASSUME TypeOK, GaugesBalance, NEW r \in Requests, Active(r)
  PROVE  inflight > 0 /\ upstream > 0
  <1>1. r \in ActiveSet /\ inflight = Cardinality(ActiveSet) /\ upstream = Cardinality(ActiveSet)
    BY DEF GaugesBalance, ActiveSet
  <1>2. Cardinality(ActiveSet) # 0
    BY <1>1, ActiveFinite, FS_EmptySet
  <1> QED
    BY <1>1, <1>2 DEF TypeOK
-----------------------------------------------------------------------------
(* The gauges, through every way a request begins and ends.                *)

\* The one action of a request that raises both gauges.
LEMMA GaugesAccept ==
  ASSUME TypeOK, GaugesBalance, NEW r \in Requests, Accept(r)
  PROVE  GaugesBalance'
  <1>1. ActiveSet' = ActiveSet \cup {r} /\ r \notin ActiveSet
    BY DEF ActiveSet, Active, Accept, TypeOK
  <1>2. Cardinality(ActiveSet') = Cardinality(ActiveSet) + 1
    BY <1>1, ActiveFinite, FS_AddElement
  <1> QED
    BY <1>2 DEF GaugesBalance, Accept, ActiveSet

\* Both fall when a request is answered, with whatever status.
LEMMA GaugesAnswer ==
  ASSUME TypeOK, GaugesBalance, NEW r \in Requests, Active(r), NEW s, Answer(r, s)
  PROVE  GaugesBalance'
  <1>1. ActiveSet' = ActiveSet \ {r} /\ r \in ActiveSet
    BY DEF ActiveSet, Active, Answer, TypeOK
  <1>2. Cardinality(ActiveSet') = Cardinality(ActiveSet) - 1
    BY <1>1, ActiveFinite, FS_RemoveElement
  <1> QED
    BY <1>2 DEF GaugesBalance, Answer, ActiveSet

\* Nothing else moves them.
LEMMA GaugesKept ==
  ASSUME GaugesBalance, UNCHANGED <<inflight, upstream>>, \A r \in Requests : Active(r)' <=> Active(r)
  PROVE  GaugesBalance'
  BY DEF GaugesBalance
-----------------------------------------------------------------------------
(* The invariant is inductive: one lemma per action.                       *)

LEMMA InvInit == Init => IInv
  <1> SUFFICES ASSUME Init PROVE IInv
    OBVIOUS
  <1>1. TypeOK
    BY TypeInit
  <1>2. BudgetHolds
    BY ChatAssumption DEF Init, BudgetHolds
  <1>3. GaugesBalance
    <2>1. {r \in Requests : Active(r)} = {}
      BY DEF Init, Active
    <2> QED
      BY <2>1, FS_EmptySet DEF Init, GaugesBalance
  <1>4. AnswerExplained
    BY DEF Init, AnswerExplained
  <1>5. \A r \in Requests : Counted(r) /\ Silent(r)
    BY DEF Init, Counted, Silent
  <1> QED
    BY <1>1, <1>2, <1>3, <1>4, <1>5 DEF IInv

LEMMA AcceptInv ==
  ASSUME IInv, NEW r \in Requests, Accept(r)
  PROVE  IInv'
  <1> USE DEF IInv
  <1>1. TypeOK'
    BY ChatAssumption DEF TypeOK, Accept
  <1>2. GaugesBalance'
    BY GaugesAccept
  <1>3. BudgetHolds' /\ AnswerExplained'
    BY DEF TypeOK, Accept, BudgetHolds, AnswerExplained, Explained, LastOutcome
  <1>4. \A q \in Requests : Counted(q)' /\ Silent(q)'
    BY ChatAssumption DEF TypeOK, Accept, Counted, Silent
  <1> QED
    BY <1>1, <1>2, <1>3, <1>4

LEMMA BudgetExpiresInv ==
  ASSUME IInv, NEW r \in Requests, BudgetExpires(r)
  PROVE  IInv'
  <1> USE DEF IInv
  <1>1. Active(r) /\ Answer(r, 504) /\ age[r] = TotalTimeout
    <2>1. Status("ProviderTimeout") = 504
      BY Zenon DEF Status
    <2> QED
      BY <2>1, ChatAssumption DEF BudgetExpires, BudgetDue, BudgetHolds, TypeOK
  <1>2. TypeOK'
    <2>1. inflight > 0 /\ upstream > 0
      BY <1>1, ActiveCounts
    <2>2. outcomes' \in [Requests -> Seq(Outcomes)]
      BY DEF BudgetExpires, TypeOK
    <2> QED
      BY <1>1, <2>1, <2>2, AnswerType
  <1>3. GaugesBalance'
    BY <1>1, GaugesAnswer
  <1>4. BudgetHolds'
    BY <1>1 DEF BudgetHolds, Answer
  <1>5. AnswerExplained'
    BY <1>1 DEF TypeOK, AnswerExplained, Explained, LastOutcome, Answer, BudgetExpires, Silent, Active
  <1>6. \A q \in Requests : Counted(q)' /\ Silent(q)'
    BY <1>1 DEF TypeOK, Answer, BudgetExpires, Counted, Silent, Active
  <1> QED
    BY <1>2, <1>3, <1>4, <1>5, <1>6

\* The outcomes of a request, with one more at their end.
LEMMA OneMore ==
  ASSUME TypeOK, NEW r \in Requests, NEW x \in Outcomes,
         outcomes' = [outcomes EXCEPT ![r] = Append(@, x)]
  PROVE  /\ outcomes' \in [Requests -> Seq(Outcomes)]
         /\ \A q \in Requests : q # r => outcomes'[q] = outcomes[q]
         /\ Len(outcomes'[r]) = Len(outcomes[r]) + 1
         /\ outcomes'[r][Len(outcomes'[r])] = x
         /\ \A i \in 1..Len(outcomes[r]) : outcomes'[r][i] = outcomes[r][i]
  BY DEF TypeOK

\* A failed attempt is the last: re-raised, and reported as what it was.
LEMMA FailsInv ==
  ASSUME IInv, NEW r \in Requests, pc[r] = "calling", NEW x \in Outcomes \ {"ok"},
         outcomes' = [outcomes EXCEPT ![r] = Append(@, x)],
         ~IsRetryable(x) \/ attempt[r] = MaxAttempts,
         Answer(r, Status(Exception(x)))
  PROVE  IInv'
  <1> USE DEF IInv
  <1> DEFINE s == Status(Exception(x))
  <1> HIDE DEF s
  <1>1. Active(r) /\ Answer(r, s) /\ s \in {429, 500, 502, 504}
    BY StatusOf DEF Active, s
  <1>2. TypeOK'
    <2>1. inflight > 0 /\ upstream > 0
      BY <1>1, ActiveCounts
    <2>2. outcomes' \in [Requests -> Seq(Outcomes)]
      <3>1. x \in Outcomes
        OBVIOUS
      <3> QED
        BY <3>1, OneMore
    <2>3. s \in {200, 429, 500, 502, 504}
      BY <1>1
    <2> QED
      BY <1>1, <2>1, <2>2, <2>3, AnswerType
  <1>3. GaugesBalance'
    BY <1>1, GaugesAnswer
  <1>4. BudgetHolds'
    BY <1>1 DEF BudgetHolds, Answer
  <1>5. Explained(r)'
    <2>1. Len(outcomes'[r]) = attempt'[r] /\ LastOutcome(r)' = x /\ outcomes'[r] # <<>>
      BY <1>1, OneMore DEF Counted, Answer, TypeOK, LastOutcome
    <2>2. answer'[r] = s /\ recorded'[r] = 0 /\ attempt' = attempt
      BY <1>1 DEF Answer, TypeOK, Silent
    <2>3. \/ s = 429 /\ x \in {"rate_limited", "retry_after"}
          \/ s = 502 /\ x \in {"transient", "client_error"}
          \/ s = 504 /\ x \in {"timeout", "slow_model"}
          \/ s = 500 /\ x \in {"timeout", "unmapped"}
      BY <1>1, StatusOf, ExceptionOf DEF s, Outcomes, ReplyKinds
    <2>4. x \in {"rate_limited", "retry_after", "transient"} => attempt[r] = MaxAttempts
      BY DEF IsRetryable
    <2>5. \/ s = 429 /\ x \in {"rate_limited", "retry_after"} /\ attempt'[r] = MaxAttempts
          \/ s = 502 /\ x = "transient" /\ attempt'[r] = MaxAttempts
          \/ s = 502 /\ x = "client_error"
          \/ s = 504 /\ x \in {"timeout", "slow_model"}
          \/ s = 500 /\ x \in {"timeout", "unmapped"}
      BY <2>2, <2>3, <2>4
    <2>6. recorded'[r] = (IF answer'[r] = 200 THEN 200 ELSE 0)
      BY <1>1, <2>2
    <2> QED
      BY <2>1, <2>2, <2>5, <2>6 DEF Explained
  <1>6. AnswerExplained'
    <2>1. ASSUME NEW q \in Requests \ {r}, pc'[q] = "answered"
          PROVE  Explained(q)'
      <3>1. /\ pc[q] = "answered" /\ outcomes'[q] = outcomes[q] /\ answer'[q] = answer[q]
            /\ recorded'[q] = recorded[q] /\ attempt'[q] = attempt[q] /\ age'[q] = age[q]
        BY <1>1, <2>1 DEF TypeOK, Answer
      <3>2. Explained(q)
        BY <3>1 DEF AnswerExplained
      <3> QED
        BY <3>1, <3>2 DEF Explained, LastOutcome
    <2> QED
      BY <1>5, <2>1 DEF AnswerExplained
  <1>7. ASSUME NEW q \in Requests PROVE Counted(q)' /\ Silent(q)'
    <2>1. CASE q = r
      <3>1. pc'[r] = "answered"
        BY <1>1 DEF Answer, TypeOK
      <3>2. ASSUME NEW i \in 1..Len(outcomes'[r]), i < Len(outcomes'[r])
            PROVE  IsRetryable(outcomes'[r][i])
        <4>1. i \in 1..Len(outcomes[r]) /\ outcomes'[r][i] = outcomes[r][i]
          BY <3>2, OneMore
        <4> QED
          BY <4>1 DEF Counted
      <3> QED
        BY <2>1, <3>1, <3>2 DEF Counted, Silent
    <2>2. CASE q # r
      <3>1. UNCHANGED <<pc[q], outcomes[q], attempt[q], answer[q], recorded[q]>>
        BY <1>1, <2>2 DEF TypeOK, Answer
      <3> QED
        BY <3>1 DEF Counted, Silent
    <2> QED
      BY <2>1, <2>2
  <1> QED
    BY <1>2, <1>3, <1>4, <1>6, <1>7

LEMMA SucceedsInv ==
  ASSUME IInv, NEW r \in Requests, pc[r] = "calling",
         outcomes' = [outcomes EXCEPT ![r] = Append(@, "ok")], Answer(r, 200)
  PROVE  IInv'
  <1> USE DEF IInv
  <1>1. Active(r) /\ "ok" \in Outcomes
    BY DEF Active, Outcomes, ReplyKinds
  <1>2. TypeOK'
    <2>1. inflight > 0 /\ upstream > 0
      BY <1>1, ActiveCounts
    <2>2. outcomes' \in [Requests -> Seq(Outcomes)]
      BY <1>1, OneMore
    <2>3. 200 \in {200, 429, 500, 502, 504}
      BY <1>1
    <2> QED
      BY <1>1, <2>1, <2>2, <2>3, AnswerType
  <1>3. GaugesBalance'
    BY <1>1, GaugesAnswer
  <1>4. BudgetHolds'
    BY <1>1 DEF BudgetHolds, Answer
  <1>5. AnswerExplained'
    BY <1>1, OneMore DEF TypeOK, AnswerExplained, Explained, LastOutcome, Answer, Counted
  <1>6. \A q \in Requests : Counted(q)' /\ Silent(q)'
    BY <1>1, OneMore DEF TypeOK, Answer, Counted, Silent
  <1> QED
    BY <1>2, <1>3, <1>4, <1>5, <1>6

LEMMA SleepsInv ==
  ASSUME IInv, NEW r \in Requests, pc[r] = "calling", NEW x \in Outcomes,
         outcomes' = [outcomes EXCEPT ![r] = Append(@, x)],
         IsRetryable(x), attempt[r] < MaxAttempts, Sleep(r, x)
  PROVE  IInv'
  <1> USE DEF IInv
  <1>1. TypeOK'
    BY SleepType, OneMore
  <1>2. GaugesBalance'
    BY GaugesKept DEF Sleep, Active, TypeOK
  <1>3. BudgetHolds'
    BY DEF BudgetHolds, Sleep
  <1>4. AnswerExplained'
    BY OneMore DEF TypeOK, AnswerExplained, Explained, LastOutcome, Sleep
  <1>5. \A q \in Requests : Silent(q)'
    BY DEF TypeOK, Sleep, Silent
  <1>6. Counted(r)'
    BY OneMore, ChatAssumption DEF TypeOK, Sleep, Counted
  <1>7. \A q \in Requests : q # r => Counted(q)'
    BY OneMore DEF TypeOK, Sleep, Counted
  <1> QED
    BY <1>1, <1>2, <1>3, <1>4, <1>5, <1>6, <1>7

\* The three ways an attempt can end.
LEMMA AttemptEndsInv ==
  ASSUME IInv, NEW r \in Requests, pc[r] = "calling", NEW x \in Outcomes, AttemptEnds(r, x)
  PROVE  IInv'
  <1>1. CASE x = "ok" /\ Answer(r, 200)
    BY <1>1, SucceedsInv DEF AttemptEnds
  <1>2. CASE x # "ok" /\ (~IsRetryable(x) \/ attempt[r] = MaxAttempts) /\ Answer(r, Status(Exception(x)))
    BY <1>2, FailsInv DEF AttemptEnds
  <1>3. CASE IsRetryable(x) /\ attempt[r] < MaxAttempts /\ Sleep(r, x)
    BY <1>3, SleepsInv DEF AttemptEnds
  <1> QED
    BY <1>1, <1>2, <1>3 DEF AttemptEnds

\* What only moves the request's timer, or its attempt.
LEMMA WakeInv ==
  ASSUME IInv, NEW r \in Requests, Wake(r) \/ OperationCompletes(r)
  PROVE  IInv'
  <1> USE DEF IInv
  <1>1. TypeOK'
    <2>1. timer' \in [Requests -> Nat]
      <3>1. timer' = [timer EXCEPT ![r] = AttemptTimeout]
        BY DEF Wake, OperationCompletes
      <3> QED
        BY <3>1, ChatAssumption DEF TypeOK
    <2>2. attempt' \in [Requests -> 0..MaxAttempts]
      <3>1. CASE Wake(r)
        <4>1. attempt[r] + 1 \in 0..MaxAttempts
          BY <3>1, ChatAssumption DEF Wake, Counted
        <4> QED
          BY <3>1, <4>1 DEF TypeOK, Wake
      <3>2. CASE OperationCompletes(r)
        BY <3>2 DEF TypeOK, OperationCompletes
      <3> QED
        BY <3>1, <3>2
    <2>3. pc' \in [Requests -> {"new", "calling", "sleeping", "answered"}]
      <3>1. CASE Wake(r)
        BY <3>1 DEF TypeOK, Wake
      <3>2. CASE OperationCompletes(r)
        BY <3>2 DEF TypeOK, OperationCompletes
      <3> QED
        BY <3>1, <3>2
    <2>4. UNCHANGED <<age, outcomes, answer, recorded, inflight, upstream>>
      BY DEF Wake, OperationCompletes
    <2> QED
      BY <2>1, <2>2, <2>3, <2>4 DEF TypeOK
  <1>2. GaugesBalance'
    <2>1. UNCHANGED <<inflight, upstream>>
      BY DEF Wake, OperationCompletes
    <2>2. CASE Wake(r)
      <3>1. \A q \in Requests : Active(q)' <=> Active(q)
        BY <2>2 DEF Wake, Active, TypeOK
      <3> QED
        BY <2>1, <3>1, GaugesKept
    <2>3. CASE OperationCompletes(r)
      <3>1. \A q \in Requests : Active(q)' <=> Active(q)
        BY <2>3 DEF OperationCompletes, Active
      <3> QED
        BY <2>1, <3>1, GaugesKept
    <2> QED
      BY <2>2, <2>3
  <1>3. BudgetHolds' /\ AnswerExplained'
    <2>1. UNCHANGED <<age, outcomes, answer, recorded>>
      BY DEF Wake, OperationCompletes
    <2>2. BudgetHolds'
      BY <2>1 DEF BudgetHolds
    <2>3. ASSUME NEW q \in Requests, pc'[q] = "answered" PROVE Explained(q)'
      <3>1. pc[q] = "answered" /\ attempt'[q] = attempt[q]
        BY <2>3 DEF Wake, OperationCompletes, TypeOK
      <3>2. Explained(q)
        BY <3>1 DEF AnswerExplained
      <3> QED
        BY <2>1, <3>1, <3>2 DEF Explained, LastOutcome
    <2> QED
      BY <2>2, <2>3 DEF AnswerExplained
  <1>4. ASSUME NEW q \in Requests PROVE Counted(q)' /\ Silent(q)'
    <2>1. UNCHANGED <<outcomes, answer, recorded>>
      BY DEF Wake, OperationCompletes
    <2>2. CASE Wake(r) /\ q = r
      <3>1. /\ pc[r] = "sleeping" /\ pc'[r] = "calling" /\ attempt'[r] = attempt[r] + 1
        BY <2>2 DEF Wake, TypeOK
      <3> QED
        BY <2>1, <2>2, <3>1, ChatAssumption DEF Counted, Silent
    <2>3. CASE OperationCompletes(r) \/ q # r
      <3>1. UNCHANGED <<pc[q], attempt[q]>>
        BY <2>3 DEF Wake, OperationCompletes, TypeOK
      <3> QED
        BY <2>1, <3>1 DEF Counted, Silent
    <2> QED
      BY <2>2, <2>3
  <1> QED
    BY <1>1, <1>2, <1>3, <1>4

LEMMA TickInv ==
  ASSUME IInv, Tick
  PROVE  IInv'
  <1> USE DEF IInv
  <1>1. TypeOK'
    BY DEF TypeOK, Tick
  <1>2. GaugesBalance'
    BY GaugesKept DEF Tick, Active
  <1>3. BudgetHolds'
    BY ChatAssumption DEF TypeOK, BudgetHolds, BudgetDue, Tick
  <1>4. AnswerExplained'
    BY DEF TypeOK, AnswerExplained, Explained, LastOutcome, Tick, Active
  <1>5. \A q \in Requests : Counted(q)' /\ Silent(q)'
    BY DEF TypeOK, Tick, Counted, Silent
  <1> QED
    BY <1>1, <1>2, <1>3, <1>4, <1>5

LEMMA InvStep == IInv /\ [Next]_vars => IInv'
  <1> SUFFICES ASSUME IInv, [Next]_vars PROVE IInv'
    OBVIOUS
  <1>1. CASE Tick
    BY <1>1, TickInv
  <1>2. ASSUME NEW r \in Requests, Accept(r) PROVE IInv'
    BY <1>2, AcceptInv
  <1>3. ASSUME NEW r \in Requests, Wake(r) \/ OperationCompletes(r) PROVE IInv'
    BY <1>3, WakeInv
  <1>4. ASSUME NEW r \in Requests, BudgetExpires(r) PROVE IInv'
    BY <1>4, BudgetExpiresInv
  <1>5. ASSUME NEW r \in Requests, AttemptTimesOut(r) PROVE IInv'
    BY <1>5, AttemptEndsInv DEF AttemptTimesOut, Outcomes
  <1>6. ASSUME NEW r \in Requests, NEW x \in Replies, UpstreamReplies(r, x) PROVE IInv'
    BY <1>6, ChatAssumption, AttemptEndsInv DEF UpstreamReplies, Outcomes
  <1>7. CASE UNCHANGED vars
    BY <1>7 DEF vars, requestVars, IInv, TypeOK, BudgetHolds, GaugesBalance, Active,
       AnswerExplained, Explained, LastOutcome, Counted, Silent
  <1> QED
    BY <1>1, <1>2, <1>3, <1>4, <1>5, <1>6, <1>7 DEF Next, Progress

LEMMA Invariance == Spec => []IInv
  BY InvInit, InvStep, PTL DEF Spec
-----------------------------------------------------------------------------
(* What the properties say, for every value of the constants.              *)

\* Every variable keeps its type; no attempt beyond the last, no status outside
\* the error contract.
THEOREM TypeCorrect == Spec => []TypeOK
  BY Invariance, PTL DEF IInv

\* The total budget bounds attempts and backoff together.
THEOREM BudgetAlwaysHolds == Spec => []BudgetHolds
  BY Invariance, PTL DEF IInv

\* The gauges count the requests in flight, whatever ended the others.
THEOREM GaugesAlwaysBalance == Spec => []GaugesBalance
  BY Invariance, PTL DEF IInv

\* Every answer is what the last attempt justifies, or the budget's timeout.
THEOREM AnswersExplained == Spec => []AnswerExplained
  BY Invariance, PTL DEF IInv

\* Behind openai_compat, nothing but a transient failure is followed by another
\* attempt. (Bedrock's client errors are.)
THEOREM TransientRetries ==
  ASSUME Adapter = "openai_compat"
  PROVE  Spec => []RetriesOnlyTransient
  <1>1. IInv => RetriesOnlyTransient
    <2> SUFFICES ASSUME IInv, NEW r \in Requests, NEW i \in 1..(Len(outcomes[r]) - 1)
                 PROVE  outcomes[r][i] \in {"rate_limited", "retry_after", "transient"}
      BY DEF RetriesOnlyTransient
    <2>1. Len(outcomes[r]) \in Nat
      BY DEF IInv, TypeOK
    <2>2. IsRetryable(outcomes[r][i])
      BY <2>1 DEF IInv, Counted
    <2> QED
      BY <2>2 DEF IsRetryable
  <1> QED
    BY <1>1, Invariance, PTL
-----------------------------------------------------------------------------
(* Refinement: the retry loop keeps the contract, step by step.            *)

PhaseOf == [r \in Requests |-> IF Active(r) THEN "working"
                               ELSE IF pc[r] = "answered" THEN "ended" ELSE "new"]

\* A request's answer is the contract's End.
LEMMA AnswerEnds ==
  ASSUME TypeOK, NEW r \in Requests, Active(r), NEW s, Answer(r, s)
  PROVE  Contract!End(r, s)
  <1>1. PhaseOf[r] = "working"
    BY DEF PhaseOf
  <1>2. PhaseOf' = [PhaseOf EXCEPT ![r] = "ended"]
    BY DEF PhaseOf, Active, Answer, TypeOK
  <1>3. answer' = [answer EXCEPT ![r] = s]
    BY DEF Answer
  <1>4. inflight' = inflight - 1 /\ age' = age
    BY DEF Answer
  <1> QED
    BY <1>1, <1>2, <1>3, <1>4 DEF Contract!End, PhaseOf

\* An attempt that ends is an End, or nothing the contract sees.
LEMMA AttemptEndsMaps ==
  ASSUME TypeOK, NEW r \in Requests, pc[r] = "calling", NEW x, AttemptEnds(r, x)
  PROVE  (\E s \in Contract!Statuses : Contract!End(r, s)) \/ UNCHANGED <<PhaseOf, answer, age, inflight>>
  <1>1. CASE Answer(r, 200)
    <2>1. 200 \in Contract!Statuses
      BY DEF Contract!Statuses, Contract!Mapped, Contract!Unmapped
    <2> QED
      BY <1>1, <2>1, AnswerEnds DEF Active
  <1>2. CASE Answer(r, Status(Exception(x)))
    <2>1. Status(Exception(x)) \in Contract!Statuses
      BY StatusOf DEF Contract!Statuses, Contract!Mapped, Contract!Unmapped
    <2> QED
      BY <1>2, <2>1, AnswerEnds DEF Active
  <1>3. CASE Sleep(r, x)
    BY <1>3 DEF Sleep, PhaseOf, Active, TypeOK
  <1> QED
    BY <1>1, <1>2, <1>3 DEF AttemptEnds

LEMMA StepMaps ==
  ASSUME IInv, [Next]_vars
  PROVE  [Contract!Next]_(Contract!contractVars)
  <1> USE DEF IInv
  <1> SUFFICES Contract!Next \/ UNCHANGED <<PhaseOf, answer, age, inflight>>
    BY DEF Contract!contractVars, PhaseOf
  <1>1. CASE Tick
    <2>1. \A r \in Requests : PhaseOf[r] = "working" <=> Active(r)
      BY DEF PhaseOf
    <2>2. PhaseOf' = PhaseOf
      BY <1>1 DEF Tick, PhaseOf, Active
    <2>3. \A r \in Requests : Active(r) => age[r] < TotalTimeout
      BY <1>1, ChatAssumption DEF Tick, BudgetDue, TypeOK
    <2>4. Contract!Pass
      BY <1>1, <2>1, <2>2, <2>3 DEF Contract!Pass, PhaseOf, Tick
    <2> QED
      BY <2>4 DEF Contract!Next
  <1>2. ASSUME NEW r \in Requests, Accept(r)
        PROVE  Contract!Next
    <2>1. PhaseOf[r] = "new"
      BY <1>2 DEF PhaseOf, Accept, Active
    <2>2. PhaseOf' = [PhaseOf EXCEPT ![r] = "working"]
      BY <1>2 DEF PhaseOf, Accept, Active, TypeOK
    <2>3. Contract!Open(r)
      BY <1>2, <2>1, <2>2 DEF Contract!Open, PhaseOf, Accept
    <2> QED
      BY <2>3 DEF Contract!Next
  <1>3. ASSUME NEW r \in Requests, Wake(r) \/ OperationCompletes(r)
        PROVE  UNCHANGED <<PhaseOf, answer, age, inflight>>
    BY <1>3 DEF Wake, OperationCompletes, PhaseOf, Active, TypeOK
  <1>4. ASSUME NEW r \in Requests, BudgetExpires(r)
        PROVE  Contract!Next
    <2>1. Status("ProviderTimeout") \in Contract!Statuses
      BY StatusOf DEF Contract!Statuses, Contract!Mapped, Contract!Unmapped
    <2>2. Contract!End(r, Status("ProviderTimeout"))
      BY <1>4, AnswerEnds DEF BudgetExpires, BudgetDue
    <2> QED
      BY <2>1, <2>2 DEF Contract!Next
  <1>5. ASSUME NEW r \in Requests, NEW x, pc[r] = "calling", AttemptEnds(r, x)
        PROVE  Contract!Next \/ UNCHANGED <<PhaseOf, answer, age, inflight>>
    BY <1>5, AttemptEndsMaps DEF Contract!Next
  <1>6. CASE UNCHANGED vars
    BY <1>6 DEF vars, requestVars, PhaseOf, Active
  <1> QED
    BY <1>1, <1>2, <1>3, <1>4, <1>5, <1>6 DEF Next, Progress, AttemptTimesOut, UpstreamReplies

\* The non-streaming handler implements the contract its callers and the
\* shutdown of a pod count on, with any upstream and any settings.
THEOREM KeepsContract == Spec => ContractSpec
  <1>1. Init => Contract!Init
    BY DEF Init, Contract!Init, Active
  <1> QED
    BY <1>1, Invariance, StepMaps, PTL DEF Spec, ContractSpec, Contract!Spec
=============================================================================
