----------------------------- MODULE UnaryChat -----------------------------
(***************************************************************************)
(* Non-streaming completions of the gateway (api/chat.py): a request runs  *)
(* with_retries around the provider adapter under one total time budget,   *)
(* then records its metrics, or raises into the error envelope. Requests   *)
(* share the in-flight gauges.                                             *)
(*                                                                         *)
(* Time is discrete. Tick lets one unit pass for every request in flight   *)
(* and waits for whoever has a timer due: the event loop runs a callback   *)
(* that is due before it lets a later one in.                              *)
(***************************************************************************)
EXTENDS Integers, Sequences, FiniteSets

CONSTANTS Requests,
          Adapter,        \* "openai_compat" or "bedrock"
          Replies,        \* what the upstream may answer to an attempt
          MaxAttempts,    \* settings.max_retries
          AttemptTimeout, \* settings.request_timeout_s
          TotalTimeout,   \* settings.total_timeout_s
          BaseDelay, MaxDelay,
          RetryAfter      \* the hint of a 429 that carries one

(* ok           - 200 and a well-formed completion                         *)
(* rate_limited - 429 without a hint; retry_after - with a numeric hint    *)
(* transient    - 500, 502, 503, 504                                       *)
(* client_error - another 4xx                                              *)
(* slow_model   - Bedrock's ModelTimeoutException                          *)
(* unmapped     - what no adapter maps: refused connections, other status  *)
(*                codes, a malformed body, a Retry-After that is a date    *)
ReplyKinds == {"ok", "rate_limited", "retry_after", "transient", "client_error",
               "slow_model", "unmapped"}
Outcomes == ReplyKinds \cup {"timeout"}

ASSUME ChatAssumption ==
    /\ IsFiniteSet(Requests)
    /\ Adapter \in {"openai_compat", "bedrock"}
    /\ Replies \subseteq ReplyKinds
    /\ MaxAttempts \in Nat \ {0} /\ AttemptTimeout \in Nat \ {0} /\ TotalTimeout \in Nat \ {0}
    /\ BaseDelay \in Nat /\ MaxDelay \in Nat /\ RetryAfter \in Nat

VARIABLES pc,         \* pc[r]: new, calling, sleeping or answered
          attempt,    \* attempt[r]: the attempt with_retries is at
          timer,      \* timer[r]: until the network operation times out or the sleep ends
          age,        \* age[r]: time since chat_completions began
          outcomes,   \* outcomes[r]: how each attempt so far ended
          answer,     \* answer[r]: HTTP status of the response, 0 before
          recorded,   \* recorded[r]: code label record_completion used, 0 when none
          inflight,   \* gauge gateway_inflight_requests
          upstream    \* gauge gateway_upstream_inflight

requestVars == <<pc, attempt, timer, age, outcomes, answer, recorded>>
vars == <<requestVars, inflight, upstream>>

Active(r) == pc[r] \in {"calling", "sleeping"}

Largest(a, b) == IF a >= b THEN a ELSE b

TypeOK ==
    /\ pc \in [Requests -> {"new", "calling", "sleeping", "answered"}]
    /\ attempt \in [Requests -> 0..MaxAttempts]
    /\ timer \in [Requests -> Nat]
    /\ age \in [Requests -> Nat]
    /\ outcomes \in [Requests -> Seq(Outcomes)]
    /\ answer \in [Requests -> {0, 200, 429, 500, 502, 504}]
    /\ recorded \in [Requests -> {0, 200}]
    /\ inflight \in Nat /\ upstream \in Nat

Init ==
    /\ pc = [r \in Requests |-> "new"]
    /\ attempt = [r \in Requests |-> 0]
    /\ timer = [r \in Requests |-> 0]
    /\ age = [r \in Requests |-> 0]
    /\ outcomes = [r \in Requests |-> <<>>]
    /\ answer = [r \in Requests |-> 0]
    /\ recorded = [r \in Requests |-> 0]
    /\ inflight = 0 /\ upstream = 0
-----------------------------------------------------------------------------
(* How an adapter maps a failed attempt: the exception and whether         *)
(* with_retries may retry it. Bedrock calls every ClientError retryable    *)
(* but a model timeout.                                                    *)

Exception(x) ==
    CASE x \in {"rate_limited", "retry_after"} -> "ProviderRateLimited"
      [] x \in {"transient", "client_error"}   -> "ProviderUnavailable"
      [] x = "slow_model"                      -> "ProviderTimeout"
      [] x = "timeout" -> IF Adapter = "bedrock" THEN "unhandled" ELSE "ProviderTimeout"
      [] OTHER                                 -> "unhandled"

\* Slip: every upstream status counts as transient.
IsRetryableAll(x) == x \in {"rate_limited", "retry_after", "transient", "client_error"}

IsRetryable(x) ==
    \/ x \in {"rate_limited", "retry_after", "transient"}
    \/ x = "client_error" /\ Adapter = "bedrock"

\* to_error_response; an exception of another class is the server's plain 500.
Status(exception) ==
    CASE exception = "ProviderTimeout"     -> 504
      [] exception = "ProviderRateLimited" -> 429
      [] exception = "ProviderUnavailable" -> 502
      [] OTHER                             -> 500

\* Full jitter: any delay up to the capped exponential, with the hint as floor.
Delays(n, x) ==
    LET floor == IF x = "retry_after" /\ Adapter = "openai_compat" THEN RetryAfter ELSE 0
    IN {Largest(d, floor) : d \in {d \in 0..MaxDelay : d <= BaseDelay * 2^(n - 1)}}
-----------------------------------------------------------------------------
\* chat_completions enters its gauges, the budget and the first attempt.
Accept(r) ==
    /\ pc[r] = "new"
    /\ pc' = [pc EXCEPT ![r] = "calling"]
    /\ attempt' = [attempt EXCEPT ![r] = 1]
    /\ timer' = [timer EXCEPT ![r] = AttemptTimeout]
    /\ inflight' = inflight + 1
    /\ upstream' = upstream + 1
    /\ UNCHANGED <<age, outcomes, answer, recorded>>

\* Slip: the gauge scopes end without a finally.
AnswerNoFinally(r, s) ==
    /\ pc' = [pc EXCEPT ![r] = "answered"]
    /\ answer' = [answer EXCEPT ![r] = s]
    /\ recorded' = [recorded EXCEPT ![r] = IF s = 200 THEN 200 ELSE @]
    /\ timer' = [timer EXCEPT ![r] = 0]
    /\ inflight' = IF s = 200 THEN inflight - 1 ELSE inflight
    /\ upstream' = IF s = 200 THEN upstream - 1 ELSE upstream
    /\ UNCHANGED <<attempt, age>>

\* The handler is through: the gauge scopes end and the status goes out.
\* record_completion runs on success only, with the label "200".
Answer(r, s) ==
    /\ pc' = [pc EXCEPT ![r] = "answered"]
    /\ answer' = [answer EXCEPT ![r] = s]
    /\ recorded' = [recorded EXCEPT ![r] = IF s = 200 THEN 200 ELSE @]
    /\ timer' = [timer EXCEPT ![r] = 0]
    /\ inflight' = inflight - 1
    /\ upstream' = upstream - 1
    /\ UNCHANGED <<attempt, age>>

\* with_retries sleeps before the next attempt. The gauges stay up.
Sleep(r, x) ==
    /\ pc' = [pc EXCEPT ![r] = "sleeping"]
    /\ \E d \in Delays(attempt[r], x) : timer' = [timer EXCEPT ![r] = d]
    /\ UNCHANGED <<attempt, age, answer, recorded, inflight, upstream>>

\* Slips: one attempt too many, one too few.
AttemptEndsLate(r, x) ==
    /\ outcomes' = [outcomes EXCEPT ![r] = Append(@, x)]
    /\ \/ x = "ok" /\ Answer(r, 200)
       \/ x # "ok" /\ (~IsRetryable(x) \/ attempt[r] > MaxAttempts) /\ Answer(r, Status(Exception(x)))
       \/ IsRetryable(x) /\ attempt[r] <= MaxAttempts /\ Sleep(r, x)
AttemptEndsEarly(r, x) ==
    /\ outcomes' = [outcomes EXCEPT ![r] = Append(@, x)]
    /\ \/ x = "ok" /\ Answer(r, 200)
       \/ x # "ok" /\ (~IsRetryable(x) \/ attempt[r] >= MaxAttempts - 1) /\ Answer(r, Status(Exception(x)))
       \/ IsRetryable(x) /\ attempt[r] < MaxAttempts - 1 /\ Sleep(r, x)

\* The attempt ends with x: return, re-raise, or back off.
AttemptEnds(r, x) ==
    /\ outcomes' = [outcomes EXCEPT ![r] = Append(@, x)]
    /\ \/ x = "ok" /\ Answer(r, 200)
       \/ x # "ok" /\ (~IsRetryable(x) \/ attempt[r] = MaxAttempts) /\ Answer(r, Status(Exception(x)))
       \/ IsRetryable(x) /\ attempt[r] < MaxAttempts /\ Sleep(r, x)

UpstreamReplies(r, x) ==
    /\ pc[r] = "calling" /\ x \in Replies
    /\ AttemptEnds(r, x)

\* httpx and botocore time each network operation, not the attempt: connecting,
\* sending, or another part of the response starts the timer again.
OperationCompletes(r) ==
    /\ pc[r] = "calling" /\ timer[r] < AttemptTimeout
    /\ timer' = [timer EXCEPT ![r] = AttemptTimeout]
    /\ UNCHANGED <<pc, attempt, age, outcomes, answer, recorded, inflight, upstream>>

AttemptTimesOut(r) ==
    /\ pc[r] = "calling" /\ timer[r] = 0
    /\ AttemptEnds(r, "timeout")

Wake(r) ==
    /\ pc[r] = "sleeping" /\ timer[r] = 0
    /\ pc' = [pc EXCEPT ![r] = "calling"]
    /\ attempt' = [attempt EXCEPT ![r] = @ + 1]
    /\ timer' = [timer EXCEPT ![r] = AttemptTimeout]
    /\ UNCHANGED <<age, outcomes, answer, recorded, inflight, upstream>>

\* Slip: the budget around the provider call only, not around the backoff.
BudgetDueCalling(r) == pc[r] = "calling" /\ age[r] >= TotalTimeout

\* asyncio.timeout cancels whatever the retry loop awaits.
BudgetDue(r) == Active(r) /\ age[r] >= TotalTimeout

\* Slip: the handler swallows the TimeoutError and starts over.
BudgetRestarts(r) ==
    /\ BudgetDue(r)
    /\ pc' = [pc EXCEPT ![r] = "calling"]
    /\ attempt' = [attempt EXCEPT ![r] = 1]
    /\ timer' = [timer EXCEPT ![r] = AttemptTimeout]
    /\ age' = [age EXCEPT ![r] = 0]
    /\ outcomes' = [outcomes EXCEPT ![r] = <<>>]
    /\ UNCHANGED <<answer, recorded, inflight, upstream>>

\* The TimeoutError becomes a ProviderTimeout.
BudgetExpires(r) ==
    /\ BudgetDue(r)
    /\ Answer(r, Status("ProviderTimeout"))
    /\ UNCHANGED outcomes

Tick ==
    /\ \E r \in Requests : Active(r)
    /\ \A r \in Requests : Active(r) => timer[r] > 0 /\ ~BudgetDue(r)
    /\ timer' = [r \in Requests |-> IF Active(r) THEN timer[r] - 1 ELSE timer[r]]
    /\ age' = [r \in Requests |-> IF Active(r) THEN age[r] + 1 ELSE age[r]]
    /\ UNCHANGED <<pc, attempt, outcomes, answer, recorded, inflight, upstream>>

Progress(r) ==
    \/ AttemptTimesOut(r) \/ Wake(r) \/ BudgetExpires(r)
    \/ \E x \in Replies : UpstreamReplies(r, x)

Next == Tick \/ \E r \in Requests : Accept(r) \/ OperationCompletes(r) \/ Progress(r)

Spec == Init /\ [][Next]_vars

\* Time passes, due timers fire. An upstream may keep silent for ever.
Fairness ==
    /\ WF_vars(Tick)
    /\ \A r \in Requests :
         WF_vars(AttemptTimesOut(r)) /\ WF_vars(Wake(r)) /\ WF_vars(BudgetExpires(r))

FairSpec == Spec /\ Fairness
-----------------------------------------------------------------------------
(* Properties.                                                             *)

\* The detailed request, seen as the contract sees it: attempts and backoff are
\* both work.
Contract == INSTANCE UnaryContract WITH
    Budget <- TotalTimeout,
    phase <- [r \in Requests |-> IF Active(r) THEN "working"
                                 ELSE IF pc[r] = "answered" THEN "ended" ELSE "new"],
    status <- answer

\* Retries, backoff, hints and timeouts keep the contract of errors.py and of
\* the total budget: a request ends once, in time, with one of its statuses,
\* and leaves the gauge as it ends.
ContractSpec == Contract!Spec

LastOutcome(r) == outcomes[r][Len(outcomes[r])]

Explained(r) ==
    /\ recorded[r] = (IF answer[r] = 200 THEN 200 ELSE 0)
    /\ \/ answer[r] = 504 /\ age[r] = TotalTimeout
       \/ /\ outcomes[r] # <<>> /\ Len(outcomes[r]) = attempt[r]
          /\ \/ answer[r] = 200 /\ LastOutcome(r) = "ok"
             \/ answer[r] = 429 /\ LastOutcome(r) \in {"rate_limited", "retry_after"} /\ attempt[r] = MaxAttempts
             \/ answer[r] = 502 /\ LastOutcome(r) = "transient" /\ attempt[r] = MaxAttempts
             \/ answer[r] = 502 /\ LastOutcome(r) = "client_error"
             \/ answer[r] = 504 /\ LastOutcome(r) \in {"timeout", "slow_model"}
             \/ answer[r] = 500 /\ LastOutcome(r) \in {"timeout", "unmapped"}

\* No retryable failure reaches the client while attempts and budget are left,
\* each status means what errors.py says of it, and only a success is recorded.
AnswerExplained == \A r \in Requests : pc[r] = "answered" => Explained(r)

\* The budget covers attempts and backoff together, also when a Retry-After
\* hint exceeds what is left of it.
BudgetHolds == \A r \in Requests : age[r] <= TotalTimeout

\* Both gauges count exactly the requests between entry and answer, whatever
\* exception or timeout ended them; at rest they are back at zero.
GaugesBalance ==
    LET n == Cardinality({r \in Requests : Active(r)}) IN inflight = n /\ upstream = n

\* Every accepted request is answered, whatever the upstream does.
EveryRequestAnswered == \A r \in Requests : pc[r] = "calling" ~> pc[r] = "answered"

\* README.md:78 "Retry only on 429, 500, 502, 503, 504": only such an answer is
\* ever followed by another attempt.
RetriesOnlyTransient == \A r \in Requests : \A i \in 1..(Len(outcomes[r]) - 1) :
    outcomes[r][i] \in {"rate_limited", "retry_after", "transient"}
=============================================================================
