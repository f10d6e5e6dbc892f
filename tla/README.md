# A TLA+ verification of regulated-conversational-ai-mlops

This directory holds TLA+ models of the repository's services, the TLC
configurations that check them on small instances, and proofs that TLAPS checks
for instances of any size. Paths are relative to the repository root
(`src/` in `PROJECT.json`); short names are used where they are unambiguous
(`main.py` of the worker, `chat.py` of the gateway).

## 1. Inventory

| component | code | state | operations | modelled in |
|---|---|---|---|---|
| ticket worker poll loop | `services/ticket-worker/.../main.py`, `consumer.py`, `ticket.py` | the batch in hand, the call it is at; the SQS queue and tickets table outside | receive, key, draft, persist, mark done, delete | `TicketWorker` |
| idempotency claims | `.../idempotency.py` | one DynamoDB record per key with a TTL | `claim`, `mark_done` | `TicketWorker`, abstractly `ClaimLedger` |
| unary completions | `services/gateway/.../api/chat.py`, `providers/retry.py`, `providers/errors.py` | per request: attempt, budget, backoff; two gauges | accept, attempt, retry, back off, time out, answer | `UnaryChat`, abstractly `UnaryContract` |
| provider adapters | `providers/openai_compat.py`, `providers/bedrock.py` | none across calls | map an upstream's answer to a result or an exception; relay a stream | `UnaryChat`, `GatewayPod`, `StubbedGateway` (partly) |
| streaming and drain | `api/stream.py`, `draining.py`, gateway `main.py` | per stream: first pull, body, scopes; `DrainState` | open, first pull, body, abandon, lifespan shutdown | `GatewayPod`; the data of a stream in `StubbedGateway`; abstractly `StreamContract` |
| health and canary endpoints | `api/health.py`, `rollout.yaml`, `analysis-template.yaml`, `canary-prober-job.yaml` | `is_draining`, a canary gauge in every pod, the step of a rollout | readyz, healthz, probe result, measure, abort, promote | `Canary`; readiness in `GatewayPod` |
| metrics | `observability/metrics.py` | counters, histograms, gauges | in-flight scopes, `record_completion` | gauges and the code label, in `UnaryChat`, `GatewayPod`, `Canary` |
| provider stub | `services/provider-stub/...` | one global `FaultConfig` | completions with latency and faults, chunked streams, `/__faults` | `ProviderStub`, composed in `StubbedGateway` |
| evaluation harness | `evals/src/eval_harness/*` | results and votes of a run | run case, judge, vote, gate, report, post | `EvalGate` |
| prompts, settings | `prompts/loader.py`, `config.py` | read once at start-up | load | not modelled |
| PII scrubber | `observability/scrubber.py` | none | regular expressions, Luhn check | not modelled |
| tracing, scripts, terraform | `tracing.py`, `scripts/`, `deploy/terraform` | none of the program's own | wiring | their numbers are constants of the models |
| autoscaling | `scaledobject.yaml` (three) | replica counts | KEDA thresholds on gauges and queue length | not modelled |

How they interact: the worker and the gateway share the provider code but not
the retries (the worker calls `provider.complete` once). The worker's replicas
interact only through the queue and two DynamoDB tables. The gateway's requests
interact through one event loop's gauges and drain counter, and with the server
(uvicorn), the kubelet and the upstream through timeouts. In CI, in compose and on
the local cluster the upstream is the provider stub, whose one fault configuration
is shared by every request and by the tests that post it. KEDA and the canary
analysis read the gauges and histograms. The evaluation harness calls the gateway
and the judge; CI reads its exit code, the canary prober posts it to one pod, and
the rollout's analysis reads what the pods then tell Prometheus.

What is hard here: replicas and redeliveries interleaving between any two calls
of a message; a claim that outlives its holder, and one that expires before it;
calls that fail or lose their reply one at a time; timeouts inside timeouts in
the retry loop, and calls that live on at the upstream after them; stream bodies
that end in ways no `finally` runs for; four shutdown timers that run against
each other; and a rollout that judges a new version by signals of which none is
bound to that version. `PROJECT.json` lists each hazard with its line and the
properties that watch it.

## 2. The modules

### `TicketWorker`: the event-driven ticket pipeline

Every `await` of `run_poll_loop` is a separate action, so replicas interleave
between any two calls: `Receive`, then for each delivery `ClaimGranted`,
`ClaimRefused`, `ClaimSelfConflict` or `ClaimRaises`, then `DraftTicket`,
`PersistTicket`, `MarkDone`, `Delete`, or `Ack` on the else branch. An exception
inside the `try` (main.py:86-94) logs and moves on, `Moves`; one outside of it
(the key, the claim, the ack) leaves `asyncio.run` and ends the process, `Exits`.
`KeyRaises` is the body that is JSON but not an object. `pc[w]` names the call
the loop makes next.

The environment is the queue (`Publish`, `VisibilityExpires`, `Redrive`, receipt
handles that a later receive outdates), the table's TTL sweeper (`TtlExpires`,
bounded by `MaxExpiries` for each key), and the end of a process at any point
(`Kill`, bounded by `MaxKills`; nothing in the worker handles SIGTERM) with the
platform's `Restart`; the last two are external. `Faults` says which of these a run
allows: `provider`, `error` (an AWS call fails without effect), `reply_lost` (it took
effect, the caller does not learn so), `expiry`, `kill`. Visibility timeouts are
always allowed: nothing in the code extends one, and nothing limits a draft to the
60 s. Nothing limits it at all: the worker calls the provider without the gateway's
total budget (ticket.py:42), and the HTTP client's timeout is one of each operation.

What a body is, is reduced to what the code tells apart: an object, another JSON
value, or not JSON; its `event_id` or none; the digest that stands in for it.
The ticket's text is left out, and `granted`, `expired`, `aborted` and
`claimNo` are history variables, which no guard of the worker reads (the bound
on `TtlExpires` apart).

### `ClaimLedger`: what the claims promise

The abstract specification. A claim of a key is granted when every earlier one
has lapsed, and issues at most one ticket. `TicketWorker` implements it with the
identity mapping on `granted`, `expired` and `tickets` (`LedgerSpec`), checked
by TLC and proved. What the ledger is for is its own invariant,
`DuplicatesBounded`: a key has at most one ticket more than claims of it have
lapsed. It is proved of the ledger alone, and the worker inherits it.

### `UnaryChat`: completions without streaming

One request is `Accept`, a sequence of attempts, and `Answer`. `AttemptEnds`
is the body of `with_retries`; `Exception`, `IsRetryable`, `Status` and
`Delays` are the adapters' mapping, `to_error_response` and the full-jitter
delay with its `Retry-After` floor. Time is discrete. The HTTP client's timeout
belongs to each network operation, so `OperationCompletes` may restart it;
`BudgetExpires` is `asyncio.timeout`, which wins over everything the loop
awaits. Requests share the two gauges. Content, token counts and costs are left
out.

### `UnaryContract`: what a request promises

The abstract specification of a request without streaming: it is `Open`ed once,
`End`s once, within its budget, with a status, and is in the in-flight gauge exactly
meanwhile. The statuses are 200, those that errors.py maps (`Mapped`: 429, 502, 504)
and the server's own 500, for what no handler of chat.py takes (`Unmapped`). `UnaryChat` implements it (`ContractSpec`:
attempts and backoffs are both `working`), so does the unary part of `GatewayPod`
with the pod's whole shutdown around it (`KeepsContract`), and so do the requests
of `StubbedGateway`. The contract is the interface between the modules:
`GatewayPod` knows of a unary request only what the contract says, and that is
what `UnaryChat` is proved to give.

### `StreamContract`: what a stream promises

The abstract specification of a streamed completion: a failure is answered with a
status, of `Mapped` or 500, as long as no byte was sent (`Refuse`); once the
response has begun (`Respond`, status 200) it is `done` or `broken`, and never
answered again. `Stop` is the end of the server, which leaves a waiting client
without an answer. Two modules implement it: `GatewayPod`, where bodies are dropped,
cut and killed, and `StubbedGateway`, where the upstream fails at every point
(`KeepsStreamContract` in both). A client that reads an end of the connection before
`[DONE]` knows that the stream is broken; that there is no other way to fail
midway is the promise of stream.py:27-30.

### `GatewayPod`: streams, the drain and the pod's end

A stream awaits its headers (`connecting`), its eager first pull (`pulling`),
has its response returned (`ready`) and runs its body inside the gauge and drain
scopes (`streaming`). A unary request is only its time budget. A body may be
dropped while it is suspended at a yield (`Abandoned`); it keeps its scopes
until the interpreter closes the generator (`Reclaim`). The pod goes through
preStop, SIGTERM, uvicorn's wait for its open requests (`ServerClosed`,
`GracefulExpires`), and only then `LifespanShutdown`: `begin_drain` and
`wait_for_drain`. `Sigkill` comes at the end of the grace period.

External behaviour, modelled from how the code and the manifests use it: the
kubelet's timers, uvicorn's shutdown (the lifespan resumes after the wait, as
the ASGI lifespan protocol has it, and at once when no request is open:
`ClosedDue`), its listener (`Accepting`), and the SSE library, which may end its
streams on SIGTERM (`SseExitCut`). The one that is locked (sse-starlette 3.4.6,
uv.lock:1293) does. Both runs let it, since every step of one that does not is also
a step of one that does.

### `EvalGate`: the evaluation gate and the canary prober

One run of `gate.main`: `Start` (`load_cases`), then for each case
`GatewayAnswers` and, when it has a rubric, `JudgeVotes` once for each repeat and
`CaseJudged`; then `Gate`, which decides, writes the report and sets the exit
code. `Crashes` is every exception in `run_case` (an HTTP error, a body that is not
what runner.py:84 expects, a judge's reply without content, an unknown assertion),
which nothing catches. `Posts` is the
prober job's own script: it sets the gauge of whichever pod the Service picks, and
only after `main` returned. A response is whether it satisfies the case's
assertions (`held`, which is recorded also where the code does not look), a
verdict is its vote. `MinPass` is `max(1, ceil(0.8 n))` in integers; the
float expression has the same value for every `n` below 2000.

### `Canary`: the rollout

Composes `EvalGate`, whose variables and actions it takes over (`Eval!Start`,
`Eval!Responds`, `Eval!PostsTo`, ...), with users and with the rollout of a new
version that is good, `regressed` (its answers break the assertions of every case
that has some) or `failing` (it answers 502). A run holds an answer to assertions
(`Asserts`) only in a case that has some and is not judged; the repository's judged
cases have none (`evals/cases/judged.yaml`), and a case with neither passes on any
answer. `SetWeight` puts any mix of stable and new pods behind
the one Service, which picks a pod for each request, each golden prompt and the
prober's post. A pod that comes starts with its gauge at zero. `Measure` reads
each metric of `analysis-template.yaml` once: `Reads` says what a query may tell,
given the code labels that `record_completion` left (an empty result counts as a
success) and the gauges of the pods (`result[0]` is any of them). `Abort`,
`NextWeight` and `Promote` are the steps of `rollout.yaml`.

External: how Argo Rollouts picks pods and acts on an analysis, and what
Prometheus has scraped. Both are left as free as the manifests leave them.
`served`, `heard` and `greens` are history variables.

### `ProviderStub` and `StubbedGateway`: the gateway against its test double

`ProviderStub` is the stub on its own: `Arrive` up to the handler's sleep,
`SleepEnds`, `Decide` (`should_inject_fault` on the configuration of that moment),
`SetFaults` at any time, and `ChunkResponse` with `Deltas`, what a streamed text is
cut into. A random draw is any of the statuses that the two bands allow.

`StubbedGateway` puts `UnaryChat` (`Chat == INSTANCE ...`) and the streams of
`openai_compat.py` and `stream.py` in front of it. Every attempt is a call of its
own, `<<client, n>>`: one that the gateway has given up sleeps on at the stub and
takes a fault later (`AnswerDropped` when it has one). Of a stream the module follows
the data: `pulled` deltas, of which the first is replayed by `BodyStarts`, and
what the client has `out`. A text is the sequence of its character positions, so
that losing, doubling or swapping any is visible. An upstream that trickles
(`OperationCompletes`) and one that hints a delay are `UnaryChat`'s; the stub
does neither.

### MC modules and proof modules

`MCTicketWorker`, `MCUnaryChat`, `MCStubbedGateway`, `MCEvalGate` and `MCCanary` add the
instances' constants, and symmetry for the worker's replicas. `GatewayPod`
needs no such module. `ClaimLedgerProofs`, `TicketWorkerProofs`, `UnaryChatProofs`,
`GatewayPodProofs`, `EvalGateProofs`, `CanaryProofs` and `StubbedGatewayProofs` hold
the theorems of section 5. `CanaryProofs` builds on `EvalGateProofs`, and
`StubbedGatewayProofs` on `UnaryChatProofs`, in the way in which the models are
composed; `TicketWorkerProofs` takes a theorem over from `ClaimLedgerProofs` along
the refinement.

## 3. Runs

Passing runs:

- `WorkerSafety`: two replicas, two messages that carry the same event, batches
  of two, every fault, one expiry and one kill. `DuplicatesNeedExpiries`,
  `LossOnlyAfterAbort`, `DoneMeansTicketed`, and the refinement `LedgerSpec`.
- `WorkerLiveness`: one replica with a good, a non-JSON and a non-object message
  in a batch of three, failing calls, lost replies and a kill.
  `EveryMessageSettles` (if drafts end), and `LossOnlyAfterAbort` with bad batch mates.
- `WorkerNoFaults`: two replicas, two messages of one event and one without an
  event_id. `ExactlyOnce`, and `EveryEventTicketed` (if drafts end), without faults, though visibility
  may run out at any time and a message may be dead-lettered while its ticket is
  drafted.
- `ChatOpenAI`: two concurrent requests, every reply of the OpenAI-compatible
  adapter, any delay. `AnswerExplained`, `BudgetHolds`, `GaugesBalance`,
  `RetriesOnlyTransient`, `EveryRequestAnswered`, and the refinement `ContractSpec`.
- `StubbedCompose`: a completion and a stream share the stub while a test posts
  fault configurations: mixed bands, a budget behind bands, one behind latency, one
  that outlasts every attempt. `FewFaultsMasked`, `ForcedFailures`, `RelayFaithful`,
  and the refinement `KeepsStreamContract`.
- `PodDrain`: two streams and a unary request with the deployed timeouts.
  `DrainTracksBodies`, `UnaryNeverCut`, `OnlySseCutsEarly` (what the code keeps of the
  README's invariant of a rolling deploy, see `PodSseCut`), the refinements `KeepsContract` and `KeepsStreamContract`,
  `KilledOnlyWhenLate`, and `ShutdownTerminates`.
- `EvalSuite`: two prober runs over suites that are empty, vacuous, deterministic,
  judged and mixed, with two pods and crashes at every call. `GreenIsJustified`,
  `RegressionsFail`, `GaugeRisesJustified`.
- `CanaryRollout`: users, two prober runs and the rollout of a good, a regressed
  and a failing version. `PromotionNeedsGreenRun`, `BadVersionNeedsBlindRun`,
  `AnalysisEnds`.

Runs that find a disagreement between the code and what the repository says of
it; each one checks one property and TLC finds a counterexample:

- `WorkerFailedAcked`: main.py:66-68 promises redelivery and finally the DLQ for
  a message that failed. The claim record survives the failure for 300 s, the
  redelivery comes after 60 s, `claim` says False, and main.py:97 acknowledges
  the message. No ticket, no DLQ. The existing test stops at "not deleted".
- `WorkerPoisonKey`: consumer.py:53-55 says the key of a poison message does not
  raise; `.get` on a JSON array does, and ends the process.
- `PodSseCut`: README.md:115-116 says that a rolling deploy never cuts an open stream
  shorter than the grace budget, README.md:102-103 the same of the drain budget, and
  `scripts/smoke-stream-drain.sh` expects a stream to complete through a restart
  (`NoEarlyCut`). stream.py:92 returns an `EventSourceResponse` as it comes, and the
  locked sse-starlette ends its streams on the server's exit signal: in the run a
  stream is cut at SIGTERM with the whole drain budget left. Without the library's
  handler the invariant holds (`RollingDeployWithoutSseCut`).
- `CanaryErrors`: a version that answers completions with 502 is promoted. Two
  things meet in the counterexample: no error is ever recorded in the histogram
  (chat.py:94), so the error-rate query stays empty and counts as a success; and
  the prober asks the Service of all pods (canary-prober-job.yaml:19), of which the
  analysis reads any one's gauge. In TLC's trace the green run precedes the rollout:
  a stable pod answered and heard it, and its stale gauge is what the analysis reads.
  Stable pods can answer a whole suite in the same way while the rollout mixes them with
  new ones. `ErrorsStopTheRollout` states what
  README.md:324-329 says of both.

### Bounds

| bound | value | why it is enough |
|---|---|---|
| `Workers`, `Messages` | 2 and 2, 1 and 3, 2 and 3 | two replicas race for one key; a third message adds a batch mate that fails or has another key |
| `MaxReceiveCount` | 2 (deployed: 3) | a first delivery, a redelivery and the redrive |
| `BatchSize` | up to 3 (deployed: 10) | a batch with a mate before and after the failing one |
| `MaxExpiries`, `MaxKills` | 1 | a second claim, a restart; the proofs have no bound |
| time in `UnaryChat` | one unit is 10 s: attempt 1, budget 3, delays 0..1, hint 2 | the deployed ratio of 10 s and 30 s; the hint exceeds `MaxDelay` and may exceed what is left of the budget |
| time in `GatewayPod` | one unit is 10 s: preStop 1, graceful 17, drain 16, grace 18, unary 3 | the deployed values |
| time, delays in `StubbedGateway` | one unit is 10 s, no backoff, latency 0 or 1 | latency equals the attempt timeout, so that an answer races its timeout; delays are `ChatOpenAI`'s |
| `Requests`, `Streams` in `StubbedCompose` | 1 and 1 | two clients share one budget; three attempts leave calls behind; the proofs have no bound |
| `Configs` | five fault configurations, posted at any time and any number of times | each has an effect the others have not; budgets of 1, 2 and 4 lie below, below and above three attempts |
| `Lengths` | 0, 3, 5, 12 | an empty text, one shorter than the pieces, a divisible one, one with a remainder |
| `Stable`, `New` | 1 and 1 | a pod of each version answers and is posted to; the proofs have no bound |
| `Count`, `FailureLimit` | 3 and 1 | the deployed values |
| `MaxAttempts` | 3 (all runs) | the deployed value |
| `Suites`, `Threshold` in `EvalSuite` | up to 3 cases, 60 % (deployed: 90 %) | of three cases one judged case may fail, of two none; five and two votes |
| `Suites`, `Threshold` in `CanaryRollout` | 1 or 2 cases, 50 % | a suite with a judged case, which holds no pod to an assertion, one that asserts throughout, and one of a case with neither; the judged case may fail. `CanaryErrors` has the asserting one only, so that no weakness of the suite plays a part |
| `MaxJobs`, `Pods` | 2 and 2 | a second run meets the gauges of the first |

`CHECK_DEADLOCK FALSE` everywhere: a queue that is empty, requests that are all
answered, a pod that has exited and a rollout that is over with its jobs done have
nothing left to do.

Time in the timed modules stands still while a timer is due (`Tick`), so an
event that is due happens before a later one, and in `GatewayPod` also while the server
waits for nothing more: no open request (`ClosedDue`), the drain's event set
(`DrainDue`). Events due at the same time happen
in any order, which includes the pod's graceful timeout and SIGKILL, both due
180 s after the deletion.

### Fairness

- Worker: weak fairness of `Step(w)` but for the draft, since the loop waits only for
  AWS calls, which have their client's limits, and the platform restarts a process
  that ended; and of the queue's two timers. No fault, kill, publication or TTL deletion
  is ever forced. Nothing in the code makes a draft end: an upstream that trickles its
  answer holds the replica for ever. That drafts end, either way, is therefore a premise
  of the two liveness properties (`DraftsEnd`) and not part of the specification.
- Chat: time passes and due timers fire. An upstream that may be slow need never
  answer.
- Pod: time passes, uvicorn, asyncio and the kubelet act, a unary request keeps
  the budget `UnaryChat` establishes (`BudgetHolds`). Upstreams may stall a
  stream for ever and the interpreter need never close an abandoned generator.
- Canary: Argo Rollouts goes on measuring and acts on the outcome. No job need run,
  nor any request come.
- Gate and stub: none; their properties are about safety.

## 4. What the properties say

- `DuplicatesNeedExpiries`: every ticket of an event but one is paid for by a claim
  record that the sweeper deleted, under every interleaving, redelivery, lost reply
  and death. It bounds the damage of a TTL that is too short, and without
  expiries it is uniqueness.
- `ExactlyOnce`: what main.py:64 promises, each event processed exactly once:
  at most one ticket, and one before its message is acknowledged or by a replica that
  is at work. It holds without faults, and only then: `WorkerFailedAcked` breaks the
  second half with one failed call, an expiry the first.
- `LossOnlyAfterAbort`: if an acknowledged message has no ticket, its key is
  being worked on or a claim of it was given up; there is no other way to lose an
  event. Together with `WorkerFailedAcked` this locates the loss exactly.
- `DoneMeansTicketed`: a record that says done has a ticket, though a late holder
  may overwrite the record of a later claim.
- `EveryMessageSettles`, `EveryEventTicketed`: while the upstream ends every draft, in
  success or failure, no message circulates for ever, and without faults every event
  gets its ticket. The first fails if a failed draft is retried on the spot and not
  given up to the queue.
- `AnswerExplained`: no retryable failure reaches the client with attempts left,
  and every status has the last attempt's outcome or the budget behind it.
- `RetriesOnlyTransient`: README.md:78 holds over the OpenAI-compatible adapter.
  It does not over Bedrock, which maps every ClientError but two as retryable
  (bedrock.py:21).
- `DrainTracksBodies`: the event that `wait_for_drain` awaits is set exactly when
  no body is in its scopes, and the gauge counts the scopes.
- `OnlySseCutsEarly`, `UnaryNeverCut`: nothing is cut before the drain budget, but by
  the SSE library (`NoEarlyCut` makes no such exception, and `PodSseCut` breaks it). That
  takes uvicorn's own wait: the drain counter alone does not know of unary
  requests, nor of streams before their body (the mutant `FinishedTracked` waits
  for the counter only, and violates both).
- `GreenIsJustified`: exit code 0 and a report, if and only if the evidence of the
  whole suite justifies it: no deterministic case broke an assertion, and enough
  cases earned their pass by at least four fifths of the votes. A case with a
  rubric counts by its votes alone: with a judge, its assertions are not looked
  at, though runner.py:62 says assertions and/or the judge; and a case with
  neither passes vacuously.
- `RegressionsFail`: no case that passed is reported as a regression, if it was
  voted on more than once. With one repeat, the default, a passing case is.
- `GaugeRisesJustified`: a pod's gauge goes up only by a justified run.
- `ShutdownTerminates`: a drain that begins early enough for its timeout to end
  before SIGKILL ends the pod by itself. It needs the timeout of
  `wait_for_drain`: without it, an abandoned body holds the pod. With the deployed
  values a drain that begins after the full graceful wait (180 s) has no time left,
  and SIGKILL decides.
- `KilledOnlyWhenLate`: the safety half of the same: SIGKILL meets a drain only if
  the drain began so late that its timeout ends after the grace period.
- `KeepsStreamContract`: section 2. It fails if a failure that arrives after the first
  byte is mapped like one that arrives before it.
- `ContractSpec`, `KeepsContract`: section 2. The second says that a rolling deploy
  is invisible to a unary request; it fails if the server waits only for what the
  drain counter knows of.
- `FewFaultsMasked`: with any interleaving of completions, streams, timed-out calls
  and posts to `/__faults`, each completion that failed for the stub's faults has
  used up `MaxAttempts` of them and each stream one. So fewer are masked.
- `ForcedFailures`: what fail_next promises a test. It holds for a request that
  is alone with the stub in a strict sense: no other call, no new post, no sleeping
  call of an earlier request, and no timeout of its own, since an attempt that timed
  out leaves a call behind that takes a fault when the next attempt is counting.
- `RelayFaithful`: what a client has read is a prefix of the text, and all of it
  when it has read [DONE], over chunking, eager pull, replay and breaks.
- `PromotionNeedsGreenRun`: the two metrics that count missing data as a success
  do not suffice; the third holds the rollout until a green run was posted.
- `BadVersionNeedsBlindRun`: of a version that is regressed or failing, and is
  promoted nevertheless, no pod was held to an assertion in some green run. The
  property says exactly how much the suite guards: a run that saw one assertion
  answered by a bad pod is not green, so the gap is the Service that mixes versions,
  and cases that look at no assertion: judged ones, and those that have none.
- `AnalysisEnds`: promotion or abort, with no prober run at all.

Met while reading, and not given runs of their own: after the claim's TTL a
redelivery or a second publication drafts a second ticket, where main.py:64 says
exactly once (`DuplicatesNeedExpiries` is the part that holds); a failure no
adapter maps is a plain 500 and not the envelope of README.md:83-96; the attempt
timeout (README.md:77) is per network operation; `gateway_upstream_inflight`
counts a request that sleeps in its backoff (metrics.py:44 says calls in
flight); a stream's first pull is in no gauge; a read timeout before the first
chunk is a 500 (openai_compat.py:98-100 says it is mapped); the worker does not
finish the message in hand on SIGTERM
(`deploy/k8s/base/ticket-worker/deployment.yaml:1-2`), and a draft has no total budget
there; readiness does not flip on SIGTERM (README.md:109), because `begin_drain` runs
after the server's wait, when the listener is closed: no probe ever reads the flag
(proved, `ReadinessNeverFlips`); a prober run that crashes
posts nothing and leaves the gauge of the run before, though metrics.py:40 says 1 when
the last run passed and 0 otherwise; the gauge of a new pod is 0 until a
probe reaches it and `result[0]` may be that pod's, so a healthy canary can be
aborted; the prober sets `EVAL_JUDGE_URL`, so a case with a rubric has its
assertions ignored, though README.md:327 says it runs the deterministic
assertions; requests that a stub's latency holds consume a `fail_next` that was
posted after they arrived (faults.py:14 says subsequent requests). The models
contain these behaviours: `TtlExpires`, `Status` and `Exception`,
`OperationCompletes`, `Sleep`, `OpenStream`, `PullTimesOut`, `Kill`, `Crashes`, `Runs`
and `ProbeReads`, `Judged`, `SleepEnds`. Outside of the models: the TTFT and
latency clocks of a stream start after its eager pull (stream.py:63, 105), so they
leave the wait for the first chunk out.

## 5. Proofs

The theorems hold for every value of the constants within the modules' `ASSUME`s,
which only type the constants (and, in `StubbedGateway`, say which calls there are).
Where a theorem needs more, it says so with an `ASSUME` of its own:

| module | theorem | statement |
|---|---|---|
| `ClaimLedgerProofs` | `DuplicatesAlwaysBounded` | `Spec => []DuplicatesBounded`, of the ledger |
| `TicketWorkerProofs` | `TypeCorrect` | `Spec => []TypeOK` |
| | `DuplicatesAlwaysNeedExpiries` | `Spec => []DuplicatesNeedExpiries` |
| | `OnceWithoutExpiry` | `AtMostOnce` is an invariant, if `Faults` has no expiry |
| | `AckedWithoutFailures` | so is `AckedIsTicketed`, if `Faults` has nothing else and every body is JSON |
| | `ExactlyOnceWithoutFaults` | so is `ExactlyOnce`, if there are no faults and every body is JSON |
| | `DoneIsTicketed` | `Spec => []DoneMeansTicketed` |
| | `LossNeedsAbort` | `Spec => []LossOnlyAfterAbort` |
| | `ImplementsLedger` | `Spec => LedgerSpec` |
| `UnaryChatProofs` | `TypeCorrect`, `BudgetAlwaysHolds`, `GaugesAlwaysBalance`, `AnswersExplained` | `TypeOK`, `BudgetHolds`, `GaugesBalance` and `AnswerExplained` are invariants |
| | `TransientRetries` | `RetriesOnlyTransient` is one, if the adapter is the OpenAI-compatible one |
| | `KeepsContract` | `Spec => ContractSpec` |
| `GatewayPodProofs` | `TypeCorrect`, `DrainTracks` | `TypeOK` and `DrainTracksBodies` are invariants |
| | `UnaryAlwaysAnswered` | so is `UnaryNeverCut`, if `UnaryOrder` |
| | `PodKeepsContract` | `Spec => KeepsContract`, if `UnaryOrder` |
| | `StreamsNotCutEarly` | `Spec => OnlySseCutsEarly`, if `StreamOrder` |
| | `RollingDeployWithoutSseCut` | `Spec => NoEarlyCut`, if `StreamOrder` and the SSE library cuts nothing on SIGTERM |
| | `ReadinessNeverFlips` | `Spec => []FlagUnseen`: a server that accepts connections is not draining |
| | `PodKeepsStreamContract` | `Spec => KeepsStreamContract`, whatever the order of the timeouts |
| | `DrainsEndInTime` | `Spec => KilledOnlyWhenLate` |
| | `NeverKilled` | `Spec => [](stage # "killed")`, if `PreStop + Graceful + DrainTimeout < Grace` |
| `EvalGateProofs` | `TypeCorrect`, `RegressionsAlwaysFail`, `GreenAlwaysJustified` | `TypeOK`, `RegressionsFail` and `GreenIsJustified` are invariants |
| | `GaugeAlwaysJustified` | `Spec => GaugeRisesJustified` |
| `CanaryProofs` | `TypeCorrect`, `PromotionsNeedGreenRuns`, `BadVersionsNeedBlindRuns` | `TypeOK`, `PromotionNeedsGreenRun` and `BadVersionNeedsBlindRun` are invariants, if `FailureLimit < Count` |
| `StubbedGatewayProofs` | `TypeCorrect`, `RelayAlwaysFaithful`, `FewFaultsAlwaysMasked`, `ForcedAlwaysExact` | `TypeOK`, `RelayFaithful`, `FewFaultsMasked` and `ForcedFailures` are invariants |
| | `RequestsKeepContract` | `Spec => ContractSpec` of the composed requests |
| | `RequestsStayExplained` | `AnswerExplained`, `BudgetHolds`, `GaugesBalance` and `RetriesOnlyTransient` of the composed requests are invariants |
| | `StreamsKeepContract` | `Spec => KeepsStreamContract` |

`UnaryOrder` is `UnaryBudget < Graceful` and `PreStop + UnaryBudget < Grace`;
`StreamOrder` is `DrainTimeout <= Graceful` and `PreStop + DrainTimeout <= Grace`. The
deployed values satisfy both (30, 170, 10, 180 and 160 s), and 1 < 3 is the
deployed analysis. These conditions are what the manifests must keep when
someone changes one of the numbers. The condition of `NeverKilled` they do not
meet (10 + 170 + 160 against 180): a drain after the full graceful wait is cut by
SIGKILL, and the theorem says which grace period would end that.

### The worker

None of the properties is inductive. `IInv` adds what they rest on:

- `ClaimsCounted`: a key with a record that can expire has exactly one claim that
  has not lapsed, one without has none. A conditional put is then granted
  only when all claims of the key have lapsed.
- `HoldersHold`, `HoldersDiffer`, `TicketsGranted`: a replica that has not yet
  persisted holds a granted claim that has no ticket, alone; every ticket
  belongs to a granted claim.
- `PersistedIsTicketed`: a replica past `persist_ticket` has a ticket for its
  key, so `mark_done` never creates a false record: `DoneIsTicketed`.
- `DeletedWasGranted`, `GrantedIsSettled`: what is deleted was claimed once, and a
  key that was claimed has a ticket, a worker, or a claim that was given up:
  `LossNeedsAbort`.

`InvInit` and one lemma for each action (`ClaimGrantedInv`, `PersistTicketInv`,
...) make `Invariance`; the refinement uses `IInv` to show that a granting step
is a `Grant`, a TTL deletion a `Lapse`, a persisting step an `Issue`, and that
all others stutter.

How many tickets there can be is then a question about the ledger alone.
`TicketsCounted` (in `ClaimLedgerProofs`) maps the tickets of a key to their claims,
which are different and at most as many as were granted, and all granted claims but
one have lapsed. Through the refinement the worker has the same bound:
`DuplicatesAlwaysNeedExpiries`. The theorems about faults say which of them each half
of "exactly once" survives. A key that no sweeper touches has one claim number and
hence one ticket (`OnceWithoutExpiry`), whatever else fails. A claim is given up only
when a call fails, a reply is lost or a process dies, so without these an
acknowledged event has its ticket, even if claims expire (`AckedWithoutFailures`).
Bodies that are not JSON are excluded since they fail after their claim was granted
(main.py:87). The two halves make `ExactlyOnceWithoutFaults`.

### Requests and pods

`UnaryChatProofs`: `IInv` adds `Counted` (a request that calls is at attempt
n with n - 1 outcomes behind it, all of them retryable; one that sleeps has as many
outcomes as attempts) and `Silent` (nothing is answered or recorded before the end).
The gauges are cardinalities of `ActiveSet`, which every step leaves alone, grows
or shrinks by one. In the refinement every step is `Open`, `End`, `Pass`, or a
stutter; `End` needs that the status is one of the contract's, which is why
`StatusOf` and `ExceptionOf` go through every outcome.

`GatewayPodProofs`: `Counts` (both counters are cardinalities of scopes), `Scoped`
(which scopes go with which state), `Timed` (how the clock stands to each
timer in each stage) and `Aged` (how long a unary request can have been open, by
the clock). `UnaryNeverCut` follows since a request accepted before SIGTERM is at
most as old as its budget, which ends before the graceful timeout and before
SIGKILL. `StreamsNotCutEarly` shows for each of the four ways to cut a stream (a
cancelled task, the end of the drain, SIGKILL, the library) that the clock is past
`PreStop + DrainTimeout`, or that it is the library. Without the library's cut that is
the README's invariant (`RollingDeployWithoutSseCut`).

For the contract of a stream the invariant is `Sent`: which statuses a stream can
have in each of its states, and in particular 0 until its response begins.
`StreamSteps` classifies the pod's steps: unnoticed by every stream, the graceful
timeout (which cancels all of them, in their phase), the end of the process, or one
stream that moves as `Allowed` says; each of them is a step of the contract. For
`DrainsEndInTime` it is `Draining`: a drain that goes on has not outlived its timeout,
since time stands still while that is due; `Punctual` adds that it began no later than
the server's wait can last, which makes `NeverKilled`.

### The gate and the rollout

`EvalGateProofs`: `Explains` ties a case's result to the votes or the response it
came from, `Placed` to the place in the suite, `Decided` the exit code to the
results. `MinPassIsMajority` is the arithmetic: a count is at least
`max(1, ceil(0.8 n))` exactly if it is at least one and four fifths of `n`.

`CanaryProofs`: `GaugeTells` (a raised gauge has a green run behind it, and for a
bad version a blind one), `ProbeFails` (without such a run every measurement of the
probe so far has failed, so that more than `FailureLimit` of `Count` fail) and
`HeardTells` (a run that held a bad pod to an assertion has a broken one in its
evidence, so it is not green). The prober's part is `EvalGateProofs`' invariant,
taken over through an instance.

### The gateway in front of the stub

`StubbedGatewayProofs` first shows that the requests implement `UnaryChat`
(`ChatSpec`), which brings in all of its invariants and the contract. Then:

- `RelayInv`: `out` is the text up to `Reach(length, pulled)`, the end of the last
  piece; `DeltasJoin` is the step from one piece to the next, and the last one ends
  at the end of the text, for any length.
- `FaultsCounted`: the set of `Receipts` (calls that have failed: the n-th attempt
  of a request whose n-th outcome is a failure, a stream that was refused, a call
  that is answered with a fault and not yet read) has at most `injected` elements.
  Every step adds at most one, and one only with a new fault. A completion that
  failed has `MaxAttempts` receipts (`FailedSpentAll`), all different.
- `ForcedInv`: while a request is alone and without timeouts, every outcome up to
  `forced` is a failure, and what is left of `fail_next` is `forced` less the
  attempts that were decided.

The contract of its streams (`StreamsKeepContract`) needs only their types: relaying
happens inside one phase, and every other step of a stream is one of the contract's.

### Only model-checked

Liveness (`EveryMessageSettles`, `EveryEventTicketed`, `EveryRequestAnswered`,
`ShutdownTerminates`, `AnalysisEnds`): fairness and `ENABLED` are beyond this
prover's backends. Every safety property of a passing run is proved; the safety half
of `ShutdownTerminates` is `DrainsEndInTime`.

Reproduce: `tlc -config WorkerSafety.cfg MCTicketWorker`, and so on for each run in
`PROJECT.json`; `tlapm TicketWorkerProofs.tla`, and so on for each proof module.

## 6. Not modelled

- Prompt loading and settings: read once at start-up, no state afterwards; their
  numbers are constants of the models.
- The PII scrubber: regular expressions and a checksum over one string, which no code
  outside its tests calls. It has no state, and no interleaving can reach it.
- Tracing, scripts, Terraform: wiring and declarations.
- Autoscaling: the three ScaledObjects declare thresholds; the loop that acts on
  them is KEDA's, over averages that no model here has. README.md:244 speaks of a
  component that holds requests while a deployment is scaled to zero; there is none
  in the manifests.
- Tokens, costs, latencies: arithmetic on floats that decides nothing in the code,
  except the p95 metric, which `Canary` leaves free.
- Bedrock: `UnaryChat` has its mapping (`Adapter = "bedrock"`, covered by the
  theorems but for `TransientRetries`). Its streaming, which reads the whole
  answer in a thread before the first chunk, and its threads, which a
  cancelled request does not stop (bedrock.py:74), are left out: what they
  exhaust is the interpreter's executor.
- Malformed inputs of the stub (a body without `messages`) and the texts it picks.

What could be added: two gateway pods in front of one stub, which would add
nothing to the stub's side but another event loop; and the pods' shutdown inside
`Canary`, where `GatewayPod` is composed with a rollout that deletes its pods.
