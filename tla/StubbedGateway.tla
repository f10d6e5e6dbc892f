--------------------------- MODULE StubbedGateway ---------------------------
(***************************************************************************)
(* The gateway in front of the provider stub, as in compose, CI and the    *)
(* local cluster: completions with their retries (UnaryChat) and streams   *)
(* (providers/openai_compat.py and api/stream.py) call one stub            *)
(* (ProviderStub), which a test drives through POST /__faults.             *)
(*                                                                         *)
(* Of a stream this module follows the data; its scopes, drain and         *)
(* shutdown are GatewayPod's. Each attempt is a call <<client, n>> of its  *)
(* own. One whose gateway side has timed out sleeps on at the stub and     *)
(* still takes its fault, while the next attempt is under way.             *)
(***************************************************************************)
EXTENDS ProviderStub, FiniteSets, SequencesExt

CONSTANTS Requests, MaxAttempts, AttemptTimeout, TotalTimeout, BaseDelay, MaxDelay,
          Streams,   \* requests with stream=True
          Lengths    \* how long the stub's texts may be

VARIABLES pc, attempt, timer, age, outcomes, answer, recorded, inflight, upstream \* UnaryChat's

VARIABLES relay,      \* relay[s]: where a stream is
          status,     \* status[s]: HTTP status, 0 before
          text,       \* text[s]: what the stub streams
          pulled,     \* pulled[s]: deltas read from the stub's response
          out,        \* out[s]: what the client has read, put together
          injected,   \* history: faults injected so far
          forced,     \* forced[r]: history: fail_next when the request was accepted
          alone       \* alone[r]: history: nobody else has met the stub since

Chat == INSTANCE UnaryChat WITH
    Adapter <- "openai_compat",
    Replies <- {"ok", "rate_limited", "transient"},
    RetryAfter <- 0

chatVars == <<pc, attempt, timer, age, outcomes, answer, recorded, inflight, upstream>>
streamVars == <<relay, status, text, pulled, out>>
historyVars == <<injected, forced, alone>>
vars == <<stubVars, chatVars, streamVars, historyVars>>

ASSUME StubbedAssumption ==
    /\ Requests \cap Streams = {} /\ IsFiniteSet(Requests) /\ IsFiniteSet(Streams)
    /\ MaxAttempts \in Nat \ {0} /\ AttemptTimeout \in Nat \ {0} /\ TotalTimeout \in Nat \ {0}
    /\ BaseDelay \in Nat /\ MaxDelay \in Nat
    /\ Calls = Requests \X (1..MaxAttempts) \cup Streams \X {1}
    /\ Lengths \subseteq Nat

TypeOK ==
    /\ StubTypeOK
    /\ Chat!TypeOK
    /\ relay \in [Streams -> {"new", "connecting", "pulling", "ready", "body",
                              "done", "failed", "broken", "gone"}]
    /\ status \in [Streams -> {0, 200, 429, 500, 502, 504}]
    /\ \A s \in Streams : Len(text[s]) \in Lengths \cup {0} /\ pulled[s] \in 0..6
    /\ injected \in Nat
    /\ forced \in [Requests -> Nat]
    /\ alone \in [Requests -> BOOLEAN]

Init ==
    /\ StubInit
    /\ Chat!Init
    /\ relay = [s \in Streams |-> "new"]
    /\ status = [s \in Streams |-> 0]
    /\ text = [s \in Streams |-> <<>>]
    /\ pulled = [s \in Streams |-> 0]
    /\ out = [s \in Streams |-> <<>>]
    /\ injected = 0
    /\ forced = [r \in Requests |-> 0]
    /\ alone = [r \in Requests |-> FALSE]
-----------------------------------------------------------------------------
(* The stub's side.                                                        *)

\* The call's client waits for the answer.
Waits(c) ==
    \/ c[1] \in Requests /\ pc[c[1]] = "calling" /\ attempt[c[1]] = c[2]
    \/ c[1] \in Streams /\ relay[c[1]] = "connecting"

\* Every other request that is in flight has met this call at the stub.
Meets(c) == alone' = [r \in Requests |-> alone[r] /\ (r = c[1] \/ ~Chat!Active(r))]

CountsFault(c) == injected' = IF code'[c] \in {429, 500} THEN injected + 1 ELSE injected

CallArrives(c) ==
    /\ Waits(c)
    /\ Arrive(c)
    /\ CountsFault(c) /\ Meets(c)
    /\ UNCHANGED <<chatVars, streamVars, forced>>

CallWakes(c) ==
    /\ SleepEnds(c)
    /\ CountsFault(c) /\ Meets(c)
    /\ UNCHANGED <<chatVars, streamVars, forced>>

FaultsPosted ==
    /\ \E f \in Configs : SetFaults(f)
    /\ alone' = [r \in Requests |-> alone[r] /\ ~Chat!Active(r)]
    /\ UNCHANGED <<chatVars, streamVars, injected, forced>>

\* Nobody waits for the answer any more.
AnswerDropped(c) ==
    /\ ~Waits(c)
    /\ Sent(c)
    /\ UNCHANGED <<chatVars, streamVars, historyVars>>
-----------------------------------------------------------------------------
(* Completions.                                                            *)

Reply(s) == CASE s = 200 -> "ok" [] s = 429 -> "rate_limited" [] s = 500 -> "transient"

RequestAccepted(r) ==
    /\ Chat!Accept(r)
    /\ forced' = [forced EXCEPT ![r] = faults.failNext]
    /\ alone' = [alone EXCEPT ![r] = \A c \in Calls : call[c] = "idle"]
    /\ UNCHANGED <<stubVars, streamVars, injected>>

RequestReplied(c) ==
    /\ c[1] \in Requests /\ Waits(c) /\ call[c] = "answered"
    /\ Chat!UpstreamReplies(c[1], Reply(code[c]))
    /\ Sent(c)
    /\ UNCHANGED <<streamVars, historyVars>>

\* The gateway's own steps: the stub does not notice.
RequestGoesOn(r) ==
    /\ Chat!AttemptTimesOut(r) \/ Chat!Wake(r) \/ Chat!BudgetExpires(r)
    /\ UNCHANGED <<stubVars, streamVars, historyVars>>

\* One clock for the gateway and the stub.
Tick ==
    /\ Chat!Tick \/ ((\A r \in Requests : ~Chat!Active(r)) /\ UNCHANGED chatVars)
    /\ StubTime
    /\ UNCHANGED <<streamVars, historyVars>>
-----------------------------------------------------------------------------
(* Streams.                                                                *)

StreamOpened(s) ==
    /\ relay[s] = "new"
    /\ relay' = [relay EXCEPT ![s] = "connecting"]
    /\ UNCHANGED <<stubVars, chatVars, status, text, pulled, out, historyVars>>

StreamFails(s, c) ==
    /\ relay' = [relay EXCEPT ![s] = "failed"]
    /\ status' = [status EXCEPT ![s] = c]
    /\ UNCHANGED <<text, pulled, out>>

\* _raise_for_status before the first chunk: a stream is not retried.
StreamRefused(s) ==
    /\ relay[s] = "connecting" /\ code[<<s, 1>>] \in {429, 500}
    /\ StreamFails(s, IF code[<<s, 1>>] = 429 THEN 429 ELSE 502)
    /\ Sent(<<s, 1>>)
    /\ UNCHANGED <<chatVars, historyVars>>

StreamAnswered(s) ==
    /\ relay[s] = "connecting" /\ code[<<s, 1>>] = 200
    /\ relay' = [relay EXCEPT ![s] = "pulling"]
    /\ \E n \in Lengths : text' = [text EXCEPT ![s] = [i \in 1..n |-> i]]
    /\ Sent(<<s, 1>>)
    /\ UNCHANGED <<chatVars, status, pulled, out, historyVars>>

\* No headers in time: mapped. No first chunk: the server's plain 500.
StreamTimesOut(s) ==
    /\ \/ relay[s] = "connecting" /\ StreamFails(s, 504)
       \/ relay[s] = "pulling" /\ StreamFails(s, 500)
    /\ UNCHANGED <<stubVars, chatVars, historyVars>>

\* The eager first pull; the adapter's iterator stands behind its first delta.
FirstPull(s) ==
    /\ relay[s] = "pulling"
    /\ relay' = [relay EXCEPT ![s] = "ready"]
    /\ pulled' = [pulled EXCEPT ![s] = 1]
    /\ UNCHANGED <<stubVars, chatVars, status, text, out, historyVars>>

\* Slip: the chunk that was pulled first is not replayed.
BodyStartsBehind(s) ==
    /\ relay[s] = "ready"
    /\ relay' = [relay EXCEPT ![s] = "body"]
    /\ status' = [status EXCEPT ![s] = 200]
    /\ UNCHANGED <<stubVars, chatVars, text, pulled, out, historyVars>>

\* The response starts, and replayed() gives the first chunk back.
BodyStarts(s) ==
    /\ relay[s] = "ready"
    /\ relay' = [relay EXCEPT ![s] = "body"]
    /\ status' = [status EXCEPT ![s] = 200]
    /\ out' = [out EXCEPT ![s] = Deltas(text[s])[1]]
    /\ UNCHANGED <<stubVars, chatVars, text, pulled, historyVars>>

Relays(s) ==
    /\ relay[s] = "body" /\ pulled[s] < Len(Deltas(text[s]))
    /\ pulled' = [pulled EXCEPT ![s] = @ + 1]
    /\ out' = [out EXCEPT ![s] = @ \o Deltas(text[s])[pulled[s] + 1]]
    /\ UNCHANGED <<stubVars, chatVars, relay, status, text, historyVars>>

\* [DONE] of the stub ends the iterator, and the gateway sends its own.
StreamDone(s) ==
    /\ relay[s] = "body" /\ pulled[s] = Len(Deltas(text[s]))
    /\ relay' = [relay EXCEPT ![s] = "done"]
    /\ UNCHANGED <<stubVars, chatVars, status, text, pulled, out, historyVars>>

\* Slip: a failure in mid-stream is still mapped.
StreamBreaksRemapped(s) ==
    /\ relay[s] = "body"
    /\ StreamFails(s, 502)
    /\ UNCHANGED <<stubVars, chatVars, historyVars>>

\* A timeout or a lost connection in mid-stream, or a client that leaves:
\* nothing is sent again and there is no [DONE].
StreamBreaks(s) ==
    /\ relay[s] = "body"
    /\ \E e \in {"broken", "gone"} : relay' = [relay EXCEPT ![s] = e]
    /\ UNCHANGED <<stubVars, chatVars, status, text, pulled, out, historyVars>>

Next ==
    \/ \E c \in Calls : CallArrives(c) \/ CallWakes(c) \/ AnswerDropped(c) \/ RequestReplied(c)
    \/ FaultsPosted
    \/ \E r \in Requests : RequestAccepted(r) \/ RequestGoesOn(r)
    \/ Tick
    \/ \E s \in Streams : \/ StreamOpened(s) \/ StreamRefused(s) \/ StreamAnswered(s)
                          \/ StreamTimesOut(s) \/ FirstPull(s) \/ BodyStarts(s)
                          \/ Relays(s) \/ StreamDone(s) \/ StreamBreaks(s)

Spec == Init /\ [][Next]_vars
-----------------------------------------------------------------------------
(* Properties.                                                             *)

\* Concurrent callers share one fail_next budget, but no failure is counted
\* twice: each completion that failed for it has used up MaxAttempts faults and
\* each stream one. Fewer faults than that are masked, in any interleaving.
FewFaultsMasked ==
    MaxAttempts * Cardinality({r \in Requests : answer[r] \in {429, 502}})
      + Cardinality({s \in Streams : status[s] \in {429, 502}}) <= injected

\* docs/architecture-and-tradeoffs.md:20-21: fail_next forces exact failure counts,
\* whatever the bands say: for a request that is alone with the stub, also
\* with no call of a former request asleep there, and that has no timeout (an
\* attempt that timed out leaves a call behind which takes its fault later).
ForcedFailures == \A r \in Requests :
    alone[r] /\ forced[r] > 0 /\ answer[r] \in {200, 429, 502} /\ ~Contains(outcomes[r], "timeout") =>
        LET n == IF forced[r] <= MaxAttempts THEN forced[r] ELSE MaxAttempts
        IN /\ \A i \in 1..n : outcomes[r][i] = "transient"
           /\ forced[r] >= MaxAttempts => answer[r] = 502

\* A client never reads a delta twice, out of order or not at all, and [DONE]
\* means that it has the whole text.
RelayFaithful == \A s \in Streams :
    /\ IsPrefix(out[s], text[s])
    /\ relay[s] = "done" => out[s] = text[s]

\* Where a stream stands in its contract.
StreamPhase(x) ==
    CASE x \in {"connecting", "pulling", "ready"} -> "waiting"
      [] x = "body" -> "sending"
      [] x = "gone" -> "broken"
      [] OTHER -> x

StreamPart == INSTANCE StreamContract WITH phase <- [s \in Streams |-> StreamPhase(relay[s])]

\* The streams of this module, which follows their data, and those of GatewayPod,
\* which follows their scopes and their end, keep one and the same contract.
KeepsStreamContract == StreamPart!Spec
=============================================================================
