---------------------------- MODULE ProviderStub ----------------------------
(***************************************************************************)
(* The provider stub (services/provider-stub): one global fault            *)
(* configuration, which POST /__faults replaces, and completions that      *)
(* sleep for its latency before they look at it again. A handler whose     *)
(* client has given up goes on as if nothing had happened.                 *)
(*                                                                         *)
(* A text is a sequence of characters; which text a prompt gets is left    *)
(* out.                                                                    *)
(***************************************************************************)
EXTENDS Integers, Sequences

CONSTANTS Calls,     \* requests to the stub
          Configs    \* what POST /__faults may set

(* latency_ms and fail_next, and what a random draw against error_rate and *)
(* rate_limit_rate may come to: 429, 500, or 200 for neither.              *)
FaultConfig == [latency : Nat, failNext : Nat, draws : (SUBSET {200, 429, 500}) \ {{}}]
NoFaults == [latency |-> 0, failNext |-> 0, draws |-> {200}]

ASSUME StubAssumption == Configs \subseteq FaultConfig

VARIABLES faults,   \* _fault_config
          call,     \* call[c]: idle, asleep or answered
          wake,     \* wake[c]: until its sleep ends
          code      \* code[c]: the answer's status, 0 before

stubVars == <<faults, call, wake, code>>

StubTypeOK ==
    /\ faults \in FaultConfig
    /\ call \in [Calls -> {"idle", "asleep", "answered"}]
    /\ wake \in [Calls -> Nat]
    /\ code \in [Calls -> {0, 200, 429, 500}]

StubInit ==
    /\ faults = NoFaults
    /\ call = [c \in Calls |-> "idle"]
    /\ wake = [c \in Calls |-> 0]
    /\ code = [c \in Calls |-> 0]
-----------------------------------------------------------------------------
\* Slip: the random bands are drawn first.
DecideBands(c) ==
    /\ call' = [call EXCEPT ![c] = "answered"]
    /\ \E s \in faults.draws :
         \/ /\ s # 200 \/ faults.failNext = 0
            /\ code' = [code EXCEPT ![c] = s]
            /\ UNCHANGED faults
         \/ /\ s = 200 /\ faults.failNext > 0
            /\ code' = [code EXCEPT ![c] = 500]
            /\ faults' = [faults EXCEPT !.failNext = @ - 1]
    /\ UNCHANGED wake

\* should_inject_fault on the configuration of this moment, and the answer: no
\* await lies between the two.
Decide(c) ==
    /\ call' = [call EXCEPT ![c] = "answered"]
    /\ IF faults.failNext > 0
       THEN /\ code' = [code EXCEPT ![c] = 500]
            /\ faults' = [faults EXCEPT !.failNext = @ - 1]
       ELSE /\ \E s \in faults.draws : code' = [code EXCEPT ![c] = s]
            /\ UNCHANGED faults
    /\ UNCHANGED wake

\* chat_completions up to its sleep, or to the end if there is none.
Arrive(c) ==
    /\ call[c] = "idle"
    /\ IF faults.latency > 0
       THEN /\ call' = [call EXCEPT ![c] = "asleep"]
            /\ wake' = [wake EXCEPT ![c] = faults.latency]
            /\ UNCHANGED <<faults, code>>
       ELSE Decide(c)

SleepEnds(c) ==
    /\ call[c] = "asleep" /\ wake[c] = 0
    /\ Decide(c)

\* The answer is on the wire, or there is nobody left to take it.
Sent(c) ==
    /\ call[c] = "answered"
    /\ call' = [call EXCEPT ![c] = "idle"]
    /\ code' = [code EXCEPT ![c] = 0]
    /\ UNCHANGED <<faults, wake>>

SetFaults(f) ==
    /\ f \in Configs
    /\ faults' = f
    /\ UNCHANGED <<call, wake, code>>

NoSleepDue == \A c \in Calls : call[c] = "asleep" => wake[c] > 0

StubTime ==
    /\ NoSleepDue
    /\ wake' = [c \in Calls |-> IF call[c] = "asleep" THEN wake[c] - 1 ELSE wake[c]]
    /\ UNCHANGED <<faults, call, code>>
-----------------------------------------------------------------------------
(* What a streamed answer is cut into.                                     *)

\* Slip: pieces of equal size, and the remainder is forgotten.
ChunkResponseEven(text, n) ==
    IF n <= 1 \/ text = <<>> THEN <<text>>
    ELSE LET pieces == IF n <= Len(text) THEN n ELSE Len(text)
             size == Len(text) \div pieces
         IN [i \in 1..pieces |-> SubSeq(text, (i - 1) * size + 1, i * size)]

\* chunk_response: equal pieces, the last one with the remainder.
ChunkResponse(text, n) ==
    IF n <= 1 \/ text = <<>> THEN <<text>>
    ELSE LET pieces == IF n <= Len(text) THEN n ELSE Len(text)
             size == Len(text) \div pieces
         IN [i \in 1..pieces |->
                SubSeq(text, (i - 1) * size + 1, IF i = pieces THEN Len(text) ELSE i * size)]

\* The deltas of event_stream: the pieces, then one without content that
\* finishes; [DONE] ends the stream after them.
Deltas(text) == Append(ChunkResponse(text, 5), <<>>)
=============================================================================
