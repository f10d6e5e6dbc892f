---------------------------- MODULE UnaryContract ----------------------------
(***************************************************************************)
(* What a non-streaming request promises whoever counts on it, whatever    *)
(* adapters, retries and upstreams do: it ends once, within its budget,    *)
(* with a status of the error contract, and it is in the in-flight gauge   *)
(* exactly meanwhile. The shutdown of a pod builds on this contract.       *)
(***************************************************************************)
EXTENDS Naturals

CONSTANTS Requests, Budget

\* What errors.py makes of a provider's failure, and what the server makes of an
\* exception that no handler maps.
Mapped == {429, 502, 504}
Unmapped == 500

Statuses == {200, Unmapped} \cup Mapped

VARIABLES phase,     \* phase[r]: new, working or ended
          status,    \* status[r]: HTTP status, 0 before the end
          age,       \* age[r]: time the request has been working
          inflight   \* how many requests are in the gauge

contractVars == <<phase, status, age, inflight>>

Init ==
    /\ phase = [r \in Requests |-> "new"]
    /\ status = [r \in Requests |-> 0]
    /\ age = [r \in Requests |-> 0]
    /\ inflight = 0

Open(r) ==
    /\ phase[r] = "new"
    /\ phase' = [phase EXCEPT ![r] = "working"]
    /\ inflight' = inflight + 1
    /\ UNCHANGED <<status, age>>

End(r, s) ==
    /\ phase[r] = "working"
    /\ phase' = [phase EXCEPT ![r] = "ended"]
    /\ status' = [status EXCEPT ![r] = s]
    /\ inflight' = inflight - 1
    /\ UNCHANGED age

\* One unit of time for everyone at work, and no one is out of budget yet.
Pass ==
    /\ \A r \in Requests : phase[r] = "working" => age[r] < Budget
    /\ age' = [r \in Requests |-> IF phase[r] = "working" THEN age[r] + 1 ELSE age[r]]
    /\ UNCHANGED <<phase, status, inflight>>

Next == Pass \/ \E r \in Requests : Open(r) \/ \E s \in Statuses : End(r, s)

Spec == Init /\ [][Next]_contractVars
=============================================================================
