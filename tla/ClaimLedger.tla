----------------------------- MODULE ClaimLedger -----------------------------
(***************************************************************************)
(* What the idempotency claim promises, without queue, workers or faults:  *)
(* the right to execute the side effect of a key is granted one claim at a *)
(* time, a further claim only after every earlier one has lapsed, and each *)
(* claim is used for at most one ticket (idempotency.py: "claims for       *)
(* exactly-once side effects").                                            *)
(***************************************************************************)
EXTENDS Naturals, FiniteSets

CONSTANT Keys           \* idempotency keys

VARIABLES granted,      \* granted[k]: how many claims of k were granted
          expired,      \* expired[k]: how many of them have lapsed
          tickets       \* the tickets, each [key, claim] it was drafted under

ledgerVars == <<granted, expired, tickets>>

Init == /\ granted = [k \in Keys |-> 0]
        /\ expired = [k \in Keys |-> 0]
        /\ tickets = {}

Grant(k) == /\ granted[k] = expired[k]
            /\ granted' = [granted EXCEPT ![k] = @ + 1]
            /\ UNCHANGED <<expired, tickets>>

Lapse(k) == /\ expired[k] < granted[k]
            /\ expired' = [expired EXCEPT ![k] = @ + 1]
            /\ UNCHANGED <<granted, tickets>>

\* A ticket is issued under a granted claim that has issued none. The claim
\* may have lapsed meanwhile: nothing fences a slow holder off.
Issue(k) == \E c \in 1..granted[k] :
               /\ [key |-> k, claim |-> c] \notin tickets
               /\ tickets' = tickets \cup {[key |-> k, claim |-> c]}
               /\ UNCHANGED <<granted, expired>>

Next == \E k \in Keys : Grant(k) \/ Lapse(k) \/ Issue(k)

Spec == Init /\ [][Next]_ledgerVars
-----------------------------------------------------------------------------
TicketsOf(k) == {t \in tickets : t.key = k}

\* What the ledger is for: a key has at most one ticket more than claims of it
\* have lapsed, however slow the holders of those claims are.
DuplicatesBounded == \A k \in Keys : Cardinality(TicketsOf(k)) <= 1 + expired[k]
=============================================================================
