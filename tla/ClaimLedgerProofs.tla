-------------------------- MODULE ClaimLedgerProofs --------------------------
(***************************************************************************)
(* What the ledger of claims guarantees to whoever implements it, for any  *)
(* set of keys and any number of claims.                                   *)
(***************************************************************************)
EXTENDS ClaimLedger, FiniteSetTheorems, TLAPS

\* Claims are granted one at a time, and every ticket has a granted claim.
LedgerInv ==
    /\ granted \in [Keys -> Nat]
    /\ expired \in [Keys -> Nat]
    /\ tickets \subseteq [key : Keys, claim : Nat]
    /\ \A k \in Keys : granted[k] \in {expired[k], expired[k] + 1}
    /\ \A t \in tickets : t.claim \in 1..granted[t.key]

LEMMA LedgerInvInit == Init => LedgerInv
  BY DEF Init, LedgerInv

LEMMA LedgerInvStep == LedgerInv /\ [Next]_ledgerVars => LedgerInv'
  <1> SUFFICES ASSUME LedgerInv, [Next]_ledgerVars
               PROVE  LedgerInv'
    OBVIOUS
  <1> USE DEF LedgerInv
  <1>1. ASSUME NEW k \in Keys, Grant(k)
        PROVE  LedgerInv'
    BY <1>1 DEF Grant
  <1>2. ASSUME NEW k \in Keys, Lapse(k)
        PROVE  LedgerInv'
    BY <1>2 DEF Lapse
  <1>3. ASSUME NEW k \in Keys, Issue(k)
        PROVE  LedgerInv'
    BY <1>3 DEF Issue
  <1>4. CASE UNCHANGED ledgerVars
    BY <1>4 DEF ledgerVars
  <1> QED BY <1>1, <1>2, <1>3, <1>4 DEF Next

LEMMA LedgerInvariance == Spec => []LedgerInv
  BY LedgerInvInit, LedgerInvStep, PTL DEF Spec

\* The tickets of a key have different claims, and those are at most as many as
\* were granted: there are no more tickets than grants.
LEMMA TicketsCounted ==
  ASSUME LedgerInv, NEW k \in Keys
  PROVE  IsFiniteSet(TicketsOf(k)) /\ Cardinality(TicketsOf(k)) <= granted[k]
  <1> DEFINE claimOf == [t \in TicketsOf(k) |-> t.claim]
  <1>1. granted[k] \in Nat
    BY DEF LedgerInv
  <1>2. claimOf \in Injection(TicketsOf(k), 1..granted[k])
    <2>1. \A t \in TicketsOf(k) : t.claim \in 1..granted[k]
      BY DEF TicketsOf, LedgerInv
    <2>2. ASSUME NEW t \in TicketsOf(k), NEW u \in TicketsOf(k), t.claim = u.claim
          PROVE  t = u
      <3>1. t \in [key : Keys, claim : Nat] /\ u \in [key : Keys, claim : Nat] /\ t.key = u.key
        BY DEF TicketsOf, LedgerInv
      <3> QED BY <2>2, <3>1
    <2>3. claimOf \in [TicketsOf(k) -> 1..granted[k]]
      BY <2>1
    <2>4. \A t, u \in TicketsOf(k) : claimOf[t] = claimOf[u] => t = u
      BY <2>2
    <2> QED BY <2>3, <2>4 DEF Injection, IsInjective
  <1>3. IsFiniteSet(1..granted[k]) /\ Cardinality(1..granted[k]) = granted[k]
    <2>1. 1 \in Int /\ granted[k] \in Int
      BY <1>1
    <2>2. /\ IsFiniteSet(1..granted[k])
          /\ Cardinality(1..granted[k]) = IF 1 > granted[k] THEN 0 ELSE granted[k] - 1 + 1
      BY <2>1, FS_Interval
    <2> QED BY <1>1, <2>2
  <1>4. \E f : f \in Injection(TicketsOf(k), 1..granted[k])
    BY <1>2
  <1> QED BY <1>3, <1>4, FS_Injection

\* Whoever keeps the ledger issues at most one ticket more for a key than claims
\* of it have lapsed.
THEOREM DuplicatesAlwaysBounded == Spec => []DuplicatesBounded
  <1>1. LedgerInv => DuplicatesBounded
    <2> SUFFICES ASSUME LedgerInv, NEW k \in Keys
                 PROVE  Cardinality(TicketsOf(k)) <= 1 + expired[k]
      BY DEF DuplicatesBounded
    <2>1. granted[k] \in Nat /\ expired[k] \in Nat /\ granted[k] <= 1 + expired[k]
      BY DEF LedgerInv
    <2>2. Cardinality(TicketsOf(k)) \in Nat
      BY TicketsCounted, FS_CardinalityType
    <2> QED BY <2>1, <2>2, TicketsCounted
  <1> QED BY <1>1, LedgerInvariance, PTL
=============================================================================
