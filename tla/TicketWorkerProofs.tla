------------------------- MODULE TicketWorkerProofs -------------------------
(***************************************************************************)
(* Proofs about TicketWorker for any set of replicas and messages, any     *)
(* queue and redrive parameters and any choice of faults.                  *)
(***************************************************************************)
EXTENDS TicketWorker, TLAPS

LEMMA KeyInKeys == \A m \in Messages : Key(m) \in Keys
  BY DEF Keys

\* The current delivery of a replica is one exactly when it is in a call.
CurKnown == \A w \in Workers : pc[w] \in Calls => cur[w] \in Deliveries

-----------------------------------------------------------------------------
(* The inductive invariant, in parts.                                      *)

\* At most one claim of a key has not lapsed; none when there is no record.
ClaimsCounted == \A k \in Keys :
    granted[k] = IF store[k] \in {"claimed", "done"} THEN expired[k] + 1 ELSE expired[k]

Holding(w) == pc[w] \in {"draft", "persist"}

\* A replica that has not persisted yet holds a granted claim without a ticket.
HoldersHold == \A w \in Workers : Holding(w) =>
    claimNo[w] \in 1..granted[CurKey(w)] /\ NewTicket(w) \notin tickets

\* No two replicas hold the same claim.
HoldersDiffer == \A v, w \in Workers :
    Holding(v) /\ Holding(w) /\ CurKey(v) = CurKey(w) /\ claimNo[v] = claimNo[w] => v = w

TicketsGranted == \A t \in tickets : t.claim \in 1..granted[t.key]

\* Past persist_ticket there is a ticket for the key being processed.
PersistedIsTicketed == \A w \in Workers :
    pc[w] \in {"mark_done", "delete"} => Ticketed(CurKey(w))

\* Only deliveries of a key that was claimed at least once are deleted.
DeletedWasGranted ==
    /\ \A m \in Messages : queue[m] = "deleted" => granted[Key(m)] >= 1
    /\ \A w \in Workers : pc[w] \in Calls => granted[CurKey(w)] >= 1

\* What became of the claims of a key.
GrantedIsSettled == \A k \in Keys : granted[k] >= 1 =>
    Ticketed(k) \/ k \in aborted \/ \E w \in Workers : Working(w, k)

IInv == /\ TypeOK
        /\ CurKnown
        /\ ClaimsCounted
        /\ HoldersHold
        /\ HoldersDiffer
        /\ TicketsGranted
        /\ PersistedIsTicketed
        /\ DoneMeansTicketed
        /\ DeletedWasGranted
        /\ GrantedIsSettled
-----------------------------------------------------------------------------
(* Type correctness.                                                       *)

LEMMA TypeInit == Init => TypeOK /\ CurKnown
  BY WorkerAssumption DEF Init, TypeOK, CurKnown, Records, Absent, Calls

\* One step per action: what it assigns keeps its type, and a replica in a call
\* has a current delivery.
LEMMA TypeStep == TypeOK /\ CurKnown /\ [Next]_vars => TypeOK' /\ CurKnown'
  <1> SUFFICES ASSUME TypeOK, CurKnown, [Next]_vars
               PROVE  TypeOK' /\ CurKnown'
    OBVIOUS
  <1> USE KeyInKeys DEF Calls
  <1>1. ASSUME NEW w \in Workers, Receive(w)
        PROVE  TypeOK' /\ CurKnown'
    BY <1>1 DEF Receive, TypeOK, CurKnown, Deliveries, Records, Absent, queueVars, workerVars, ledgerVars
  <1>2. ASSUME NEW w \in Workers, DraftTicket(w)
        PROVE  TypeOK' /\ CurKnown'
    BY <1>2 DEF DraftTicket, Goes, Moves, CurKey, TypeOK, CurKnown, Deliveries, Records, Absent, queueVars, workerVars, ledgerVars
  <1>3. ASSUME NEW w \in Workers, PersistTicket(w)
        PROVE  TypeOK' /\ CurKnown'
    BY <1>3 DEF PersistTicket, Goes, Moves, CurKey, NewTicket, TypeOK, CurKnown, Deliveries, Records, Absent, queueVars, workerVars, ledgerVars
  <1>4. ASSUME NEW w \in Workers, MarkDone(w)
        PROVE  TypeOK' /\ CurKnown'
    BY <1>4 DEF MarkDone, Goes, Moves, Finalized, CurKey, TypeOK, CurKnown, Deliveries, Records, Absent, queueVars, workerVars, ledgerVars
  <1>5. ASSUME NEW w \in Workers, Delete(w)
        PROVE  TypeOK' /\ CurKnown'
    BY <1>5 DEF Delete, Moves, DeleteMessage, TypeOK, CurKnown, Deliveries, Records, Absent, queueVars, workerVars, ledgerVars
  <1>6. ASSUME NEW w \in Workers, Ack(w)
        PROVE  TypeOK' /\ CurKnown'
    BY <1>6 DEF Ack, Moves, Exits, DeleteMessage, TypeOK, CurKnown, Deliveries, Records, Absent, queueVars, workerVars, ledgerVars
  <1>7. ASSUME NEW w \in Workers, Restart(w)
        PROVE  TypeOK' /\ CurKnown'
    BY <1>7 DEF Restart, Goes, TypeOK, CurKnown, Deliveries, Records, Absent, queueVars, workerVars, ledgerVars
  <1>8. ASSUME NEW w \in Workers, NEW d \in batch[w], KeyRaises(w, d)
        PROVE  TypeOK' /\ CurKnown'
    BY <1>8 DEF KeyRaises, Exits, TypeOK, CurKnown, Deliveries, Records, Absent, queueVars, workerVars, ledgerVars
  <1>9. ASSUME NEW w \in Workers, NEW d \in batch[w], ClaimGranted(w, d)
        PROVE  TypeOK' /\ CurKnown'
    BY <1>9 DEF ClaimGranted, Takes, Granted, Begins, TypeOK, CurKnown, Deliveries, Records, Absent, queueVars, workerVars, ledgerVars
  <1>10. ASSUME NEW w \in Workers, NEW d \in batch[w], ClaimRefused(w, d)
        PROVE  TypeOK' /\ CurKnown'
    BY <1>10 DEF ClaimRefused, Takes, Begins, TypeOK, CurKnown, Deliveries, Records, Absent, queueVars, workerVars, ledgerVars
  <1>11. ASSUME NEW w \in Workers, NEW d \in batch[w], ClaimSelfConflict(w, d)
        PROVE  TypeOK' /\ CurKnown'
    BY <1>11 DEF ClaimSelfConflict, Takes, Granted, Begins, TypeOK, CurKnown, Deliveries, Records, Absent, queueVars, workerVars, ledgerVars
  <1>12. ASSUME NEW w \in Workers, NEW d \in batch[w], ClaimRaises(w, d)
        PROVE  TypeOK' /\ CurKnown'
    BY <1>12 DEF ClaimRaises, Takes, Granted, Exits, TypeOK, CurKnown, Deliveries, Records, Absent, queueVars, workerVars, ledgerVars
  <1>13. ASSUME NEW w \in Workers, Kill(w)
        PROVE  TypeOK' /\ CurKnown'
    BY <1>13 DEF Kill, Exits, CurKey, TypeOK, CurKnown, Deliveries, Records, Absent, queueVars, workerVars, ledgerVars
  <1>14. ASSUME NEW m \in Messages, Publish(m)
        PROVE  TypeOK' /\ CurKnown'
    BY <1>14 DEF Publish, TypeOK, CurKnown, Deliveries, Records, Absent, queueVars, workerVars, ledgerVars
  <1>15. ASSUME NEW m \in Messages, VisibilityExpires(m)
        PROVE  TypeOK' /\ CurKnown'
    BY <1>15 DEF VisibilityExpires, TypeOK, CurKnown, Deliveries, Records, Absent, queueVars, workerVars, ledgerVars
  <1>16. ASSUME NEW m \in Messages, Redrive(m)
        PROVE  TypeOK' /\ CurKnown'
    BY <1>16 DEF Redrive, TypeOK, CurKnown, Deliveries, Records, Absent, queueVars, workerVars, ledgerVars
  <1>17. ASSUME NEW k \in Keys, TtlExpires(k)
        PROVE  TypeOK' /\ CurKnown'
    BY <1>17 DEF TtlExpires, TypeOK, CurKnown, Deliveries, Records, Absent, queueVars, workerVars, ledgerVars
  <1>18. CASE UNCHANGED vars
    BY <1>18 DEF vars, TypeOK, CurKnown, queueVars, workerVars, ledgerVars
  <1> QED
    BY <1>1, <1>2, <1>3, <1>4, <1>5, <1>6, <1>7, <1>8, <1>9, <1>10, <1>11, <1>12, <1>13, <1>14, <1>15, <1>16, <1>17, <1>18 DEF Next, Step

-----------------------------------------------------------------------------
(* The invariant is inductive: one lemma per action, one step per part of  *)
(* the invariant the action can disturb.                                   *)

LEMMA InvInit == Init => IInv
  BY TypeInit DEF Init, IInv, ClaimsCounted, HoldersHold, HoldersDiffer, TicketsGranted,
     PersistedIsTicketed, DoneMeansTicketed, DeletedWasGranted, GrantedIsSettled,
     Holding, Calls, Absent

LEMMA ReceiveInv ==
  ASSUME IInv, TypeOK', CurKnown', NEW w \in Workers, Receive(w)
  PROVE  IInv'
  <1> USE DEF IInv
  <1>1. ClaimsCounted' /\ HoldersHold' /\ HoldersDiffer' /\ TicketsGranted' /\
     PersistedIsTicketed' /\ DoneMeansTicketed' /\ GrantedIsSettled'
    BY DEF Receive, ClaimsCounted, HoldersHold, HoldersDiffer, TicketsGranted,
       PersistedIsTicketed, DoneMeansTicketed, GrantedIsSettled, Records, Absent,
       Holding, CurKey, NewTicket, Ticketed, Working, queueVars, workerVars,
       ledgerVars
  <1>2. DeletedWasGranted'
    BY KeyInKeys DEF Receive, DeletedWasGranted, Calls, CurKey, TypeOK, queueVars,
       workerVars, ledgerVars
  <1> QED BY <1>1, <1>2

LEMMA DraftTicketInv ==
  ASSUME IInv, TypeOK', CurKnown', NEW w \in Workers, DraftTicket(w)
  PROVE  IInv'
  <1> USE DEF IInv
  <1>1. ClaimsCounted' /\ TicketsGranted' /\ DoneMeansTicketed'
    BY DEF DraftTicket, Goes, Moves, ClaimsCounted, TicketsGranted, DoneMeansTicketed,
       Records, Absent, Ticketed, queueVars, workerVars, ledgerVars
  <1>2. HoldersHold'
    BY KeyInKeys DEF DraftTicket, Goes, Moves, HoldersHold, Holding, CurKey,
       NewTicket, TypeOK, queueVars, workerVars, ledgerVars
  <1>3. HoldersDiffer'
    BY KeyInKeys DEF DraftTicket, Goes, Moves, HoldersDiffer, Holding, CurKey, TypeOK,
       queueVars, workerVars, ledgerVars
  <1>4. PersistedIsTicketed'
    BY KeyInKeys DEF DraftTicket, Goes, Moves, PersistedIsTicketed, Ticketed, CurKey,
       TypeOK, queueVars, workerVars, ledgerVars
  <1>5. DeletedWasGranted'
    BY KeyInKeys DEF DraftTicket, Goes, Moves, DeletedWasGranted, Calls, CurKey,
       TypeOK, queueVars, workerVars, ledgerVars
  <1>6. GrantedIsSettled'
    BY KeyInKeys DEF DraftTicket, Goes, Moves, GrantedIsSettled, Ticketed, Working,
       CurKey, TypeOK, queueVars, workerVars, ledgerVars
  <1> QED BY <1>1, <1>2, <1>3, <1>4, <1>5, <1>6

LEMMA PersistTicketInv ==
  ASSUME IInv, TypeOK', CurKnown', NEW w \in Workers, PersistTicket(w)
  PROVE  IInv'
  <1> USE DEF IInv
  <1>1. ClaimsCounted'
    BY DEF PersistTicket, Goes, Moves, ClaimsCounted, Records, Absent, queueVars,
       workerVars, ledgerVars
  <1>2. HoldersHold'
    BY KeyInKeys DEF PersistTicket, Goes, Moves, HoldersHold, Holding, CurKey,
       NewTicket, HoldersDiffer, TypeOK, queueVars, workerVars, ledgerVars
  <1>3. HoldersDiffer'
    BY KeyInKeys DEF PersistTicket, Goes, Moves, HoldersDiffer, Holding, CurKey,
       TypeOK, queueVars, workerVars, ledgerVars
  <1>4. TicketsGranted'
    BY KeyInKeys DEF PersistTicket, Goes, Moves, TicketsGranted, HoldersHold, Holding,
       NewTicket, CurKnown, Calls, CurKey, Deliveries, TypeOK, queueVars, workerVars,
       ledgerVars
  <1>5. PersistedIsTicketed'
    <2>1. ASSUME NEW v \in Workers, v # w, pc'[v] \in {"mark_done", "delete"}
          PROVE  Ticketed(CurKey(v))'
      BY <2>1 DEF PersistTicket, Goes, Moves, PersistedIsTicketed, Ticketed, CurKey, TypeOK
    <2>2. ASSUME pc'[w] \in {"mark_done", "delete"}
          PROVE  Ticketed(CurKey(w))'
      <3>1. NewTicket(w) \in tickets' /\ cur' = cur
        BY <2>2 DEF PersistTicket, Goes, Moves, TypeOK
      <3>2. NewTicket(w).key = CurKey(w)'
        BY <3>1 DEF NewTicket, CurKey
      <3> QED BY <3>1, <3>2 DEF Ticketed
    <2> QED BY <2>1, <2>2 DEF PersistedIsTicketed
  <1>6. DoneMeansTicketed'
    BY KeyInKeys DEF PersistTicket, Goes, Moves, DoneMeansTicketed, Ticketed, TypeOK,
       queueVars, workerVars, ledgerVars
  <1>7. DeletedWasGranted'
    BY KeyInKeys DEF PersistTicket, Goes, Moves, DeletedWasGranted, Calls, CurKey,
       TypeOK, queueVars, workerVars, ledgerVars
  <1>8. GrantedIsSettled'
    <2> SUFFICES ASSUME NEW k \in Keys, granted[k] >= 1, ~Ticketed(k)', k \notin aborted'
                 PROVE  \E v \in Workers : Working(v, k)'
      BY DEF PersistTicket, GrantedIsSettled
    <2>1. tickets \subseteq tickets' /\ aborted \subseteq aborted'
      BY DEF PersistTicket
    <2>2. PICK v \in Workers : Working(v, k)
      BY <2>1 DEF GrantedIsSettled, Ticketed
    <2>3. CurKey(w) # k
      <3>1. NewTicket(w) \in tickets' \/ CurKey(w) \in aborted'
        BY DEF PersistTicket
      <3> QED BY <3>1 DEF NewTicket, Ticketed
    <2>4. v # w
      BY <2>2, <2>3 DEF Working
    <2> QED BY <2>2, <2>4 DEF PersistTicket, Goes, Moves, Working, CurKey, TypeOK
  <1> QED BY <1>1, <1>2, <1>3, <1>4, <1>5, <1>6, <1>7, <1>8

LEMMA MarkDoneInv ==
  ASSUME IInv, TypeOK', CurKnown', NEW w \in Workers, MarkDone(w)
  PROVE  IInv'
  <1> USE DEF IInv
  <1>1. TicketsGranted'
    BY DEF MarkDone, Goes, Moves, Finalized, TicketsGranted, queueVars, workerVars,
       ledgerVars
  <1>2. ClaimsCounted'
    BY KeyInKeys DEF MarkDone, Goes, Moves, Finalized, ClaimsCounted, Records, Absent,
       TypeOK, queueVars, workerVars, ledgerVars
  <1>3. HoldersHold'
    BY KeyInKeys DEF MarkDone, Goes, Moves, Finalized, HoldersHold, Holding, CurKey,
       NewTicket, TypeOK, queueVars, workerVars, ledgerVars
  <1>4. HoldersDiffer'
    BY KeyInKeys DEF MarkDone, Goes, Moves, Finalized, HoldersDiffer, Holding, CurKey,
       TypeOK, queueVars, workerVars, ledgerVars
  <1>5. PersistedIsTicketed'
    BY KeyInKeys DEF MarkDone, Goes, Moves, Finalized, PersistedIsTicketed, Ticketed,
       CurKey, TypeOK, queueVars, workerVars, ledgerVars
  <1>6. DoneMeansTicketed'
    BY KeyInKeys DEF MarkDone, Goes, Moves, Finalized, DoneMeansTicketed, Ticketed,
       PersistedIsTicketed, CurKey, Records, Absent, TypeOK, queueVars, workerVars,
       ledgerVars
  <1>7. DeletedWasGranted'
    BY KeyInKeys DEF MarkDone, Goes, Moves, Finalized, DeletedWasGranted, Calls,
       CurKey, TypeOK, queueVars, workerVars, ledgerVars
  <1>8. GrantedIsSettled'
    BY KeyInKeys DEF MarkDone, Goes, Moves, Finalized, GrantedIsSettled, Ticketed,
       Working, CurKey, TypeOK, queueVars, workerVars, ledgerVars
  <1> QED BY <1>1, <1>2, <1>3, <1>4, <1>5, <1>6, <1>7, <1>8

LEMMA DeleteInv ==
  ASSUME IInv, TypeOK', CurKnown', NEW w \in Workers, Delete(w)
  PROVE  IInv'
  <1> USE DEF IInv
  <1>1. ClaimsCounted' /\ TicketsGranted' /\ DoneMeansTicketed'
    BY DEF Delete, Moves, DeleteMessage, ClaimsCounted, TicketsGranted,
       DoneMeansTicketed, Records, Absent, Ticketed, queueVars, workerVars, ledgerVars
  <1>2. HoldersHold'
    BY KeyInKeys DEF Delete, Moves, DeleteMessage, HoldersHold, Holding, CurKey,
       NewTicket, TypeOK, queueVars, workerVars, ledgerVars
  <1>3. HoldersDiffer'
    BY KeyInKeys DEF Delete, Moves, DeleteMessage, HoldersDiffer, Holding, CurKey,
       TypeOK, queueVars, workerVars, ledgerVars
  <1>4. PersistedIsTicketed'
    BY KeyInKeys DEF Delete, Moves, DeleteMessage, PersistedIsTicketed, Ticketed,
       CurKey, TypeOK, queueVars, workerVars, ledgerVars
  <1>5. DeletedWasGranted'
    BY KeyInKeys DEF Delete, Moves, DeleteMessage, DeletedWasGranted, Calls, CurKey,
       CurKnown, Deliveries, TypeOK, queueVars, workerVars, ledgerVars
  <1>6. GrantedIsSettled'
    BY KeyInKeys DEF Delete, Moves, DeleteMessage, GrantedIsSettled, Ticketed,
       Working, CurKey, TypeOK, queueVars, workerVars, ledgerVars
  <1> QED BY <1>1, <1>2, <1>3, <1>4, <1>5, <1>6

LEMMA AckInv ==
  ASSUME IInv, TypeOK', CurKnown', NEW w \in Workers, Ack(w)
  PROVE  IInv'
  <1> USE DEF IInv
  <1>1. ClaimsCounted' /\ TicketsGranted' /\ DoneMeansTicketed'
    BY DEF Ack, Moves, Exits, DeleteMessage, ClaimsCounted, TicketsGranted,
       DoneMeansTicketed, Records, Absent, Ticketed, queueVars, workerVars, ledgerVars
  <1>2. HoldersHold'
    BY KeyInKeys DEF Ack, Moves, Exits, DeleteMessage, HoldersHold, Holding, CurKey,
       NewTicket, TypeOK, queueVars, workerVars, ledgerVars
  <1>3. HoldersDiffer'
    BY KeyInKeys DEF Ack, Moves, Exits, DeleteMessage, HoldersDiffer, Holding, CurKey,
       TypeOK, queueVars, workerVars, ledgerVars
  <1>4. PersistedIsTicketed'
    BY KeyInKeys DEF Ack, Moves, Exits, DeleteMessage, PersistedIsTicketed, Ticketed,
       CurKey, TypeOK, queueVars, workerVars, ledgerVars
  <1>5. DeletedWasGranted'
    BY KeyInKeys DEF Ack, Moves, Exits, DeleteMessage, DeletedWasGranted, Calls,
       CurKey, CurKnown, Deliveries, TypeOK, queueVars, workerVars, ledgerVars
  <1>6. GrantedIsSettled'
    BY KeyInKeys DEF Ack, Moves, Exits, DeleteMessage, GrantedIsSettled, Ticketed,
       Working, CurKey, TypeOK, queueVars, workerVars, ledgerVars
  <1> QED BY <1>1, <1>2, <1>3, <1>4, <1>5, <1>6

LEMMA RestartInv ==
  ASSUME IInv, TypeOK', CurKnown', NEW w \in Workers, Restart(w)
  PROVE  IInv'
  <1> USE DEF IInv
  <1>1. ClaimsCounted' /\ TicketsGranted' /\ DoneMeansTicketed'
    BY DEF Restart, Goes, ClaimsCounted, TicketsGranted, DoneMeansTicketed, Records,
       Absent, Ticketed, queueVars, workerVars, ledgerVars
  <1>2. HoldersHold'
    BY KeyInKeys DEF Restart, Goes, HoldersHold, Holding, CurKey, NewTicket, TypeOK,
       queueVars, workerVars, ledgerVars
  <1>3. HoldersDiffer'
    BY KeyInKeys DEF Restart, Goes, HoldersDiffer, Holding, CurKey, TypeOK, queueVars,
       workerVars, ledgerVars
  <1>4. PersistedIsTicketed'
    BY KeyInKeys DEF Restart, Goes, PersistedIsTicketed, Ticketed, CurKey, TypeOK,
       queueVars, workerVars, ledgerVars
  <1>5. DeletedWasGranted'
    BY KeyInKeys DEF Restart, Goes, DeletedWasGranted, Calls, CurKey, TypeOK,
       queueVars, workerVars, ledgerVars
  <1>6. GrantedIsSettled'
    BY KeyInKeys DEF Restart, Goes, GrantedIsSettled, Ticketed, Working, CurKey,
       TypeOK, queueVars, workerVars, ledgerVars
  <1> QED BY <1>1, <1>2, <1>3, <1>4, <1>5, <1>6

LEMMA KeyRaisesInv ==
  ASSUME IInv, TypeOK', CurKnown', NEW w \in Workers, NEW d \in batch[w], KeyRaises(w, d)
  PROVE  IInv'
  <1> USE DEF IInv
  <1>1. ClaimsCounted' /\ TicketsGranted' /\ DoneMeansTicketed'
    BY DEF KeyRaises, Exits, ClaimsCounted, TicketsGranted, DoneMeansTicketed,
       Records, Absent, Ticketed, queueVars, workerVars, ledgerVars
  <1>2. HoldersHold'
    BY KeyInKeys DEF KeyRaises, Exits, HoldersHold, Holding, CurKey, NewTicket,
       TypeOK, queueVars, workerVars, ledgerVars
  <1>3. HoldersDiffer'
    BY KeyInKeys DEF KeyRaises, Exits, HoldersDiffer, Holding, CurKey, TypeOK,
       queueVars, workerVars, ledgerVars
  <1>4. PersistedIsTicketed'
    BY KeyInKeys DEF KeyRaises, Exits, PersistedIsTicketed, Ticketed, CurKey, TypeOK,
       queueVars, workerVars, ledgerVars
  <1>5. DeletedWasGranted'
    BY KeyInKeys DEF KeyRaises, Exits, DeletedWasGranted, Calls, CurKey, TypeOK,
       queueVars, workerVars, ledgerVars
  <1>6. GrantedIsSettled'
    BY KeyInKeys DEF KeyRaises, Exits, GrantedIsSettled, Ticketed, Working, CurKey,
       TypeOK, queueVars, workerVars, ledgerVars
  <1> QED BY <1>1, <1>2, <1>3, <1>4, <1>5, <1>6

LEMMA ClaimGrantedInv ==
  ASSUME IInv, TypeOK', CurKnown', NEW w \in Workers, NEW d \in batch[w], ClaimGranted(w, d)
  PROVE  IInv'
  <1> USE DEF IInv
  <1>1. ClaimsCounted'
    BY KeyInKeys DEF ClaimGranted, Takes, Granted, Begins, ClaimsCounted, Records,
       Absent, TypeOK, queueVars, workerVars, ledgerVars
  <1>2. HoldersHold'
    BY KeyInKeys DEF ClaimGranted, Takes, Granted, Begins, HoldersHold, Holding,
       CurKey, NewTicket, ClaimsCounted, TicketsGranted, Records, Absent, Deliveries,
       TypeOK, queueVars, workerVars, ledgerVars
  <1>3. HoldersDiffer'
    BY KeyInKeys DEF ClaimGranted, Takes, Granted, Begins, HoldersDiffer, Holding,
       CurKey, HoldersHold, Deliveries, TypeOK, queueVars, workerVars, ledgerVars
  <1>4. TicketsGranted'
    BY KeyInKeys DEF ClaimGranted, Takes, Granted, Begins, TicketsGranted, TypeOK,
       queueVars, workerVars, ledgerVars
  <1>5. PersistedIsTicketed'
    BY KeyInKeys DEF ClaimGranted, Takes, Granted, Begins, PersistedIsTicketed,
       Ticketed, CurKey, TypeOK, queueVars, workerVars, ledgerVars
  <1>6. DoneMeansTicketed'
    BY KeyInKeys DEF ClaimGranted, Takes, Granted, Begins, DoneMeansTicketed,
       Ticketed, TypeOK, queueVars, workerVars, ledgerVars
  <1>7. DeletedWasGranted'
    BY KeyInKeys DEF ClaimGranted, Takes, Granted, Begins, DeletedWasGranted, Calls,
       CurKey, Deliveries, TypeOK, queueVars, workerVars, ledgerVars
  <1>8. GrantedIsSettled'
    BY KeyInKeys DEF ClaimGranted, Takes, Granted, Begins, GrantedIsSettled, Ticketed,
       Working, CurKey, Deliveries, TypeOK, queueVars, workerVars, ledgerVars
  <1> QED BY <1>1, <1>2, <1>3, <1>4, <1>5, <1>6, <1>7, <1>8

LEMMA ClaimRefusedInv ==
  ASSUME IInv, TypeOK', CurKnown', NEW w \in Workers, NEW d \in batch[w], ClaimRefused(w, d)
  PROVE  IInv'
  <1> USE DEF IInv
  <1>1. ClaimsCounted' /\ TicketsGranted' /\ DoneMeansTicketed'
    BY DEF ClaimRefused, Takes, Begins, ClaimsCounted, TicketsGranted,
       DoneMeansTicketed, Records, Absent, Ticketed, queueVars, workerVars, ledgerVars
  <1>2. HoldersHold'
    BY KeyInKeys DEF ClaimRefused, Takes, Begins, HoldersHold, Holding, CurKey,
       NewTicket, TypeOK, queueVars, workerVars, ledgerVars
  <1>3. HoldersDiffer'
    BY KeyInKeys DEF ClaimRefused, Takes, Begins, HoldersDiffer, Holding, CurKey,
       TypeOK, queueVars, workerVars, ledgerVars
  <1>4. PersistedIsTicketed'
    BY KeyInKeys DEF ClaimRefused, Takes, Begins, PersistedIsTicketed, Ticketed,
       CurKey, TypeOK, queueVars, workerVars, ledgerVars
  <1>5. DeletedWasGranted'
    BY KeyInKeys DEF ClaimRefused, Takes, Begins, DeletedWasGranted, Calls, CurKey,
       ClaimsCounted, DoneMeansTicketed, TicketsGranted, Ticketed, Records, Absent,
       Deliveries, TypeOK, queueVars, workerVars, ledgerVars
  <1>6. GrantedIsSettled'
    BY KeyInKeys DEF ClaimRefused, Takes, Begins, GrantedIsSettled, Ticketed, Working,
       CurKey, TypeOK, queueVars, workerVars, ledgerVars
  <1> QED BY <1>1, <1>2, <1>3, <1>4, <1>5, <1>6

LEMMA ClaimSelfConflictInv ==
  ASSUME IInv, TypeOK', CurKnown', NEW w \in Workers, NEW d \in batch[w], ClaimSelfConflict(w, d)
  PROVE  IInv'
  <1> USE DEF IInv
  <1>1. ClaimsCounted'
    BY KeyInKeys DEF ClaimSelfConflict, Takes, Granted, Begins, ClaimsCounted,
       Records, Absent, TypeOK, queueVars, workerVars, ledgerVars
  <1>2. HoldersHold'
    BY KeyInKeys DEF ClaimSelfConflict, Takes, Granted, Begins, HoldersHold, Holding,
       CurKey, NewTicket, TypeOK, queueVars, workerVars, ledgerVars
  <1>3. HoldersDiffer'
    BY KeyInKeys DEF ClaimSelfConflict, Takes, Granted, Begins, HoldersDiffer,
       Holding, CurKey, TypeOK, queueVars, workerVars, ledgerVars
  <1>4. TicketsGranted'
    BY KeyInKeys DEF ClaimSelfConflict, Takes, Granted, Begins, TicketsGranted,
       TypeOK, queueVars, workerVars, ledgerVars
  <1>5. PersistedIsTicketed'
    BY KeyInKeys DEF ClaimSelfConflict, Takes, Granted, Begins, PersistedIsTicketed,
       Ticketed, CurKey, TypeOK, queueVars, workerVars, ledgerVars
  <1>6. DoneMeansTicketed'
    BY KeyInKeys DEF ClaimSelfConflict, Takes, Granted, Begins, DoneMeansTicketed,
       Ticketed, TypeOK, queueVars, workerVars, ledgerVars
  <1>7. DeletedWasGranted'
    BY KeyInKeys DEF ClaimSelfConflict, Takes, Granted, Begins, DeletedWasGranted,
       Calls, CurKey, Deliveries, TypeOK, queueVars, workerVars, ledgerVars
  <1>8. GrantedIsSettled'
    BY KeyInKeys DEF ClaimSelfConflict, Takes, Granted, Begins, GrantedIsSettled,
       Ticketed, Working, CurKey, TypeOK, queueVars, workerVars, ledgerVars
  <1> QED BY <1>1, <1>2, <1>3, <1>4, <1>5, <1>6, <1>7, <1>8

LEMMA ClaimRaisesInv ==
  ASSUME IInv, TypeOK', CurKnown', NEW w \in Workers, NEW d \in batch[w], ClaimRaises(w, d)
  PROVE  IInv'
  <1> USE DEF IInv
  <1>1. ClaimsCounted'
    BY KeyInKeys DEF ClaimRaises, Takes, Granted, Exits, ClaimsCounted, Records,
       Absent, TypeOK, queueVars, workerVars, ledgerVars
  <1>2. HoldersHold'
    <2> SUFFICES ASSUME NEW v \in Workers, Holding(v)'
                 PROVE  claimNo'[v] \in 1..granted'[CurKey(v)'] /\ NewTicket(v)' \notin tickets'
      BY DEF HoldersHold, CurKey
    <2>1. v # w /\ Holding(v) /\ cur'[v] = cur[v] /\ claimNo'[v] = claimNo[v]
      BY DEF ClaimRaises, Exits, Holding, TypeOK
    <2>2. CurKey(v) \in Keys
      BY <2>1, KeyInKeys DEF Holding, CurKnown, Calls, Deliveries, CurKey
    <2>3. granted[CurKey(v)] \in Nat /\ granted[CurKey(v)] <= granted'[CurKey(v)]
          /\ granted'[CurKey(v)] \in Nat
      BY <2>2 DEF ClaimRaises, Granted, ledgerVars, TypeOK
    <2> QED BY <2>1, <2>3 DEF HoldersHold, CurKey, NewTicket, ClaimRaises, TypeOK
  <1>3. HoldersDiffer'
    BY KeyInKeys DEF ClaimRaises, Takes, Granted, Exits, HoldersDiffer, Holding,
       CurKey, TypeOK, queueVars, workerVars, ledgerVars
  <1>4. TicketsGranted'
    BY KeyInKeys DEF ClaimRaises, Takes, Granted, Exits, TicketsGranted, TypeOK,
       queueVars, workerVars, ledgerVars
  <1>5. PersistedIsTicketed'
    BY KeyInKeys DEF ClaimRaises, Takes, Granted, Exits, PersistedIsTicketed,
       Ticketed, CurKey, TypeOK, queueVars, workerVars, ledgerVars
  <1>6. DoneMeansTicketed'
    BY KeyInKeys DEF ClaimRaises, Takes, Granted, Exits, DoneMeansTicketed, Ticketed,
       TypeOK, queueVars, workerVars, ledgerVars
  <1>7. DeletedWasGranted'
    <2>1. \A k \in Keys : granted[k] >= 1 => granted'[k] >= 1
      BY DEF ClaimRaises, Granted, ledgerVars, TypeOK
    <2>2. \A v \in Workers : pc'[v] \in Calls => pc[v] \in Calls /\ cur'[v] = cur[v]
      BY DEF ClaimRaises, Exits, Calls, TypeOK
    <2>3. \A v \in Workers : pc[v] \in Calls => CurKey(v) \in Keys
      BY KeyInKeys DEF CurKnown, Deliveries, CurKey
    <2> QED BY <2>1, <2>2, <2>3, KeyInKeys
            DEF ClaimRaises, DeletedWasGranted, CurKey, queueVars
  <1>8. GrantedIsSettled'
    BY KeyInKeys DEF ClaimRaises, Takes, Granted, Exits, GrantedIsSettled, Ticketed,
       Working, CurKey, TypeOK, queueVars, workerVars, ledgerVars
  <1> QED BY <1>1, <1>2, <1>3, <1>4, <1>5, <1>6, <1>7, <1>8

LEMMA KillInv ==
  ASSUME IInv, TypeOK', CurKnown', NEW w \in Workers, Kill(w)
  PROVE  IInv'
  <1> USE DEF IInv
  <1>1. ClaimsCounted' /\ TicketsGranted' /\ DoneMeansTicketed'
    BY DEF Kill, Exits, ClaimsCounted, TicketsGranted, DoneMeansTicketed, Records,
       Absent, Ticketed, queueVars, workerVars, ledgerVars
  <1>2. HoldersHold'
    BY KeyInKeys DEF Kill, Exits, HoldersHold, Holding, CurKey, NewTicket, TypeOK,
       queueVars, workerVars, ledgerVars
  <1>3. HoldersDiffer'
    BY KeyInKeys DEF Kill, Exits, HoldersDiffer, Holding, CurKey, TypeOK, queueVars,
       workerVars, ledgerVars
  <1>4. PersistedIsTicketed'
    BY KeyInKeys DEF Kill, Exits, PersistedIsTicketed, Ticketed, CurKey, TypeOK,
       queueVars, workerVars, ledgerVars
  <1>5. DeletedWasGranted'
    BY KeyInKeys DEF Kill, Exits, DeletedWasGranted, Calls, CurKey, TypeOK, queueVars,
       workerVars, ledgerVars
  <1>6. GrantedIsSettled'
    BY KeyInKeys DEF Kill, Exits, GrantedIsSettled, Ticketed, Working, CurKey, TypeOK,
       queueVars, workerVars, ledgerVars
  <1> QED BY <1>1, <1>2, <1>3, <1>4, <1>5, <1>6

LEMMA PublishInv ==
  ASSUME IInv, TypeOK', CurKnown', NEW m \in Messages, Publish(m)
  PROVE  IInv'
  <1> USE DEF IInv
  <1>1. ClaimsCounted' /\ HoldersHold' /\ HoldersDiffer' /\ TicketsGranted' /\
     PersistedIsTicketed' /\ DoneMeansTicketed' /\ GrantedIsSettled'
    BY DEF Publish, ClaimsCounted, HoldersHold, HoldersDiffer, TicketsGranted,
       PersistedIsTicketed, DoneMeansTicketed, GrantedIsSettled, Records, Absent,
       Holding, CurKey, NewTicket, Ticketed, Working, queueVars, workerVars,
       ledgerVars
  <1>2. DeletedWasGranted'
    BY KeyInKeys DEF Publish, DeletedWasGranted, Calls, CurKey, TypeOK, queueVars,
       workerVars, ledgerVars
  <1> QED BY <1>1, <1>2

LEMMA VisibilityExpiresInv ==
  ASSUME IInv, TypeOK', CurKnown', NEW m \in Messages, VisibilityExpires(m)
  PROVE  IInv'
  <1> USE DEF IInv
  <1>1. ClaimsCounted' /\ HoldersHold' /\ HoldersDiffer' /\ TicketsGranted' /\
     PersistedIsTicketed' /\ DoneMeansTicketed' /\ GrantedIsSettled'
    BY DEF VisibilityExpires, ClaimsCounted, HoldersHold, HoldersDiffer,
       TicketsGranted, PersistedIsTicketed, DoneMeansTicketed, GrantedIsSettled,
       Records, Absent, Holding, CurKey, NewTicket, Ticketed, Working, queueVars,
       workerVars, ledgerVars
  <1>2. DeletedWasGranted'
    BY KeyInKeys DEF VisibilityExpires, DeletedWasGranted, Calls, CurKey, TypeOK,
       queueVars, workerVars, ledgerVars
  <1> QED BY <1>1, <1>2

LEMMA RedriveInv ==
  ASSUME IInv, TypeOK', CurKnown', NEW m \in Messages, Redrive(m)
  PROVE  IInv'
  <1> USE DEF IInv
  <1>1. ClaimsCounted' /\ HoldersHold' /\ HoldersDiffer' /\ TicketsGranted' /\
     PersistedIsTicketed' /\ DoneMeansTicketed' /\ GrantedIsSettled'
    BY DEF Redrive, ClaimsCounted, HoldersHold, HoldersDiffer, TicketsGranted,
       PersistedIsTicketed, DoneMeansTicketed, GrantedIsSettled, Records, Absent,
       Holding, CurKey, NewTicket, Ticketed, Working, queueVars, workerVars,
       ledgerVars
  <1>2. DeletedWasGranted'
    BY KeyInKeys DEF Redrive, DeletedWasGranted, Calls, CurKey, TypeOK, queueVars,
       workerVars, ledgerVars
  <1> QED BY <1>1, <1>2

LEMMA TtlExpiresInv ==
  ASSUME IInv, TypeOK', CurKnown', NEW k \in Keys, TtlExpires(k)
  PROVE  IInv'
  <1> USE DEF IInv
  <1>1. HoldersHold' /\ HoldersDiffer' /\ TicketsGranted' /\ PersistedIsTicketed' /\
     DeletedWasGranted' /\ GrantedIsSettled'
    BY DEF TtlExpires, HoldersHold, HoldersDiffer, TicketsGranted,
       PersistedIsTicketed, DeletedWasGranted, GrantedIsSettled, Holding, CurKey,
       NewTicket, Ticketed, Calls, Working, queueVars, workerVars, ledgerVars
  <1>2. ClaimsCounted'
    BY KeyInKeys DEF TtlExpires, ClaimsCounted, Records, Absent, TypeOK, queueVars,
       workerVars, ledgerVars
  <1>3. DoneMeansTicketed'
    BY DEF TtlExpires, DoneMeansTicketed, Ticketed, TypeOK, Absent, queueVars, workerVars, ledgerVars
  <1> QED BY <1>1, <1>2, <1>3

\* IInv holds in every reachable state.
THEOREM Invariance == Spec => []IInv
  <1>1. IInv /\ [Next]_vars => IInv'
    <2> SUFFICES ASSUME IInv, [Next]_vars
                 PROVE  IInv'
      OBVIOUS
    <2>1. TypeOK' /\ CurKnown'
      BY TypeStep DEF IInv
    <2>2. ASSUME NEW w \in Workers, Step(w)
          PROVE  IInv'
      BY <2>1, <2>2, ReceiveInv, DraftTicketInv, PersistTicketInv, MarkDoneInv, DeleteInv,
         AckInv, RestartInv, KeyRaisesInv, ClaimGrantedInv, ClaimRefusedInv,
         ClaimSelfConflictInv, ClaimRaisesInv DEF Step
    <2>3. ASSUME NEW m \in Messages, Publish(m) \/ VisibilityExpires(m) \/ Redrive(m)
          PROVE  IInv'
      BY <2>1, <2>3, PublishInv, VisibilityExpiresInv, RedriveInv
    <2>4. CASE UNCHANGED vars
      BY <2>4 DEF vars, IInv, TypeOK, CurKnown, ClaimsCounted, HoldersHold, HoldersDiffer,
         TicketsGranted, PersistedIsTicketed, DoneMeansTicketed, DeletedWasGranted,
         GrantedIsSettled, Holding, Working, Ticketed, CurKey, NewTicket,
         queueVars, workerVars, ledgerVars
    <2> QED BY <2>1, <2>2, <2>3, <2>4, KillInv, TtlExpiresInv DEF Next
  <1> QED BY InvInit, <1>1, PTL DEF Spec

\* Every variable keeps its type, whatever the parameters and faults.
THEOREM TypeCorrect == Spec => []TypeOK
  <1>1. IInv => TypeOK
    BY DEF IInv
  <1> QED BY <1>1, Invariance, PTL

\* A record that says done always has a ticket behind it.
THEOREM DoneIsTicketed == Spec => []DoneMeansTicketed
  <1>1. IInv => DoneMeansTicketed
    BY DEF IInv
  <1> QED BY <1>1, Invariance, PTL

\* An event is acknowledged without a ticket only while its claim is being
\* worked on or after one was given up.
THEOREM LossNeedsAbort == Spec => []LossOnlyAfterAbort
  <1>1. IInv => LossOnlyAfterAbort
    BY KeyInKeys DEF IInv, LossOnlyAfterAbort, DeletedWasGranted, GrantedIsSettled
  <1> QED BY <1>1, Invariance, PTL

-----------------------------------------------------------------------------
(* The worker implements the ledger of claims. Only a granted claim, an    *)
(* expiry and a persisted ticket are steps of the ledger; the rest of the  *)
(* loop, and a persist whose claim the ledger cannot tell, stutter.        *)

LEMMA LedgerInit == Init => Ledger!Init
  BY DEF Init, Ledger!Init

LEMMA LedgerStep == IInv /\ [Next]_vars => [Ledger!Next]_(Ledger!ledgerVars)
  <1> SUFFICES ASSUME IInv, [Next]_vars
               PROVE  Ledger!Next \/ UNCHANGED Ledger!ledgerVars
    OBVIOUS
  <1> USE DEF Ledger!ledgerVars, ledgerVars
  <1>1. ASSUME NEW k \in Keys, Granted(k), UNCHANGED tickets
        PROVE  Ledger!Next
    <2>1. granted[k] = expired[k]
      BY <1>1 DEF Granted, IInv, ClaimsCounted, Absent
    <2> QED BY <1>1, <2>1 DEF Granted, Ledger!Grant, Ledger!Next
  <1>2. ASSUME NEW w \in Workers, PersistTicket(w)
        PROVE  Ledger!Next \/ UNCHANGED Ledger!ledgerVars
    <2>1. CASE UNCHANGED tickets
      BY <1>2, <2>1 DEF PersistTicket
    <2>2. CASE tickets' = tickets \cup {NewTicket(w)}
      <3>1. CurKey(w) \in Keys
        BY <1>2, KeyInKeys DEF PersistTicket, IInv, CurKnown, Calls, Deliveries, CurKey
      <3>2. claimNo[w] \in 1..granted[CurKey(w)] /\ NewTicket(w) \notin tickets
        BY <1>2 DEF PersistTicket, IInv, HoldersHold, Holding
      <3> QED BY <1>2, <2>2, <3>1, <3>2
              DEF PersistTicket, NewTicket, Ledger!Issue, Ledger!Next
    <2> QED BY <1>2, <2>1, <2>2 DEF PersistTicket
  <1>3. ASSUME NEW w \in Workers, NEW d \in batch[w],
               ClaimGranted(w, d) \/ ClaimSelfConflict(w, d) \/ ClaimRaises(w, d)
        PROVE  Ledger!Next \/ UNCHANGED Ledger!ledgerVars
    <2>1. Key(d.msg) \in Keys
      BY KeyInKeys DEF IInv, TypeOK, Deliveries
    <2> QED BY <1>1, <1>3, <2>1 DEF ClaimGranted, ClaimSelfConflict, ClaimRaises
  <1>4. ASSUME NEW k \in Keys, TtlExpires(k)
        PROVE  Ledger!Next
    <2>1. expired[k] < granted[k]
      BY <1>4 DEF TtlExpires, IInv, TypeOK, ClaimsCounted
    <2> QED BY <1>4, <2>1 DEF TtlExpires, Ledger!Lapse, Ledger!Next
  <1>5. ASSUME NEW w \in Workers, Step(w)
        PROVE  Ledger!Next \/ UNCHANGED Ledger!ledgerVars
    BY <1>2, <1>3, <1>5 DEF Step, Receive, DraftTicket, MarkDone, Delete, Ack, Restart,
       KeyRaises, ClaimRefused
  <1>6. ASSUME NEW w \in Workers, Kill(w)
        PROVE  UNCHANGED Ledger!ledgerVars
    BY <1>6 DEF Kill
  <1>7. ASSUME NEW m \in Messages, Publish(m) \/ VisibilityExpires(m) \/ Redrive(m)
        PROVE  UNCHANGED Ledger!ledgerVars
    BY <1>7 DEF Publish, VisibilityExpires, Redrive
  <1>8. CASE UNCHANGED vars
    BY <1>8 DEF vars
  <1> QED BY <1>4, <1>5, <1>6, <1>7, <1>8 DEF Next

\* Any behaviour of the worker is one of the ledger: claims are granted one at
\* a time and a claim issues at most one ticket.
THEOREM ImplementsLedger == Spec => LedgerSpec
  <1> QED BY LedgerInit, LedgerStep, Invariance, PTL DEF Spec, LedgerSpec, Ledger!Spec

-----------------------------------------------------------------------------
(* What the ledger guarantees holds of the worker.                         *)

Kept == INSTANCE ClaimLedgerProofs

\* The bound on duplicates is the ledger's, and the worker keeps the ledger.
THEOREM DuplicatesAlwaysNeedExpiries == Spec => []DuplicatesNeedExpiries
  <1>1. Ledger!Init => Kept!Init
    BY DEF Ledger!Init, Kept!Init
  <1>2. [Ledger!Next]_(Ledger!ledgerVars) => [Kept!Next]_(Kept!ledgerVars)
    BY DEF Ledger!Next, Kept!Next, Ledger!ledgerVars, Kept!ledgerVars, Ledger!Grant, Kept!Grant,
       Ledger!Lapse, Kept!Lapse, Ledger!Issue, Kept!Issue
  <1>3. Kept!DuplicatesBounded => DuplicatesNeedExpiries
    <2>1. \A S : Kept!Cardinality(S) = Ledger!Cardinality(S)
      BY Zenon DEF Kept!Cardinality, Ledger!Cardinality, Kept!IsFiniteSet, Ledger!IsFiniteSet
    <2> QED BY <2>1 DEF Kept!DuplicatesBounded, DuplicatesNeedExpiries, Ledger!DuplicatesBounded,
                        Kept!TicketsOf, Ledger!TicketsOf
  <1> QED BY <1>1, <1>2, <1>3, ImplementsLedger, Kept!DuplicatesAlwaysBounded, PTL
          DEF LedgerSpec, Ledger!Spec, Kept!Spec

-----------------------------------------------------------------------------
(* Which faults the promises survive.                                      *)

\* Where no claim record expires, a key has one ticket at most.
THEOREM OnceWithoutExpiry ==
  ASSUME "expiry" \notin Faults
  PROVE  Spec => []AtMostOnce
  <1> DEFINE Unexpired == \A k \in Keys : expired[k] = 0
  <1>1. Init => Unexpired
    BY DEF Init
  <1>2. Unexpired /\ [Next]_vars => Unexpired'
    <2> SUFFICES ASSUME Unexpired, [Next]_vars
                 PROVE  UNCHANGED expired
      OBVIOUS
    <2>1. ASSUME NEW w \in Workers, Step(w) \/ Kill(w)
          PROVE  UNCHANGED expired
      BY <2>1 DEF Step, Kill, Receive, DraftTicket, PersistTicket, MarkDone, Delete, Ack, Restart,
         KeyRaises, ClaimGranted, ClaimRefused, ClaimSelfConflict, ClaimRaises, Granted, ledgerVars
    <2>2. ASSUME NEW m \in Messages, Publish(m) \/ VisibilityExpires(m) \/ Redrive(m)
          PROVE  UNCHANGED expired
      BY <2>2 DEF Publish, VisibilityExpires, Redrive, ledgerVars
    <2>3. ASSUME NEW k \in Keys, TtlExpires(k)
          PROVE  UNCHANGED expired
      BY <2>3 DEF TtlExpires
    <2> QED BY <2>1, <2>2, <2>3 DEF Next, vars, ledgerVars
  <1>3. IInv /\ Unexpired => AtMostOnce
    <2> SUFFICES ASSUME IInv, Unexpired, NEW t \in tickets, NEW u \in tickets, t.key = u.key
                 PROVE  t = u
      BY DEF AtMostOnce
    <2>1. t \in [key : Keys, claim : Nat] /\ u \in [key : Keys, claim : Nat]
      BY DEF IInv, TypeOK
    <2>2. granted[t.key] \in {0, 1}
      BY <2>1 DEF IInv, ClaimsCounted
    <2>3. t.claim = 1 /\ u.claim = 1
      BY <2>1, <2>2 DEF IInv, TicketsGranted
    <2> QED BY <2>1, <2>3
  <1> QED BY <1>1, <1>2, <1>3, Invariance, PTL DEF Spec

\* Where no call fails, no process dies and every body is JSON, an acknowledged
\* event has its ticket or is being drafted, though claims may expire.
THEOREM AckedWithoutFailures ==
  ASSUME Faults \subseteq {"expiry"}, \A m \in Messages : Kind[m] # "notjson"
  PROVE  Spec => []AckedIsTicketed
  <1> DEFINE NoneAborted == aborted = {}
  <1>1. Init => NoneAborted
    BY DEF Init
  <1>2. IInv /\ NoneAborted /\ [Next]_vars => NoneAborted'
    <2> SUFFICES ASSUME IInv, [Next]_vars
                 PROVE  UNCHANGED aborted
      OBVIOUS
    <2>1. ASSUME NEW w \in Workers, DraftTicket(w)
          PROVE  UNCHANGED aborted
      <3>1. cur[w].msg \in Messages
        BY <2>1 DEF DraftTicket, IInv, CurKnown, Calls, Deliveries
      <3> QED BY <2>1, <3>1 DEF DraftTicket
    <2>2. ASSUME NEW w \in Workers, Step(w) \/ Kill(w)
          PROVE  UNCHANGED aborted
      BY <2>1, <2>2 DEF Step, Kill, Receive, PersistTicket, MarkDone, Delete, Ack, Restart,
         KeyRaises, ClaimGranted, ClaimRefused, ClaimSelfConflict, ClaimRaises, ledgerVars
    <2>3. ASSUME NEW m \in Messages, Publish(m) \/ VisibilityExpires(m) \/ Redrive(m)
          PROVE  UNCHANGED aborted
      BY <2>3 DEF Publish, VisibilityExpires, Redrive, ledgerVars
    <2>4. ASSUME NEW k \in Keys, TtlExpires(k)
          PROVE  UNCHANGED aborted
      BY <2>4 DEF TtlExpires
    <2> QED BY <2>2, <2>3, <2>4 DEF Next, vars, ledgerVars
  <1>3. IInv /\ NoneAborted => AckedIsTicketed
    BY KeyInKeys DEF IInv, AckedIsTicketed, DeletedWasGranted, GrantedIsSettled
  <1> QED BY <1>1, <1>2, <1>3, Invariance, PTL DEF Spec

\* Without faults, each event is processed exactly once, for any number of
\* replicas, redeliveries and messages of one event.
THEOREM ExactlyOnceWithoutFaults ==
  ASSUME Faults = {}, \A m \in Messages : Kind[m] # "notjson"
  PROVE  Spec => []ExactlyOnce
  <1>1. Spec => []AtMostOnce
    BY OnceWithoutExpiry
  <1>2. Spec => []AckedIsTicketed
    BY AckedWithoutFailures
  <1> QED BY <1>1, <1>2, PTL DEF ExactlyOnce
=============================================================================
