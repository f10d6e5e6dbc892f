---------------------------- MODULE TicketWorker ----------------------------
(***************************************************************************)
(* The event-driven ticket pipeline (services/ticket-worker): a producer   *)
(* publishes escalation events to an SQS queue, several replicas of the    *)
(* worker run run_poll_loop against it, claim each event's idempotency key *)
(* in DynamoDB, draft a ticket through the provider, persist it, mark the  *)
(* key done and delete the message.                                        *)
(*                                                                         *)
(* Every await of the loop is a step of its own, so replicas interleave    *)
(* between any two calls. The queue (visibility timeout, receipt handles,  *)
(* maxReceiveCount redrive), the table's TTL sweeper and the death of a    *)
(* process are the environment. Faults names the faults a run allows.      *)
(***************************************************************************)
EXTENDS Naturals, FiniteSets

CONSTANTS Workers,          \* replicas of the worker process
          Messages,         \* messages the producer may publish
          Kind,             \* Kind[m]: what json.loads makes of the body
          EventId,          \* EventId[m]: its event_id, NoId when missing or empty
          Digest,           \* Digest[m]: sha256 of the raw body
          NoId,
          BatchSize,        \* MaxNumberOfMessages of one receive
          MaxReceiveCount,  \* redrive policy of the queue
          MaxExpiries,      \* bound: TTL deletions of each key
          MaxKills,         \* bound: process deaths in one behaviour
          Faults            \* the faults the environment may inject

\* A body is a JSON object, a JSON value of another type, or not JSON at all.
Kinds == {"object", "nonobject", "notjson"}

(* provider   - draft_ticket raises: provider error or unusable event fields *)
(* error      - an AWS call raises and had no effect                         *)
(* reply_lost - an AWS call took effect and its reply was lost               *)
(* expiry     - the TTL sweeper deletes a claim record                       *)
(* kill       - a process ends at an arbitrary point                         *)
FaultNames == {"provider", "error", "reply_lost", "expiry", "kill"}

ASSUME WorkerAssumption ==
    /\ Kind \in [Messages -> Kinds]
    /\ BatchSize \in Nat \ {0}
    /\ MaxReceiveCount \in Nat \ {0}
    /\ MaxExpiries \in Nat
    /\ MaxKills \in Nat
    /\ Faults \subseteq FaultNames

\* message_idempotency_key: the event_id when the body is an object that
\* carries one, else the digest of the body.
Key(m) == IF Kind[m] = "object" /\ EventId[m] # NoId THEN EventId[m] ELSE Digest[m]

Keys == {Key(m) : m \in Messages}

\* A delivery is a message and the receipt handle of the receive it came from.
Deliveries == [msg : Messages, receipt : Nat]
NoDelivery == [msg |-> NoId, receipt |-> 0]

VARIABLES queue,     \* queue[m]: unsent, visible, inflight, deleted or dlq
          receives,  \* receives[m]: receive count; the latest receipt handle
          store,     \* store[k]: the idempotency record of k
          tickets,   \* the tickets table: [key, claim] of every ticket
          pc,        \* pc[w]: the call the loop of w makes next
          batch,     \* batch[w]: deliveries of the last receive not yet begun
          cur,       \* cur[w]: the delivery being processed
          kills,     \* process deaths so far
          claimNo,   \* history: the claim under which w processes cur[w]
          granted,   \* history: claims granted for each key
          expired,   \* history: claim records of each key the sweeper deleted
          aborted    \* history: keys one of whose claims ended without a ticket

queueVars  == <<queue, receives>>
workerVars == <<pc, batch, cur, claimNo>>
ledgerVars == <<granted, expired, aborted>>
vars == <<queueVars, store, tickets, workerVars, kills, ledgerVars>>

Absent == "absent"
\* A done record keeps the claim's expires_at, unless mark_done's update_item
\* had to create it: then it has no TTL.
Records == {Absent, "claimed", "done", "done_no_ttl"}

\* Where a live worker can be: between two messages, or before one of the calls.
Calls == {"draft", "persist", "mark_done", "delete", "ack"}

TypeOK ==
    /\ queue \in [Messages -> {"unsent", "visible", "inflight", "deleted", "dlq"}]
    /\ receives \in [Messages -> Nat]
    /\ store \in [Keys -> Records]
    /\ tickets \subseteq [key : Keys, claim : Nat]
    /\ pc \in [Workers -> Calls \cup {"idle", "down"}]
    /\ batch \in [Workers -> SUBSET Deliveries]
    /\ cur \in [Workers -> Deliveries \cup {NoDelivery}]
    /\ claimNo \in [Workers -> Nat]
    /\ kills \in Nat
    /\ granted \in [Keys -> Nat]
    /\ expired \in [Keys -> Nat]
    /\ aborted \subseteq Keys

Init ==
    /\ queue = [m \in Messages |-> "unsent"]
    /\ receives = [m \in Messages |-> 0]
    /\ store = [k \in Keys |-> Absent]
    /\ tickets = {}
    /\ pc = [w \in Workers |-> "idle"]
    /\ batch = [w \in Workers |-> {}]
    /\ cur = [w \in Workers |-> NoDelivery]
    /\ claimNo = [w \in Workers |-> 0]
    /\ kills = 0
    /\ granted = [k \in Keys |-> 0]
    /\ expired = [k \in Keys |-> 0]
    /\ aborted = {}

-----------------------------------------------------------------------------
(* The producer and the queue.                                             *)

Publish(m) ==
    /\ queue[m] = "unsent"
    /\ queue' = [queue EXCEPT ![m] = "visible"]
    /\ UNCHANGED <<receives, store, tickets, workerVars, kills, ledgerVars>>

\* Nothing extends a visibility timeout, so it may run out whatever the holder
\* of the message is doing.
VisibilityExpires(m) ==
    /\ queue[m] = "inflight"
    /\ queue' = [queue EXCEPT ![m] = "visible"]
    /\ UNCHANGED <<receives, store, tickets, workerVars, kills, ledgerVars>>

Redrive(m) ==
    /\ queue[m] = "visible"
    /\ receives[m] >= MaxReceiveCount
    /\ queue' = [queue EXCEPT ![m] = "dlq"]
    /\ UNCHANGED <<receives, store, tickets, workerVars, kills, ledgerVars>>

\* consumer.delete: the current receipt handle deletes the message, also once
\* its timeout ran out; a handle outdated by a later receive may do nothing.
DeleteMessage(d) ==
    LET present == queue[d.msg] \in {"visible", "inflight"}
    IN \/ present /\ queue' = [queue EXCEPT ![d.msg] = "deleted"]
       \/ (~present \/ d.receipt # receives[d.msg]) /\ UNCHANGED queue

(* The table's TTL sweeper: only a record with an expires_at is deleted.   *)
TtlExpires(k) ==
    /\ "expiry" \in Faults
    /\ store[k] \in {"claimed", "done"}
    /\ expired[k] < MaxExpiries
    /\ store' = [store EXCEPT ![k] = Absent]
    /\ expired' = [expired EXCEPT ![k] = @ + 1]
    /\ UNCHANGED <<queueVars, tickets, workerVars, kills, granted, aborted>>
-----------------------------------------------------------------------------
(* One replica of run_poll_loop.                                           *)

CurKey(w) == Key(cur[w].msg)

\* The loop goes to the call c for the current delivery.
Goes(w, c) == /\ pc' = [pc EXCEPT ![w] = c]
              /\ UNCHANGED <<batch, cur, claimNo>>

\* The loop is through with the current delivery (main.py: 91, 94 and 97).
Moves(w) == /\ pc' = [pc EXCEPT ![w] = "idle"]
            /\ cur' = [cur EXCEPT ![w] = NoDelivery]
            /\ claimNo' = [claimNo EXCEPT ![w] = 0]
            /\ UNCHANGED batch

\* An exception no handler of the loop catches ends the process and with it
\* the rest of its batch.
Exits(w) == /\ pc' = [pc EXCEPT ![w] = "down"]
            /\ batch' = [batch EXCEPT ![w] = {}]
            /\ cur' = [cur EXCEPT ![w] = NoDelivery]
            /\ claimNo' = [claimNo EXCEPT ![w] = 0]

\* Slip: a put without attribute_not_exists(pk).
GrantedAlways(k) == /\ store' = [store EXCEPT ![k] = "claimed"]
                    /\ granted' = [granted EXCEPT ![k] = @ + 1]
                    /\ UNCHANGED expired

\* claim's conditional put succeeds.
Granted(k) == /\ store[k] = Absent
              /\ store' = [store EXCEPT ![k] = "claimed"]
              /\ granted' = [granted EXCEPT ![k] = @ + 1]
              /\ UNCHANGED expired

Receive(w) ==
    /\ pc[w] = "idle" /\ batch[w] = {}
    /\ \E S \in SUBSET {m \in Messages : queue[m] = "visible" /\ receives[m] < MaxReceiveCount} :
         /\ S # {} /\ Cardinality(S) <= BatchSize
         /\ queue' = [m \in Messages |-> IF m \in S THEN "inflight" ELSE queue[m]]
         /\ receives' = [m \in Messages |-> IF m \in S THEN receives[m] + 1 ELSE receives[m]]
         /\ batch' = [batch EXCEPT ![w] = {[msg |-> m, receipt |-> receives[m] + 1] : m \in S}]
    /\ UNCHANGED <<store, tickets, pc, cur, claimNo, kills, ledgerVars>>

\* The next delivery of the batch, in whatever order the queue returned them.
Takes(w, d) == /\ pc[w] = "idle" /\ d \in batch[w]
               /\ Kind[d.msg] # "nonobject"

\* The delivery is taken and the loop goes to the call c under claim n.
Begins(w, d, c, n) == /\ pc' = [pc EXCEPT ![w] = c]
                      /\ batch' = [batch EXCEPT ![w] = @ \ {d}]
                      /\ cur' = [cur EXCEPT ![w] = d]
                      /\ claimNo' = [claimNo EXCEPT ![w] = n]

\* message_idempotency_key raises AttributeError: .get on a list or a number.
KeyRaises(w, d) ==
    /\ pc[w] = "idle" /\ d \in batch[w]
    /\ Kind[d.msg] = "nonobject"
    /\ Exits(w)
    /\ UNCHANGED <<queueVars, store, tickets, kills, ledgerVars>>

ClaimGranted(w, d) ==
    LET k == Key(d.msg) IN
    /\ Takes(w, d)
    /\ Granted(k)
    /\ Begins(w, d, "draft", granted[k] + 1)
    /\ UNCHANGED <<queueVars, tickets, kills, aborted>>

ClaimRefused(w, d) ==
    /\ Takes(w, d)
    /\ store[Key(d.msg)] # Absent
    /\ Begins(w, d, "ack", 0)
    /\ UNCHANGED <<queueVars, store, tickets, kills, ledgerVars>>

\* The put took effect, its reply was lost, and the SDK's own retry of the put
\* now conflicts with it: claim returns False to the holder of the claim.
ClaimSelfConflict(w, d) ==
    LET k == Key(d.msg) IN
    /\ "reply_lost" \in Faults
    /\ Takes(w, d)
    /\ Granted(k)
    /\ aborted' = aborted \cup {k}
    /\ Begins(w, d, "ack", 0)
    /\ UNCHANGED <<queueVars, tickets, kills>>

\* claim is outside the try: its exception ends the process.
ClaimRaises(w, d) ==
    LET k == Key(d.msg) IN
    /\ Takes(w, d)
    /\ \/ "error" \in Faults /\ UNCHANGED <<store, ledgerVars>>
       \/ "reply_lost" \in Faults /\ Granted(k) /\ aborted' = aborted \cup {k}
    /\ Exits(w)
    /\ UNCHANGED <<queueVars, tickets, kills>>

\* Slip: mark_done before persist_ticket, which is then forgotten.
DraftTicketOnly(w) ==
    /\ pc[w] = "draft"
    /\ \/ Kind[cur[w].msg] = "object" /\ Goes(w, "mark_done") /\ UNCHANGED aborted
       \/ /\ Kind[cur[w].msg] = "notjson" \/ "provider" \in Faults
          /\ Moves(w)
          /\ aborted' = aborted \cup {CurKey(w)}
    /\ UNCHANGED <<queueVars, store, tickets, kills, granted, expired>>

\* Slip: a message that cannot be drafted is tried again on the spot.
DraftTicketAgain(w) ==
    /\ pc[w] = "draft"
    /\ \/ Kind[cur[w].msg] = "object" /\ Goes(w, "persist") /\ UNCHANGED aborted
       \/ /\ Kind[cur[w].msg] = "notjson" \/ "provider" \in Faults
          /\ Goes(w, "draft")
          /\ aborted' = aborted \cup {CurKey(w)}
    /\ UNCHANGED <<queueVars, store, tickets, kills, granted, expired>>

\* json.loads and draft_ticket. A raise is logged and the delivery abandoned:
\* neither the message nor the claim is touched.
DraftTicket(w) ==
    /\ pc[w] = "draft"
    /\ \/ Kind[cur[w].msg] = "object" /\ Goes(w, "persist") /\ UNCHANGED aborted
       \/ /\ Kind[cur[w].msg] = "notjson" \/ "provider" \in Faults
          /\ Moves(w)
          /\ aborted' = aborted \cup {CurKey(w)}
    /\ UNCHANGED <<queueVars, store, tickets, kills, granted, expired>>

NewTicket(w) == [key |-> CurKey(w), claim |-> claimNo[w]]

PersistTicket(w) ==
    /\ pc[w] = "persist"
    /\ \/ tickets' = tickets \cup {NewTicket(w)} /\ Goes(w, "mark_done") /\ UNCHANGED aborted
       \/ /\ "reply_lost" \in Faults
          /\ tickets' = tickets \cup {NewTicket(w)} /\ Moves(w) /\ UNCHANGED aborted
       \/ /\ "error" \in Faults
          /\ Moves(w) /\ aborted' = aborted \cup {CurKey(w)} /\ UNCHANGED tickets
    /\ UNCHANGED <<queueVars, store, kills, granted, expired>>

\* Slips: mark_done removes the record; it writes a status nobody reads.
FinalizedGone(k) == store' = [store EXCEPT ![k] = Absent]
FinalizedOther(k) == store' = [store EXCEPT ![k] = "processed"]

\* update_item creates the record when the sweeper has deleted it.
Finalized(k) ==
    store' = [store EXCEPT ![k] = IF @ \in {"claimed", "done"} THEN "done" ELSE "done_no_ttl"]

MarkDone(w) ==
    /\ pc[w] = "mark_done"
    /\ \/ Finalized(CurKey(w)) /\ Goes(w, "delete")
       \/ "reply_lost" \in Faults /\ Finalized(CurKey(w)) /\ Moves(w)
       \/ "error" \in Faults /\ UNCHANGED store /\ Moves(w)
    /\ UNCHANGED <<queueVars, tickets, kills, ledgerVars>>

Delete(w) ==
    /\ pc[w] = "delete"
    /\ DeleteMessage(cur[w]) \/ ("error" \in Faults /\ UNCHANGED queue)
    /\ Moves(w)
    /\ UNCHANGED <<receives, store, tickets, kills, ledgerVars>>

\* The delete of the else branch is outside the try.
Ack(w) ==
    /\ pc[w] = "ack"
    /\ \/ DeleteMessage(cur[w]) /\ Moves(w)
       \/ "reply_lost" \in Faults /\ DeleteMessage(cur[w]) /\ Exits(w)
       \/ "error" \in Faults /\ UNCHANGED queue /\ Exits(w)
    /\ UNCHANGED <<receives, store, tickets, kills, ledgerVars>>

\* A process ends between any two calls: SIGTERM (nothing handles it), SIGKILL,
\* an out-of-memory kill, or an exception of consumer.receive.
Kill(w) ==
    /\ "kill" \in Faults
    /\ pc[w] # "down" /\ kills < MaxKills
    /\ kills' = kills + 1
    /\ Exits(w)
    /\ aborted' = IF pc[w] \in {"draft", "persist"} THEN aborted \cup {CurKey(w)} ELSE aborted
    /\ UNCHANGED <<queueVars, store, tickets, granted, expired>>

Restart(w) ==
    /\ pc[w] = "down"
    /\ Goes(w, "idle")
    /\ UNCHANGED <<queueVars, store, tickets, kills, ledgerVars>>

\* What a replica does by itself.
Step(w) ==
    \/ Receive(w) \/ DraftTicket(w) \/ PersistTicket(w) \/ MarkDone(w)
    \/ Delete(w) \/ Ack(w) \/ Restart(w)
    \/ \E d \in batch[w] :
          \/ KeyRaises(w, d) \/ ClaimGranted(w, d) \/ ClaimRefused(w, d)
          \/ ClaimSelfConflict(w, d) \/ ClaimRaises(w, d)

Next ==
    \/ \E w \in Workers : Step(w) \/ Kill(w)
    \/ \E m \in Messages : Publish(m) \/ VisibilityExpires(m) \/ Redrive(m)
    \/ \E k \in Keys : TtlExpires(k)

Spec == Init /\ [][Next]_vars

\* An AWS call ends (the SDK's own timeouts and retries), the platform restarts
\* a process that ended, and timeouts run out. The draft alone may take for ever:
\* ticket.py:42 awaits the provider with no total budget, and the client's
\* timeout is one of each read. Nothing forces a fault, a kill, a publication or
\* a TTL deletion.
Fairness ==
    /\ \A w \in Workers : WF_vars(Step(w) /\ pc[w] # "draft")
    /\ \A m \in Messages : WF_vars(VisibilityExpires(m)) /\ WF_vars(Redrive(m))

FairSpec == Spec /\ Fairness
-----------------------------------------------------------------------------
(* Properties.                                                             *)

Ticketed(k) == \E t \in tickets : t.key = k

\* w holds a claim of k that has neither produced a ticket nor failed.
Working(w, k) == pc[w] \in {"draft", "persist"} /\ CurKey(w) = k

\* A message is acknowledged without a ticket for its key only while another
\* replica drafts one, or after a claim of the key was given up: the ack of the
\* else branch (main.py:96) trusts a claim that may not have succeeded.
LossOnlyAfterAbort ==
    \A m \in Messages : queue[m] = "deleted" =>
        \/ Ticketed(Key(m))
        \/ Key(m) \in aborted
        \/ \E w \in Workers : Working(w, Key(m))

\* A record that says done has a ticket behind it, whatever call failed and
\* whoever's record mark_done overwrote after an expiry.
DoneMeansTicketed ==
    \A k \in Keys : store[k] \in {"done", "done_no_ttl"} => Ticketed(k)

\* The worker implements the ledger of claims: a claim is granted only when
\* every earlier one lapsed, and issues at most one ticket.
Ledger == INSTANCE ClaimLedger
LedgerSpec == Ledger!Spec

\* However replicas, redeliveries, lost replies and deaths interleave, every
\* ticket of a key but one is paid for by a claim record of it that the sweeper
\* deleted: the conditional put of claim is what makes a side effect unique.
DuplicatesNeedExpiries == Ledger!DuplicatesBounded

\* What the code does not see to, and the two properties below assume of the
\* upstream: no draft lasts for ever. It may end either way.
DraftsEnd == \A w \in Workers : WF_vars(DraftTicket(w))

\* While the upstream ends every draft, in success or failure, every published
\* message leaves the queue, acknowledged or dead-lettered: main.py:94 gives a
\* failed delivery up and lets the loop go on.
EveryMessageSettles ==
    DraftsEnd =>
        \A m \in Messages : queue[m] = "visible" ~> queue[m] \in {"deleted", "dlq"}

\* Without faults every published event gets its ticket, even one whose
\* visibility runs out so often that it is dead-lettered meanwhile.
EveryEventTicketed ==
    DraftsEnd => \A m \in Messages : queue[m] = "visible" ~> Ticketed(Key(m))

\* main.py:66-68: a message that fails processing is redelivered and reaches
\* the DLQ; so one that was acknowledged has a ticket or is being worked on.
\* Failing calls break this promise.
AckedIsTicketed ==
    \A m \in Messages : queue[m] = "deleted" =>
        Ticketed(Key(m)) \/ \E w \in Workers : Working(w, Key(m))

AtMostOnce == \A t, u \in tickets : t.key = u.key => t = u

\* main.py:64: each event is processed exactly once, end to end. With no fault
\* and no body that is not JSON it is, though timeouts redeliver at any moment.
ExactlyOnce == AckedIsTicketed /\ AtMostOnce

(* What the repository says of the worker and the code does not keep, with *)
(* AckedIsTicketed.                                                        *)

\* consumer.py:53-55: deriving the key of a poison message does not raise. With
\* no fault allowed, nothing else ends a process.
PoisonKeyNeverRaises == \A w \in Workers : pc[w] # "down"
=============================================================================
