--------------------------- MODULE MCTicketWorker ---------------------------
(* Instances of TicketWorker for TLC: which messages the producer publishes. *)
EXTENDS TicketWorker, TLC

CONSTANTS first, twin, poison, list, anon,  \* the messages
          e1,                               \* an event_id
          dFirst, dTwin, dPoison, dList, dAnon  \* digests of their bodies

\* first and twin carry the same event, poison is not JSON, list is a JSON
\* array, anon is an object without an event_id.
MCKind == [m \in Messages |-> CASE m = poison -> "notjson"
                                [] m = list -> "nonobject"
                                [] OTHER -> "object"]
MCEventId == [m \in Messages |-> IF m \in {first, twin} THEN e1 ELSE NoId]
MCDigest == [m \in Messages |-> CASE m = first -> dFirst
                                  [] m = twin -> dTwin
                                  [] m = poison -> dPoison
                                  [] m = list -> dList
                                  [] m = anon -> dAnon]

\* Replicas are interchangeable.
Replicas == Permutations(Workers)
=============================================================================
