---------------------------- MODULE StreamContract ----------------------------
(***************************************************************************)
(* What a streamed completion promises its client: it is answered once. A  *)
(* failure is a status of the error contract as long as no byte was sent;  *)
(* "once bytes have been sent there is no retry and no remapping"          *)
(* (api/stream.py), so a failure is then a stream that stops short.        *)
(***************************************************************************)
CONSTANT Streams

\* What errors.py makes of a provider's failure, and what the server makes of an
\* exception that no handler maps.
Mapped == {429, 502, 504}
Unmapped == 500

Errors == Mapped \cup {Unmapped}

(* waiting - accepted, nothing sent yet                                    *)
(* sending - the response has begun                                        *)
(* done    - the client has read [DONE]; broken - it never will            *)
(* failed  - an error was answered; lost - the connection went unanswered  *)
VARIABLES phase, status  \* status[s]: HTTP status sent, 0 before

contractVars == <<phase, status>>

Init ==
    /\ phase = [s \in Streams |-> "new"]
    /\ status = [s \in Streams |-> 0]

Goes(s, p, q) == phase[s] = p /\ phase' = [phase EXCEPT ![s] = q]

Open(s) == Goes(s, "new", "waiting") /\ UNCHANGED status

\* The response begins, or begins only to find that the client has left.
Respond(s) ==
    /\ Goes(s, "waiting", "sending") \/ Goes(s, "waiting", "broken")
    /\ status' = [status EXCEPT ![s] = 200]

Refuse(s, code) ==
    /\ Goes(s, "waiting", "failed")
    /\ status' = [status EXCEPT ![s] = code]

Finish(s) == (Goes(s, "sending", "done") \/ Goes(s, "sending", "broken")) /\ UNCHANGED status

\* The server ends and takes every open stream with it.
Stop ==
    /\ phase' = [s \in Streams |-> IF phase[s] = "waiting" THEN "lost"
                                   ELSE IF phase[s] = "sending" THEN "broken" ELSE phase[s]]
    /\ UNCHANGED status

Next ==
    \/ Stop
    \/ \E s \in Streams : Open(s) \/ Respond(s) \/ Finish(s) \/ \E code \in Errors : Refuse(s, code)

Spec == Init /\ [][Next]_contractVars
=============================================================================
