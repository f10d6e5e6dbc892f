------------------------ MODULE StubbedGatewayProofs ------------------------
(***************************************************************************)
(* Proofs about StubbedGateway for any requests and streams, any faults a  *)
(* test may post at any time, and texts of any length. The requests'       *)
(* retries are those of UnaryChatProofs.                                   *)
(***************************************************************************)
EXTENDS StubbedGateway, FiniteSetTheorems, SequenceTheorems, TLAPS

Proved == INSTANCE UnaryChatProofs WITH
    Adapter <- "openai_compat",
    Replies <- {"ok", "rate_limited", "transient"},
    RetryAfter <- 0

LEMMA RetriesAssumption == Proved!ChatAssumption
  <1>1. Proved!IsFiniteSet(Requests)
    BY StubbedAssumption, Zenon DEF IsFiniteSet, Proved!IsFiniteSet
  <1> QED
    BY <1>1, StubbedAssumption DEF Proved!ReplyKinds

-----------------------------------------------------------------------------
(* Refinement: with the stub as its upstream, a completion is UnaryChat's. *)

\* A request's own steps leave time to Tick.
LEMMA ChatStep == [Next]_vars => [Proved!Next]_(Proved!vars)
  <1> SUFFICES ASSUME Next PROVE Proved!Next \/ UNCHANGED chatVars
    BY DEF vars, chatVars, Proved!vars, Proved!requestVars
  <1>1. ASSUME NEW c \in Calls, CallArrives(c) \/ CallWakes(c) \/ AnswerDropped(c)
        PROVE  UNCHANGED chatVars
    BY <1>1 DEF CallArrives, CallWakes, AnswerDropped
  <1>2. ASSUME NEW c \in Calls, RequestReplied(c)
        PROVE  Proved!Next
    <2>1. c[1] \in Requests /\ Chat!UpstreamReplies(c[1], Reply(code[c]))
      BY <1>2 DEF RequestReplied
    <2>2. Proved!UpstreamReplies(c[1], Reply(code[c])) /\ Reply(code[c]) \in {"ok", "rate_limited", "transient"}
      BY <2>1 DEF Chat!UpstreamReplies, Proved!UpstreamReplies, Chat!AttemptEnds, Proved!AttemptEnds,
                  Chat!Answer, Proved!Answer, Chat!Sleep, Proved!Sleep, Chat!Delays, Proved!Delays,
                  Chat!Largest, Proved!Largest, Chat!IsRetryable, Proved!IsRetryable,
                  Chat!Status, Proved!Status, Chat!Exception, Proved!Exception
    <2> QED
      BY <2>1, <2>2 DEF Proved!Next, Proved!Progress
  <1>3. CASE FaultsPosted
    BY <1>3 DEF FaultsPosted
  <1>4. ASSUME NEW r \in Requests, RequestAccepted(r)
        PROVE  Proved!Next
    BY <1>4 DEF RequestAccepted, Chat!Accept, Proved!Accept, Proved!Next
  <1>5. ASSUME NEW r \in Requests, RequestGoesOn(r)
        PROVE  Proved!Next
    <2>1. CASE Chat!AttemptTimesOut(r)
      <3>1. Proved!AttemptTimesOut(r)
        BY <2>1 DEF Chat!AttemptTimesOut, Proved!AttemptTimesOut, Chat!AttemptEnds, Proved!AttemptEnds,
                  Chat!Answer, Proved!Answer, Chat!Sleep, Proved!Sleep, Chat!Delays, Proved!Delays,
                  Chat!Largest, Proved!Largest, Chat!IsRetryable, Proved!IsRetryable,
                  Chat!Status, Proved!Status, Chat!Exception, Proved!Exception
      <3> QED
        BY <3>1 DEF Proved!Next, Proved!Progress
    <2>2. CASE Chat!Wake(r)
      BY <2>2 DEF Chat!Wake, Proved!Wake, Proved!Next, Proved!Progress
    <2>3. CASE Chat!BudgetExpires(r)
      <3>1. Proved!BudgetExpires(r)
        BY <2>3 DEF Chat!BudgetExpires, Proved!BudgetExpires, Chat!BudgetDue, Proved!BudgetDue,
                    Chat!Active, Proved!Active, Chat!Answer, Proved!Answer, Chat!Status, Proved!Status
      <3> QED
        BY <3>1 DEF Proved!Next, Proved!Progress
    <2> QED
      BY <1>5, <2>1, <2>2, <2>3 DEF RequestGoesOn
  <1>6. CASE Tick
    <2>1. CASE Chat!Tick
      BY <2>1 DEF Chat!Tick, Proved!Tick, Chat!BudgetDue, Proved!BudgetDue, Chat!Active, Proved!Active,
                  Proved!Next
    <2> QED
      BY <1>6, <2>1 DEF Tick
  <1>7. ASSUME NEW s \in Streams,
               \/ StreamOpened(s) \/ StreamRefused(s) \/ StreamAnswered(s)
               \/ StreamTimesOut(s) \/ FirstPull(s) \/ BodyStarts(s)
               \/ Relays(s) \/ StreamDone(s) \/ StreamBreaks(s)
        PROVE  UNCHANGED chatVars
    BY <1>7 DEF StreamOpened, StreamRefused, StreamAnswered, StreamTimesOut, FirstPull, BodyStarts,
                Relays, StreamDone, StreamBreaks
  <1> QED
    BY <1>1, <1>2, <1>3, <1>4, <1>5, <1>6, <1>7 DEF Next

LEMMA ChatInit == Init => Proved!Init
  BY DEF Init, Chat!Init, Proved!Init

LEMMA ChatSpec == Spec => Proved!Spec
  BY ChatInit, ChatStep, PTL DEF Spec, Proved!Spec

\* What the proofs of UnaryChat know of a request holds in front of the stub.
LEMMA ChatInvariance == Spec => []Proved!IInv
  BY ChatSpec, RetriesAssumption, Proved!Invariance, PTL

\* A completion in front of the stub keeps the contract of a request: once, in
\* time, with a status of its own.
THEOREM RequestsKeepContract == Spec => Proved!ContractSpec
  BY ChatSpec, RetriesAssumption, Proved!KeepsContract, PTL

\* So do the promises of its retries: calls that a timeout left asleep at the
\* stub, and whatever a test posts meanwhile, never make an answer come early,
\* late or without its reason, nor a failure be retried that is not transient.
THEOREM RequestsStayExplained ==
  Spec => [](Proved!AnswerExplained /\ Proved!BudgetHolds /\ Proved!GaugesBalance
             /\ Proved!RetriesOnlyTransient)
  <1>1. Spec => []Proved!AnswerExplained /\ []Proved!BudgetHolds /\ []Proved!GaugesBalance
    BY ChatSpec, RetriesAssumption, Proved!AnswersExplained, Proved!BudgetAlwaysHolds,
       Proved!GaugesAlwaysBalance, PTL
  <1>2. Proved!Spec => []Proved!RetriesOnlyTransient
    BY RetriesAssumption, Proved!TransientRetries
  <1> QED
    BY <1>1, <1>2, ChatSpec, PTL
-----------------------------------------------------------------------------
(* The pieces of a streamed answer.                                        *)

Pieces(l) == IF l = 0 THEN 1 ELSE IF 5 <= l THEN 5 ELSE l
PieceSize(l) == l \div Pieces(l)

\* How far into a text of length l the first k deltas reach.
Reach(l, k) == IF k >= Pieces(l) THEN l ELSE k * PieceSize(l)

\* Equal pieces, the last one with the remainder, fit into the text.
LEMMA ReachBounds ==
  ASSUME NEW l \in Nat
  PROVE  /\ Pieces(l) \in 1..5 /\ PieceSize(l) \in Nat
         /\ \A k \in 0..6 : k < Pieces(l) => k * PieceSize(l) \in 0..l
         /\ \A k \in 0..6 : Reach(l, k) \in 0..l
         /\ \A k \in 0..5 : Reach(l, k) <= Reach(l, k + 1)
  <1>1. CASE l = 0
    BY <1>1 DEF Pieces, Reach, PieceSize
  <1>2. CASE l >= 5
    <2>1. Pieces(l) = 5 /\ PieceSize(l) = l \div 5
      BY <1>2 DEF Pieces, PieceSize
    <2>2. PieceSize(l) \in Nat /\ 5 * PieceSize(l) <= l
      BY <1>2, <2>1
    <2> QED
      BY <1>2, <2>1, <2>2 DEF Reach
  <1>3. CASE l \in 1..4
    <2>1. Pieces(l) = l /\ PieceSize(l) = 1
      BY <1>3 DEF Pieces, PieceSize
    <2> QED
      BY <1>3, <2>1 DEF Reach
  <1> QED
    BY <1>1, <1>2, <1>3

LEMMA PieceType ==
  ASSUME NEW t \in Seq(Nat), NEW m \in Nat \ {0}, NEW n \in 0..Len(t)
  PROVE  SubSeq(t, m, n) \in Seq(Nat)
  <1>1. \A i \in m..n : t[i] \in Nat
    BY ElementOfSeq
  <1> QED
    BY <1>1, SubSeqProperties

\* What chunk_response yields, and event_stream after it.
LEMMA DeltasOf ==
  ASSUME NEW t \in Seq(Nat), NEW l \in Nat, l = Len(t)
  PROVE  /\ Len(Deltas(t)) = Pieces(l) + 1
         /\ \A k \in 0..Pieces(l) : Deltas(t)[k + 1] = SubSeq(t, Reach(l, k) + 1, Reach(l, k + 1))
  <1> DEFINE chunks == ChunkResponse(t, 5)
  <1>1. chunks \in Seq(Seq(Nat)) /\ Len(chunks) = Pieces(l)
        /\ \A i \in 1..Pieces(l) : chunks[i] = SubSeq(t, (i - 1) * PieceSize(l) + 1, Reach(l, i))
    <2>1. CASE t = <<>>
      <3>1. l = 0 /\ chunks = <<t>> /\ Pieces(l) = 1
        BY <2>1 DEF ChunkResponse, Pieces
      <3>2. Reach(l, 1) = 0
        BY <3>1 DEF Reach
      <3>3. SubSeq(t, 1, 0) = <<>>
        BY SubSeqEmpty
      <3>4. PieceSize(l) \in Nat
        BY ReachBounds
      <3>5. (1 - 1) * PieceSize(l) + 1 = 1
        BY <3>4
      <3> HIDE DEF chunks
      <3>6. chunks \in Seq(Seq(Nat)) /\ Len(chunks) = 1 /\ chunks[1] = <<>>
        BY <2>1, <3>1
      <3>7. ASSUME NEW i \in 1..1
            PROVE  chunks[i] = SubSeq(t, (i - 1) * PieceSize(l) + 1, Reach(l, i))
        <4>1. i = 1
          OBVIOUS
        <4> QED
          BY <4>1, <3>2, <3>3, <3>5, <3>6
      <3> QED
        BY <3>1, <3>6, <3>7
    <2>2. CASE t # <<>>
      <3>1. l # 0
        BY <2>2, EmptySeq
      <3>2. chunks = [i \in 1..Pieces(l) |->
                        SubSeq(t, (i - 1) * PieceSize(l) + 1, IF i = Pieces(l) THEN l ELSE i * PieceSize(l))]
        BY <2>2, <3>1 DEF ChunkResponse, Pieces, PieceSize
      <3> HIDE DEF chunks
      <3>3. Pieces(l) \in 1..5
        BY ReachBounds
      <3>4. \A i \in 1..Pieces(l) : Reach(l, i) = IF i = Pieces(l) THEN l ELSE i * PieceSize(l)
        BY <3>3 DEF Reach
      <3>5. \A i \in 1..Pieces(l) : chunks[i] = SubSeq(t, (i - 1) * PieceSize(l) + 1, Reach(l, i))
        BY <3>2, <3>4
      <3>6. ASSUME NEW i \in 1..Pieces(l) PROVE chunks[i] \in Seq(Nat)
        <4>1. i - 1 \in 0..6 /\ i - 1 < Pieces(l) /\ i \in 0..6
          BY <3>3
        <4>2. (i - 1) * PieceSize(l) \in 0..l /\ Reach(l, i) \in 0..l
          BY <4>1, ReachBounds
        <4>3. SubSeq(t, (i - 1) * PieceSize(l) + 1, Reach(l, i)) \in Seq(Nat)
          BY <4>2, PieceType
        <4> QED
          BY <3>5, <4>3
      <3>7. chunks \in [1..Pieces(l) -> Seq(Nat)] /\ Pieces(l) \in Nat
        BY <3>2, <3>3, <3>6
      <3>8. chunks \in Seq(Seq(Nat)) /\ Len(chunks) = Pieces(l)
        BY <3>7
      <3> QED
        BY <3>5, <3>8
    <2> QED
      BY <2>1, <2>2
  <1> HIDE DEF chunks
  <1>2. Deltas(t) = Append(chunks, <<>>)
    BY DEF Deltas, chunks
  <1>3. /\ Len(Deltas(t)) = Pieces(l) + 1
        /\ \A i \in 1..Pieces(l) : Deltas(t)[i] = chunks[i]
        /\ Deltas(t)[Pieces(l) + 1] = <<>>
    BY <1>1, <1>2, AppendProperties, EmptySeq
  <1>4. ASSUME NEW k \in 0..Pieces(l)
        PROVE  Deltas(t)[k + 1] = SubSeq(t, Reach(l, k) + 1, Reach(l, k + 1))
    <2>1. Pieces(l) \in 1..5
      BY ReachBounds
    <2>2. CASE k < Pieces(l)
      <3>1. Deltas(t)[k + 1] = chunks[k + 1] /\ k + 1 \in 1..Pieces(l)
        BY <1>3, <2>1, <2>2
      <3>2. chunks[k + 1] = SubSeq(t, k * PieceSize(l) + 1, Reach(l, k + 1))
        BY <1>1, <2>1, <3>1
      <3>3. Reach(l, k) = k * PieceSize(l)
        BY <2>1, <2>2 DEF Reach
      <3> QED
        BY <3>1, <3>2, <3>3
    <2>3. CASE k = Pieces(l)
      <3>1. Reach(l, k) = l /\ Reach(l, k + 1) = l
        BY <2>1, <2>3 DEF Reach
      <3>2. SubSeq(t, l + 1, l) = <<>>
        BY SubSeqEmpty
      <3> QED
        BY <1>3, <2>3, <3>1, <3>2
    <2> QED
      BY <2>1, <2>2, <2>3
  <1> QED
    BY <1>3, <1>4

\* The first k deltas together are the text as far as they reach.
LEMMA DeltasJoin ==
  ASSUME NEW t \in Seq(Nat)
  PROVE  /\ Len(Deltas(t)) \in 2..6
         /\ Deltas(t)[1] = SubSeq(t, 1, Reach(Len(t), 1))
         /\ \A k \in 1..(Len(Deltas(t)) - 1) :
               SubSeq(t, 1, Reach(Len(t), k)) \o Deltas(t)[k + 1] = SubSeq(t, 1, Reach(Len(t), k + 1))
         /\ \A k \in 1..6 : Reach(Len(t), k) \in 0..Len(t)
         /\ Reach(Len(t), Len(Deltas(t))) = Len(t)
  <1> DEFINE l == Len(t)
  <1>1. l \in Nat /\ l = Len(t)
    OBVIOUS
  <1> HIDE DEF l
  <1>2. /\ Pieces(l) \in 1..5 /\ Len(Deltas(t)) = Pieces(l) + 1
        /\ \A k \in 0..Pieces(l) : Deltas(t)[k + 1] = SubSeq(t, Reach(l, k) + 1, Reach(l, k + 1))
    BY <1>1, DeltasOf, ReachBounds
  <1>3. Deltas(t)[1] = SubSeq(t, 1, Reach(l, 1))
    <2>1. Deltas(t)[0 + 1] = SubSeq(t, Reach(l, 0) + 1, Reach(l, 0 + 1))
      BY <1>2
    <2>2. Reach(l, 0) = 0
      <3>1. PieceSize(l) \in Nat
        BY <1>1, ReachBounds
      <3>2. Reach(l, 0) = 0 * PieceSize(l)
        BY <1>2 DEF Reach
      <3> QED
        BY <3>1, <3>2
    <2>3. Reach(l, 0) + 1 = 1 /\ 0 + 1 = 1
      BY <2>2
    <2> QED
      BY <2>1, <2>3
  <1>4. ASSUME NEW k \in 1..(Len(Deltas(t)) - 1)
        PROVE  SubSeq(t, 1, Reach(l, k)) \o Deltas(t)[k + 1] = SubSeq(t, 1, Reach(l, k + 1))
    <2>1. k \in 1..Pieces(l) /\ k \in 0..Pieces(l) /\ k \in 0..5 /\ k \in 0..6 /\ k + 1 \in 0..6
      BY <1>2
    <2>2. Reach(l, k) \in 0..l /\ Reach(l, k + 1) \in 0..l /\ Reach(l, k) <= Reach(l, k + 1)
      BY <1>1, <2>1, ReachBounds
    <2>3. 1 \in 1..(l + 1) /\ Reach(l, k) \in (1 - 1)..l /\ Reach(l, k + 1) \in Reach(l, k)..l
      BY <1>1, <2>2
    <2>4. SubSeq(t, 1, Reach(l, k)) \o SubSeq(t, Reach(l, k) + 1, Reach(l, k + 1))
            = SubSeq(t, 1, Reach(l, k + 1))
      BY <1>1, <2>3, ConcatAdjacentSubSeq
    <2> QED
      BY <1>2, <2>1, <2>4
  <1>5. ASSUME NEW k \in 1..6 PROVE Reach(l, k) \in 0..l
    <2>1. k \in 0..6
      OBVIOUS
    <2> QED
      BY <1>1, <2>1, ReachBounds
  <1>6. Reach(l, Len(Deltas(t))) = l
    BY <1>2 DEF Reach
  <1>7. Len(Deltas(t)) \in 2..6
    BY <1>2
  <1> QED
    BY <1>3, <1>4, <1>5, <1>6, <1>7 DEF l
-----------------------------------------------------------------------------
(* The data of a stream.                                                   *)

\* The client has what the deltas pulled so far come to.
Relayed(s) ==
    /\ text[s] \in Seq(Nat) /\ Len(text[s]) \in Lengths \cup {0}
    /\ pulled[s] \in 0..6 /\ pulled[s] <= Len(Deltas(text[s]))
    /\ relay[s] \in {"new", "connecting", "pulling"} => pulled[s] = 0
    /\ relay[s] = "ready" => pulled[s] = 1
    /\ \/ out[s] = <<>> /\ relay[s] \notin {"body", "done"}
       \/ /\ relay[s] \in {"body", "done", "broken", "gone"}
          /\ pulled[s] # 0 /\ out[s] = SubSeq(text[s], 1, Reach(Len(text[s]), pulled[s]))
    /\ relay[s] = "done" => pulled[s] = Len(Deltas(text[s]))

StreamType ==
    /\ relay \in [Streams -> {"new", "connecting", "pulling", "ready", "body",
                              "done", "failed", "broken", "gone"}]
    /\ status \in [Streams -> {0, 200, 429, 500, 502, 504}]
    /\ DOMAIN text = Streams /\ DOMAIN pulled = Streams /\ DOMAIN out = Streams
    /\ text = [s \in Streams |-> text[s]]
    /\ pulled = [s \in Streams |-> pulled[s]]
    /\ out = [s \in Streams |-> out[s]]

RelayInv == StreamType /\ \A s \in Streams : Relayed(s)

LEMMA RelayInit == Init => RelayInv
  <1> SUFFICES ASSUME Init PROVE RelayInv
    OBVIOUS
  <1>1. StreamType
    BY DEF Init, StreamType
  <1>2. ASSUME NEW s \in Streams PROVE Relayed(s)
    <2>1. /\ relay[s] = "new" /\ text[s] = <<>> /\ pulled[s] = 0 /\ out[s] = <<>>
      BY DEF Init
    <2>2. Len(Deltas(<<>>)) \in Nat
      BY DeltasOf, ReachBounds, EmptySeq
    <2> QED
      BY <2>1, <2>2 DEF Relayed
  <1> QED
    BY <1>1, <1>2 DEF RelayInv

\* One stream's own step; the other streams' data stays.
StreamStep(s) ==
    \/ StreamOpened(s) \/ StreamRefused(s) \/ StreamAnswered(s) \/ StreamTimesOut(s) \/ FirstPull(s)
    \/ BodyStarts(s) \/ Relays(s) \/ StreamDone(s) \/ StreamBreaks(s)

LEMMA StreamStepType ==
  ASSUME StreamType, NEW s \in Streams, StreamStep(s)
  PROVE  /\ StreamType'
         /\ \A z \in Streams \ {s} : /\ relay'[z] = relay[z] /\ text'[z] = text[z]
                                     /\ pulled'[z] = pulled[z] /\ out'[z] = out[z]
  <1>1. CASE StreamOpened(s)
    BY <1>1 DEF StreamOpened, StreamType
  <1>2. CASE StreamRefused(s)
    BY <1>2 DEF StreamRefused, StreamFails, StreamType
  <1>3. CASE StreamAnswered(s)
    <2>1. /\ relay' = [relay EXCEPT ![s] = "pulling"] /\ UNCHANGED <<status, pulled, out>>
          /\ \E n \in Lengths : text' = [text EXCEPT ![s] = [i \in 1..n |-> i]]
      BY <1>3 DEF StreamAnswered
    <2>2. PICK t : text' = [text EXCEPT ![s] = t]
      BY <2>1
    <2>3. /\ DOMAIN text' = Streams /\ text' = [z \in Streams |-> text'[z]]
          /\ \A z \in Streams \ {s} : text'[z] = text[z]
      BY <2>2 DEF StreamType
    <2>4. /\ relay' \in [Streams -> {"new", "connecting", "pulling", "ready", "body",
                                     "done", "failed", "broken", "gone"}]
          /\ \A z \in Streams \ {s} : relay'[z] = relay[z]
      BY <2>1 DEF StreamType
    <2> QED
      BY <2>1, <2>3, <2>4 DEF StreamType
  <1>4. CASE StreamTimesOut(s)
    BY <1>4 DEF StreamTimesOut, StreamFails, StreamType
  <1>5. CASE FirstPull(s)
    BY <1>5 DEF FirstPull, StreamType
  <1>6. CASE BodyStarts(s)
    <2>1. /\ relay' = [relay EXCEPT ![s] = "body"] /\ status' = [status EXCEPT ![s] = 200]
          /\ UNCHANGED <<text, pulled>>
      BY <1>6 DEF BodyStarts
    <2>2. PICK e : out' = [out EXCEPT ![s] = e]
      BY <1>6 DEF BodyStarts
    <2>3. /\ DOMAIN out' = Streams /\ out' = [z \in Streams |-> out'[z]]
          /\ \A z \in Streams \ {s} : out'[z] = out[z]
      BY <2>2 DEF StreamType
    <2>4. /\ relay' \in [Streams -> {"new", "connecting", "pulling", "ready", "body",
                                     "done", "failed", "broken", "gone"}]
          /\ \A z \in Streams \ {s} : relay'[z] = relay[z]
      BY <2>1 DEF StreamType
    <2>5. status' \in [Streams -> {0, 200, 429, 500, 502, 504}]
      BY <2>1 DEF StreamType
    <2> QED
      BY <2>1, <2>3, <2>4, <2>5 DEF StreamType
  <1>7. CASE Relays(s)
    <2>1. /\ pulled' = [pulled EXCEPT ![s] = pulled[s] + 1] /\ UNCHANGED <<relay, status, text>>
          /\ out' = [out EXCEPT ![s] = out[s] \o Deltas(text[s])[pulled[s] + 1]]
      BY <1>7 DEF Relays
    <2>2. PICK e : out' = [out EXCEPT ![s] = e]
      BY <2>1
    <2>3. PICK n : pulled' = [pulled EXCEPT ![s] = n]
      BY <2>1
    <2>4. /\ DOMAIN out' = Streams /\ out' = [z \in Streams |-> out'[z]]
          /\ \A z \in Streams \ {s} : out'[z] = out[z]
      BY <2>2 DEF StreamType
    <2>5. /\ DOMAIN pulled' = Streams /\ pulled' = [z \in Streams |-> pulled'[z]]
          /\ \A z \in Streams \ {s} : pulled'[z] = pulled[z]
      BY <2>3 DEF StreamType
    <2> QED
      BY <2>1, <2>4, <2>5 DEF StreamType
  <1>8. CASE StreamDone(s)
    BY <1>8 DEF StreamDone, StreamType
  <1>9. CASE StreamBreaks(s)
    BY <1>9 DEF StreamBreaks, StreamType
  <1> QED
    BY <1>1, <1>2, <1>3, <1>4, <1>5, <1>6, <1>7, <1>8, <1>9 DEF StreamStep

LEMMA RelayedStep ==
  ASSUME StreamType, NEW s \in Streams, Relayed(s), StreamStep(s)
  PROVE  Relayed(s)'
  <1>1. pulled[s] \in 0..6 /\ text[s] \in Seq(Nat)
    BY DEF Relayed
  <1>2. CASE StreamOpened(s) \/ StreamRefused(s) \/ StreamTimesOut(s) \/ StreamBreaks(s)
    <2>1. /\ UNCHANGED <<text, pulled, out>>
          /\ \/ relay[s] = "new" /\ relay'[s] = "connecting"
             \/ relay[s] \in {"connecting", "pulling"} /\ relay'[s] = "failed"
             \/ relay[s] = "body" /\ relay'[s] \in {"broken", "gone"}
      BY <1>2 DEF StreamOpened, StreamRefused, StreamTimesOut, StreamBreaks, StreamFails, StreamType
    <2> QED
      BY <2>1 DEF Relayed
  <1>3. CASE StreamAnswered(s)
    <2>1. PICK n \in Lengths : text'[s] = [i \in 1..n |-> i]
      BY <1>3 DEF StreamAnswered, StreamType
    <2>2. n \in Nat
      BY StubbedAssumption
    <2>3. text'[s] \in [1..n -> Nat]
      BY <2>1, <2>2
    <2>4. text'[s] \in Seq(Nat) /\ Len(text'[s]) = n
      BY <2>2, <2>3
    <2>5. Len(Deltas(text'[s])) \in 2..6
      BY <2>4, DeltasJoin
    <2>6. relay[s] = "connecting" /\ relay'[s] = "pulling" /\ UNCHANGED <<pulled, out>>
      BY <1>3 DEF StreamAnswered, StreamType
    <2>7. pulled[s] = 0 /\ out[s] = <<>>
      BY <2>6 DEF Relayed
    <2> QED
      BY <2>4, <2>5, <2>6, <2>7 DEF Relayed
  <1>4. CASE FirstPull(s)
    <2>1. relay[s] = "pulling" /\ relay'[s] = "ready" /\ pulled'[s] = 1 /\ UNCHANGED <<text, out>>
      BY <1>4 DEF FirstPull, StreamType
    <2>2. Len(Deltas(text[s])) \in 2..6
      BY <1>1, DeltasJoin
    <2>3. out'[s] = <<>> /\ text'[s] = text[s]
      BY <2>1 DEF Relayed
    <2>4. pulled'[s] \in 0..6 /\ pulled'[s] <= Len(Deltas(text'[s]))
      <3>1. Len(Deltas(text'[s])) \in 2..6
        BY <2>2, <2>3, Zenon
      <3>2. \A n \in 2..6 : 1 \in 0..6 /\ 1 <= n
        OBVIOUS
      <3>3. pulled'[s] = 1
        BY <2>1
      <3> QED
        BY <3>1, <3>2, <3>3, Zenon
    <2>5. Len(text[s]) \in Lengths \cup {0}
      BY DEF Relayed
    <2> QED
      BY <1>1, <2>1, <2>3, <2>4, <2>5 DEF Relayed
  <1>5. CASE BodyStarts(s)
    <2>1. /\ relay[s] = "ready" /\ relay'[s] = "body" /\ UNCHANGED <<text, pulled>>
          /\ out'[s] = Deltas(text[s])[1]
      BY <1>5 DEF BodyStarts, StreamType
    <2>2. pulled[s] = 1
      BY <2>1 DEF Relayed
    <2>3. out'[s] = SubSeq(text[s], 1, Reach(Len(text[s]), 1))
      BY <1>1, <2>1, DeltasJoin
    <2> QED
      BY <2>1, <2>2, <2>3 DEF Relayed
  <1>6. CASE Relays(s)
    <2>1. /\ relay[s] = "body" /\ pulled[s] < Len(Deltas(text[s])) /\ pulled'[s] = pulled[s] + 1
          /\ UNCHANGED <<relay, text>>
          /\ out'[s] = out[s] \o Deltas(text[s])[pulled[s] + 1]
      BY <1>6 DEF Relays, StreamType
    <2>2. pulled[s] # 0 /\ out[s] = SubSeq(text[s], 1, Reach(Len(text[s]), pulled[s]))
      BY <2>1 DEF Relayed
    <2>3. Len(Deltas(text[s])) \in 2..6
      BY <1>1, DeltasJoin
    <2>4. /\ pulled[s] \in 1..(Len(Deltas(text[s])) - 1) /\ pulled[s] + 1 \in 1..6
          /\ pulled[s] + 1 <= Len(Deltas(text[s]))
      <3> DEFINE n == Len(Deltas(text[s]))
      <3> DEFINE k == pulled[s]
      <3>1. n \in 2..6 /\ k \in 0..6 /\ k # 0 /\ k < n
        BY <1>1, <2>1, <2>2, <2>3
      <3> HIDE DEF n, k
      <3>2. k \in 1..(n - 1) /\ k + 1 \in 1..6 /\ k + 1 <= n
        BY <3>1
      <3> QED
        BY <3>2 DEF n, k
    <2>5. out'[s] = SubSeq(text[s], 1, Reach(Len(text[s]), pulled[s] + 1))
      BY <1>1, <2>1, <2>2, <2>4, DeltasJoin
    <2> QED
      BY <2>1, <2>4, <2>5 DEF Relayed
  <1>7. CASE StreamDone(s)
    <2>1. /\ relay[s] = "body" /\ relay'[s] = "done" /\ pulled[s] = Len(Deltas(text[s]))
          /\ UNCHANGED <<text, pulled, out>>
      BY <1>7 DEF StreamDone, StreamType
    <2> QED
      BY <2>1 DEF Relayed
  <1> QED
    BY <1>2, <1>3, <1>4, <1>5, <1>6, <1>7 DEF StreamStep

LEMMA OthersLeaveStreams ==
  ASSUME [Next]_vars
  PROVE  UNCHANGED streamVars \/ \E s \in Streams : StreamStep(s)
  <1>1. CASE \E s \in Streams : StreamStep(s)
    BY <1>1
  <1>2. ASSUME NEW c \in Calls, CallArrives(c) \/ CallWakes(c) \/ AnswerDropped(c) \/ RequestReplied(c)
        PROVE  UNCHANGED streamVars
    BY <1>2 DEF CallArrives, CallWakes, AnswerDropped, RequestReplied
  <1>3. ASSUME NEW r \in Requests, RequestAccepted(r) \/ RequestGoesOn(r)
        PROVE  UNCHANGED streamVars
    BY <1>3 DEF RequestAccepted, RequestGoesOn
  <1>4. CASE FaultsPosted \/ Tick
    BY <1>4 DEF FaultsPosted, Tick
  <1>5. CASE UNCHANGED vars
    BY <1>5 DEF vars
  <1> QED
    BY <1>1, <1>2, <1>3, <1>4, <1>5 DEF Next, StreamStep

LEMMA RelayStep == RelayInv /\ [Next]_vars => RelayInv'
  <1> SUFFICES ASSUME RelayInv, [Next]_vars PROVE RelayInv'
    OBVIOUS
  <1>1. CASE UNCHANGED streamVars
    BY <1>1 DEF RelayInv, StreamType, Relayed, streamVars
  <1>2. ASSUME NEW s \in Streams, StreamStep(s) PROVE RelayInv'
    <2>1. StreamType' /\ Relayed(s)'
      BY <1>2, StreamStepType, RelayedStep DEF RelayInv
    <2>2. ASSUME NEW z \in Streams \ {s} PROVE Relayed(z)'
      <3>1. relay'[z] = relay[z] /\ text'[z] = text[z] /\ pulled'[z] = pulled[z] /\ out'[z] = out[z]
        BY <1>2, StreamStepType DEF RelayInv
      <3> QED
        BY <3>1 DEF RelayInv, Relayed
    <2> QED
      BY <2>1, <2>2 DEF RelayInv
  <1> QED
    BY <1>1, <1>2, OthersLeaveStreams

LEMMA RelayInvariance == Spec => []RelayInv
  BY RelayInit, RelayStep, PTL DEF Spec

\* A client never reads a delta twice, out of order or not at all, whatever
\* the length of the text and wherever the stream breaks, and [DONE] means that
\* it has the whole text.
THEOREM RelayAlwaysFaithful == Spec => []RelayFaithful
  <1>1. RelayInv => RelayFaithful
    <2> SUFFICES ASSUME RelayInv, NEW s \in Streams
                 PROVE  IsPrefix(out[s], text[s]) /\ (relay[s] = "done" => out[s] = text[s])
      BY DEF RelayFaithful
    <2>1. /\ text[s] \in Seq(Nat) /\ pulled[s] \in 0..6
          /\ relay[s] = "done" => pulled[s] = Len(Deltas(text[s]))
      BY DEF RelayInv, Relayed
    <2>2. CASE out[s] = <<>> /\ relay[s] # "done"
      <3>1. Len(<<>>) = 0 /\ Len(text[s]) \in Nat
        BY <2>1, EmptySeq
      <3>2. SubSeq(<<>>, 1, 0) = <<>> /\ SubSeq(text[s], 1, 0) = <<>>
        BY SubSeqEmpty
      <3> QED
        BY <2>2, <3>1, <3>2 DEF IsPrefix
    <2>3. CASE pulled[s] # 0 /\ out[s] = SubSeq(text[s], 1, Reach(Len(text[s]), pulled[s]))
      <3> DEFINE n == Reach(Len(text[s]), pulled[s])
      <3>1. n \in 0..Len(text[s]) /\ pulled[s] \in 1..6
        <4>1. pulled[s] \in 1..6
          BY <2>1, <2>3
        <4> QED
          BY <2>1, <4>1, DeltasJoin
      <3>2. \A i \in 1..n : text[s][i] \in Nat
        BY <2>1, <3>1, ElementOfSeq
      <3>3. out[s] \in Seq(Nat) /\ Len(out[s]) = n
        BY <2>3, <3>1, <3>2, SubSeqProperties
      <3>4. SubSeq(out[s], 1, Len(out[s])) = out[s]
        BY <3>3, SubSeqFull
      <3>5. relay[s] = "done" => n = Len(text[s])
        BY <2>1, DeltasJoin
      <3>6. SubSeq(text[s], 1, Len(text[s])) = text[s]
        BY <2>1, SubSeqFull
      <3> QED
        BY <2>1, <2>3, <3>1, <3>3, <3>4, <3>5, <3>6 DEF IsPrefix
    <2> QED
      BY <2>2, <2>3 DEF RelayInv, Relayed
  <1> QED
    BY <1>1, RelayInvariance, PTL
-----------------------------------------------------------------------------
(* The streams keep the contract that those of GatewayPod keep.            *)

PhasesOf == [s \in Streams |-> StreamPhase(relay[s])]

\* A step of a stream is one of the contract's or happens inside a phase.
LEMMA StreamStepMaps ==
  ASSUME StreamType, NEW s \in Streams, StreamStep(s)
  PROVE  StreamPart!Next \/ UNCHANGED <<PhasesOf, status>>
  <1>1. ASSUME NEW x, relay' = [relay EXCEPT ![s] = x]
        PROVE  PhasesOf' = [PhasesOf EXCEPT ![s] = StreamPhase(x)] /\ PhasesOf[s] = StreamPhase(relay[s])
    <2>1. DOMAIN relay = Streams
      BY DEF StreamType
    <2>2. \A t \in Streams : relay'[t] = IF t = s THEN x ELSE relay[t]
      BY <1>1, <2>1
    <2> QED
      BY <2>2 DEF PhasesOf
  <1>2. ASSUME NEW x, relay' = [relay EXCEPT ![s] = x], UNCHANGED status, StreamPhase(x) = StreamPhase(relay[s])
        PROVE  UNCHANGED <<PhasesOf, status>>
    BY <1>1, <1>2 DEF PhasesOf
  <1>3. CASE StreamOpened(s)
    <2>1. relay[s] = "new" /\ relay' = [relay EXCEPT ![s] = "connecting"] /\ UNCHANGED status
      BY <1>3 DEF StreamOpened
    <2>2. PhasesOf[s] = "new" /\ PhasesOf' = [PhasesOf EXCEPT ![s] = "waiting"]
      BY <1>1, <2>1 DEF StreamPhase
    <2> QED
      BY <2>1, <2>2 DEF StreamPart!Next, StreamPart!Open, StreamPart!Goes, PhasesOf
  <1>4. CASE StreamRefused(s) \/ StreamTimesOut(s)
    <2>1. PICK c \in StreamPart!Errors : StreamFails(s, c)
      BY <1>4 DEF StreamRefused, StreamTimesOut, StreamPart!Errors, StreamPart!Mapped, StreamPart!Unmapped
    <2>2. relay[s] \in {"connecting", "pulling"}
      BY <1>4 DEF StreamRefused, StreamTimesOut
    <2>3. PhasesOf[s] = "waiting" /\ PhasesOf' = [PhasesOf EXCEPT ![s] = "failed"]
      BY <1>1, <2>1, <2>2 DEF StreamFails, StreamPhase
    <2>4. StreamPart!Refuse(s, c)
      BY <2>1, <2>3 DEF StreamFails, StreamPart!Refuse, StreamPart!Goes, PhasesOf
    <2> QED
      BY <2>4 DEF StreamPart!Next
  <1>5. CASE StreamAnswered(s) \/ FirstPull(s)
    <2>1. /\ relay[s] \in {"connecting", "pulling"} /\ UNCHANGED status
          /\ relay' = [relay EXCEPT ![s] = "pulling"] \/ relay' = [relay EXCEPT ![s] = "ready"]
      BY <1>5 DEF StreamAnswered, FirstPull
    <2> QED
      BY <1>2, <2>1 DEF StreamPhase
  <1>6. CASE BodyStarts(s)
    <2>1. /\ relay[s] = "ready" /\ relay' = [relay EXCEPT ![s] = "body"]
          /\ status' = [status EXCEPT ![s] = 200]
      BY <1>6 DEF BodyStarts
    <2>2. PhasesOf[s] = "waiting" /\ PhasesOf' = [PhasesOf EXCEPT ![s] = "sending"]
      BY <1>1, <2>1 DEF StreamPhase
    <2>3. StreamPart!Respond(s)
      BY <2>1, <2>2 DEF StreamPart!Respond, StreamPart!Goes, PhasesOf
    <2> QED
      BY <2>3 DEF StreamPart!Next
  <1>7. CASE Relays(s)
    BY <1>7 DEF Relays, PhasesOf
  <1>8. CASE StreamDone(s) \/ StreamBreaks(s)
    <2>1. PICK x \in {"done", "broken", "gone"} : relay' = [relay EXCEPT ![s] = x]
      BY <1>8 DEF StreamDone, StreamBreaks
    <2>2. relay[s] = "body" /\ UNCHANGED status
      BY <1>8 DEF StreamDone, StreamBreaks
    <2>3. StreamPhase(x) \in {"done", "broken"} /\ StreamPhase(relay[s]) = "sending"
      BY <2>2 DEF StreamPhase
    <2>4. StreamPart!Finish(s)
      BY <1>1, <2>1, <2>2, <2>3 DEF StreamPart!Finish, StreamPart!Goes, PhasesOf
    <2> QED
      BY <2>4 DEF StreamPart!Next
  <1> QED
    BY <1>3, <1>4, <1>5, <1>6, <1>7, <1>8 DEF StreamStep

\* No stream is answered twice, and none is remapped once it has begun, whatever
\* the stub's faults, posts and latencies are.
THEOREM StreamsKeepContract == Spec => KeepsStreamContract
  <1>1. Init => StreamPart!Init
    BY DEF Init, StreamPart!Init, StreamPhase
  <1>2. RelayInv /\ [Next]_vars => [StreamPart!Next]_(StreamPart!contractVars)
    <2> SUFFICES ASSUME RelayInv, [Next]_vars
                 PROVE  StreamPart!Next \/ UNCHANGED <<PhasesOf, status>>
      BY DEF StreamPart!contractVars, PhasesOf
    <2>1. CASE UNCHANGED streamVars
      BY <2>1 DEF streamVars, PhasesOf
    <2> QED
      BY <2>1, OthersLeaveStreams, StreamStepMaps DEF RelayInv
  <1> QED
    BY <1>1, <1>2, RelayInvariance, PTL DEF Spec, KeepsStreamContract, StreamPart!Spec
-----------------------------------------------------------------------------
(* The stub: an answer is on its way exactly while a call is answered.     *)

StubInv ==
    /\ StubTypeOK
    /\ \A c \in Calls : call[c] = "answered" <=> code[c] # 0
    /\ injected \in Nat
    /\ forced \in [Requests -> Nat]
    /\ alone \in [Requests -> BOOLEAN]

LEMMA StubInvInit == Init => StubInv
  BY DEF Init, StubInit, StubInv, StubTypeOK, NoFaults, FaultConfig

LEMMA DecideInv ==
  ASSUME StubInv, NEW c \in Calls, Decide(c)
  PROVE  /\ StubTypeOK' /\ \A z \in Calls : call'[z] = "answered" <=> code'[z] # 0
         /\ call'[c] = "answered" /\ code'[c] \in {200, 429, 500}
         /\ \A z \in Calls \ {c} : call'[z] = call[z] /\ code'[z] = code[z]
  <1>1. faults \in FaultConfig /\ faults.failNext \in Nat /\ faults.draws \subseteq {200, 429, 500}
    BY DEF StubInv, StubTypeOK, FaultConfig
  <1>2. PICK s \in {200, 429, 500} : code' = [code EXCEPT ![c] = s]
    BY <1>1 DEF Decide
  <1>3. call' = [call EXCEPT ![c] = "answered"] /\ wake' = wake
    BY DEF Decide
  <1>4. faults' \in FaultConfig
    BY <1>1 DEF Decide, FaultConfig
  <1> QED
    BY <1>2, <1>3, <1>4 DEF StubInv, StubTypeOK

LEMMA ArriveInv ==
  ASSUME StubInv, NEW c \in Calls, Arrive(c)
  PROVE  /\ StubTypeOK' /\ \A z \in Calls : call'[z] = "answered" <=> code'[z] # 0
         /\ \A z \in Calls \ {c} : call'[z] = call[z] /\ code'[z] = code[z]
  <1>1. CASE Decide(c)
    BY <1>1, DecideInv
  <1>2. CASE ~Decide(c)
    <2>1. /\ call[c] = "idle" /\ call' = [call EXCEPT ![c] = "asleep"]
          /\ wake' = [wake EXCEPT ![c] = faults.latency] /\ UNCHANGED <<faults, code>>
      BY <1>2 DEF Arrive
    <2>2. faults.latency \in Nat
      BY DEF StubInv, StubTypeOK, FaultConfig
    <2> QED
      BY <2>1, <2>2 DEF StubInv, StubTypeOK
  <1> QED
    BY <1>1, <1>2

LEMMA SentInv ==
  ASSUME StubInv, NEW c \in Calls, Sent(c)
  PROVE  /\ StubTypeOK' /\ \A z \in Calls : call'[z] = "answered" <=> code'[z] # 0
         /\ call[c] = "answered" /\ call'[c] = "idle"
         /\ \A z \in Calls \ {c} : call'[z] = call[z] /\ code'[z] = code[z]
  BY DEF Sent, StubInv, StubTypeOK

LEMMA StubInvStep == StubInv /\ [Next]_vars => StubInv'
  <1> SUFFICES ASSUME StubInv, [Next]_vars PROVE StubInv'
    OBVIOUS
  <1>1. ASSUME NEW c \in Calls, CallArrives(c) \/ CallWakes(c) PROVE StubInv'
    <2>1. StubTypeOK' /\ \A z \in Calls : call'[z] = "answered" <=> code'[z] # 0
      BY <1>1, ArriveInv, DecideInv DEF CallArrives, CallWakes, SleepEnds
    <2>2. /\ forced' = forced /\ injected' = IF code'[c] \in {429, 500} THEN injected + 1 ELSE injected
          /\ \E A \in [Requests -> BOOLEAN] : alone' = [r \in Requests |-> alone[r] /\ A[r]]
      <3> DEFINE A == [r \in Requests |-> r = c[1] \/ ~Chat!Active(r)]
      <3>1. alone' = [r \in Requests |-> alone[r] /\ A[r]] /\ A \in [Requests -> BOOLEAN]
        BY <1>1 DEF CallArrives, CallWakes, Meets
      <3>2. /\ forced' = forced
            /\ injected' = IF code'[c] \in {429, 500} THEN injected + 1 ELSE injected
        BY <1>1 DEF CallArrives, CallWakes, CountsFault
      <3> HIDE DEF A
      <3> QED
        BY <3>1, <3>2, Zenon
    <2> QED
      BY <2>1, <2>2 DEF StubInv
  <1>2. ASSUME NEW c \in Calls, AnswerDropped(c) \/ RequestReplied(c) PROVE StubInv'
    BY <1>2, SentInv DEF AnswerDropped, RequestReplied, historyVars, StubInv
  <1>3. CASE FaultsPosted
    BY <1>3, StubAssumption DEF FaultsPosted, SetFaults, StubInv, StubTypeOK
  <1>4. ASSUME NEW r \in Requests, RequestAccepted(r) PROVE StubInv'
    <2>1. faults.failNext \in Nat
      BY DEF StubInv, StubTypeOK, FaultConfig
    <2> QED
      BY <1>4, <2>1 DEF RequestAccepted, StubInv, StubTypeOK, stubVars
  <1>5. CASE Tick
    <2>1. /\ wake' = [c \in Calls |-> IF call[c] = "asleep" THEN wake[c] - 1 ELSE wake[c]]
          /\ \A c \in Calls : call[c] = "asleep" => wake[c] > 0
          /\ UNCHANGED <<faults, call, code, historyVars>>
      BY <1>5 DEF Tick, StubTime, NoSleepDue
    <2> QED
      BY <2>1 DEF StubInv, StubTypeOK, historyVars
  <1>6. ASSUME NEW s \in Streams, StreamRefused(s) \/ StreamAnswered(s) PROVE StubInv'
    <2>1. <<s, 1>> \in Calls
      BY StubbedAssumption
    <2> QED
      BY <1>6, <2>1, SentInv DEF StreamRefused, StreamAnswered, historyVars, StubInv
  <1>7. CASE UNCHANGED <<stubVars, historyVars>>
    BY <1>7 DEF stubVars, historyVars, StubInv, StubTypeOK
  <1>8. ASSUME NEW r \in Requests, RequestGoesOn(r) PROVE StubInv'
    BY <1>7, <1>8 DEF RequestGoesOn
  <1>9. ASSUME NEW s \in Streams, \/ StreamOpened(s) \/ StreamTimesOut(s) \/ FirstPull(s) \/ BodyStarts(s)
                                  \/ Relays(s) \/ StreamDone(s) \/ StreamBreaks(s)
        PROVE  StubInv'
    BY <1>7, <1>9 DEF StreamOpened, StreamTimesOut, FirstPull, BodyStarts, Relays, StreamDone, StreamBreaks
  <1> QED
    BY <1>1, <1>2, <1>3, <1>4, <1>5, <1>6, <1>7, <1>8, <1>9 DEF Next, vars

LEMMA StubInvariance == Spec => []StubInv
  BY StubInvInit, StubInvStep, PTL DEF Spec

\* Every variable of the gateway and the stub keeps its type.
THEOREM TypeCorrect == Spec => []TypeOK
  <1>1. Proved!IInv => Chat!TypeOK
    BY DEF Proved!IInv, Proved!TypeOK, Chat!TypeOK, Proved!Outcomes, Chat!Outcomes,
           Proved!ReplyKinds, Chat!ReplyKinds
  <1>2. Proved!IInv /\ RelayInv /\ StubInv => TypeOK
    BY <1>1 DEF RelayInv, StreamType, Relayed, StubInv, TypeOK
  <1> QED
    BY <1>2, ChatInvariance, RelayInvariance, StubInvariance, PTL
-----------------------------------------------------------------------------
(* The faults: where each one that was injected has gone.                  *)

Failing == {"rate_limited", "transient"}

\* What this call cost its client: it has the failure still to come, a
\* completion's attempt ended by it, or a stream was refused for it.
Failed(c) ==
    \/ call[c] = "answered" /\ code[c] \in {429, 500}
    \/ c[1] \in Requests /\ c[2] \in 1..Len(outcomes[c[1]]) /\ outcomes[c[1]][c[2]] \in Failing
    \/ c[1] \in Streams /\ status[c[1]] \in {429, 502}

Receipts == {c \in Calls : Failed(c)}

\* No fault is received twice, and the stub answers a completion with a
\* success, a rate limit or a transient failure.
FaultsCounted ==
    /\ Cardinality(Receipts) <= injected
    /\ \A r \in Requests : \A i \in 1..Len(outcomes[r]) :
          outcomes[r][i] \in {"ok", "rate_limited", "transient", "timeout"}

LEMMA ReceiptsFinite == IsFiniteSet(Calls) /\ IsFiniteSet(Receipts) /\ IsFiniteSet(Receipts')
  <1>1. IsFiniteSet(1..MaxAttempts) /\ IsFiniteSet({1})
    <2>1. 1 \in Int /\ MaxAttempts \in Int
      BY StubbedAssumption
    <2> QED
      BY <2>1, FS_Interval, FS_Singleton
  <1>2. IsFiniteSet(Requests \X (1..MaxAttempts)) /\ IsFiniteSet(Streams \X {1})
    BY <1>1, StubbedAssumption, FS_Product
  <1>3. IsFiniteSet(Calls)
    BY <1>2, StubbedAssumption, FS_Union
  <1> QED
    BY <1>3, FS_Subset DEF Receipts

\* How an attempt that ends with x adds to the outcomes.
Grows(r, x) == outcomes' = [outcomes EXCEPT ![r] = Append(@, x)]

LEMMA GrownOutcomes ==
  ASSUME Proved!TypeOK, NEW r \in Requests, NEW x \in Proved!Outcomes, Grows(r, x)
  PROVE  /\ Len(outcomes[r]) \in Nat /\ Len(outcomes'[r]) = Len(outcomes[r]) + 1
         /\ \A i \in 1..Len(outcomes[r]) : outcomes'[r][i] = outcomes[r][i]
         /\ outcomes'[r][Len(outcomes[r]) + 1] = x
         /\ \A z \in Requests \ {r} : outcomes'[z] = outcomes[z]
  <1>1. outcomes \in [Requests -> Seq(Proved!Outcomes)] /\ outcomes[r] \in Seq(Proved!Outcomes)
    BY DEF Proved!TypeOK
  <1>2. outcomes'[r] = Append(outcomes[r], x)
    BY <1>1 DEF Grows
  <1>3. \A z \in Requests \ {r} : outcomes'[z] = outcomes[z]
    BY <1>1 DEF Grows
  <1> QED
    BY <1>1, <1>2, <1>3, AppendProperties

LEMMA CountedInit == Init => FaultsCounted
  <1> SUFFICES ASSUME Init PROVE FaultsCounted
    OBVIOUS
  <1>1. Receipts = {}
    <2>1. ASSUME NEW c \in Calls, Failed(c) PROVE FALSE
      <3>1. /\ call[c] = "idle" /\ \A r \in Requests : Len(outcomes[r]) = 0
            /\ \A s \in Streams : status[s] = 0
        BY EmptySeq DEF Init, StubInit, Chat!Init
      <3> QED
        BY <2>1, <3>1 DEF Failed
    <2> QED
      BY <2>1 DEF Receipts
  <1>2. Cardinality(Receipts) = 0 /\ injected = 0
    BY <1>1, FS_EmptySet DEF Init
  <1>3. \A r \in Requests : Len(outcomes[r]) = 0
    BY EmptySeq DEF Init, Chat!Init
  <1> QED
    BY <1>2, <1>3 DEF FaultsCounted

\* Whoever receives no new fault leaves the count.
LEMMA NoNewReceipt ==
  ASSUME StubInv, FaultsCounted, Receipts' \subseteq Receipts, UNCHANGED injected
  PROVE  Cardinality(Receipts') <= injected'
  <1>1. Cardinality(Receipts') <= Cardinality(Receipts)
    BY ReceiptsFinite, FS_Subset
  <1>2. Cardinality(Receipts) \in Nat /\ Cardinality(Receipts') \in Nat /\ injected \in Nat
    BY ReceiptsFinite, FS_CardinalityType DEF StubInv
  <1> QED
    BY <1>1, <1>2 DEF FaultsCounted

LEMMA OneNewReceipt ==
  ASSUME StubInv, FaultsCounted, NEW c, Receipts' \subseteq Receipts \cup {c}, injected' = injected + 1
  PROVE  Cardinality(Receipts') <= injected'
  <1>1. /\ IsFiniteSet(Receipts \cup {c}) /\ Cardinality(Receipts \cup {c}) <= Cardinality(Receipts) + 1
    <2>1. Cardinality(Receipts) \in Nat
      BY ReceiptsFinite, FS_CardinalityType
    <2>2. /\ IsFiniteSet(Receipts \cup {c})
          /\ Cardinality(Receipts \cup {c})
               = IF c \in Receipts THEN Cardinality(Receipts) ELSE Cardinality(Receipts) + 1
      BY ReceiptsFinite, FS_AddElement
    <2> QED
      BY <2>1, <2>2
  <1>2. Cardinality(Receipts') <= Cardinality(Receipts \cup {c})
    BY <1>1, FS_Subset
  <1>3. /\ Cardinality(Receipts) \in Nat /\ Cardinality(Receipts') \in Nat /\ injected \in Nat
        /\ Cardinality(Receipts \cup {c}) \in Nat
    BY <1>1, ReceiptsFinite, FS_CardinalityType DEF StubInv
  <1> QED
    BY <1>1, <1>2, <1>3 DEF FaultsCounted

\* A call is a request's attempt or a stream's only one.
LEMMA CallPair ==
  ASSUME NEW c \in Calls
  PROVE  c = <<c[1], c[2]>> /\ (c[1] \in Requests \/ (c[1] \in Streams /\ c[2] = 1))
  BY StubbedAssumption

\* The stub's reply ends the attempt that its call belongs to.
LEMMA RepliedGrows ==
  ASSUME Proved!IInv, StubInv, NEW c \in Calls, RequestReplied(c)
  PROVE  /\ c[1] \in Requests /\ Grows(c[1], Reply(code[c])) /\ Reply(code[c]) \in {"ok", "rate_limited", "transient"}
         /\ c[2] = Len(outcomes[c[1]]) + 1 /\ pc[c[1]] = "calling" /\ attempt[c[1]] = c[2]
         /\ call[c] = "answered" /\ code[c] \in {200, 429, 500}
         /\ Sent(c) /\ UNCHANGED <<streamVars, historyVars>>
  <1>1. /\ c[1] \in Requests /\ Waits(c) /\ call[c] = "answered" /\ Sent(c)
        /\ Chat!UpstreamReplies(c[1], Reply(code[c])) /\ UNCHANGED <<streamVars, historyVars>>
    BY DEF RequestReplied
  <1>2. code[c] \in {200, 429, 500}
    BY <1>1 DEF StubInv, StubTypeOK
  <1>3. Grows(c[1], Reply(code[c])) /\ pc[c[1]] = "calling"
        /\ Reply(code[c]) \in {"ok", "rate_limited", "transient"}
    BY <1>1 DEF Chat!UpstreamReplies, Chat!AttemptEnds, Grows
  <1>4. attempt[c[1]] = c[2]
    BY <1>1, StubbedAssumption DEF Waits
  <1>5. attempt[c[1]] \in 1..MaxAttempts /\ Len(outcomes[c[1]]) = attempt[c[1]] - 1
    BY <1>1, <1>3 DEF Proved!IInv, Proved!Counted
  <1>6. c[2] = Len(outcomes[c[1]]) + 1
    BY <1>4, <1>5, StubbedAssumption
  <1> QED
    BY <1>1, <1>2, <1>3, <1>4, <1>6

\* A completion's failure is received when its attempt ends, not twice.
LEMMA RepliedReceipts ==
  ASSUME Proved!IInv, StubInv, NEW c \in Calls, RequestReplied(c)
  PROVE  Receipts' \subseteq Receipts
  <1> DEFINE r == c[1]
             x == Reply(code[c])
  <1>1. /\ r \in Requests /\ Grows(r, x) /\ c[2] = Len(outcomes[r]) + 1
        /\ call[c] = "answered" /\ code[c] \in {200, 429, 500} /\ Sent(c) /\ UNCHANGED status
        /\ x \in {"ok", "rate_limited", "transient"}
    BY RepliedGrows DEF streamVars
  <1>2. x \in Failing => code[c] \in {429, 500}
    BY <1>1 DEF Reply, Failing
  <1>3. /\ Len(outcomes[r]) \in Nat /\ Len(outcomes'[r]) = Len(outcomes[r]) + 1
        /\ \A i \in 1..Len(outcomes[r]) : outcomes'[r][i] = outcomes[r][i]
        /\ outcomes'[r][Len(outcomes[r]) + 1] = x
        /\ \A z \in Requests \ {r} : outcomes'[z] = outcomes[z]
    <2>1. x \in Proved!Outcomes /\ Proved!TypeOK
      BY <1>1 DEF Proved!Outcomes, Proved!ReplyKinds, Proved!IInv
    <2> HIDE DEF r, x
    <2> QED
      BY <1>1, <2>1, GrownOutcomes
  <1>4. ASSUME NEW z \in Calls, Failed(z)' PROVE Failed(z)
    <2>1. CASE call'[z] = "answered" /\ code'[z] \in {429, 500}
      BY <1>1, <2>1, SentInv DEF Failed
    <2>2. CASE z[1] \in Requests /\ z[2] \in 1..Len(outcomes'[z[1]]) /\ outcomes'[z[1]][z[2]] \in Failing
      <3>1. CASE z[1] # r
        BY <1>3, <2>2, <3>1 DEF Failed
      <3>2. CASE z[1] = r /\ z[2] # c[2]
        <4>1. z[2] \in 1..Len(outcomes[r])
          BY <1>1, <1>3, <2>2, <3>2
        <4> QED
          BY <1>3, <2>2, <3>2, <4>1 DEF Failed
      <3>3. CASE z[1] = r /\ z[2] = c[2]
        <4>1. z = c
          BY <3>3, CallPair
        <4>2. x \in Failing
          BY <1>1, <1>3, <2>2, <3>3
        <4> QED
          BY <1>1, <1>2, <4>1, <4>2 DEF Failed
      <3> QED
        BY <3>1, <3>2, <3>3
    <2>3. CASE z[1] \in Streams /\ status'[z[1]] \in {429, 502}
      BY <1>1, <2>3 DEF Failed
    <2> QED
      BY <1>4, <2>1, <2>2, <2>3 DEF Failed
  <1> QED
    BY <1>4 DEF Receipts

\* A decision of the stub is one more fault, or none.
LEMMA DecidedReceipts ==
  ASSUME StubInv, FaultsCounted, NEW c \in Calls, CallArrives(c) \/ CallWakes(c)
  PROVE  Cardinality(Receipts') <= injected'
  <1>1. /\ UNCHANGED <<outcomes, status>>
        /\ injected' = IF code'[c] \in {429, 500} THEN injected + 1 ELSE injected
    BY DEF CallArrives, CallWakes, chatVars, streamVars, CountsFault
  <1>2. \A z \in Calls \ {c} : call'[z] = call[z] /\ code'[z] = code[z]
    BY ArriveInv, DecideInv DEF CallArrives, CallWakes, SleepEnds
  <1>3. Receipts' \subseteq Receipts \cup {c}
    BY <1>1, <1>2 DEF Receipts, Failed
  <1>4. CASE code'[c] \in {429, 500}
    BY <1>1, <1>3, <1>4, OneNewReceipt
  <1>5. CASE code'[c] \notin {429, 500}
    <2>1. Failed(c)' => Failed(c)
      BY <1>1, <1>5 DEF Failed
    <2>2. Receipts' \subseteq Receipts
      BY <1>3, <2>1 DEF Receipts
    <2> QED
      BY <1>1, <1>5, <2>2, NoNewReceipt
  <1> QED
    BY <1>4, <1>5

\* A stream's failure is received when the stream is refused.
LEMMA StreamReceipts ==
  ASSUME StubInv, RelayInv, NEW s \in Streams, StreamStep(s)
  PROVE  Receipts' \subseteq Receipts /\ UNCHANGED <<injected, outcomes>>
  <1>1. <<s, 1>> \in Calls
    BY StubbedAssumption
  <1>2. CASE StreamRefused(s)
    <2>1. /\ status' = [status EXCEPT ![s] = IF code[<<s, 1>>] = 429 THEN 429 ELSE 502]
          /\ code[<<s, 1>>] \in {429, 500} /\ Sent(<<s, 1>>) /\ UNCHANGED <<chatVars, historyVars>>
      BY <1>2 DEF StreamRefused, StreamFails
    <2>2. Failed(<<s, 1>>)
      BY <1>1, <2>1, SentInv DEF Failed
    <2>3. ASSUME NEW z \in Calls, Failed(z)' PROVE Failed(z)
      <3>1. CASE z = <<s, 1>>
        BY <2>2, <3>1
      <3>2. CASE z # <<s, 1>>
        <4>1. call'[z] = call[z] /\ code'[z] = code[z]
          BY <1>1, <2>1, <3>2, SentInv
        <4>2. z[1] # s \/ z[1] \notin Streams
          BY <3>2, CallPair, StubbedAssumption
        <4>3. z[1] \in Streams => status'[z[1]] = status[z[1]]
          BY <2>1, <4>2 DEF RelayInv, StreamType
        <4> QED
          BY <2>1, <2>3, <4>1, <4>3 DEF Failed, chatVars
      <3> QED
        BY <3>1, <3>2
    <2> QED
      BY <2>1, <2>3 DEF Receipts, historyVars, chatVars
  <1>3. CASE StreamAnswered(s)
    <2>1. Sent(<<s, 1>>) /\ UNCHANGED <<chatVars, status, historyVars>>
      BY <1>3 DEF StreamAnswered
    <2>2. \A z \in Calls : call'[z] = "answered" => call[z] = "answered" /\ code'[z] = code[z]
      BY <1>1, <2>1, SentInv
    <2> QED
      BY <2>1, <2>2 DEF Receipts, Failed, chatVars, historyVars
  <1>4. CASE \/ StreamOpened(s) \/ StreamTimesOut(s) \/ FirstPull(s) \/ BodyStarts(s)
             \/ Relays(s) \/ StreamDone(s) \/ StreamBreaks(s)
    <2>1. /\ UNCHANGED <<stubVars, chatVars, historyVars>>
          /\ \/ status' = status
             \/ \E n \in {200, 500, 504} : status' = [status EXCEPT ![s] = n]
      <3>1. CASE StreamOpened(s) \/ FirstPull(s) \/ Relays(s) \/ StreamDone(s) \/ StreamBreaks(s)
        BY <3>1 DEF StreamOpened, FirstPull, Relays, StreamDone, StreamBreaks
      <3>2. CASE StreamTimesOut(s)
        <4>1. UNCHANGED <<stubVars, chatVars, historyVars>>
          BY <3>2 DEF StreamTimesOut
        <4>2. status' = [status EXCEPT ![s] = 504] \/ status' = [status EXCEPT ![s] = 500]
          BY <3>2 DEF StreamTimesOut, StreamFails
        <4> QED
          BY <4>1, <4>2
      <3>3. CASE BodyStarts(s)
        BY <3>3 DEF BodyStarts
      <3> QED
        BY <1>4, <3>1, <3>2, <3>3
    <2>2. \A z \in Streams : status'[z] \in {429, 502} => status[z] \in {429, 502}
      BY <2>1 DEF RelayInv, StreamType
    <2> QED
      BY <2>1, <2>2 DEF Receipts, Failed, stubVars, chatVars, historyVars
  <1> QED
    BY <1>2, <1>3, <1>4 DEF StreamStep

\* A timeout of the gateway is no fault, and no other step of its own ends
\* an attempt.
LEMMA GoesOnReceipts ==
  ASSUME Proved!IInv, NEW r \in Requests, RequestGoesOn(r)
  PROVE  /\ Receipts' \subseteq Receipts /\ UNCHANGED injected
         /\ Grows(r, "timeout") \/ UNCHANGED outcomes
  <1>1. UNCHANGED <<stubVars, streamVars, historyVars>>
    BY DEF RequestGoesOn
  <1>2. Grows(r, "timeout") \/ UNCHANGED outcomes
    BY DEF RequestGoesOn, Chat!AttemptTimesOut, Chat!AttemptEnds, Chat!Wake, Chat!BudgetExpires, Grows
  <1>3. CASE Grows(r, "timeout")
    <2>1. /\ Len(outcomes[r]) \in Nat /\ Len(outcomes'[r]) = Len(outcomes[r]) + 1
          /\ \A i \in 1..Len(outcomes[r]) : outcomes'[r][i] = outcomes[r][i]
          /\ outcomes'[r][Len(outcomes[r]) + 1] = "timeout"
          /\ \A z \in Requests \ {r} : outcomes'[z] = outcomes[z]
      BY <1>3, GrownOutcomes DEF Proved!Outcomes, Proved!IInv
    <2>2. \A z \in Requests : \A i \in 1..Len(outcomes'[z]) :
             outcomes'[z][i] \in Failing => i \in 1..Len(outcomes[z]) /\ outcomes[z][i] \in Failing
      BY <2>1 DEF Failing
    <2> QED
      BY <1>1, <1>3, <2>2 DEF Receipts, Failed, stubVars, streamVars, historyVars
  <1>4. CASE UNCHANGED outcomes
    BY <1>1, <1>4 DEF Receipts, Failed, stubVars, streamVars, historyVars
  <1> QED
    BY <1>2, <1>3, <1>4

LEMMA CountedStep ==
  Proved!IInv /\ StubInv /\ RelayInv /\ FaultsCounted /\ [Next]_vars => FaultsCounted'
  <1> SUFFICES ASSUME Proved!IInv, StubInv, RelayInv, FaultsCounted, [Next]_vars PROVE FaultsCounted'
    OBVIOUS
  <1>1. ASSUME UNCHANGED outcomes, Cardinality(Receipts') <= injected' PROVE FaultsCounted'
    BY <1>1 DEF FaultsCounted
  <1>2. ASSUME NEW r \in Requests, NEW x \in {"ok", "rate_limited", "transient", "timeout"}, Grows(r, x),
               Cardinality(Receipts') <= injected'
        PROVE  FaultsCounted'
    <2>1. /\ Len(outcomes[r]) \in Nat /\ Len(outcomes'[r]) = Len(outcomes[r]) + 1
          /\ \A i \in 1..Len(outcomes[r]) : outcomes'[r][i] = outcomes[r][i]
          /\ outcomes'[r][Len(outcomes[r]) + 1] = x
          /\ \A z \in Requests \ {r} : outcomes'[z] = outcomes[z]
      BY <1>2, GrownOutcomes DEF Proved!Outcomes, Proved!ReplyKinds, Proved!IInv
    <2>2. ASSUME NEW z \in Requests, NEW i \in 1..Len(outcomes'[z])
          PROVE  outcomes'[z][i] \in {"ok", "rate_limited", "transient", "timeout"}
      <3>1. CASE z = r /\ i = Len(outcomes[r]) + 1
        BY <1>2, <2>1, <3>1
      <3>2. CASE z = r /\ i # Len(outcomes[r]) + 1
        <4>1. i \in 1..Len(outcomes[r])
          BY <2>1, <3>2
        <4> QED
          BY <2>1, <3>2, <4>1 DEF FaultsCounted
      <3>3. CASE z # r
        BY <2>1, <3>3 DEF FaultsCounted
      <3> QED
        BY <3>1, <3>2, <3>3
    <2> QED
      BY <1>2, <2>2 DEF FaultsCounted
  <1>3. ASSUME NEW c \in Calls, CallArrives(c) \/ CallWakes(c) PROVE FaultsCounted'
    BY <1>1, <1>3, DecidedReceipts DEF CallArrives, CallWakes, chatVars
  <1>4. ASSUME NEW c \in Calls, AnswerDropped(c) PROVE FaultsCounted'
    <2>1. Sent(c) /\ UNCHANGED <<chatVars, streamVars, historyVars>>
      BY <1>4 DEF AnswerDropped
    <2>2. \A z \in Calls : call'[z] = "answered" => call[z] = "answered" /\ code'[z] = code[z]
      BY <2>1, SentInv
    <2>3. Receipts' \subseteq Receipts
      BY <2>1, <2>2 DEF Receipts, Failed, chatVars, streamVars
    <2> QED
      BY <1>1, <2>1, <2>3, NoNewReceipt DEF chatVars, historyVars
  <1>5. ASSUME NEW c \in Calls, RequestReplied(c) PROVE FaultsCounted'
    <2>1. UNCHANGED injected
      BY <1>5 DEF RequestReplied, historyVars
    <2>2. Cardinality(Receipts') <= injected'
      BY <1>5, <2>1, RepliedReceipts, NoNewReceipt
    <2> QED
      BY <1>2, <1>5, <2>2, RepliedGrows
  <1>6. ASSUME NEW r \in Requests, RequestGoesOn(r) PROVE FaultsCounted'
    BY <1>1, <1>2, <1>6, GoesOnReceipts, NoNewReceipt
  <1>7. ASSUME NEW s \in Streams, StreamStep(s) PROVE FaultsCounted'
    BY <1>1, <1>7, StreamReceipts, NoNewReceipt
  <1>8. ASSUME UNCHANGED <<call, code, outcomes, status, injected>> PROVE FaultsCounted'
    <2>1. Receipts' \subseteq Receipts
      BY <1>8 DEF Receipts, Failed
    <2> QED
      BY <1>1, <1>8, <2>1, NoNewReceipt
  <1>9. CASE FaultsPosted
    BY <1>8, <1>9 DEF FaultsPosted, SetFaults, chatVars, streamVars
  <1>10. ASSUME NEW r \in Requests, RequestAccepted(r) PROVE FaultsCounted'
    BY <1>8, <1>10 DEF RequestAccepted, Chat!Accept, stubVars, streamVars
  <1>11. CASE Tick
    BY <1>8, <1>11 DEF Tick, Chat!Tick, StubTime, chatVars, streamVars, historyVars
  <1>12. CASE UNCHANGED vars
    BY <1>8, <1>12 DEF vars, stubVars, chatVars, streamVars, historyVars
  <1> QED
    BY <1>3, <1>4, <1>5, <1>6, <1>7, <1>9, <1>10, <1>11, <1>12 DEF Next, StreamStep

LEMMA CountedInvariance == Spec => []FaultsCounted
  BY CountedInit, CountedStep, ChatInvariance, StubInvariance, RelayInvariance, PTL DEF Spec

FailedRequests == {r \in Requests : answer[r] \in {429, 502}}
FailedStreams == {s \in Streams : status[s] \in {429, 502}}

\* A completion that failed has had every attempt it could make fail.
LEMMA FailedSpentAll ==
  ASSUME Proved!IInv, FaultsCounted, NEW r \in FailedRequests, NEW i \in 1..MaxAttempts
  PROVE  <<r, i>> \in Receipts
  <1>1. r \in Requests /\ answer[r] \in {429, 502}
    BY DEF FailedRequests
  <1>2. pc[r] = "answered"
    BY <1>1 DEF Proved!IInv, Proved!Silent
  <1>3. Proved!Explained(r) /\ Proved!Counted(r)
    BY <1>1, <1>2 DEF Proved!IInv, Proved!AnswerExplained
  <1> DEFINE n == Len(outcomes[r])
  <1>4. outcomes[r] \in Seq(Proved!Outcomes) /\ n \in Nat
    BY <1>1 DEF Proved!IInv, Proved!TypeOK
  <1>5. \A k \in 1..n : outcomes[r][k] \in {"ok", "rate_limited", "transient", "timeout"}
    BY <1>1 DEF FaultsCounted
  <1>6. n = MaxAttempts /\ outcomes[r][n] \in Failing
    <2>1. outcomes[r] # <<>> /\ n = attempt[r]
          /\ \/ outcomes[r][n] \in {"rate_limited", "retry_after"} /\ attempt[r] = MaxAttempts
             \/ outcomes[r][n] = "transient" /\ attempt[r] = MaxAttempts
             \/ outcomes[r][n] = "client_error"
      BY <1>1, <1>3 DEF Proved!Explained, Proved!LastOutcome
    <2>2. n \in 1..n
      BY <1>4, <2>1, EmptySeq
    <2>3. outcomes[r][n] \in {"ok", "rate_limited", "transient", "timeout"}
      BY <1>5, <2>2
    <2> QED
      BY <2>1, <2>3 DEF Failing
  <1>7. i < n => outcomes[r][i] \in Failing
    <2> SUFFICES ASSUME i < n PROVE outcomes[r][i] \in Failing
      OBVIOUS
    <2>1. i \in 1..n
      BY <1>6
    <2>2. Proved!IsRetryable(outcomes[r][i])
      BY <1>3, <2>1 DEF Proved!Counted
    <2> QED
      BY <1>5, <2>1, <2>2 DEF Proved!IsRetryable, Failing
  <1>8. i \in 1..n /\ outcomes[r][i] \in Failing
    BY <1>4, <1>6, <1>7, StubbedAssumption
  <1>9. <<r, i>> \in Calls
    BY <1>1, StubbedAssumption
  <1> QED
    BY <1>1, <1>8, <1>9 DEF Receipts, Failed

\* Concurrent completions and streams share one fault budget, and no fault is
\* counted twice: as many faults as it takes attempts to fail a completion are
\* gone for each one that failed, whatever the test posts in between.
THEOREM FewFaultsAlwaysMasked == Spec => []FewFaultsMasked
  <1>1. Proved!IInv /\ StubInv /\ FaultsCounted => FewFaultsMasked
    <2> SUFFICES ASSUME Proved!IInv, StubInv, FaultsCounted PROVE FewFaultsMasked
      OBVIOUS
    <2> DEFINE F == FailedRequests \X (1..MaxAttempts)
               G == FailedStreams \X {1}
    <2>1. IsFiniteSet(FailedRequests) /\ IsFiniteSet(FailedStreams)
      BY StubbedAssumption, FS_Subset DEF FailedRequests, FailedStreams
    <2>2. /\ IsFiniteSet(F) /\ Cardinality(F) = Cardinality(FailedRequests) * MaxAttempts
          /\ IsFiniteSet(G) /\ Cardinality(G) = Cardinality(FailedStreams)
      <3>1. IsFiniteSet(1..MaxAttempts) /\ Cardinality(1..MaxAttempts) = MaxAttempts
        <4>1. 1 \in Int /\ MaxAttempts \in Int /\ ~(1 > MaxAttempts) /\ MaxAttempts - 1 + 1 = MaxAttempts
          BY StubbedAssumption
        <4>2. Cardinality(1..MaxAttempts) = IF 1 > MaxAttempts THEN 0 ELSE MaxAttempts - 1 + 1
          BY <4>1, FS_Interval
        <4> QED
          BY <4>1, <4>2, FS_Interval
      <3>2. IsFiniteSet({1}) /\ Cardinality({1}) = 1
        BY FS_Singleton
      <3>3. Cardinality(G) = Cardinality(FailedStreams) * 1 /\ IsFiniteSet(G)
        BY <2>1, <3>2, FS_Product
      <3>4. Cardinality(FailedStreams) \in Nat
        BY <2>1, FS_CardinalityType
      <3>5. Cardinality(F) = Cardinality(FailedRequests) * MaxAttempts /\ IsFiniteSet(F)
        BY <2>1, <3>1, FS_Product
      <3> QED
        BY <3>3, <3>4, <3>5
    <2>3. F \cap G = {}
      BY StubbedAssumption DEF FailedRequests, FailedStreams
    <2>4. F \subseteq Receipts
      BY FailedSpentAll
    <2>5. G \subseteq Receipts
      BY StubbedAssumption DEF FailedStreams, Receipts, Failed
    <2> HIDE DEF F, G
    <2>6. Cardinality(F \cup G) = Cardinality(F) + Cardinality(G)
      <3>1. Cardinality(F \cup G) = Cardinality(F) + Cardinality(G) - Cardinality({})
        BY <2>2, <2>3, FS_Union
      <3>2. Cardinality(F) \in Nat /\ Cardinality(G) \in Nat /\ Cardinality({}) = 0
        BY <2>2, FS_CardinalityType, FS_EmptySet
      <3> QED
        BY <3>1, <3>2
    <2>7. Cardinality(F \cup G) <= Cardinality(Receipts)
      BY <2>4, <2>5, ReceiptsFinite, FS_Subset
    <2>8. /\ Cardinality(FailedRequests) \in Nat /\ Cardinality(FailedStreams) \in Nat
          /\ Cardinality(Receipts) \in Nat /\ injected \in Nat /\ MaxAttempts \in Nat
      BY <2>1, ReceiptsFinite, FS_CardinalityType, StubbedAssumption DEF StubInv
    <2>9. Cardinality(FailedRequests) * MaxAttempts + Cardinality(FailedStreams) <= injected
      BY <2>2, <2>6, <2>7, <2>8 DEF FaultsCounted
    <2> QED
      BY <2>8, <2>9 DEF FewFaultsMasked, FailedRequests, FailedStreams
  <1> QED
    BY <1>1, ChatInvariance, StubInvariance, CountedInvariance, PTL
-----------------------------------------------------------------------------
(* Forced failures: what is left of the budget a lone request has met.     *)

Me(r) == <<r, attempt[r]>>

Undisturbed(r) == alone[r] /\ forced[r] > 0 /\ \A i \in 1..Len(outcomes[r]) : outcomes[r][i] # "timeout"

\* How often the stub has decided on the request's calls.
Decided(r) == IF call[Me(r)] = "answered" THEN Len(outcomes[r]) + 1 ELSE Len(outcomes[r])

\* The stub has nobody else to answer, its budget is what the request has left
\* of it, and a failure is on its way while there was a budget.
HasStub(r) ==
    /\ \A c \in Calls : call[c] # "idle" => c = Me(r) /\ pc[r] = "calling"
    /\ faults.failNext = IF forced[r] > Decided(r) THEN forced[r] - Decided(r) ELSE 0
    /\ call[Me(r)] = "answered" /\ Decided(r) <= forced[r] => code[Me(r)] = 500

Forced(r) == \A i \in 1..Len(outcomes[r]) : i <= forced[r] => outcomes[r][i] = "transient"

Marked(r) == Undisturbed(r) /\ pc[r] # "new" => Forced(r) /\ (Chat!Active(r) => HasStub(r))

ForcedInv == \A r \in Requests : Marked(r)

LEMMA ForcedInit == Init => ForcedInv
  BY DEF Init, Chat!Init, ForcedInv, Marked

\* Nothing of the request itself changes.
Keeps(r) == UNCHANGED <<pc[r], attempt[r], outcomes[r], forced[r]>>

\* Whoever has the stub to itself makes every call that is not idle.
LEMMA OnlyMine ==
  ASSUME ForcedInv, NEW r \in Requests, Undisturbed(r), Chat!Active(r), NEW c \in Calls, call[c] # "idle"
  PROVE  c = Me(r) /\ pc[r] = "calling"
  BY DEF ForcedInv, Marked, HasStub, Chat!Active

\* Steps that leave the stub alone, or the request out of it.
LEMMA MarkedKept ==
  ASSUME ForcedInv, NEW r \in Requests, Keeps(r), alone'[r] => alone[r],
         Chat!Active(r) /\ Undisturbed(r) /\ alone'[r] =>
            UNCHANGED <<call, code, faults>>
  PROVE  Marked(r)'
  <1> SUFFICES ASSUME Undisturbed(r)', pc'[r] # "new" PROVE Forced(r)' /\ (Chat!Active(r)' => HasStub(r)')
    BY DEF Marked
  <1>1. Undisturbed(r) /\ pc[r] # "new" /\ alone'[r]
    BY DEF Undisturbed, Keeps
  <1>2. Forced(r) /\ (Chat!Active(r) => HasStub(r))
    BY <1>1 DEF ForcedInv, Marked
  <1>3. Forced(r)'
    BY <1>2 DEF Forced, Keeps
  <1>4. ASSUME Chat!Active(r)' PROVE HasStub(r)'
    <2>1. Chat!Active(r)
      BY <1>4 DEF Chat!Active, Keeps
    <2>2. UNCHANGED <<call, code, faults>> /\ HasStub(r)
      BY <1>1, <1>2, <2>1
    <2> QED
      BY <2>2 DEF HasStub, Decided, Me, Keeps
  <1> QED
    BY <1>3, <1>4

\* The stub decides on a call of the request itself, or it is not alone.
LEMMA MarkedDecides ==
  ASSUME Proved!IInv, StubInv, ForcedInv, NEW r \in Requests, NEW c \in Calls, CallArrives(c) \/ CallWakes(c)
  PROVE  Marked(r)'
  <1>1. UNCHANGED <<pc, attempt, outcomes, forced>>
    BY DEF CallArrives, CallWakes, chatVars
  <1>2. alone'[r] = (alone[r] /\ (r = c[1] \/ ~Chat!Active(r)))
    BY DEF CallArrives, CallWakes, Meets
  <1>3. CASE ~Chat!Active(r) \/ ~Undisturbed(r) \/ r # c[1]
    <2>1. alone'[r] => alone[r]
      BY <1>2
    <2>2. ~(Chat!Active(r) /\ Undisturbed(r) /\ alone'[r])
      BY <1>2, <1>3
    <2> QED
      BY <1>1, <2>1, <2>2, MarkedKept DEF Keeps
  <1>4. CASE Chat!Active(r) /\ Undisturbed(r) /\ r = c[1]
    <2> DEFINE n == Len(outcomes[r])
    <2>1. n \in Nat /\ forced[r] \in Nat /\ faults.failNext \in Nat
      BY DEF Proved!IInv, Proved!TypeOK, StubInv, StubTypeOK, FaultConfig
    <2>2. Forced(r) /\ HasStub(r)
      BY <1>4 DEF ForcedInv, Marked, Chat!Active
    <2>3. c = Me(r) /\ pc[r] = "calling" /\ call[c] # "answered"
      <3>1. CASE CallArrives(c)
        BY <1>4, <3>1, CallPair, StubbedAssumption DEF CallArrives, Arrive, Waits, Me
      <3>2. CASE CallWakes(c)
        BY <1>4, <3>2, OnlyMine DEF CallWakes, SleepEnds
      <3> QED
        BY <3>1, <3>2
    <2>4. faults.failNext = IF forced[r] > n THEN forced[r] - n ELSE 0
      BY <2>2, <2>3 DEF HasStub, Decided
    <2>5. \A z \in Calls \ {c} : call'[z] = "idle"
      <3>1. \A z \in Calls \ {c} : call'[z] = call[z]
        BY ArriveInv, DecideInv DEF CallArrives, CallWakes, SleepEnds
      <3> QED
        BY <1>4, <2>3, <3>1, OnlyMine
    <2>6. CASE Decide(c)
      <3>1. call'[c] = "answered"
        BY <2>6, DecideInv
      <3>2. CASE faults.failNext > 0
        <4>1. code'[c] = 500 /\ faults'.failNext = faults.failNext - 1
          BY <2>6, <3>2 DEF Decide, StubInv, StubTypeOK, FaultConfig
        <4>2. faults'.failNext = IF forced[r] > n + 1 THEN forced[r] - (n + 1) ELSE 0
          BY <2>1, <2>4, <3>2, <4>1
        <4> QED
          BY <1>1, <2>2, <2>3, <2>5, <3>1, <4>1, <4>2 DEF Marked, Forced, HasStub, Decided, Me
      <3>3. CASE ~(faults.failNext > 0)
        <4>1. faults' = faults
          BY <2>6, <3>3 DEF Decide
        <4>2. /\ ~(n + 1 <= forced[r])
              /\ faults'.failNext = IF forced[r] > n + 1 THEN forced[r] - (n + 1) ELSE 0
          BY <2>1, <2>4, <3>3, <4>1
        <4> QED
          BY <1>1, <2>2, <2>3, <2>5, <3>1, <4>2 DEF Marked, Forced, HasStub, Decided, Me
      <3> QED
        BY <3>2, <3>3
    <2>7. CASE ~Decide(c)
      <3>1. call' = [call EXCEPT ![c] = "asleep"] /\ UNCHANGED <<faults, code>>
        BY <2>7 DEF CallArrives, CallWakes, Arrive, SleepEnds
      <3>2. call'[c] # "answered"
        BY <3>1 DEF StubInv, StubTypeOK
      <3> QED
        BY <1>1, <2>2, <2>3, <2>4, <2>5, <3>1, <3>2 DEF Marked, Forced, HasStub, Decided, Me
    <2> QED
      BY <2>6, <2>7
  <1> QED
    BY <1>3, <1>4

LEMMA MeIsCall ==
  ASSUME Proved!IInv, NEW r \in Requests, Chat!Active(r)
  PROVE  Me(r) \in Calls /\ attempt[r] \in 1..MaxAttempts
  BY StubbedAssumption DEF Proved!IInv, Proved!Counted, Chat!Active, Me

\* The stub's reply to the request's own call.
LEMMA MarkedReplied ==
  ASSUME Proved!IInv, StubInv, ForcedInv, NEW c \in Calls, RequestReplied(c)
  PROVE  Marked(c[1])'
  <1> DEFINE r == c[1]
             n == Len(outcomes[r])
             x == Reply(code[c])
  <1>1. /\ r \in Requests /\ Grows(r, x) /\ x \in {"ok", "rate_limited", "transient"}
        /\ pc[r] = "calling" /\ c = Me(r)
        /\ call[c] = "answered" /\ Sent(c) /\ UNCHANGED historyVars
    BY RepliedGrows, CallPair DEF Me
  <1>2. /\ n \in Nat /\ Len(outcomes'[r]) = n + 1
        /\ \A i \in 1..n : outcomes'[r][i] = outcomes[r][i]
        /\ outcomes'[r][n + 1] = x
    <2>1. x \in Proved!Outcomes /\ Proved!TypeOK
      BY <1>1 DEF Proved!Outcomes, Proved!ReplyKinds, Proved!IInv
    <2> HIDE DEF r, x
    <2> QED
      BY <1>1, <2>1, GrownOutcomes DEF n
  <1> HIDE DEF n, x
  <1> SUFFICES ASSUME Undisturbed(r)' PROVE Forced(r)' /\ (Chat!Active(r)' => HasStub(r)')
    BY DEF Marked
  <1>3. Undisturbed(r)
    <2>1. \A i \in 1..n : i \in 1..Len(outcomes'[r])
      BY <1>2
    <2> QED
      BY <1>1, <1>2, <2>1 DEF Undisturbed, historyVars, n
  <1>4. Forced(r) /\ HasStub(r) /\ Chat!Active(r)
    BY <1>1, <1>3 DEF ForcedInv, Marked, Chat!Active
  <1>5. n + 1 <= forced[r] => x = "transient"
    BY <1>1, <1>4 DEF HasStub, Decided, Reply, n, x
  <1>6. Forced(r)'
    <2>1. forced[r] \in Nat /\ forced' = forced
      BY <1>1 DEF StubInv, historyVars
    <2>2. ASSUME NEW i \in 1..(n + 1), i <= forced[r] PROVE outcomes'[r][i] = "transient"
      <3>1. CASE i = n + 1
        BY <1>2, <1>5, <2>2, <3>1
      <3>2. CASE i # n + 1
        <4>1. i \in 1..n
          BY <1>2, <3>2
        <4> QED
          BY <1>2, <1>4, <2>2, <4>1 DEF Forced, n
      <3> QED
        BY <3>1, <3>2
    <2> QED
      BY <1>2, <2>1, <2>2 DEF Forced
  <1>7. ASSUME Chat!Active(r)' PROVE HasStub(r)'
    <2>1. attempt'[r] = attempt[r] /\ faults' = faults /\ forced' = forced
      <3>1. Chat!UpstreamReplies(r, Reply(code[c]))
        BY DEF RequestReplied
      <3> QED
        BY <1>1, <3>1 DEF Chat!UpstreamReplies, Chat!AttemptEnds, Chat!Answer, Chat!Sleep, Sent, historyVars
    <2>2. \A z \in Calls : call'[z] = "idle"
      <3>1. \A z \in Calls \ {c} : call[z] = "idle"
        BY <1>1, <1>3, <1>4, OnlyMine
      <3> QED
        BY <1>1, <3>1, SentInv
    <2>3. Decided(r) = n + 1 /\ Decided(r)' = n + 1
      <3>1. Me(r)' = Me(r)
        BY <2>1 DEF Me
      <3> QED
        BY <1>1, <1>2, <2>2, <3>1 DEF Decided, n
    <2> QED
      BY <1>1, <1>4, <2>1, <2>2, <2>3 DEF HasStub, Me
  <1> QED
    BY <1>6, <1>7

\* The next attempt begins when every call has been answered.
LEMMA MarkedGoesOn ==
  ASSUME Proved!IInv, StubInv, ForcedInv, NEW r \in Requests, RequestGoesOn(r)
  PROVE  Marked(r)'
  <1>1. UNCHANGED <<stubVars, historyVars>>
    BY DEF RequestGoesOn
  <1>2. CASE Chat!AttemptTimesOut(r)
    <2>1. /\ Len(outcomes[r]) \in Nat /\ Len(outcomes'[r]) = Len(outcomes[r]) + 1
          /\ outcomes'[r][Len(outcomes[r]) + 1] = "timeout"
      BY <1>2, GrownOutcomes DEF Chat!AttemptTimesOut, Chat!AttemptEnds, Grows, Proved!Outcomes, Proved!IInv
    <2>2. ~Undisturbed(r)'
      BY <2>1 DEF Undisturbed
    <2> QED
      BY <2>2 DEF Marked
  <1>3. CASE Chat!Wake(r)
    <2>1. pc[r] = "sleeping" /\ Chat!Active(r) /\ UNCHANGED <<outcomes, forced, alone, call, code, faults>>
      BY <1>1, <1>3 DEF Chat!Wake, Chat!Active, stubVars, historyVars
    <2>2. pc'[r] = "calling" /\ attempt'[r] = attempt[r] + 1
      BY <1>3 DEF Chat!Wake, Proved!IInv, Proved!TypeOK
    <2> SUFFICES ASSUME Undisturbed(r) PROVE Forced(r)' /\ HasStub(r)'
      BY <2>1 DEF Marked, Undisturbed
    <2>3. Forced(r) /\ HasStub(r)
      BY <2>1 DEF ForcedInv, Marked
    <2>4. \A c \in Calls : call[c] = "idle"
      BY <2>1, OnlyMine
    <2>5. Me(r) \in Calls /\ Me(r)' \in Calls
      <3>1. attempt[r] \in 1..(MaxAttempts - 1)
        BY <2>1 DEF Proved!IInv, Proved!Counted
      <3> QED
        BY <2>2, <3>1, StubbedAssumption DEF Me
    <2>6. Decided(r) = Len(outcomes[r]) /\ Decided(r)' = Len(outcomes[r])
      BY <2>1, <2>4, <2>5 DEF Decided
    <2>7. HasStub(r)'
      BY <2>1, <2>3, <2>4, <2>5, <2>6 DEF HasStub
    <2> QED
      BY <2>1, <2>3, <2>7 DEF Forced
  <1>4. CASE Chat!BudgetExpires(r)
    <2>1. /\ Chat!Active(r) /\ UNCHANGED <<outcomes, forced, alone>> /\ pc'[r] = "answered"
      BY <1>1, <1>4 DEF Chat!BudgetExpires, Chat!BudgetDue, Chat!Answer, historyVars, Proved!IInv, Proved!TypeOK
    <2> QED
      BY <2>1 DEF ForcedInv, Marked, Undisturbed, Forced, Chat!Active
  <1> QED
    BY <1>2, <1>3, <1>4 DEF RequestGoesOn

\* A request that is accepted alone meets the whole budget.
LEMMA MarkedAccepted ==
  ASSUME Proved!IInv, StubInv, NEW r \in Requests, RequestAccepted(r)
  PROVE  Marked(r)'
  <1>1. /\ pc[r] = "new" /\ attempt'[r] = 1 /\ pc'[r] = "calling" /\ UNCHANGED <<outcomes, call, code, faults>>
        /\ forced'[r] = faults.failNext /\ (alone'[r] = \A c \in Calls : call[c] = "idle")
    BY DEF RequestAccepted, Chat!Accept, stubVars, Proved!IInv, Proved!TypeOK, StubInv
  <1>2. outcomes[r] = <<>> /\ Len(outcomes[r]) = 0
    BY <1>1, EmptySeq DEF Proved!IInv, Proved!Counted
  <1>3. Forced(r)'
    BY <1>1, <1>2 DEF Forced
  <1>4. ASSUME Undisturbed(r)' PROVE HasStub(r)'
    <2>1. \A c \in Calls : call[c] = "idle"
      BY <1>1, <1>4 DEF Undisturbed
    <2>2. Me(r)' \in Calls
      BY <1>1, StubbedAssumption DEF Me
    <2>3. Decided(r)' = 0
      BY <1>1, <1>2, <2>1, <2>2 DEF Decided
    <2>4. faults.failNext \in Nat /\ forced'[r] = faults.failNext
      BY <1>1 DEF StubInv, StubTypeOK, FaultConfig
    <2>5. faults'.failNext = IF forced'[r] > 0 THEN forced'[r] - 0 ELSE 0
      BY <1>1, <2>4
    <2> QED
      BY <1>1, <2>1, <2>2, <2>3, <2>5 DEF HasStub
  <1> QED
    BY <1>3, <1>4 DEF Marked

\* An answer to somebody else: the request is then not alone.
LEMMA MarkedSent ==
  ASSUME Proved!IInv, StubInv, ForcedInv, NEW r \in Requests, NEW c \in Calls, Sent(c),
         c # Me(r) \/ pc[r] # "calling", Keeps(r), UNCHANGED alone
  PROVE  Marked(r)'
  <1>1. call[c] # "idle"
    BY DEF Sent
  <1>2. ~(Chat!Active(r) /\ Undisturbed(r))
    BY <1>1, OnlyMine
  <1> QED
    BY <1>2, MarkedKept

LEMMA ForcedStep ==
  Proved!IInv /\ StubInv /\ ForcedInv /\ [Next]_vars => ForcedInv'
  <1> SUFFICES ASSUME Proved!IInv, StubInv, ForcedInv, [Next]_vars, NEW r \in Requests PROVE Marked(r)'
    BY DEF ForcedInv
  <1>1. ASSUME NEW c \in Calls, CallArrives(c) \/ CallWakes(c) PROVE Marked(r)'
    BY <1>1, MarkedDecides
  <1>2. ASSUME NEW c \in Calls, AnswerDropped(c) PROVE Marked(r)'
    <2>1. Sent(c) /\ Keeps(r) /\ UNCHANGED alone
      BY <1>2 DEF AnswerDropped, Keeps, chatVars, historyVars
    <2>2. c # Me(r) \/ pc[r] # "calling"
      BY <1>2 DEF AnswerDropped, Waits, Me
    <2> QED
      BY <2>1, <2>2, MarkedSent
  <1>3. ASSUME NEW c \in Calls, RequestReplied(c) PROVE Marked(r)'
    <2>1. CASE r = c[1]
      BY <1>3, <2>1, MarkedReplied
    <2>2. CASE r # c[1]
      <3>1. Sent(c) /\ UNCHANGED historyVars /\ Chat!UpstreamReplies(c[1], Reply(code[c]))
        BY <1>3 DEF RequestReplied
      <3>2. Keeps(r)
        BY <2>2, <3>1 DEF Keeps, historyVars, Chat!UpstreamReplies, Chat!AttemptEnds, Chat!Answer, Chat!Sleep,
                          Proved!IInv, Proved!TypeOK
      <3>3. c # Me(r)
        BY <2>2 DEF Me
      <3> QED
        BY <3>1, <3>2, <3>3, MarkedSent DEF historyVars
    <2> QED
      BY <2>1, <2>2
  <1>4. CASE FaultsPosted
    <2>1. Keeps(r) /\ alone'[r] = (alone[r] /\ ~Chat!Active(r))
      BY <1>4 DEF FaultsPosted, Keeps, chatVars
    <2> QED
      BY <2>1, MarkedKept
  <1>5. ASSUME NEW z \in Requests, RequestAccepted(z) PROVE Marked(r)'
    <2>1. CASE z = r
      BY <1>5, <2>1, MarkedAccepted
    <2>2. CASE z # r
      <3>1. Chat!Accept(z) /\ UNCHANGED <<call, code, faults>> /\ forced' = [forced EXCEPT ![z] = faults.failNext]
        BY <1>5 DEF RequestAccepted, stubVars
      <3>2. alone'[r] = alone[r]
        <4>1. PICK b \in BOOLEAN : alone' = [alone EXCEPT ![z] = b]
          BY <1>5 DEF RequestAccepted
        <4> QED
          BY <2>2, <4>1 DEF StubInv
      <3>3. Keeps(r)
        BY <2>2, <3>1 DEF Chat!Accept, Keeps, Proved!IInv, Proved!TypeOK, StubInv
      <3> QED
        BY <3>1, <3>2, <3>3, MarkedKept
    <2> QED
      BY <2>1, <2>2
  <1>6. ASSUME NEW z \in Requests, RequestGoesOn(z) PROVE Marked(r)'
    <2>1. CASE z = r
      BY <1>6, <2>1, MarkedGoesOn
    <2>2. CASE z # r
      <3>1. UNCHANGED <<call, code, faults, alone, forced>>
        BY <1>6 DEF RequestGoesOn, stubVars, historyVars
      <3>2. Keeps(r)
        BY <1>6, <2>2, <3>1 DEF RequestGoesOn, Keeps, Chat!AttemptTimesOut, Chat!AttemptEnds, Chat!Answer,
             Chat!Sleep, Chat!Wake, Chat!BudgetExpires, Proved!IInv, Proved!TypeOK
      <3> QED
        BY <3>1, <3>2, MarkedKept
    <2> QED
      BY <2>1, <2>2
  <1>7. CASE Tick
    <2>1. Keeps(r) /\ UNCHANGED <<call, code, faults, alone>>
      BY <1>7 DEF Tick, Chat!Tick, StubTime, Keeps, chatVars, historyVars
    <2> QED
      BY <2>1, MarkedKept
  <1>8. ASSUME NEW s \in Streams, StreamRefused(s) \/ StreamAnswered(s) PROVE Marked(r)'
    <2>1. <<s, 1>> \in Calls /\ <<s, 1>> # Me(r)
      BY StubbedAssumption DEF Me
    <2>2. Sent(<<s, 1>>) /\ Keeps(r) /\ UNCHANGED alone
      BY <1>8 DEF StreamRefused, StreamAnswered, Keeps, chatVars, historyVars
    <2> QED
      BY <2>1, <2>2, MarkedSent
  <1>9. CASE UNCHANGED <<stubVars, chatVars, historyVars>>
    <2>1. Keeps(r) /\ UNCHANGED <<call, code, faults, alone>>
      BY <1>9 DEF Keeps, stubVars, chatVars, historyVars
    <2> QED
      BY <2>1, MarkedKept
  <1>10. ASSUME NEW s \in Streams, \/ StreamOpened(s) \/ StreamTimesOut(s) \/ FirstPull(s) \/ BodyStarts(s)
                                   \/ Relays(s) \/ StreamDone(s) \/ StreamBreaks(s)
         PROVE  Marked(r)'
    BY <1>9, <1>10 DEF StreamOpened, StreamTimesOut, FirstPull, BodyStarts, Relays, StreamDone, StreamBreaks
  <1> QED
    BY <1>1, <1>2, <1>3, <1>4, <1>5, <1>6, <1>7, <1>8, <1>9, <1>10 DEF Next, vars

LEMMA ForcedInvariance == Spec => []ForcedInv
  BY ForcedInit, ForcedStep, ChatInvariance, StubInvariance, PTL DEF Spec

\* fail_next forces exact failure counts on a request that has the stub to
\* itself, whatever the bands, the latency and MaxAttempts are.
THEOREM ForcedAlwaysExact == Spec => []ForcedFailures
  <1>1. Proved!IInv /\ StubInv /\ ForcedInv => ForcedFailures
    <2> SUFFICES ASSUME Proved!IInv, StubInv, ForcedInv, NEW r \in Requests, alone[r], forced[r] > 0,
                        answer[r] \in {200, 429, 502}, ~Contains(outcomes[r], "timeout")
                 PROVE  LET n == IF forced[r] <= MaxAttempts THEN forced[r] ELSE MaxAttempts
                        IN /\ \A i \in 1..n : outcomes[r][i] = "transient"
                           /\ forced[r] >= MaxAttempts => answer[r] = 502
      BY DEF ForcedFailures
    <2> DEFINE m == Len(outcomes[r])
    <2>1. /\ outcomes[r] \in Seq(Proved!Outcomes) /\ m \in Nat /\ forced[r] \in Nat
          /\ attempt[r] \in 0..MaxAttempts /\ MaxAttempts \in Nat
      BY StubbedAssumption DEF Proved!IInv, Proved!TypeOK, StubInv
    <2>2. pc[r] = "answered"
      BY DEF Proved!IInv, Proved!Silent
    <2>3. Proved!Explained(r)
      BY <2>2 DEF Proved!IInv, Proved!AnswerExplained
    <2>4. /\ outcomes[r] # <<>> /\ m = attempt[r]
          /\ \/ answer[r] = 200 /\ outcomes[r][m] = "ok"
             \/ answer[r] = 429 /\ outcomes[r][m] \in {"rate_limited", "retry_after"}
             \/ answer[r] = 502 /\ outcomes[r][m] = "transient" /\ m = MaxAttempts
             \/ answer[r] = 502 /\ outcomes[r][m] = "client_error"
      BY <2>3 DEF Proved!Explained, Proved!LastOutcome
    <2>5. m \in 1..MaxAttempts /\ m \in 1..m
      BY <2>1, <2>4, EmptySeq
    <2>6. \A i \in 1..m : i <= forced[r] => outcomes[r][i] = "transient"
      BY <2>2 DEF ForcedInv, Marked, Undisturbed, Forced, Contains
    <2>7. CASE answer[r] = 502 /\ m = MaxAttempts
      BY <2>1, <2>6, <2>7
    <2>8. CASE outcomes[r][m] # "transient"
      <3>1. forced[r] < m
        BY <2>1, <2>5, <2>6, <2>8
      <3> QED
        BY <2>1, <2>5, <2>6, <3>1
    <2> QED
      BY <2>4, <2>7, <2>8
  <1> QED
    BY <1>1, ChatInvariance, StubInvariance, ForcedInvariance, PTL
=============================================================================
