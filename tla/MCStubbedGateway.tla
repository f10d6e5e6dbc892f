-------------------------- MODULE MCStubbedGateway --------------------------
(* StubbedGateway for TLC, in units of ten seconds: what a test may post.  *)
EXTENDS StubbedGateway

\* The default, a mixture of bands, a budget behind bands, one behind latency,
\* and one that outlasts every attempt.
PostedFaults ==
    {NoFaults,
     [latency |-> 0, failNext |-> 0, draws |-> {200, 429, 500}],
     [latency |-> 0, failNext |-> 2, draws |-> {200, 429}],
     [latency |-> 1, failNext |-> 1, draws |-> {200}],
     [latency |-> 0, failNext |-> 4, draws |-> {200}]}

AllCalls == Requests \X (1..MaxAttempts) \cup Streams \X {1}
=============================================================================
