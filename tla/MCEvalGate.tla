----------------------------- MODULE MCEvalGate -----------------------------
(* EvalGate for TLC: the suites main may find.                             *)
EXTENDS EvalGate

Deterministic == [assertions |-> TRUE, rubric |-> FALSE, repeats |-> 1]
JudgedFive == [assertions |-> FALSE, rubric |-> TRUE, repeats |-> 5]
JudgedTwo == [assertions |-> TRUE, rubric |-> TRUE, repeats |-> 2]
Empty == [assertions |-> FALSE, rubric |-> FALSE, repeats |-> 0]
JudgedNever == [assertions |-> FALSE, rubric |-> TRUE, repeats |-> 0]

\* No case at all, one that passes vacuously, one that cannot pass, and mixes
\* of deterministic and judged cases in either order.
MixedSuites == {<<>>, <<Empty>>, <<JudgedNever, Deterministic>>,
                <<Deterministic, JudgedFive>>, <<JudgedTwo, Deterministic>>,
                <<JudgedTwo, Deterministic, JudgedTwo>>}
=============================================================================
