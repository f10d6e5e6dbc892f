------------------------------ MODULE MCCanary ------------------------------
(* Canary for TLC: suites the prober may replay.                           *)
EXTENDS Canary

Golden == [assertions |-> TRUE, rubric |-> FALSE, repeats |-> 1]
\* The repository's judged cases have no assertions (evals/cases/judged.yaml).
Rubric == [assertions |-> FALSE, rubric |-> TRUE, repeats |-> 1]
\* A case with neither passes whatever is answered.
Bare == [assertions |-> FALSE, rubric |-> FALSE, repeats |-> 1]
GoldenSuites == {<<Golden, Rubric>>, <<Golden, Golden>>, <<Bare>>}
\* Every case holds its pod to an assertion, as in evals/cases/deterministic.yaml.
AssertingSuites == {<<Golden, Golden>>}
=============================================================================
