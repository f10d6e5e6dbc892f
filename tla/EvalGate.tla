------------------------------ MODULE EvalGate ------------------------------
(***************************************************************************)
(* The evaluation gate (evals/src/eval_harness): main loads a suite, runs  *)
(* its cases one after the other against the gateway and the judge,        *)
(* decides, writes the report and exits. In CI the exit code blocks the    *)
(* merge; the canary prober runs the same main and posts the outcome to a  *)
(* gateway pod, whose gauge the rollout's analysis reads.                  *)
(*                                                                         *)
(* A response is reduced to whether it satisfies the case's assertions, a  *)
(* verdict of the judge to its vote.                                       *)
(***************************************************************************)
EXTENDS Naturals, Sequences, FiniteSets

CONSTANTS Suites,     \* the case files main may find: sequences of cases
          HasJudge,   \* is a judge URL given?
          Threshold,  \* EVAL_THRESHOLD in percent
          Pods,       \* gateway pods behind the Service the prober posts to
          MaxJobs     \* bound: prober jobs in one behaviour

\* A case has assertions, or a rubric, or both, or neither.
Case == [assertions : BOOLEAN, rubric : BOOLEAN, repeats : Nat]

ASSUME EvalAssumption ==
    /\ Suites \subseteq Seq(Case)
    /\ HasJudge \in BOOLEAN
    /\ Threshold \in 0..100
    /\ MaxJobs \in Nat

VARIABLES stage,    \* idle, asking, judging or posting
          suite,    \* the cases main loaded
          results,  \* CaseResult of each case that has run
          votes,    \* the judge's votes on the current case
          exit,     \* exit code of main; 2 while it runs
          report,   \* is the report written?
          gauge,    \* gauge[p]: gateway_canary_probe_success of pod p
          jobs,     \* prober jobs so far
          held      \* history: did each response satisfy its assertions?

jobVars == <<suite, results, votes, exit, report, held>>
vars == <<stage, jobVars, gauge, jobs>>

CaseResult == [kind : {"deterministic", "judged"}, passed : BOOLEAN, votes : Seq(BOOLEAN)]

TypeOK ==
    /\ stage \in {"idle", "asking", "judging", "posting"}
    /\ suite \in Suites \cup {<<>>}
    /\ results \in Seq(CaseResult) /\ Len(results) <= Len(suite)
    /\ votes \in Seq(BOOLEAN)
    /\ exit \in 0..2
    /\ report \in BOOLEAN
    /\ gauge \in [Pods -> {0, 1}]
    /\ jobs \in 0..MaxJobs
    /\ held \in Seq(BOOLEAN) /\ Len(held) \in Len(results)..Len(suite)

Init ==
    /\ stage = "idle"
    /\ suite = <<>> /\ results = <<>> /\ votes = <<>> /\ held = <<>>
    /\ exit = 2 /\ report = FALSE
    /\ gauge = [p \in Pods |-> 0]
    /\ jobs = 0
-----------------------------------------------------------------------------
(* Votes and the gate.                                                     *)

\* How many elements of a sequence satisfy a flag.
Ayes(flags) == Cardinality({i \in DOMAIN flags : flags[i]})

\* Slip: the majority rounded down.
MinPassFloor(n) == IF n = 0 THEN 1 ELSE (4 * n) \div 5

\* max(1, ceil(0.8 * n)).
MinPass(n) == IF n = 0 THEN 1 ELSE (4 * n + 4) \div 5

Judged(c) == c.rubric /\ HasJudge

Passed(rs) == Ayes([i \in DOMAIN rs |-> rs[i].passed])

\* Slip: the gate looks at the rate alone.
EvaluateGateRate(rs) == rs # <<>> /\ 100 * Passed(rs) >= Threshold * Len(rs)

\* Slip: a case with two votes of any number is called a regression.
ClassificationWide(v) == IF Ayes(v) <= 2 THEN "regression" ELSE "variance"

EvaluateGate(rs) ==
    /\ rs # <<>>
    /\ 100 * Passed(rs) >= Threshold * Len(rs)
    /\ \A i \in DOMAIN rs : rs[i].kind = "deterministic" => rs[i].passed

\* classify_failure, of every case that has votes.
Classification(v) == IF Ayes(v) <= 1 THEN "regression" ELSE "variance"
-----------------------------------------------------------------------------
(* One run of main.                                                        *)

Current == suite[Len(results) + 1]
Finished == Len(results) = Len(suite)

\* Slip: the results of the run before are kept.
StartKeeps ==
    /\ stage = "idle" /\ jobs < MaxJobs
    /\ stage' = "asking"
    /\ jobs' = jobs + 1
    /\ suite' \in Suites
    /\ votes' = <<>> /\ held' = <<>>
    /\ exit' = 2 /\ report' = FALSE
    /\ UNCHANGED <<results, gauge>>

\* load_cases reads the suite, and the run begins with its first case.
Start ==
    /\ stage = "idle" /\ jobs < MaxJobs
    /\ stage' = "asking"
    /\ jobs' = jobs + 1
    /\ suite' \in Suites
    /\ results' = <<>> /\ votes' = <<>> /\ held' = <<>>
    /\ exit' = 2 /\ report' = FALSE
    /\ UNCHANGED gauge

\* The gateway's response arrives; h says whether it satisfies the assertions.
\* With a judge, a case that has a rubric is judged and its assertions are not
\* looked at; without either, a case passes.
Responds(h) ==
    /\ stage = "asking" /\ ~Finished
    /\ Current.assertions \/ h
    /\ held' = Append(held, h)
    /\ IF Judged(Current)
       THEN stage' = "judging" /\ UNCHANGED results
       ELSE /\ stage' = "asking"
            /\ results' = Append(results, [kind |-> "deterministic", passed |-> h, votes |-> <<>>])
    /\ UNCHANGED <<suite, votes, exit, report, gauge, jobs>>

GatewayAnswers == \E h \in BOOLEAN : Responds(h)

\* A verdict, or a text that is none: a failed vote.
JudgeVotes ==
    /\ stage = "judging" /\ Len(votes) < Current.repeats
    /\ \E v \in BOOLEAN : votes' = Append(votes, v)
    /\ UNCHANGED <<stage, suite, results, exit, report, held, gauge, jobs>>

CaseJudged ==
    /\ stage = "judging" /\ Len(votes) = Current.repeats
    /\ results' = Append(results, [kind |-> "judged",
                                   passed |-> Ayes(votes) >= MinPass(Current.repeats),
                                   votes |-> votes])
    /\ votes' = <<>>
    /\ stage' = "asking"
    /\ UNCHANGED <<suite, exit, report, held, gauge, jobs>>

\* An HTTP error of the gateway or the judge, a reply without content, an
\* unknown assertion: nothing catches it. main writes no report, and the
\* prober's script does not come to its post.
Crashes ==
    /\ \/ stage = "asking" /\ ~Finished
       \/ stage = "judging" /\ Len(votes) < Current.repeats
    /\ stage' = "idle"
    /\ exit' = 1
    /\ UNCHANGED <<suite, results, votes, report, held, gauge, jobs>>

\* The decision, then the report, then the exit code.
Gate ==
    /\ stage = "asking" /\ Finished
    /\ exit' = IF EvaluateGate(results) THEN 0 ELSE 1
    /\ report' = TRUE
    /\ stage' = "posting"
    /\ UNCHANGED <<suite, results, votes, held, gauge, jobs>>

\* The prober posts main's return value to the pod the Service picks.
PostsTo(p) ==
    /\ stage = "posting"
    /\ gauge' = [gauge EXCEPT ![p] = IF exit = 0 THEN 1 ELSE 0]
    /\ stage' = "idle"
    /\ UNCHANGED <<jobVars, jobs>>

Posts == \E p \in Pods : PostsTo(p)

PostFails ==
    /\ stage = "posting"
    /\ stage' = "idle"
    /\ UNCHANGED <<jobVars, gauge, jobs>>

Next == \/ Start \/ GatewayAnswers \/ JudgeVotes \/ CaseJudged \/ Crashes \/ Gate
        \/ Posts \/ PostFails

Spec == Init /\ [][Next]_vars
-----------------------------------------------------------------------------
(* Properties.                                                             *)

\* Four of five of all the verdicts asked for were in favour; none at all is
\* no majority.
Majority(v, n) == n > 0 /\ 5 * Ayes(v) >= 4 * n

\* What the responses and verdicts of a whole suite justify, told from the
\* evidence and not from the results: no deterministic case with a response
\* that broke an assertion, and enough cases that earned their pass.
Earned(i) == IF Judged(suite[i]) THEN Majority(results[i].votes, suite[i].repeats) ELSE held[i]
Justified ==
    /\ suite # <<>> /\ Finished
    /\ \A i \in DOMAIN suite : Judged(suite[i]) \/ held[i]
    /\ 100 * Ayes([i \in DOMAIN suite |-> Earned(i)]) >= Threshold * Len(suite)

\* main returns 0 exactly when the evidence of every case justifies it, and
\* never without the report, wherever a run broke off before.
GreenIsJustified == exit # 2 => (exit = 0 <=> report /\ Justified)

\* The gauge rises only by a run whose evidence justified it, though a pod may
\* keep the value of a run long past.
GaugeRisesJustified ==
    [][\A p \in Pods : gauge[p] = 0 /\ gauge'[p] = 1 => report /\ Justified]_vars

\* A case that was voted on more than once and is reported as a regression did
\* fail: the band of classify_failure lies below every majority.
RegressionsFail == \A i \in DOMAIN results :
    LET v == results[i].votes
    IN Len(v) > 1 /\ Classification(v) = "regression" => ~results[i].passed
=============================================================================
