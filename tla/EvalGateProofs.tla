--------------------------- MODULE EvalGateProofs ---------------------------
(***************************************************************************)
(* Proofs about EvalGate for any suites, any threshold, any pods and any   *)
(* number of prober jobs, with or without a judge.                         *)
(***************************************************************************)
EXTENDS EvalGate, FiniteSetTheorems, TLAPS

-----------------------------------------------------------------------------
(* Votes.                                                                  *)

LEMMA AyesType ==
  ASSUME NEW flags \in Seq(BOOLEAN)
  PROVE  Ayes(flags) \in Nat /\ Ayes(flags) <= Len(flags)
  <1>1. Len(flags) \in Nat /\ DOMAIN flags = 1..Len(flags)
    OBVIOUS
  <1>2. {i \in DOMAIN flags : flags[i]} \in SUBSET (1..Len(flags))
    BY <1>1
  <1>3. IsFiniteSet(1..Len(flags)) /\ Cardinality(1..Len(flags)) = Len(flags)
    BY <1>1, FS_Interval
  <1> QED
    BY <1>2, <1>3, FS_Subset, FS_CardinalityType DEF Ayes

\* min_pass is what a majority of four fifths takes, and never zero votes.
LEMMA MinPassIsMajority ==
  ASSUME NEW n \in Nat, NEW a \in Nat, a <= n
  PROVE  a >= MinPass(n) <=> n > 0 /\ 5 * a >= 4 * n
  <1>1. CASE n = 0
    BY <1>1 DEF MinPass
  <1>2. CASE n > 0
    BY <1>2 DEF MinPass
  <1> QED
    BY <1>1, <1>2

\* More than one vote takes more than one in favour.
LEMMA MinPassTwo ==
  ASSUME NEW n \in Nat, n > 1
  PROVE  MinPass(n) > 1
  BY DEF MinPass
-----------------------------------------------------------------------------
(* The inductive invariant.                                                *)

\* What a result must be, given its case, its response and its votes.
Explains(i) ==
    IF Judged(suite[i])
    THEN /\ results[i].kind = "judged" /\ Len(results[i].votes) = suite[i].repeats
         /\ results[i].passed <=> Ayes(results[i].votes) >= MinPass(suite[i].repeats)
    ELSE /\ results[i].kind = "deterministic" /\ results[i].votes = <<>>
         /\ results[i].passed <=> held[i]

\* How far the run is: one response for each result, one more while judging.
Placed ==
    /\ stage = "asking" => votes = <<>> /\ Len(held) = Len(results)
    /\ stage = "judging" => /\ Len(results) < Len(suite) /\ Judged(Current)
                           /\ Len(held) = Len(results) + 1 /\ Len(votes) <= Current.repeats
    /\ stage = "posting" => report

\* Whether the run has come to its decision.
Decided ==
    /\ exit = 2 => ~report
    /\ stage \in {"asking", "judging"} => exit = 2
    /\ exit = 0 => report
    /\ report => Finished /\ Len(held) = Len(results) /\ exit # 2 /\ (exit = 0 <=> EvaluateGate(results))

IInv == TypeOK /\ Placed /\ Decided /\ (\A i \in 1..Len(results) : Explains(i))

LEMMA InvInit == Init => IInv
  <1> SUFFICES ASSUME Init PROVE IInv
    OBVIOUS
  <1>1. TypeOK
    <2>1. results = <<>> /\ held = <<>> /\ suite = <<>> /\ votes = <<>> /\ jobs \in 0..MaxJobs
      BY EvalAssumption DEF Init
    <2>2. Len(results) = 0 /\ Len(held) = 0 /\ Len(suite) = 0
      BY <2>1
    <2>3. Len(held) \in Len(results)..Len(suite) /\ Len(results) <= Len(suite)
      BY <2>2
    <2>4. results \in Seq(CaseResult) /\ held \in Seq(BOOLEAN) /\ votes \in Seq(BOOLEAN)
      BY <2>1
    <2>5. /\ stage \in {"idle", "asking", "judging", "posting"} /\ suite \in Suites \cup {<<>>}
          /\ exit \in 0..2 /\ gauge \in [Pods -> {0, 1}]
      BY DEF Init
    <2>6. report \in BOOLEAN
      BY DEF Init
    <2> QED
      BY <2>1, <2>3, <2>4, <2>5, <2>6 DEF TypeOK
  <1>2. Placed /\ Decided
    BY DEF Init, Placed, Decided
  <1>3. \A i \in 1..Len(results) : Explains(i)
    BY DEF Init
  <1> QED
    BY <1>1, <1>2, <1>3 DEF IInv

LEMMA StartInv ==
  ASSUME IInv, Start
  PROVE  IInv'
  <1> USE DEF IInv
  <1>1. TypeOK'
    <2>1. /\ suite' \in Suites /\ Len(suite') \in Nat
          /\ results' = <<>> /\ held' = <<>> /\ votes' = <<>>
      BY EvalAssumption DEF Start
    <2>2. Len(results') = 0 /\ Len(held') = 0
      BY <2>1
    <2>3. jobs' \in 0..MaxJobs
      BY EvalAssumption DEF Start, TypeOK
    <2>4. Len(held') \in Len(results')..Len(suite') /\ Len(results') <= Len(suite')
      BY <2>1, <2>2
    <2>5. results' \in Seq(CaseResult) /\ held' \in Seq(BOOLEAN) /\ votes' \in Seq(BOOLEAN)
      BY <2>1
    <2>6. /\ stage' \in {"idle", "asking", "judging", "posting"} /\ suite' \in Suites \cup {<<>>}
          /\ exit' \in 0..2 /\ gauge' \in [Pods -> {0, 1}]
      BY DEF Start, TypeOK
    <2>7. report' \in BOOLEAN
      BY DEF Start
    <2> QED
      BY <2>3, <2>4, <2>5, <2>6, <2>7 DEF TypeOK
  <1>2. Placed' /\ Decided'
    BY DEF Start, Placed, Decided
  <1>3. \A i \in 1..Len(results') : Explains(i)'
    BY DEF Start
  <1> QED
    BY <1>1, <1>2, <1>3

\* The case at hand has its types.
LEMMA CurrentType ==
  ASSUME TypeOK, Len(results) < Len(suite)
  PROVE  /\ Current \in Case /\ Len(results) + 1 \in 1..Len(suite)
         /\ suite \in Seq(Case)
  <1>1. suite \in Seq(Case)
    BY EvalAssumption DEF TypeOK
  <1>2. Len(results) \in Nat /\ Len(suite) \in Nat
    BY <1>1 DEF TypeOK
  <1> QED
    BY <1>1, <1>2 DEF Current

LEMMA RespondsInv ==
  ASSUME IInv, NEW h \in BOOLEAN, Responds(h)
  PROVE  IInv'
  <1> USE DEF IInv
  <1>1. /\ suite \in Seq(Case) /\ Len(results) < Len(suite) /\ Len(held) = Len(results) /\ votes = <<>>
        /\ Len(results) \in Nat /\ Len(suite) \in Nat /\ exit = 2 /\ ~report
    BY EvalAssumption DEF Responds, Finished, TypeOK, Placed, Decided
  <1>2. held' = Append(held, h) /\ held' \in Seq(BOOLEAN) /\ Len(held') = Len(held) + 1
    BY DEF Responds, TypeOK
  <1>3. /\ \A i \in 1..Len(results) : held'[i] = held[i]
        /\ held'[Len(results) + 1] = h
    BY <1>1, <1>2 DEF TypeOK
  <1>4. CASE Judged(Current)
    <2>1. stage' = "judging" /\ UNCHANGED <<results, suite, votes, exit, report, gauge, jobs>>
      BY <1>4 DEF Responds
    <2>2. Current.repeats \in Nat
      BY <1>1, CurrentType DEF Case
    <2>3. TypeOK'
      BY <1>1, <1>2, <2>1 DEF TypeOK
    <2>4. Placed' /\ Decided'
      BY <1>1, <1>2, <1>4, <2>1, <2>2 DEF Placed, Decided, Current
    <2>5. \A i \in 1..Len(results') : Explains(i)'
      BY <1>1, <1>3, <2>1 DEF Explains
    <2> QED
      BY <2>3, <2>4, <2>5
  <1>5. CASE ~Judged(Current)
    <2> DEFINE R == [kind |-> "deterministic", passed |-> h, votes |-> <<>>]
    <2>1. stage' = "asking" /\ results' = Append(results, R) /\ UNCHANGED <<suite, votes, exit, report, gauge, jobs>>
      BY <1>5 DEF Responds
    <2>2. R \in CaseResult
      BY DEF CaseResult
    <2>3. /\ results' \in Seq(CaseResult) /\ Len(results') = Len(results) + 1
          /\ results'[Len(results) + 1] = R
          /\ \A i \in 1..Len(results) : results'[i] = results[i]
      BY <2>1, <2>2 DEF TypeOK
    <2>4. TypeOK'
      BY <1>1, <1>2, <2>1, <2>3 DEF TypeOK
    <2>5. Placed' /\ Decided'
      BY <1>1, <1>2, <2>1, <2>3 DEF Placed, Decided
    <2>6. \A i \in 1..Len(results) : Explains(i)'
      BY <1>1, <1>3, <2>1, <2>3 DEF Explains
    <2>7. ASSUME NEW i, i = Len(results) + 1
          PROVE  Explains(i)'
      BY <1>1, <1>3, <1>5, <2>1, <2>3, <2>7 DEF Explains, Current
    <2>8. \A i \in 1..Len(results') : i \in 1..Len(results) \/ i = Len(results) + 1
      BY <1>1, <2>3
    <2> QED
      BY <2>4, <2>5, <2>6, <2>7, <2>8
  <1> QED
    BY <1>4, <1>5

LEMMA JudgeVotesInv ==
  ASSUME IInv, JudgeVotes
  PROVE  IInv'
  <1> USE DEF IInv
  <1>1. PICK v \in BOOLEAN : votes' = Append(votes, v)
    BY DEF JudgeVotes
  <1>2. stage = "judging" /\ Len(votes) < Current.repeats /\ UNCHANGED <<stage, suite, results, exit, report, held, gauge, jobs>>
    BY DEF JudgeVotes
  <1>3. TypeOK'
    BY <1>1, <1>2 DEF TypeOK
  <1>4. Current.repeats \in Nat
    BY <1>2, CurrentType DEF Placed, Case
  <1>5. Len(votes') <= Current.repeats
    BY <1>1, <1>2, <1>4 DEF TypeOK
  <1>6. Placed' /\ Decided'
    BY <1>2, <1>5 DEF Placed, Decided, Current, Finished
  <1>7. \A i \in 1..Len(results') : Explains(i)'
    BY <1>2 DEF Explains
  <1> QED
    BY <1>3, <1>6, <1>7

LEMMA CaseJudgedInv ==
  ASSUME IInv, CaseJudged
  PROVE  IInv'
  <1> USE DEF IInv
  <1> DEFINE p == Ayes(votes) >= MinPass(Current.repeats)
             R == [kind |-> "judged", passed |-> p, votes |-> votes]
  <1>1. /\ suite \in Seq(Case) /\ Len(results) < Len(suite) /\ Len(held) = Len(results) + 1
        /\ Len(results) \in Nat /\ Len(suite) \in Nat /\ exit = 2 /\ ~report
        /\ Judged(Current) /\ Len(votes) = Current.repeats /\ stage = "judging"
    BY EvalAssumption DEF CaseJudged, TypeOK, Placed, Decided
  <1>2. /\ results' = Append(results, R) /\ votes' = <<>> /\ stage' = "asking"
        /\ UNCHANGED <<suite, exit, report, held, gauge, jobs>>
    BY DEF CaseJudged
  <1>3. R \in CaseResult
    BY DEF CaseResult, TypeOK
  <1>4. R.kind = "judged" /\ R.votes = votes /\ (R.passed <=> p)
    OBVIOUS
  <1> HIDE DEF R, p
  <1>5. /\ results' \in Seq(CaseResult) /\ Len(results') = Len(results) + 1
        /\ results'[Len(results) + 1] = R
        /\ \A i \in 1..Len(results) : results'[i] = results[i]
    BY <1>2, <1>3 DEF TypeOK
  <1>6. TypeOK'
    BY <1>1, <1>2, <1>5 DEF TypeOK
  <1>7. Placed' /\ Decided'
    BY <1>1, <1>2, <1>5 DEF Placed, Decided
  <1>8. \A i \in 1..Len(results) : Explains(i)'
    BY <1>1, <1>2, <1>5 DEF Explains
  <1>9. ASSUME NEW i, i = Len(results) + 1
        PROVE  Explains(i)'
    <2>1. results'[i] = R /\ suite'[i] = Current
      BY <1>2, <1>5, <1>9 DEF Current
    <2> QED
      BY <1>1, <1>4, <2>1 DEF Explains, p
  <1>10. \A i \in 1..Len(results') : i \in 1..Len(results) \/ i = Len(results) + 1
    BY <1>1, <1>5
  <1> QED
    BY <1>6, <1>7, <1>8, <1>9, <1>10

\* A run that breaks off leaves no report behind.
LEMMA CrashesInv ==
  ASSUME IInv, Crashes
  PROVE  IInv'
  <1> USE DEF IInv
  <1>1. /\ stage \in {"asking", "judging"} /\ stage' = "idle" /\ exit' = 1
        /\ UNCHANGED <<suite, results, votes, report, held, gauge, jobs>>
    BY DEF Crashes
  <1>2. TypeOK'
    BY <1>1 DEF TypeOK
  <1>3. ~report
    BY <1>1 DEF Decided
  <1>4. Placed' /\ Decided'
    BY <1>1, <1>3 DEF Placed, Decided
  <1>5. \A i \in 1..Len(results') : Explains(i)'
    BY <1>1 DEF Explains
  <1> QED
    BY <1>2, <1>4, <1>5

LEMMA GateInv ==
  ASSUME IInv, Gate
  PROVE  IInv'
  <1> USE DEF IInv
  <1>1. /\ stage = "asking" /\ Finished /\ report' = TRUE /\ stage' = "posting"
        /\ exit' = (IF EvaluateGate(results) THEN 0 ELSE 1)
        /\ UNCHANGED <<suite, results, votes, held, gauge, jobs>>
    BY DEF Gate
  <1>2. TypeOK'
    BY <1>1 DEF TypeOK
  <1>3. Placed'
    BY <1>1 DEF Placed
  <1>4. Decided'
    BY <1>1 DEF Placed, Decided, Finished, EvaluateGate, Passed
  <1>5. \A i \in 1..Len(results') : Explains(i)'
    BY <1>1 DEF Explains
  <1> QED
    BY <1>2, <1>3, <1>4, <1>5

LEMMA PostInv ==
  ASSUME IInv, Posts \/ PostFails
  PROVE  IInv'
  <1> USE DEF IInv
  <1>1. stage = "posting" /\ stage' = "idle" /\ UNCHANGED <<suite, results, votes, exit, report, held, jobs>>
    BY DEF Posts, PostsTo, PostFails, jobVars
  <1>2. gauge' = gauge \/ \E p \in Pods : gauge' = [gauge EXCEPT ![p] = IF exit = 0 THEN 1 ELSE 0]
    BY DEF Posts, PostsTo, PostFails
  <1>3. gauge' \in [Pods -> {0, 1}]
    BY <1>2 DEF TypeOK
  <1>4. TypeOK'
    BY <1>1, <1>3 DEF TypeOK
  <1>5. Placed' /\ Decided'
    BY <1>1 DEF Placed, Decided, Finished, EvaluateGate, Passed
  <1>6. \A i \in 1..Len(results') : Explains(i)'
    BY <1>1 DEF Explains
  <1> QED
    BY <1>4, <1>5, <1>6

LEMMA InvStep == IInv /\ [Next]_vars => IInv'
  <1> SUFFICES ASSUME IInv, [Next]_vars PROVE IInv'
    OBVIOUS
  <1>1. CASE Start
    BY <1>1, StartInv
  <1>2. CASE GatewayAnswers
    BY <1>2, RespondsInv DEF GatewayAnswers
  <1>3. CASE JudgeVotes \/ CaseJudged
    BY <1>3, JudgeVotesInv, CaseJudgedInv
  <1>4. CASE Crashes \/ Gate
    BY <1>4, CrashesInv, GateInv
  <1>5. CASE Posts \/ PostFails
    BY <1>5, PostInv
  <1>6. CASE UNCHANGED vars
    BY <1>6 DEF vars, jobVars, IInv, TypeOK, Placed, Decided, Explains, Current, Finished, EvaluateGate, Passed
  <1> QED
    BY <1>1, <1>2, <1>3, <1>4, <1>5, <1>6 DEF Next

LEMMA Invariance == Spec => []IInv
  BY InvInit, InvStep, PTL DEF Spec
-----------------------------------------------------------------------------
(* What the properties say, for every value of the constants.              *)

\* Every variable keeps its type; no result without its response.
THEOREM TypeCorrect == Spec => []TypeOK
  BY Invariance, PTL DEF IInv

\* The band of classify_failure lies below every majority of more than one vote.
THEOREM RegressionsAlwaysFail == Spec => []RegressionsFail
  <1>1. ASSUME IInv, NEW i \in DOMAIN results, Len(results[i].votes) > 1,
               Classification(results[i].votes) = "regression"
        PROVE  ~results[i].passed
    <2>1. i \in 1..Len(results) /\ results[i] \in CaseResult /\ Explains(i) /\ suite \in Seq(Case)
          /\ Len(results) <= Len(suite)
      BY <1>1, EvalAssumption DEF IInv, TypeOK
    <2>2. results[i].votes \in Seq(BOOLEAN) /\ results[i].votes # <<>>
      BY <1>1, <2>1 DEF CaseResult
    <2>3. /\ Judged(suite[i]) /\ Len(results[i].votes) = suite[i].repeats
          /\ results[i].passed <=> Ayes(results[i].votes) >= MinPass(suite[i].repeats)
      BY <2>1, <2>2 DEF Explains
    <2>4. Ayes(results[i].votes) <= 1
      BY <1>1 DEF Classification
    <2>5. suite[i].repeats \in Nat /\ MinPass(suite[i].repeats) > 1
      BY <1>1, <2>2, <2>3, MinPassTwo
    <2>6. MinPass(suite[i].repeats) \in Int /\ Ayes(results[i].votes) \in Nat
      BY <2>2, <2>5, AyesType DEF MinPass
    <2> QED
      BY <2>3, <2>4, <2>5, <2>6
  <1>2. IInv => RegressionsFail
    BY <1>1 DEF RegressionsFail
  <1> QED
    BY <1>2, Invariance, PTL

\* A case's result passes exactly when its responses and verdicts earned it.
LEMMA PassedIsEarned ==
  ASSUME IInv, NEW i \in 1..Len(results)
  PROVE  results[i].passed <=> Earned(i)
  <1>1. /\ results[i] \in CaseResult /\ Explains(i) /\ suite \in Seq(Case) /\ i \in 1..Len(suite)
    BY EvalAssumption DEF IInv, TypeOK
  <1>2. results[i].votes \in Seq(BOOLEAN) /\ suite[i].repeats \in Nat
    <2>1. suite[i] \in Case
      BY <1>1
    <2> QED
      BY <1>1, <2>1 DEF CaseResult, Case
  <1>3. CASE Judged(suite[i])
    <2>1. /\ Len(results[i].votes) = suite[i].repeats
          /\ results[i].passed <=> Ayes(results[i].votes) >= MinPass(suite[i].repeats)
      BY <1>1, <1>3 DEF Explains
    <2>2. Ayes(results[i].votes) \in Nat /\ Ayes(results[i].votes) <= suite[i].repeats
      BY <1>2, <2>1, AyesType
    <2>3. results[i].passed <=> Majority(results[i].votes, suite[i].repeats)
      BY <1>2, <2>1, <2>2, MinPassIsMajority DEF Majority
    <2> QED
      BY <1>3, <2>3 DEF Earned
  <1>4. CASE ~Judged(suite[i])
    BY <1>1, <1>4 DEF Explains, Earned
  <1> QED
    BY <1>3, <1>4

\* The gate decides from the results what the evidence justifies.
LEMMA GateIsJustified ==
  ASSUME IInv, Finished
  PROVE  EvaluateGate(results) <=> Justified
  <1>1. /\ results \in Seq(CaseResult) /\ suite \in Seq(Case) /\ Len(results) = Len(suite)
        /\ Len(suite) \in Nat /\ DOMAIN results = 1..Len(suite) /\ DOMAIN suite = 1..Len(suite)
    BY EvalAssumption DEF IInv, TypeOK, Finished
  <1>2. results # <<>> <=> suite # <<>>
    BY <1>1
  <1>3. Passed(results) = Ayes([i \in DOMAIN suite |-> Earned(i)])
    <2>1. {i \in DOMAIN results : results[i].passed} = {i \in DOMAIN suite : Earned(i)}
      BY <1>1, PassedIsEarned
    <2>2. Passed(results) = Cardinality({i \in DOMAIN results : results[i].passed})
      BY DEF Passed, Ayes
    <2>3. Ayes([i \in DOMAIN suite |-> Earned(i)]) = Cardinality({i \in DOMAIN suite : Earned(i)})
      BY DEF Ayes
    <2> QED
      BY <2>1, <2>2, <2>3
  <1>4. (\A i \in DOMAIN results : results[i].kind = "deterministic" => results[i].passed)
          <=> (\A i \in DOMAIN suite : Judged(suite[i]) \/ held[i])
    <2>1. \A i \in DOMAIN results : Explains(i)
      BY <1>1 DEF IInv
    <2> QED
      BY <1>1, <2>1 DEF Explains
  <1> QED
    BY <1>1, <1>2, <1>3, <1>4 DEF EvaluateGate, Justified, Finished

\* main returns 0 exactly when the evidence of every case justifies it, with
\* any suite, threshold and number of repeats.
THEOREM GreenAlwaysJustified == Spec => []GreenIsJustified
  <1>1. IInv => GreenIsJustified
    <2> SUFFICES ASSUME IInv, exit # 2 PROVE exit = 0 <=> report /\ Justified
      BY DEF GreenIsJustified
    <2>1. CASE report
      BY <2>1, GateIsJustified DEF IInv, Decided
    <2>2. CASE ~report
      BY <2>2 DEF IInv, Decided
    <2> QED
      BY <2>1, <2>2 DEF IInv, TypeOK
  <1> QED
    BY <1>1, Invariance, PTL

\* No pod's gauge rises without such evidence.
THEOREM GaugeAlwaysJustified == Spec => GaugeRisesJustified
  <1>1. IInv /\ [Next]_vars =>
          [\A p \in Pods : gauge[p] = 0 /\ gauge'[p] = 1 => report /\ Justified]_vars
    <2> SUFFICES ASSUME IInv, [Next]_vars, NEW p \in Pods, gauge[p] = 0, gauge'[p] = 1
                 PROVE  report /\ Justified
      OBVIOUS
    <2>1. gauge' # gauge
      OBVIOUS
    <2>2. Posts
      BY <2>1 DEF Next, Start, GatewayAnswers, Responds, JudgeVotes, CaseJudged, Crashes, Gate, PostFails, vars
    <2>3. stage = "posting" /\ exit = 0
      BY <2>2 DEF Posts, PostsTo, IInv, TypeOK
    <2> QED
      BY <2>3, GateIsJustified DEF IInv, Placed, Decided
  <1> QED
    BY <1>1, Invariance, PTL DEF Spec, GaugeRisesJustified
=============================================================================
