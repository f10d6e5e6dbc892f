---------------------------- MODULE CanaryProofs ----------------------------
(***************************************************************************)
(* Proofs about Canary for any pods, suites, thresholds and numbers of     *)
(* jobs: what a promotion rests on. The prober's part is that of           *)
(* EvalGateProofs.                                                         *)
(***************************************************************************)
EXTENDS Canary, TLAPS

Proved == INSTANCE EvalGateProofs

LEMMA ProverAssumption == Proved!EvalAssumption
  BY ProberAssumption DEF Eval!Case, Proved!Case

\* The two instances count alike.
LEMMA SameAyes == ASSUME NEW flags PROVE Proved!Ayes(flags) = Eval!Ayes(flags)
  BY Zenon DEF Proved!Ayes, Eval!Ayes, Proved!Cardinality, Eval!Cardinality

-----------------------------------------------------------------------------
(* The invariant.                                                          *)

\* A gauge is up because of a green run; of a bad version, because of one in
\* which no pod of that version was held to an assertion.
GaugeTells == \A p \in Pods : gauge[p] = 1 =>
    greens # {} /\ (version # "good" => "blind" \in greens)

\* Without such a run, every measurement of the probe metric has failed.
ProbeFails ==
    Analysing /\ (greens = {} \/ (version # "good" /\ "blind" \notin greens)) =>
        failed["canary-probe-success"] = round

\* Pods of a version that fails are never heard; of one that is regressed, only
\* with a response that broke an assertion.
HeardTells ==
    /\ version = "failing" => heard \cap New = {}
    /\ version = "regressed" /\ heard \cap New # {} =>
         \E i \in 1..Len(held) : ~Proved!Judged(suite[i]) /\ ~held[i]

RolloutType ==
    /\ version \in Versions
    /\ step \in {"idle", "canary20", "canary50", "promoted", "aborted"}
    /\ up \subseteq Pods /\ up # {}
    /\ round \in 0..Count /\ failed \in [Metrics -> 0..(FailureLimit + 1)]
    /\ heard \subseteq Pods /\ greens \subseteq {"blind", "seen"}

IInv ==
    /\ Proved!IInv
    /\ RolloutType
    /\ GaugeTells /\ ProbeFails /\ HeardTells
    /\ PromotionNeedsGreenRun /\ BadVersionNeedsBlindRun

LEMMA InvInit == Init => IInv
  <1> SUFFICES ASSUME Init PROVE IInv
    OBVIOUS
  <1>1. Proved!Init
    BY DEF Init, Eval!Init, Proved!Init
  <1>2. Proved!IInv
    BY <1>1, ProverAssumption, Proved!InvInit
  <1>3. RolloutType
    BY CanaryAssumption DEF Init, RolloutType, Pods
  <1>4. GaugeTells
    BY DEF Init, Eval!Init, GaugeTells
  <1>5. ProbeFails /\ HeardTells /\ PromotionNeedsGreenRun /\ BadVersionNeedsBlindRun
    BY DEF Init, ProbeFails, Analysing, HeardTells, PromotionNeedsGreenRun, BadVersionNeedsBlindRun
  <1> QED
    BY <1>2, <1>3, <1>4, <1>5 DEF IInv

\* The rollout's own part is untouched.
RolloutKept == UNCHANGED <<version, step, up, round, failed, greens>>

LEMMA KeptInv ==
  ASSUME IInv, Proved!IInv', RolloutKept, UNCHANGED <<heard, suite, held>>,
         \A p \in Pods : gauge'[p] = 1 => gauge[p] = 1
  PROVE  IInv'
  <1>1. RolloutType' /\ PromotionNeedsGreenRun' /\ BadVersionNeedsBlindRun' /\ ProbeFails'
    BY DEF IInv, RolloutKept, RolloutType, PromotionNeedsGreenRun, BadVersionNeedsBlindRun, ProbeFails, Analysing
  <1>2. GaugeTells'
    BY DEF IInv, RolloutKept, GaugeTells
  <1>3. HeardTells'
    BY DEF IInv, RolloutKept, HeardTells, Proved!Judged
  <1> QED
    BY <1>1, <1>2, <1>3 DEF IInv
-----------------------------------------------------------------------------
(* Prober jobs.                                                            *)

LEMMA ProbeStartsInv ==
  ASSUME IInv, ProbeStarts
  PROVE  IInv'
  <1>1. Proved!Start
    BY DEF ProbeStarts, Eval!Start, Proved!Start
  <1>2. Proved!IInv'
    BY <1>1, ProverAssumption, Proved!StartInv DEF IInv
  <1>3. RolloutKept /\ gauge' = gauge /\ heard' = {}
    BY DEF ProbeStarts, Eval!Start, rolloutVars, RolloutKept
  <1>4. RolloutType' /\ PromotionNeedsGreenRun' /\ BadVersionNeedsBlindRun' /\ ProbeFails' /\ GaugeTells'
    BY <1>3 DEF IInv, RolloutKept, RolloutType, PromotionNeedsGreenRun, BadVersionNeedsBlindRun, ProbeFails,
       Analysing, GaugeTells
  <1>5. HeardTells'
    BY <1>3 DEF HeardTells
  <1> QED
    BY <1>2, <1>4, <1>5 DEF IInv

\* A response that breaks an assertion stays among those the gate looks at.
LEMMA ProbeAnsweredInv ==
  ASSUME IInv, NEW p \in Pods, ProbeAnswered(p)
  PROVE  IInv'
  <1>1. PICK h \in BOOLEAN :
          /\ Eval!Responds(h)
          /\ p \in New /\ version = "regressed" => h = ~Eval!Current.assertions
    BY DEF ProbeAnswered
  <1>2. Proved!Responds(h)
    BY <1>1 DEF Eval!Responds, Proved!Responds, Eval!Finished, Proved!Finished, Eval!Current, Proved!Current,
       Eval!Judged, Proved!Judged
  <1>3. Proved!IInv'
    BY <1>2, ProverAssumption, Proved!RespondsInv DEF IInv
  <1>4. RolloutKept /\ UNCHANGED <<gauge, suite>> /\ held' = Append(held, h) /\ stage = "asking"
        /\ heard' \subseteq heard \cup {p}
    BY <1>1 DEF ProbeAnswered, Eval!Responds, rolloutVars, RolloutKept
  <1>5. RolloutType' /\ PromotionNeedsGreenRun' /\ BadVersionNeedsBlindRun' /\ ProbeFails' /\ GaugeTells'
    BY <1>4 DEF IInv, RolloutKept, RolloutType, PromotionNeedsGreenRun, BadVersionNeedsBlindRun, ProbeFails,
       Analysing, GaugeTells
  <1>6. /\ held \in Seq(BOOLEAN) /\ Len(held) = Len(results) /\ Len(held') = Len(held) + 1
        /\ Len(held) \in Nat /\ held'[Len(held) + 1] = h /\ \A i \in 1..Len(held) : held'[i] = held[i]
    BY <1>4 DEF IInv, Proved!IInv, Proved!TypeOK, Proved!Placed
  <1>7. HeardTells'
    <2>1. CASE version = "failing"
      <3>1. p \notin New
        BY <2>1 DEF ProbeAnswered
      <3> QED
        BY <1>4, <2>1, <3>1 DEF ProbeAnswered, HeardTells, IInv, RolloutKept
    <2>2. CASE version = "regressed" /\ heard \cap New # {}
      <3>1. PICK i \in 1..Len(held) : ~Proved!Judged(suite[i]) /\ ~held[i]
        BY <2>2 DEF IInv, HeardTells
      <3>2. i \in 1..Len(held') /\ ~held'[i]
        BY <1>6, <3>1
      <3> QED
        BY <1>4, <2>2, <3>1, <3>2 DEF HeardTells, RolloutKept, Proved!Judged
    <2>3. CASE version = "regressed" /\ heard \cap New = {} /\ heard' \cap New # {}
      <3>1. p \in New /\ Eval!Current.assertions /\ ~Eval!Judged(Eval!Current)
        BY <2>3 DEF ProbeAnswered, Asserts
      <3>2. ~h
        BY <1>1, <2>3, <3>1
      <3>3. ~Proved!Judged(suite[Len(held) + 1])
        BY <1>6, <3>1 DEF Eval!Judged, Eval!Current, Proved!Judged
      <3>4. Len(held) + 1 \in 1..Len(held')
        BY <1>6
      <3> QED
        BY <1>4, <1>6, <2>3, <3>2, <3>3, <3>4 DEF HeardTells, RolloutKept, Proved!Judged
    <2> QED
      BY <1>4, <2>1, <2>2, <2>3 DEF HeardTells, RolloutKept
  <1> QED
    BY <1>3, <1>5, <1>7 DEF IInv

LEMMA ProbeGoesOnInv ==
  ASSUME IInv, ProbeCrashes \/ ProbeJudged \/ ProbeDecides \/ ProbePostFails
  PROVE  IInv'
  <1>1. Proved!Crashes \/ Proved!JudgeVotes \/ Proved!CaseJudged \/ Proved!Gate \/ Proved!PostFails
    <2>1. CASE ProbeCrashes
      BY <2>1 DEF ProbeCrashes, Eval!Crashes, Proved!Crashes, Eval!Finished, Proved!Finished,
         Eval!Current, Proved!Current
    <2>2. CASE Eval!JudgeVotes
      BY <2>2 DEF Eval!JudgeVotes, Proved!JudgeVotes, Eval!Current, Proved!Current
    <2>3. CASE Eval!CaseJudged
      BY <2>3, SameAyes DEF Eval!CaseJudged, Proved!CaseJudged, Eval!Current, Proved!Current,
         Eval!MinPass, Proved!MinPass
    <2>4. CASE ProbeDecides
      <3>1. Proved!EvaluateGate(results) <=> Eval!EvaluateGate(results)
        BY SameAyes DEF Eval!EvaluateGate, Proved!EvaluateGate, Eval!Passed, Proved!Passed
      <3> QED
        BY <2>4, <3>1 DEF ProbeDecides, Eval!Gate, Proved!Gate, Eval!Finished, Proved!Finished
    <2>5. CASE ProbePostFails
      BY <2>5 DEF ProbePostFails, Eval!PostFails, Proved!PostFails, Eval!jobVars, Proved!jobVars
    <2> QED
      BY <2>1, <2>2, <2>3, <2>4, <2>5 DEF ProbeJudged
  <1>2. Proved!IInv'
    BY <1>1, ProverAssumption, Proved!CrashesInv, Proved!JudgeVotesInv, Proved!CaseJudgedInv,
       Proved!GateInv, Proved!PostInv DEF IInv
  <1>3. RolloutKept /\ UNCHANGED <<heard, suite, held, gauge>>
    BY DEF ProbeCrashes, ProbeJudged, ProbeDecides, ProbePostFails, Eval!Crashes, Eval!JudgeVotes,
       Eval!CaseJudged, Eval!Gate, Eval!PostFails, Eval!jobVars, rolloutVars, historyVars, RolloutKept
  <1> QED
    BY <1>2, <1>3, KeptInv

\* A green post is justified by its evidence; of a bad version, it is blind.
LEMMA ProbePostsInv ==
  ASSUME IInv, NEW p \in Pods, ProbePosts(p)
  PROVE  IInv'
  <1>1. Eval!PostsTo(p) /\ UNCHANGED <<version, step, up, codes, served, round, failed, heard>>
    BY DEF ProbePosts, rolloutVars
  <1>2. /\ stage = "posting" /\ gauge' = [gauge EXCEPT ![p] = IF exit = 0 THEN 1 ELSE 0]
        /\ UNCHANGED <<suite, held, results, exit>>
    BY <1>1 DEF Eval!PostsTo, Eval!jobVars
  <1>3. Proved!IInv'
    <2>1. Proved!Posts
      BY <1>1 DEF Eval!PostsTo, Proved!PostsTo, Proved!Posts, Eval!jobVars, Proved!jobVars, Pods
    <2> QED
      BY <2>1, ProverAssumption, Proved!PostInv DEF IInv
  <1>4. exit = 0 => Eval!Justified
    <2>1. exit = 0 => Proved!Finished /\ Proved!EvaluateGate(results)
      BY <1>2 DEF IInv, Proved!IInv, Proved!Placed, Proved!Decided
    <2>2. exit = 0 => Proved!Justified
      BY <2>1, ProverAssumption, Proved!GateIsJustified DEF IInv
    <2>3. Proved!Justified <=> Eval!Justified
      <3>1. \A i : Proved!Judged(suite[i]) <=> Eval!Judged(suite[i])
        BY DEF Proved!Judged, Eval!Judged
      <3>2. \A i : Proved!Earned(i) = Eval!Earned(i)
        BY SameAyes DEF Proved!Earned, Eval!Earned, Proved!Judged, Eval!Judged, Proved!Majority, Eval!Majority
      <3>3. [i \in DOMAIN suite |-> Proved!Earned(i)] = [i \in DOMAIN suite |-> Eval!Earned(i)]
        BY <3>2
      <3> QED
        BY <3>1, <3>3, SameAyes DEF Proved!Justified, Eval!Justified, Proved!Finished, Eval!Finished
    <2> QED
      BY <2>2, <2>3
  <1>5. exit = 0 => greens' = greens \cup {IF heard \cap New = {} THEN "blind" ELSE "seen"}
    BY <1>4 DEF ProbePosts
  <1>6. exit # 0 => greens' = greens
    BY DEF ProbePosts
  <1>7. exit = 0 /\ version # "good" => heard \cap New = {}
    <2>1. exit = 0 => \A i \in DOMAIN suite : Proved!Judged(suite[i]) \/ held[i]
      BY <1>4 DEF Eval!Justified, Eval!Judged, Proved!Judged
    <2>2. exit = 0 => Len(held) = Len(suite)
      BY <1>2 DEF IInv, Proved!IInv, Proved!Placed, Proved!Decided, Proved!Finished
    <2>3. DOMAIN suite = 1..Len(suite)
      BY ProberAssumption DEF IInv, Proved!IInv, Proved!TypeOK
    <2> QED
      BY <2>1, <2>2, <2>3, CanaryAssumption DEF IInv, HeardTells, RolloutType
  <1>8. greens \subseteq greens' /\ greens' \subseteq {"blind", "seen"}
    BY <1>5, <1>6 DEF IInv, RolloutType
  <1>9. RolloutType' /\ PromotionNeedsGreenRun' /\ BadVersionNeedsBlindRun' /\ ProbeFails'
    BY <1>1, <1>8 DEF IInv, RolloutType, PromotionNeedsGreenRun, BadVersionNeedsBlindRun, ProbeFails, Analysing
  <1>10. GaugeTells'
    <2> SUFFICES ASSUME NEW q \in Pods, gauge'[q] = 1
                 PROVE  greens' # {} /\ (version # "good" => "blind" \in greens')
      BY <1>1 DEF GaugeTells
    <2>1. gauge \in [Pods -> {0, 1}]
      BY DEF IInv, Proved!IInv, Proved!TypeOK, Pods
    <2>2. CASE exit = 0
      BY <1>5, <1>7, <2>2
    <2>3. CASE exit # 0
      <3>1. gauge[q] = 1
        BY <1>2, <2>1, <2>3
      <3> QED
        BY <1>8, <3>1 DEF IInv, GaugeTells
    <2> QED
      BY <2>2, <2>3
  <1>11. HeardTells'
    BY <1>1, <1>2 DEF IInv, HeardTells, Proved!Judged
  <1> QED
    BY <1>3, <1>9, <1>10, <1>11 DEF IInv
-----------------------------------------------------------------------------
(* The rollout.                                                            *)

LEMMA RunsInv ==
  ASSUME Proved!IInv, GaugeTells, HeardTells, NEW pods, Runs(pods), UNCHANGED <<version, greens, heard>>
  PROVE  Proved!IInv' /\ GaugeTells' /\ HeardTells'
  <1>1. /\ gauge' = [p \in Pods |-> IF p \in pods \cap up THEN gauge[p] ELSE 0]
        /\ UNCHANGED <<stage, suite, results, votes, exit, report, jobs, held>>
    BY DEF Runs
  <1>2. gauge \in [Stable \cup New -> {0, 1}]
    BY DEF Proved!IInv, Proved!TypeOK, Pods
  <1>3. gauge' \in [Stable \cup New -> {0, 1}] /\ \A p \in Pods : gauge'[p] = 1 => gauge[p] = 1
    BY <1>1, <1>2 DEF Pods
  <1>4. Proved!IInv'
    BY <1>1, <1>3 DEF Proved!IInv, Proved!TypeOK, Proved!Placed, Proved!Decided, Proved!Explains,
       Proved!Current, Proved!Finished, Proved!EvaluateGate, Proved!Passed, Pods
  <1>5. GaugeTells'
    BY <1>3 DEF GaugeTells
  <1>6. HeardTells'
    BY <1>1 DEF HeardTells, Proved!Judged
  <1> QED
    BY <1>4, <1>5, <1>6

LEMMA SetWeightInv ==
  ASSUME IInv, NEW s \in {"canary20", "canary50"}, SetWeight(s)
  PROVE  IInv'
  <1>1. /\ step' = s /\ round' = 0 /\ failed' = [m \in Metrics |-> 0]
        /\ UNCHANGED <<version, codes, served, greens, heard>>
    BY DEF SetWeight, historyVars
  <1>2. \E pods \in Mixed : Runs(pods)
    BY DEF SetWeight
  <1>3. Proved!IInv' /\ GaugeTells' /\ HeardTells' /\ up' \subseteq Pods /\ up' # {}
    BY <1>1, <1>2, RunsInv DEF IInv, Mixed, Runs
  <1>4. RolloutType' /\ ProbeFails' /\ PromotionNeedsGreenRun' /\ BadVersionNeedsBlindRun'
    BY <1>1, <1>3, CanaryAssumption DEF IInv, RolloutType, ProbeFails, Metrics, PromotionNeedsGreenRun, BadVersionNeedsBlindRun
  <1> QED
    BY <1>3, <1>4 DEF IInv

\* Without a green run no gauge is up, and the probe metric cannot succeed.
LEMMA MeasureInv ==
  ASSUME IInv, Measure
  PROVE  IInv'
  <1>1. PICK reads \in [Metrics -> BOOLEAN] :
          /\ \A m \in Metrics : reads[m] \in Reads(m)
          /\ failed' = [m \in Metrics |-> IF reads[m] THEN failed[m] ELSE failed[m] + 1]
    BY DEF Measure
  <1>2. round' = round + 1 /\ UNCHANGED <<probeVars, version, step, up, codes, served, heard, greens>>
    BY DEF Measure, historyVars
  <1>3. Proved!IInv' /\ GaugeTells' /\ HeardTells' /\ PromotionNeedsGreenRun' /\ BadVersionNeedsBlindRun'
    BY <1>2 DEF probeVars, IInv, Proved!IInv, Proved!TypeOK, Proved!Placed, Proved!Decided, Proved!Explains,
       Proved!Current, Proved!Finished, Proved!EvaluateGate, Proved!Passed, GaugeTells, HeardTells,
       PromotionNeedsGreenRun, BadVersionNeedsBlindRun
  <1>4. RolloutType'
    <2>1. \A m \in Metrics : failed[m] \in 0..FailureLimit
      BY CanaryAssumption DEF Measure, AnalysisFailed, IInv, RolloutType
    <2>2. failed' \in [Metrics -> 0..(FailureLimit + 1)]
      BY <1>1, <2>1, CanaryAssumption
    <2>3. round' \in 0..Count
      BY <1>2, CanaryAssumption DEF Measure, IInv, RolloutType
    <2> QED
      BY <1>2, <2>2, <2>3 DEF IInv, RolloutType
  <1>5. ASSUME greens = {} \/ (version # "good" /\ "blind" \notin greens)
        PROVE  ~reads["canary-probe-success"]
    <2>1. \A p \in Pods : gauge[p] # 1
      BY <1>5 DEF IInv, GaugeTells
    <2>2. up \subseteq Pods
      BY DEF IInv, RolloutType
    <2> QED
      BY <1>1, <2>1, <2>2 DEF Reads, ProbeReads, Metrics
  <1>6. ProbeFails'
    BY <1>1, <1>2, <1>5 DEF IInv, RolloutType, ProbeFails, Analysing, Metrics
  <1> QED
    BY <1>3, <1>4, <1>6 DEF IInv

\* What passes an analysis has had such a run: there are more measurements than
\* failures it tolerates.
LEMMA PassedNeedsGreen ==
  ASSUME FailureLimit < Count, IInv, Analysing, AnalysisPassed
  PROVE  greens # {} /\ (version # "good" => "blind" \in greens)
  <1>1. failed["canary-probe-success"] <= FailureLimit /\ round = Count
    BY CanaryAssumption DEF AnalysisPassed, AnalysisFailed, Metrics, IInv, RolloutType
  <1>2. failed["canary-probe-success"] # round
    BY <1>1, CanaryAssumption
  <1> QED
    BY <1>2 DEF IInv, ProbeFails

LEMMA PromoteInv ==
  ASSUME FailureLimit < Count, IInv, Promote
  PROVE  IInv'
  <1>1. step = "canary50" /\ AnalysisPassed /\ step' = "promoted" /\ Runs(New)
        /\ UNCHANGED <<version, codes, served, round, failed, greens, heard>>
    BY DEF Promote, historyVars
  <1>2. greens # {} /\ (version # "good" => "blind" \in greens)
    BY <1>1, PassedNeedsGreen DEF Analysing
  <1>3. Proved!IInv' /\ GaugeTells' /\ HeardTells' /\ up' \subseteq Pods /\ up' # {}
    BY <1>1, RunsInv, CanaryAssumption DEF IInv, Runs, Pods
  <1>4. RolloutType' /\ ProbeFails' /\ PromotionNeedsGreenRun' /\ BadVersionNeedsBlindRun'
    BY <1>1, <1>2, <1>3 DEF IInv, RolloutType, ProbeFails, Analysing, PromotionNeedsGreenRun, BadVersionNeedsBlindRun
  <1> QED
    BY <1>3, <1>4 DEF IInv

LEMMA AbortInv ==
  ASSUME IInv, Abort
  PROVE  IInv'
  <1>1. step' = "aborted" /\ Runs(Stable) /\ UNCHANGED <<version, codes, served, round, failed, greens, heard>>
    BY DEF Abort, historyVars
  <1>2. Proved!IInv' /\ GaugeTells' /\ HeardTells' /\ up' \subseteq Pods /\ up' # {}
    BY <1>1, RunsInv, CanaryAssumption DEF IInv, Runs, Pods
  <1>3. RolloutType' /\ ProbeFails' /\ PromotionNeedsGreenRun' /\ BadVersionNeedsBlindRun'
    BY <1>1, <1>2 DEF IInv, RolloutType, ProbeFails, Analysing, PromotionNeedsGreenRun, BadVersionNeedsBlindRun
  <1> QED
    BY <1>2, <1>3 DEF IInv
-----------------------------------------------------------------------------
(* All steps.                                                              *)

LEMMA UserRequestInv ==
  ASSUME IInv, NEW p \in Pods, UserRequest(p)
  PROVE  IInv'
  <1>1. UNCHANGED <<probeVars, version, step, up, round, failed, heard, greens>>
    BY DEF UserRequest, historyVars
  <1>2. Proved!IInv'
    BY <1>1 DEF probeVars, IInv, Proved!IInv, Proved!TypeOK, Proved!Placed, Proved!Decided, Proved!Explains,
       Proved!Current, Proved!Finished, Proved!EvaluateGate, Proved!Passed
  <1> QED
    BY <1>1, <1>2, KeptInv DEF probeVars, RolloutKept

LEMMA InvStep ==
  ASSUME FailureLimit < Count, IInv, [Next]_vars
  PROVE  IInv'
  <1>1. CASE \E p \in Pods : UserRequest(p) \/ ProbeAnswered(p) \/ ProbePosts(p)
    BY <1>1, UserRequestInv, ProbeAnsweredInv, ProbePostsInv
  <1>2. CASE ProbeStarts \/ ProbeCrashes \/ ProbeJudged \/ ProbeDecides \/ ProbePostFails
    BY <1>2, ProbeStartsInv, ProbeGoesOnInv
  <1>3. CASE RolloutStarts \/ NextWeight
    BY <1>3, SetWeightInv DEF RolloutStarts, NextWeight
  <1>4. CASE Measure \/ Abort \/ Promote
    BY <1>4, MeasureInv, AbortInv, PromoteInv
  <1>5. CASE UNCHANGED vars
    <2>1. UNCHANGED <<probeVars, version, step, up, round, failed, heard, greens>>
      BY <1>5 DEF vars, rolloutVars, historyVars
    <2>2. Proved!IInv'
      BY <2>1 DEF probeVars, IInv, Proved!IInv, Proved!TypeOK, Proved!Placed, Proved!Decided, Proved!Explains,
         Proved!Current, Proved!Finished, Proved!EvaluateGate, Proved!Passed
    <2> QED
      BY <2>1, <2>2, KeptInv DEF probeVars, RolloutKept
  <1> QED
    BY <1>1, <1>2, <1>3, <1>4, <1>5 DEF Next, Rollout

LEMMA Invariance ==
  ASSUME FailureLimit < Count
  PROVE  Spec => []IInv
  <1>1. IInv /\ [Next]_vars => IInv'
    BY InvStep
  <1> QED
    BY <1>1, InvInit, PTL DEF Spec

\* Every variable keeps its type, and no metric fails more than once too often.
THEOREM TypeCorrect ==
  ASSUME FailureLimit < Count
  PROVE  Spec => []TypeOK
  <1> DEFINE TrafficType == codes \subseteq {200, 502} /\ served \subseteq {200, 502}
  <1>1. Init => TrafficType
    BY DEF Init
  <1>2. TrafficType /\ [Next]_vars => TrafficType'
    <2> SUFFICES ASSUME TrafficType, [Next]_vars PROVE TrafficType'
      OBVIOUS
    <2>1. CASE \E p \in Pods : UserRequest(p)
      BY <2>1 DEF UserRequest, Recorded
    <2>2. CASE UNCHANGED <<codes, served>>
      BY <2>2
    <2> QED
      BY <2>1, <2>2 DEF Next, vars, rolloutVars, ProbeStarts, ProbeAnswered, ProbePosts, ProbeCrashes,
         ProbeJudged, ProbeDecides, ProbePostFails, Rollout, RolloutStarts, NextWeight, SetWeight, Measure, Abort, Promote
  <1>3. IInv /\ TrafficType => TypeOK
    <2> SUFFICES ASSUME IInv, TrafficType PROVE TypeOK
      OBVIOUS
    <2>1. Eval!TypeOK
      BY DEF IInv, Proved!IInv, Proved!TypeOK, Eval!TypeOK, Proved!CaseResult, Eval!CaseResult
    <2> QED
      BY <2>1 DEF IInv, RolloutType, TypeOK
  <1> QED
    BY <1>1, <1>2, <1>3, Invariance, PTL DEF Spec

\* Nothing is promoted on missing data, with any pods, suites and jobs, while the
\* analysis measures more often than it tolerates failures.
THEOREM PromotionsNeedGreenRuns ==
  ASSUME FailureLimit < Count
  PROVE  Spec => []PromotionNeedsGreenRun
  BY Invariance, PTL DEF IInv

\* A version that breaks the suite is promoted only on a green run that did not
\* hold a pod of that version to an assertion.
THEOREM BadVersionsNeedBlindRuns ==
  ASSUME FailureLimit < Count
  PROVE  Spec => []BadVersionNeedsBlindRun
  BY Invariance, PTL DEF IInv
=============================================================================
