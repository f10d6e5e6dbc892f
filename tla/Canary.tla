------------------------------- MODULE Canary -------------------------------
(***************************************************************************)
(* A canary rollout of the gateway (deploy/k8s/base/gateway): pods of the  *)
(* new version join the Service in steps, an analysis of three Prometheus  *)
(* queries stands between the steps, and meanwhile prober jobs (EvalGate)  *)
(* and users call whichever pod the Service picks.                         *)
(*                                                                         *)
(* Argo Rollouts and Prometheus are external: what the manifests ask of    *)
(* them. How many pods each step runs is left open (any mix of versions).  *)
(***************************************************************************)
EXTENDS Naturals, Sequences, FiniteSets

CONSTANTS Stable, New,       \* pods of the version that serves, of the new one
          Versions,          \* what the new version may be
          Count,             \* measurements of each metric in an analysis
          FailureLimit,      \* failed ones it tolerates
          Suites, HasJudge, Threshold, MaxJobs \* of the prober's EvalGate

Pods == Stable \cup New

(* good      - answers like the stable version                             *)
(* regressed - answers 200, and breaks the assertions of every case        *)
(*             that has some                                               *)
(* failing   - answers every completion with an error                      *)
ASSUME CanaryAssumption ==
    /\ Stable \cap New = {} /\ Stable # {} /\ New # {}
    /\ Versions \subseteq {"good", "regressed", "failing"}
    /\ Count \in Nat \ {0} /\ FailureLimit \in Nat

VARIABLES stage, suite, results, votes, exit, report, gauge, jobs, held  \* EvalGate's

VARIABLES version,    \* what the new version is
          step,       \* idle, canary20, canary50, promoted or aborted
          up,         \* the pods behind the Service
          codes,      \* code labels in the duration histogram
          round,      \* measurements made in this analysis
          failed,     \* failed[m]: how many of them failed
          served,     \* history: statuses that users were answered with
          heard,      \* history: pods whose answer the run in progress held to assertions
          greens      \* history: kinds of justified green runs posted

Eval == INSTANCE EvalGate

ASSUME ProberAssumption ==
    /\ Suites \subseteq Seq(Eval!Case)
    /\ HasJudge \in BOOLEAN /\ Threshold \in 0..100 /\ MaxJobs \in Nat

probeVars == <<stage, suite, results, votes, exit, report, gauge, jobs, held>>
rolloutVars == <<version, step, up, codes, round, failed, served>>
historyVars == <<heard, greens>>
vars == <<probeVars, rolloutVars, historyVars>>

Metrics == {"error-rate", "p95-latency", "canary-probe-success"}
Analysing == step \in {"canary20", "canary50"}

TypeOK ==
    /\ Eval!TypeOK
    /\ version \in Versions
    /\ step \in {"idle", "canary20", "canary50", "promoted", "aborted"}
    /\ up \subseteq Pods /\ up # {}
    /\ codes \subseteq {200, 502} /\ served \subseteq {200, 502}
    /\ round \in 0..Count
    /\ failed \in [Metrics -> 0..(FailureLimit + 1)]
    /\ heard \subseteq Pods
    /\ greens \subseteq {"blind", "seen"}

Init ==
    /\ Eval!Init
    /\ version \in Versions
    /\ step = "idle" /\ up = Stable
    /\ codes = {} /\ served = {}
    /\ round = 0 /\ failed = [m \in Metrics |-> 0]
    /\ heard = {} /\ greens = {}
-----------------------------------------------------------------------------
(* Users and prober jobs. The Service knows nothing of versions.           *)

\* record_completion comes after the provider's answer: an error, raised or
\* streamed, is never recorded, and the label is always 200.
Recorded(status) == IF status = 200 THEN {200} ELSE {}

UserRequest(p) ==
    LET status == IF p \in New /\ version = "failing" THEN 502 ELSE 200
    IN /\ p \in up
       /\ served' = served \cup {status}
       /\ codes' = codes \cup Recorded(status)
       /\ UNCHANGED <<probeVars, version, step, up, round, failed, historyVars>>

ProbeStarts ==
    /\ Eval!Start
    /\ heard' = {}
    /\ UNCHANGED <<rolloutVars, greens>>

\* Does run_case hold the answer to an assertion? Not in a judged case, nor in
\* one that has none.
Asserts == Eval!Current.assertions /\ ~Eval!Judged(Eval!Current)

\* One golden prompt, answered by pod p. A regressed pod breaks whatever
\* assertions the case has.
ProbeAnswered(p) ==
    /\ p \in up
    /\ p \in New => version # "failing"
    /\ \E h \in BOOLEAN :
         /\ Eval!Responds(h)
         /\ p \in New /\ version = "regressed" => h = ~Eval!Current.assertions
    /\ heard' = IF Asserts THEN heard \cup {p} ELSE heard
    /\ UNCHANGED <<rolloutVars, greens>>

\* A pod that fails, the judge, or the network.
ProbeCrashes == Eval!Crashes /\ UNCHANGED <<rolloutVars, historyVars>>

ProbeJudged == (Eval!JudgeVotes \/ Eval!CaseJudged) /\ UNCHANGED <<rolloutVars, historyVars>>

ProbeDecides == Eval!Gate /\ UNCHANGED <<rolloutVars, historyVars>>

\* The Service picks the pod that hears the outcome anew.
ProbePosts(p) ==
    /\ p \in up
    /\ Eval!PostsTo(p)
    /\ greens' = IF exit = 0 /\ Eval!Justified
                 THEN greens \cup {IF heard \cap New = {} THEN "blind" ELSE "seen"}
                 ELSE greens
    /\ UNCHANGED <<rolloutVars, heard>>

ProbePostFails == Eval!PostFails /\ UNCHANGED <<rolloutVars, historyVars>>
-----------------------------------------------------------------------------
(* The rollout.                                                            *)

\* A pod that goes takes its gauge along; one that comes starts at zero.
Runs(pods) ==
    /\ up' = pods
    /\ gauge' = [p \in Pods |-> IF p \in pods \cap up THEN gauge[p] ELSE 0]
    /\ UNCHANGED <<stage, suite, results, votes, exit, report, jobs, held>>

Mixed == {pods \in SUBSET Pods : pods \cap Stable # {} /\ pods \cap New # {}}

\* setWeight, and a fresh analysis behind it.
SetWeight(s) ==
    /\ step' = s
    /\ \E pods \in Mixed : Runs(pods)
    /\ round' = 0 /\ failed' = [m \in Metrics |-> 0]
    /\ UNCHANGED <<version, codes, served, historyVars>>

RolloutStarts == step = "idle" /\ SetWeight("canary20")

\* Slip: a missing series is good news, as it is for the other two metrics.
ProbeReadsEmpty == {gauge[p] = 1 : p \in up} \cup {TRUE}

\* gateway_canary_probe_success has one element for each pod that was scraped,
\* and result[0] is any of them; without one, the condition is false.
ProbeReads == {gauge[p] = 1 : p \in up} \cup {FALSE}

\* An empty result succeeds; otherwise the rate over the window, or NaN.
Reads(m) ==
    CASE m = "error-rate"  -> IF 502 \in codes THEN BOOLEAN ELSE {TRUE}
      [] m = "p95-latency" -> IF codes = {} THEN {TRUE} ELSE BOOLEAN
      [] OTHER             -> ProbeReads

AnalysisFailed == \E m \in Metrics : failed[m] > FailureLimit

\* Slip: a round with a failure in it is taken again.
MeasureAgain ==
    /\ Analysing /\ round < Count /\ ~AnalysisFailed
    /\ \E reads \in [Metrics -> BOOLEAN] :
         /\ \A m \in Metrics : reads[m] \in Reads(m)
         /\ round' = IF \A m \in Metrics : reads[m] THEN round + 1 ELSE round
    /\ UNCHANGED <<probeVars, version, step, up, codes, served, failed, historyVars>>

\* Slip: the analysis goes on after a metric has failed.
MeasureOn ==
    /\ Analysing /\ round < Count
    /\ \E reads \in [Metrics -> BOOLEAN] :
         /\ \A m \in Metrics : reads[m] \in Reads(m)
         /\ failed' = [m \in Metrics |-> IF reads[m] THEN failed[m] ELSE failed[m] + 1]
    /\ round' = round + 1
    /\ UNCHANGED <<probeVars, version, step, up, codes, served, historyVars>>

\* At each interval, every metric is measured once.
Measure ==
    /\ Analysing /\ round < Count /\ ~AnalysisFailed
    /\ \E reads \in [Metrics -> BOOLEAN] :
         /\ \A m \in Metrics : reads[m] \in Reads(m)
         /\ failed' = [m \in Metrics |-> IF reads[m] THEN failed[m] ELSE failed[m] + 1]
    /\ round' = round + 1
    /\ UNCHANGED <<probeVars, version, step, up, codes, served, historyVars>>

Abort ==
    /\ Analysing /\ AnalysisFailed
    /\ step' = "aborted"
    /\ Runs(Stable)
    /\ UNCHANGED <<version, codes, round, failed, served, historyVars>>

AnalysisPassed == round = Count /\ ~AnalysisFailed

NextWeight == step = "canary20" /\ AnalysisPassed /\ SetWeight("canary50")

Promote ==
    /\ step = "canary50" /\ AnalysisPassed
    /\ step' = "promoted"
    /\ Runs(New)
    /\ UNCHANGED <<version, codes, round, failed, served, historyVars>>

Rollout == RolloutStarts \/ Measure \/ Abort \/ NextWeight \/ Promote

Next ==
    \/ \E p \in Pods : UserRequest(p) \/ ProbeAnswered(p) \/ ProbePosts(p)
    \/ ProbeStarts \/ ProbeCrashes \/ ProbeJudged \/ ProbeDecides \/ ProbePostFails
    \/ Rollout

Spec == Init /\ [][Next]_vars

\* Argo goes on measuring and acts on the outcome. No job need ever run.
FairSpec == Spec /\ WF_vars(Measure) /\ WF_vars(Abort) /\ WF_vars(NextWeight) /\ WF_vars(Promote)
-----------------------------------------------------------------------------
(* Properties.                                                             *)

\* Nothing is promoted on missing data: a run of the suite was green, by its
\* evidence, and posted before.
PromotionNeedsGreenRun == step = "promoted" => greens # {}

\* The eval suite is the only guard against a bad version, and it has one gap: a
\* version that breaks the suite is promoted only on a green run in which no pod
\* of that version was held to an assertion.
BadVersionNeedsBlindRun == step = "promoted" /\ version # "good" => "blind" \in greens

\* Every analysis comes to an end, with whatever jobs, scrapes and requests.
AnalysisEnds == \A s \in {"canary20", "canary50"} : step = s ~> step # s

(* What the repository says of the rollout and the code does not keep.     *)

\* README.md:324 and 329: the analysis queries the error rate, and a failed analysis
\* aborts; so a version that answers users with errors is not promoted.
ErrorsStopTheRollout == step = "promoted" => 502 \notin served
=============================================================================
