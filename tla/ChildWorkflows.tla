---------------------------- MODULE ChildWorkflows ----------------------------
(***************************************************************************)
(* The three benchmarks that act through child workflows of GitHub         *)
(* Actions: CI recovery, adaptive diagnosis and the transfer firewall      *)
(* (run_live_ci_recovery.py, whose GitHubActionsProvider they share,       *)
(* run_live_adaptive_diagnosis.py and run_live_transfer_firewall.py, with  *)
(* the scorers of ci_recovery.py, adaptive_diagnosis.py and                *)
(* transfer_firewall.py).                                                  *)
(*                                                                         *)
(* A workflow run calibrates its memory with real child runs, lets the     *)
(* three arms propose, executes every proposal as another child run, and   *)
(* scores.  A dispatch has no answer that names its run: the run is found  *)
(* by its title, which is the correlation, and by its time.  A failed      *)
(* workflow run may be run again, as the next attempt of the same run.     *)
(*                                                                         *)
(* One fault family and one case stand for all of them; what the agent     *)
(* does inside an episode is the subject of AdaptiveDiagnosis.             *)
(***************************************************************************)
EXTENDS Integers, FiniteSets

CONSTANTS
    Window,     \* dispatched_after is the local time less Window
    RestartGap, \* what passes at least between two attempts' dispatches
    MaxSecond   \* bound of the clock

ASSUME ChildAssumption == Window \in Nat /\ RestartGap \in Nat /\ MaxSecond \in Nat

Tries == 1..2
CandidateArms == {"stateless", "raw_rag", "continuum"}
Phases == {"baseline", "wrong", "green"}
Fixes == {"expected", "other"}

VARIABLES
    contest,    \* the benchmark; is the source memory's cause the target's?
    try,        \* GITHUB_RUN_ATTEMPT
    second,     \* the clock
    startable,  \* when a next attempt may begin
    inputs,     \* what this attempt has sealed under its own prefix
    tip,        \* the head of the branch, where a dispatched run starts
    leg,        \* where run_benchmark is
    due,        \* requests of the batch that are not dispatched yet
    sent,       \* those that are
    after,      \* dispatched_after of the batch
    childRuns,  \* the runs at GitHub
    found,      \* found[q]: the run that was discovered for a request
    receiptOf,  \* receiptOf[q]: its run and its conclusion
    proposal,   \* proposal[arm]: the patch, or "no_patch"
    adopted,    \* arms that proposed by the source memory
    probed,     \* arms with a diagnostic receipt
    grade       \* the gate of the report: none, PASS, FAIL

childVars == <<contest, try, second, startable, inputs, tip, leg, due, sent, after,
               childRuns, found, receiptOf, proposal, adopted, probed, grade>>

Nothing == <<>>

\* The cases: a recurrence of the calibrated fault, and for the transfer
\* benchmark a target of another environment, whose cause is the source's or
\* another one's with the same symptoms.
CiCases == [bench : {"ci_recovery"}, sameCause : {TRUE}]
AdaptiveCases == [bench : {"adaptive"}, sameCause : {TRUE}]
TransferCases == [bench : {"transfer"}, sameCause : BOOLEAN]

ChildInit ==
    /\ contest \in UNION {CiCases, AdaptiveCases, TransferCases}
    /\ try = 1
    /\ second = Window
    /\ startable = 0
    /\ inputs = {}
    /\ tip = "sealed head"
    /\ leg = "start"
    /\ due = {} /\ sent = {} /\ after = 0
    /\ childRuns = {} /\ found = Nothing /\ receiptOf = Nothing
    /\ proposal = Nothing /\ adopted = {} /\ probed = {}
    /\ grade = "none"

Benchmark(name) == contest.bench = name

\* The legs, in the order of run_benchmark.
BatchLegs == {"calibrate", "attest", "remediate"}
LegAfter ==
    CASE leg = "calibrate" -> IF Benchmark("transfer") THEN "attest" ELSE "candidates"
      [] leg = "attest"    -> "candidates"
      [] leg = "remediate" -> "score"

-----------------------------------------------------------------------------
(* Requests and runs.                                                      *)

ChildRequest(kind, operation) == [kind |-> kind, operation |-> operation]

CalibrationRequests == {ChildRequest("calibration", p) : p \in Phases}
AttestationRequests == {ChildRequest("attestation", "target")}
RemediationRequests == {ChildRequest(arm, proposal[arm]) : arm \in CandidateArms}

\* _correlation: of the campaign, which a second attempt shares, and of the
\* case; the sealed cases of two benchmarks are new in each attempt.
Correlation(q) ==
    [request |-> q, salt |-> IF Benchmark("ci_recovery") THEN 0 ELSE try]

\* A child run as GitHub shows it; `of' is the attempt that dispatched it.
ChildRun(q) == [title |-> Correlation(q), created |-> second, head |-> tip, of |-> try]

StartBatch(requests) ==
    /\ due' = requests
    /\ sent' = {}
    /\ after' = second - Window
    /\ found' = Nothing

-----------------------------------------------------------------------------
(* execute_batch.                                                          *)

NextDue == CHOOSE q \in due : TRUE

\* _dispatch is never retried.
Dispatch ==
    /\ leg \in BatchLegs
    /\ due # {}
    /\ due' = due \ {NextDue}
    /\ sent' = sent \cup {NextDue}
    /\ childRuns' = childRuns \cup {ChildRun(NextDue)}
    /\ UNCHANGED <<contest, try, second, startable, inputs, tip, leg, after, found, receiptOf,
                   proposal, adopted, probed, grade>>

\* An exception ends the process, and with it all that was not at GitHub.
Die ==
    /\ leg' = "died"
    /\ startable' = second + RestartGap
    /\ due' = {} /\ sent' = {} /\ after' = 0
    /\ found' = Nothing /\ receiptOf' = Nothing /\ proposal' = Nothing
    /\ adopted' = {} /\ probed' = {}

\* The call fails, or its answer is lost after the run was created.
DispatchFails ==
    /\ leg \in BatchLegs
    /\ due # {}
    /\ childRuns' \in {childRuns, childRuns \cup {ChildRun(NextDue)}}
    /\ Die
    /\ UNCHANGED <<contest, try, second, inputs, tip, grade>>

\* As a defect: the time of the dispatch would not be held against the run's.
MatchesByTitle(q) == {r \in childRuns : r.title = Correlation(q)}

\* _discover_runs: the runs of the title that are not too old.
Matches(q) == {r \in childRuns : r.title = Correlation(q) /\ r.created >= after}

DiscoverRuns ==
    /\ leg \in BatchLegs
    /\ due = {} /\ found = Nothing
    /\ \E f \in [sent -> childRuns] :
          /\ \A q \in sent : f[q] \in Matches(q)
          /\ IF \A q \in sent : f[q].head = "sealed head"
               THEN /\ found' = f
                    /\ UNCHANGED <<startable, leg, due, sent, after, receiptOf,
                                   proposal, adopted, probed>>
               ELSE Die                 \* the source head drifted
    /\ UNCHANGED <<contest, try, second, inputs, tip, childRuns, grade>>

\* _wait_terminal, _artifact, _read_child_receipt and the checks of the receipt:
\* each run's exercise passed or failed, as its conclusion says.
Passed(receipts, q) == receipts[q] = "success"

\* What the fixture of a child makes of its operation: a read-only one passes or
\* leaves no receipt, the contract test of a workspace may also fail.
Exercises(q) == IF q.kind = "attestation" THEN {"success"} ELSE {"success", "failure"}

\* The CI benchmark demands the conclusions of its calibration here, the others
\* leave that to their scorers.
CiDemands(conclusions) ==
    Benchmark("ci_recovery") =>
        \A q \in sent : Passed(conclusions, q) <=> q.operation = "green"

CollectReceipts ==
    /\ leg \in BatchLegs
    /\ found # Nothing
    /\ \E conclusions \in [sent -> {"success", "failure"}] :
          /\ \A q \in sent : conclusions[q] \in Exercises(q)
          /\ CiDemands(conclusions)
          /\ receiptOf' = [q \in sent \cup DOMAIN receiptOf |->
                             IF q \in sent
                               THEN [run |-> found[q], conclusion |-> conclusions[q]]
                               ELSE receiptOf[q]]
    /\ leg' = LegAfter
    /\ IF LegAfter = "attest" THEN StartBatch(AttestationRequests)
                              ELSE UNCHANGED <<due, sent, after, found>>
    /\ UNCHANGED <<contest, try, second, startable, inputs, tip, childRuns, proposal,
                   adopted, probed, grade>>

\* A list that never shows the run, a run that never ends or is cancelled.
WaitFails ==
    /\ leg \in BatchLegs
    /\ due = {}
    /\ Die
    /\ UNCHANGED <<contest, try, second, inputs, tip, childRuns, grade>>

\* An artifact that is missing, cannot be downloaded or does not match.
ReceiptUnreadable ==
    /\ leg \in BatchLegs
    /\ found # Nothing
    /\ Die
    /\ UNCHANGED <<contest, try, second, inputs, tip, childRuns, grade>>

-----------------------------------------------------------------------------
(* The attempts and the candidates.                                        *)

Seals == {"challenge", "labels", "commitment"}

\* One write-once object after the other.
SealInputs ==
    /\ leg = "start"
    /\ ~Benchmark("ci_recovery")
    /\ \E object \in Seals \ inputs :
          /\ object = "commitment" => inputs = Seals \ {object}
          /\ object = "labels" => "challenge" \in inputs
          /\ inputs' = inputs \cup {object}
    /\ UNCHANGED <<contest, try, second, startable, tip, leg, due, sent, after, childRuns,
                   found, receiptOf, proposal, adopted, probed, grade>>

\* A put fails: the objects before it stay, and nothing else is done with them.
SealFails ==
    /\ leg = "start"
    /\ ~Benchmark("ci_recovery")
    /\ inputs # Seals
    /\ Die
    /\ UNCHANGED <<contest, try, second, inputs, tip, childRuns, grade>>

\* _validate_seal: the seal comes before the first run and the first model call.
Sealed == Benchmark("ci_recovery") \/ inputs = Seals

BeginAttempt ==
    /\ leg = "start"
    /\ Sealed
    /\ leg' = "calibrate"
    /\ StartBatch(CalibrationRequests)
    /\ UNCHANGED <<contest, try, second, startable, inputs, tip, childRuns, receiptOf,
                   proposal, adopted, probed, grade>>

\* "Re-run failed jobs".
RunAgain ==
    /\ leg \in {"died", "failed"}
    /\ try = 1
    /\ second >= startable
    /\ try' = 2
    /\ leg' = "start"
    /\ receiptOf' = Nothing /\ proposal' = Nothing /\ adopted' = {} /\ probed' = {}
    /\ grade' = "none"
    /\ inputs' = {}
    /\ UNCHANGED <<contest, second, startable, tip, due, sent, after, childRuns, found>>

\* _propose of the CI benchmark passes AgentOrchestrator an argument that it
\* does not have: TypeError, for the first case and the first arm.
ProposeRaises ==
    /\ leg = "candidates"
    /\ Benchmark("ci_recovery")
    /\ Die
    /\ UNCHANGED <<contest, try, second, inputs, tip, childRuns, grade>>

\* What a memory arm is shown: the note says that its patch succeeded, whatever
\* the calibration's receipt says.
Remembered == IF contest.sameCause THEN "expected" ELSE "other"

\* For the continuum arm of the transfer benchmark, the server compares the
\* attested causes of source and target first.
MayTransfer(arm) == arm = "continuum" => contest.sameCause

MayAdopt(arm) ==
    /\ arm # "stateless"
    /\ Benchmark("transfer") => MayTransfer(arm)

\* How an arm comes to its patch: it adopts the memory's, it takes the finding
\* of a probe (a batch of one), after which it may still fail, or the agent ends
\* with an error.
Adopts(arm, patch) == MayAdopt(arm) /\ patch = Remembered
Probes(patch) == patch \in {"expected", "no_patch"}

\* execute_candidate, in a thread of its own.
CandidateAnswers(arm) ==
    /\ leg = "candidates"
    /\ ~Benchmark("ci_recovery")
    /\ arm \notin DOMAIN proposal
    /\ \E patch \in Fixes \cup {"no_patch"}, byMemory, byProbe \in BOOLEAN :
          /\ byMemory => Adopts(arm, patch) /\ ~byProbe
          /\ byProbe => Probes(patch)
          /\ ~byMemory /\ ~byProbe => patch = "no_patch"
          /\ proposal' = [a \in DOMAIN proposal \cup {arm} |->
                            IF a = arm THEN patch ELSE proposal[a]]
          /\ adopted' = IF byMemory THEN adopted \cup {arm} ELSE adopted
          /\ probed' = IF byProbe THEN probed \cup {arm} ELSE probed
    /\ UNCHANGED <<contest, try, second, startable, inputs, tip, leg, due, sent, after,
                   childRuns, found, receiptOf, grade>>

\* An exception of a probe's batch is no error of the agent: it leaves the
\* thread and ends the benchmark.
ProbeRaises ==
    /\ leg = "candidates"
    /\ ~Benchmark("ci_recovery")
    /\ Die
    /\ UNCHANGED <<contest, try, second, inputs, tip, childRuns, grade>>

Remediate ==
    /\ leg = "candidates"
    /\ DOMAIN proposal = CandidateArms
    /\ leg' = "remediate"
    /\ StartBatch(RemediationRequests)
    /\ UNCHANGED <<contest, try, second, startable, inputs, tip, childRuns, receiptOf,
                   proposal, adopted, probed, grade>>

-----------------------------------------------------------------------------
(* The scorer.                                                             *)

Concluded(q) == receiptOf[q].conclusion
Recovered(arm) == Concluded(ChildRequest(arm, proposal[arm])) = "success"

\* The raw arm promotes whatever was proposed.
PromotedBy(arm) ==
    /\ proposal[arm] # "no_patch"
    /\ arm = "raw_rag" \/ (arm = "continuum" /\ Recovered(arm))

\* As a defect: the conclusions of the calibration would be taken for granted.
CalibratedByNote ==
    Benchmark("transfer") => Concluded(ChildRequest("attestation", "target")) = "success"

RedRedGreen == \A p \in Phases : Concluded(ChildRequest("calibration", p)) =
                                    IF p = "green" THEN "success" ELSE "failure"

\* The receipts that summarize_... refuses: it raises, and there is no report.
Calibrated ==
    /\ RedRedGreen
    /\ Benchmark("transfer") => Concluded(ChildRequest("attestation", "target")) = "success"

UniqueRuns == \A q1, q2 \in DOMAIN receiptOf :
                 q1 # q2 => receiptOf[q1].run # receiptOf[q2].run

\* What both gates ask: receipts of as many runs, at the sealed head, and a
\* continuum arm that does no worse than the stateless one and promotes.
ReceiptGate ==
    /\ UniqueRuns
    /\ \A q \in DOMAIN receiptOf : receiptOf[q].run.head = "sealed head"

RecoveryGate == /\ Recovered("stateless") => Recovered("continuum")
                /\ PromotedBy("continuum")

AdaptiveGate == "stateless" \in probed /\ "continuum" \notin probed

TransferGate ==
    /\ Recovered("continuum")
    /\ IF contest.sameCause
         THEN /\ "continuum" \in adopted
              /\ "stateless" \in probed /\ "continuum" \notin probed
         ELSE "continuum" \notin adopted /\ "raw_rag" \in adopted

Gate == /\ ReceiptGate /\ RecoveryGate
        /\ Benchmark("adaptive") => AdaptiveGate
        /\ Benchmark("transfer") => TransferGate

\* The public report is written only on a PASS; otherwise the process fails.
ScoreReport ==
    /\ leg = "score"
    /\ IF Calibrated
         THEN grade' = IF Gate THEN "PASS" ELSE "FAIL"
         ELSE UNCHANGED grade
    /\ leg' = IF grade' = "PASS" THEN "passed" ELSE "failed"
    /\ startable' = second + RestartGap
    /\ UNCHANGED <<contest, try, second, inputs, tip, due, sent, after, childRuns, found,
                   receiptOf, proposal, adopted, probed>>

-----------------------------------------------------------------------------
SecondPasses ==
    /\ second < MaxSecond
    /\ leg \in BatchLegs \cup {"died", "failed"}
    /\ second' = second + 1
    /\ UNCHANGED <<contest, try, startable, inputs, tip, leg, due, sent, after, childRuns,
                   found, receiptOf, proposal, adopted, probed, grade>>

BranchMoves ==
    /\ tip = "sealed head"
    /\ leg \in BatchLegs
    /\ tip' = "later head"
    /\ UNCHANGED <<contest, try, second, startable, inputs, leg, due, sent, after, childRuns,
                   found, receiptOf, proposal, adopted, probed, grade>>

ChildNext ==
    \/ SealInputs \/ SealFails \/ BeginAttempt \/ RunAgain
    \/ Dispatch \/ DispatchFails \/ DiscoverRuns \/ WaitFails
    \/ CollectReceipts \/ ReceiptUnreadable
    \/ ProposeRaises \/ ProbeRaises \/ Remediate
    \/ \E arm \in CandidateArms : CandidateAnswers(arm)
    \/ ScoreReport
    \/ SecondPasses \/ BranchMoves

ChildSpec == ChildInit /\ [][ChildNext]_childVars

-----------------------------------------------------------------------------
(* Properties.                                                             *)

\* Every receipt is of a run that this attempt itself dispatched, for this very
\* request and at the sealed head, although a second attempt of the CI
\* benchmark finds the first one's runs under the titles it looks for.
ReceiptsAreOwn ==
    \A q \in DOMAIN receiptOf :
        LET r == receiptOf[q].run IN
        r.title = Correlation(q) /\ r.of = try /\ r.head = "sealed head"

\* A report that passes rests on memory that was true: each patch that an arm
\* took over from memory had its own green receipt in this attempt, and each
\* promotion of the continuum arm was a green run of the promoted patch, never
\* one across causes. The note that the agent is shown claims the success
\* before any receipt was looked at.
PassRestsOnReceipts ==
    grade = "PASS" =>
        /\ adopted # {} => Concluded(ChildRequest("calibration", "green")) = "success"
        /\ Recovered("continuum")
        /\ "continuum" \in adopted => proposal["continuum"] = "expected"
=============================================================================
