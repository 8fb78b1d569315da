--------------------------- MODULE SequentialBlind ---------------------------
(***************************************************************************)
(* The sequential blind campaign: a fixed number of batches is generated   *)
(* and sealed before any candidate starts, the candidates run under a      *)
(* policy that denies them the labels, and an evaluator opens the labels   *)
(* when all batches are through (sequential_blind.py, the seal_, score_,   *)
(* aggregate_ and run_live_sequential_blind.py scripts, in the order that  *)
(* aws-sequential-blind-campaign.yml and the evaluator's replay give them).*)
(*                                                                         *)
(* A batch is one chain of episodes per arm.  What an episode leaves is    *)
(* whether its proposal was the one that the fixture accepts, and which    *)
(* earlier memory it selected; all metrics are computed from that.         *)
(***************************************************************************)
EXTENDS Integers, FiniteSets, Functions

CONSTANTS
    Batches,        \* PLANNED_BATCHES, here the last batch's index
    Episodes,       \* EPISODES_PER_CHAIN; the first one is the seed
    Separation,     \* MINIMUM_START_SEPARATION_SECONDS
    Wait,           \* what the host's loop waits for (305 seconds)
    MaxInstant      \* bound of the wall clock

ASSUME CampaignAssumption ==
    /\ Batches \in Nat \ {0} /\ Episodes \in Nat \ {0, 1}
    /\ Separation \in Nat /\ Wait \in Nat /\ MaxInstant \in Nat
    /\ Separation <= Wait

Batch == 1..Batches
Targets == 2..Episodes
Arms == {"stateless", "raw_rag", "continuum"}
Unset == -1

VARIABLES
    instant,        \* the wall clock
    stage,          \* the step of the workflow run
    worker,         \* the command on the host: its step and batch
    capability,     \* the role's one-run policy: none, prefix, blind
    sealed,         \* sealed[b]: sealed_at of the batch's receipt
    registered,     \* sealed_at of the campaign's receipt
    begun, ended,   \* started_at and completed_at of each batch
    allEnded,       \* all-candidates-completed-at
    chain,          \* chain[b][arm]: what the arm's episodes did, or NoChain
    fixtures,       \* disposable provider objects that exist
    opened,         \* have the labels been opened, and when
    graded,         \* graded[b]: the gate of the batch's report
    campaign,       \* the gate of the campaign report
    swept,          \* the clean-up of the run has met no failure
    conclusion,     \* the conclusion of the campaign's workflow run
    site            \* what the evidence site has got: nothing, the page, both

sbVars == <<instant, stage, worker, capability, sealed, registered, begun, ended,
            allEnded, chain, fixtures, opened, graded, campaign, swept, conclusion,
            site>>

\* What a run leaves when it is over.
aftermath == <<swept, conclusion, site>>

NoChain == <<>>
Resting == [at |-> "idle", batch |-> 1]

CampaignInit ==
    /\ instant = 0
    /\ stage = "stage"
    /\ worker = Resting
    /\ capability = "none"
    /\ sealed = [b \in Batch |-> Unset]
    /\ registered = Unset
    /\ begun = [b \in Batch |-> Unset]
    /\ ended = [b \in Batch |-> Unset]
    /\ allEnded = Unset
    /\ chain = [b \in Batch |-> [a \in Arms |-> NoChain]]
    /\ fixtures = {}
    /\ opened = Unset
    /\ graded = [b \in Batch |-> "none"]
    /\ campaign = "none"
    /\ swept = TRUE
    /\ conclusion = "none"
    /\ site = "nothing"

Worker(step, b) == worker.at = step /\ worker.batch = b
WorkerMoves(step, b) == worker' = [at |-> step, batch |-> b]

-----------------------------------------------------------------------------
(* Episodes and metrics.                                                   *)

\* An episode: the proposal is the labelled action and the provider carries it
\* out ("match"), it is another one that the state of the fixture admits
\* ("admitted"), it fails, or there is none; and whether it selected the memory
\* of an earlier episode.
EpisodeResults ==
    [proposal : {"match", "admitted", "failed", "none"}, selected : BOOLEAN]

\* The provider confirms by precondition and state, without the label.
Confirmed(c, e) == c[e].proposal \in {"match", "admitted"}

\* promoted_memory_id: the raw arm appends every episode that acted; for the
\* other two the outcome transaction promotes what the provider confirmed.
Promoted(arm, c, e) ==
    IF arm = "raw_rag" THEN c[e].proposal # "none" ELSE Confirmed(c, e)

Prior(arm, c, e) == {d \in 1..(e - 1) : Promoted(arm, c, d)}

\* Only an arm with memory tools can select, and only what a search can show.
ChainsOf(arm) ==
    {c \in [1..Episodes -> EpisodeResults] :
        \A e \in 1..Episodes :
            c[e].selected => /\ arm # "stateless"
                             /\ c[e].proposal # "none"
                             /\ Prior(arm, c, e) # {}}

\* verified_outcome_success of the scorer.
Succeeded(c, e) == c[e].proposal = "match"

CountOf(c, Test(_)) == Cardinality({e \in 1..Episodes : Test(e)})

\* _arm_metrics, the figures that the gate uses.
Metrics(arm, c) ==
    [targets    |-> CountOf(c, LAMBDA e : e \in Targets /\ Succeeded(c, e)),
     promotions |-> CountOf(c, LAMBDA e : Promoted(arm, c, e)),
     verified   |-> CountOf(c, LAMBDA e : Promoted(arm, c, e) /\ Confirmed(c, e)),
     assisted   |-> CountOf(c, LAMBDA e : e \in Targets /\ c[e].selected /\ Succeeded(c, e)),
     receipts   |-> CountOf(c, LAMBDA e : Succeeded(c, e))]

Of(b, arm) == Metrics(arm, chain[b][arm])

\* The gate of score_sequential_blind_batch. The precision is None, and the
\* test fails, when nothing was promoted.
BatchGate(b) ==
    /\ \A arm \in Arms : Of(b, "continuum").targets >= Of(b, arm).targets
    /\ Of(b, "continuum").assisted > 0
    /\ Of(b, "continuum").promotions > 0
    /\ Of(b, "continuum").verified = Of(b, "continuum").promotions
    /\ \E arm \in Arms : Of(b, arm).receipts > 0

-----------------------------------------------------------------------------
(* Preregistration on the host.                                            *)

\* The policy that lets the host read and write the whole evidence prefix, and
\* the command that seals.
StageCapability ==
    /\ stage = "stage"
    /\ capability' = "prefix"
    /\ stage' = "seal"
    /\ WorkerMoves("generate", 1)
    /\ UNCHANGED <<instant, sealed, registered, begun, ended, allEnded, chain,
                   fixtures, opened, graded, campaign, aftermath>>

\* seal_batch refuses to write what is there already.
Unsealed(b) == sealed[b] = Unset

\* generate_sequential_blind_batch and seal_batch: challenge, labels, policy and
\* commitment are validated together and written once each.
SealBatch ==
    /\ worker.at = "generate"
    /\ capability = "prefix"
    /\ Unsealed(worker.batch)
    /\ sealed' = [sealed EXCEPT ![worker.batch] = instant]
    /\ IF worker.batch < Batches THEN WorkerMoves("generate", worker.batch + 1)
                                 ELSE WorkerMoves("register", 1)
    /\ UNCHANGED <<instant, stage, capability, registered, begun, ended, allEnded,
                   chain, fixtures, opened, graded, campaign, aftermath>>

\* build_campaign_manifest needs every commitment; seal_campaign.
AllSealed == \A b \in Batch : ~Unsealed(b)

SealCampaign ==
    /\ worker.at = "register"
    /\ capability = "prefix"
    /\ AllSealed
    /\ registered' = instant
    /\ WorkerMoves("registered", 1)
    /\ UNCHANGED <<instant, stage, capability, sealed, begun, ended, allEnded,
                   chain, fixtures, opened, graded, campaign, aftermath>>

\* "Replace preregistration access with label and manifest deny policy": the
\* policy is replaced and the step sleeps for ten seconds; then the candidates'
\* command is sent.
DenyLabels ==
    /\ stage = "seal"
    /\ worker.at = "registered"
    /\ instant < MaxInstant
    /\ capability' = "blind"
    /\ instant' = instant + 1
    /\ stage' = "candidates"
    /\ WorkerMoves("wait", 1)
    /\ UNCHANGED <<sealed, registered, begun, ended, allEnded, chain, fixtures,
                   opened, graded, campaign, aftermath>>

-----------------------------------------------------------------------------
(* The candidates on the host.                                             *)

\* The run checks the seals of the batch and of the campaign against its start.
Preregistered(b) == sealed[b] < instant /\ registered < instant

\* The loop sleeps until the batch before began Wait ago. The run then reads the
\* secrets of the provider and of the database, which the policy allows.
BeginBatch ==
    /\ worker.at = "wait"
    /\ capability = "blind"
    /\ worker.batch > 1 => instant >= begun[worker.batch - 1] + Wait
    /\ Preregistered(worker.batch)
    /\ begun' = [begun EXCEPT ![worker.batch] = instant]
    /\ WorkerMoves("stateless", worker.batch)
    /\ UNCHANGED <<instant, stage, capability, sealed, registered, ended, allEnded,
                   chain, fixtures, opened, graded, campaign, aftermath>>

ArmAfter(arm) == IF arm = "stateless" THEN "raw_rag" ELSE "continuum"

\* The provider fixture of a case is prepared outside the try block.
PrepareFixture ==
    /\ worker.at \in Arms
    /\ capability = "blind"
    /\ chain[worker.batch][worker.at] = NoChain
    /\ fixtures = {}
    /\ \E provider \in {"github", "s3"} : fixtures' = {provider}
    /\ UNCHANGED <<instant, stage, worker, capability, sealed, registered, begun,
                   ended, allEnded, chain, opened, graded, campaign, aftermath>>

\* The episodes of one arm: orchestrator, approval, the effect and its replay,
\* the outcome, the raw note; and the clean-up in the finally block.
RunChain ==
    /\ worker.at \in Arms
    /\ capability = "blind"
    /\ fixtures # {}
    /\ \E c \in ChainsOf(worker.at) :
          chain' = [chain EXCEPT ![worker.batch][worker.at] = c]
    /\ fixtures' = {}
    /\ IF worker.at = "continuum" THEN WorkerMoves("observed", worker.batch)
                                  ELSE WorkerMoves(ArmAfter(worker.at), worker.batch)
    /\ UNCHANGED <<instant, stage, capability, sealed, registered, begun, ended,
                   allEnded, opened, graded, campaign, aftermath>>

\* The observations are written and uploaded, and the loop goes on.
EndBatch ==
    /\ worker.at = "observed"
    /\ capability = "blind"
    /\ ended' = [ended EXCEPT ![worker.batch] = instant]
    /\ IF worker.batch < Batches
         THEN /\ WorkerMoves("wait", worker.batch + 1)
              /\ UNCHANGED allEnded
         ELSE /\ WorkerMoves("finished", 1)
              /\ allEnded' = instant
    /\ UNCHANGED <<instant, stage, capability, sealed, registered, begun, chain,
                   fixtures, opened, graded, campaign, aftermath>>

\* The command dies. An exception inside the try block still cleans the case
\* up; one in prepare_fixture, or the death of the host, does not.
WorkerFails ==
    /\ worker.at \notin {"idle", "registered", "finished", "failed"}
    /\ \/ UNCHANGED fixtures
       \/ fixtures' = {}
    /\ WorkerMoves("failed", 1)
    /\ UNCHANGED <<instant, stage, capability, sealed, registered, begun, ended,
                   allEnded, chain, opened, graded, campaign, aftermath>>

-----------------------------------------------------------------------------
(* The evaluator, on the runner.                                           *)

\* As a defect: a poll that gave up would count as the end of the candidates.
OpenLabelsAnyway ==
    /\ stage = "candidates"
    /\ worker.at # "wait"
    /\ opened' = instant
    /\ stage' = "score"
    /\ UNCHANGED <<instant, worker, capability, sealed, registered, begun, ended,
                   allEnded, chain, fixtures, graded, campaign, aftermath>>

OpenLabels ==
    /\ stage = "candidates"
    /\ worker.at = "finished"
    /\ opened' = instant
    /\ stage' = "score"
    /\ UNCHANGED <<instant, worker, capability, sealed, registered, begun, ended,
                   allEnded, chain, fixtures, graded, campaign, aftermath>>

\* The order of times that evaluate demands of a batch; this clock is too coarse
\* to tell a batch's beginning from its end.
InOrder(b) ==
    /\ sealed[b] < begun[b]
    /\ registered < begun[b]
    /\ begun[b] <= ended[b]
    /\ ended[b] <= allEnded

\* The evaluator runs as a step of the campaign, or in a workflow of its own
\* that scores what a failed run has kept.
Evaluating == stage \in {"score", "rescore"}
AfterScore == IF stage = "score" THEN "cleanup" ELSE "rescored"
AfterFailure == IF stage = "score" THEN "cleanup" ELSE "ended"

\* score_sequential_blind.evaluate.
Score(b) ==
    /\ Evaluating
    /\ graded[b] = "none"
    /\ InOrder(b)
    /\ graded' = [graded EXCEPT ![b] = IF BatchGate(b) THEN "PASS" ELSE "FAIL"]
    /\ UNCHANGED <<instant, stage, worker, capability, sealed, registered, begun,
                   ended, allEnded, chain, fixtures, opened, campaign, aftermath>>

Separated == \A b \in Batch \ {1} : begun[b] - begun[b - 1] >= Separation

\* aggregate_sequential_blind_campaign.
Aggregate ==
    /\ Evaluating
    /\ \A b \in Batch : graded[b] = "PASS"
    /\ Separated
    /\ campaign' = "PASS"
    /\ stage' = AfterScore
    /\ UNCHANGED <<instant, worker, capability, sealed, registered, begun, ended,
                   allEnded, chain, fixtures, opened, graded, aftermath>>

\* The evaluator fails: a gate, or the runner itself.
EvaluatorFails ==
    /\ Evaluating
    /\ stage' = AfterFailure
    /\ UNCHANGED <<instant, worker, capability, sealed, registered, begun, ended,
                   allEnded, chain, fixtures, opened, graded, campaign, aftermath>>

\* The replay accepts a failed run whose candidates and whose clean-up succeeded
\* and whose scoring failed before there was a campaign report.
EvaluatorReplay ==
    /\ stage = "ended"
    /\ conclusion = "failure"
    /\ swept
    /\ opened # Unset
    /\ campaign = "none"
    /\ stage' = "rescore"
    /\ UNCHANGED <<instant, worker, capability, sealed, registered, begun, ended,
                   allEnded, chain, fixtures, opened, graded, campaign, aftermath>>

-----------------------------------------------------------------------------
(* Failure and clean-up of the run.                                        *)

\* The run is cancelled, or a poll ends in another status than Success.
RunBroken ==
    /\ stage \in {"seal", "candidates"}
    /\ stage' = "cleanup"
    /\ UNCHANGED <<instant, worker, capability, sealed, registered, begun, ended,
                   allEnded, chain, fixtures, opened, graded, campaign, aftermath>>

\* cleanup_blind_holdout.py empties the S3 sandbox, and no draft of GitHub; when
\* it fails the step remembers that and goes on to the policy.
SweepSandbox ==
    /\ stage = "cleanup"
    /\ \/ /\ fixtures' = fixtures \ {"s3"}
          /\ UNCHANGED swept
       \/ /\ UNCHANGED fixtures
          /\ swept' = FALSE
    /\ stage' = "revoke"
    /\ UNCHANGED <<instant, worker, capability, sealed, registered, begun, ended,
                   allEnded, chain, opened, graded, campaign, conclusion, site>>

\* Deleting the policy may fail unheard; the look at it afterwards tells. The
\* step is the run's last one.
RevokeCapability ==
    /\ stage = "revoke"
    /\ capability' \in {"none", capability}
    /\ swept' = (swept /\ capability' = "none")
    /\ conclusion' = IF campaign = "PASS" /\ swept' THEN "success" ELSE "failure"
    /\ stage' = "ended"
    /\ UNCHANGED <<instant, worker, sealed, registered, begun, ended, allEnded,
                   chain, fixtures, opened, graded, campaign, site>>

-----------------------------------------------------------------------------
(* Publication, by hand: promote_sequential_blind_evidence.py.             *)

\* build_public_sequential_blind projects no report that did not pass.
Publishable == campaign = "PASS"

\* promote: the workflow run that aggregated has succeeded; when that was a
\* replay, the campaign's own run has failed.
ReceiptsAgree ==
    \/ stage = "ended" /\ conclusion = "success"
    \/ stage = "rescored" /\ conclusion = "failure"

\* verify_sequential_blind_campaign, on what is about to be published.
CampaignFigure(field) ==
    FoldFunction(+, 0, [b \in Batch |-> Of(b, "continuum")[field]])

JudgeAccepts ==
    /\ Publishable /\ ReceiptsAgree
    /\ Separated
    /\ CampaignFigure("promotions") > 0
    /\ CampaignFigure("verified") = CampaignFigure("promotions")
    /\ CampaignFigure("assisted") > 0

\* The page is written first.
PublishPage ==
    /\ site = "nothing"
    /\ JudgeAccepts
    /\ site' = "page"
    /\ UNCHANGED <<instant, stage, worker, capability, sealed, registered, begun,
                   ended, allEnded, chain, fixtures, opened, graded, campaign, swept,
                   conclusion>>

\* Then judge.json that points to it; a death in between leaves the page alone,
\* and the script may be run again.
PublishReference ==
    /\ site = "page"
    /\ site' = "both"
    /\ UNCHANGED <<instant, stage, worker, capability, sealed, registered, begun,
                   ended, allEnded, chain, fixtures, opened, graded, campaign, swept,
                   conclusion>>

-----------------------------------------------------------------------------
InstantPasses ==
    /\ instant < MaxInstant
    /\ stage \in {"seal", "candidates"}
    /\ instant' = instant + 1
    /\ UNCHANGED <<stage, worker, capability, sealed, registered, begun, ended,
                   allEnded, chain, fixtures, opened, graded, campaign, aftermath>>

CampaignNext ==
    \/ StageCapability \/ SealBatch \/ SealCampaign \/ DenyLabels
    \/ BeginBatch \/ PrepareFixture \/ RunChain \/ EndBatch \/ WorkerFails
    \/ OpenLabels \/ (\E b \in Batch : Score(b)) \/ Aggregate
    \/ EvaluatorFails \/ EvaluatorReplay
    \/ RunBroken \/ SweepSandbox \/ RevokeCapability
    \/ PublishPage \/ PublishReference \/ InstantPasses

CampaignSpec == CampaignInit /\ [][CampaignNext]_sbVars

-----------------------------------------------------------------------------
(* Properties.                                                             *)

\* No candidate observation is made under a policy that can read a label, nor
\* after the labels were opened; whatever was opened is preregistered and
\* complete (docs/SEQUENTIAL_BLIND.md, "Evaluation firewall"); and what the
\* evidence site shows was opened so, by a campaign whose capability is gone and
\* whose S3 sandbox is empty, however it was scored in the end.
Observing == worker.at \in Arms \cup {"observed"}

OpenedComplete ==
    /\ ~Observing
    /\ \A b \in Batch : /\ ended[b] # Unset
                        /\ ended[b] <= opened
                        /\ sealed[b] < begun[1]

BlindUntilDone ==
    /\ Observing => capability # "prefix"
    /\ opened # Unset => OpenedComplete
    /\ site # "nothing" =>
          /\ opened # Unset
          /\ capability = "none"
          /\ "s3" \notin fixtures
=============================================================================
