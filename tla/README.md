# A verification project for Continuum

Continuum (`src/`) is a memory firewall for agents that act on incidents.  An
agent searches the *canonical memory* of an incident, proposes an action, a
human or a policy approves it, a worker performs it at an outside provider, and
only an outcome that the provider confirms becomes canonical memory again.  The
Python code holds nothing in memory that matters: every fact is a row of a
CockroachDB database with serialisable transactions, and every difficulty lies
*between* transactions, at the provider, and in processes that die or stall.

This directory holds TLA+ modules of that code, TLC configurations that check
them on small instances, and proofs checked by TLAPS.  Source paths below are
relative to `src/`; `continuum/` stands for `src/continuum/` in it.
`PROJECT.json` lists every component, run, mapped definition, hazard and theorem.

    tlc -workers 2 -config Outbox_idempotent.cfg MCOutbox
    tlapm OutboxProofs.tla

## 1. The system

| component | code | state it keeps | operations | hard because |
|---|---|---|---|---|
| memory store | `continuum/store.py`, `memory.py` | `incidents` (head, sequence), `memory_candidates`, `canonical_memories`, `action_attempts` | promote a candidate, replay of a decision, claim an action | several promoters of one head, answers that got lost |
| episode store | `continuum/episode.py` | `agent_runs`, citations, proposals, `outcome_evidence`, consumed handles, reconciliation journal | start, cite, propose, finish, approve, record an outcome and promote it | outcomes reported twice, late, contradicting; four tables and the lineage commit together |
| outbox | `continuum/outbox.py` | `action_outbox` rows | enqueue, lease, mark dispatching, send, store the response, acknowledge, reconcile, give up | the effect is outside of any transaction; leases run out under live workers |
| attestation | `continuum/outcome_attestation.py` | handles with a lifetime | issue, verify | a handle may run out between its issue and its use |
| KMS authority | `continuum/kms_outcome_authority.py`, `kms_authority_proof.py`, `scripts/run_kms_authority_lifecycle_proof.py` | key epochs with their windows, a grant, private objects on S3 | prepare, issue, rotate, verify, scrub | two rotations between issue and use; a runner that gives up while its host goes on |
| providers | `aws_sandbox_provider*.py`, `github_release_provider.py`, `s3_holdout_provider.py` | effects and receipts | send, lookup | idempotent or not; receipts expire |
| orchestrator | `continuum/orchestrator.py` | the conversation of one run | run | a model that may ask for anything, failures between its transactions |
| migrator | `continuum/migrate.py` | lease, history, intents, the schema | migrate, adopt | DDL is not transactional, its result may be unknown, the lease may be lost |
| release transaction | `.github/workflows/release-envelope.yml`, `pages.yml`, `scripts/release_transaction_coordinator.py` | draft release and its assets, receipt, attestations, public site | sign, upload, publish, deploy | runs die anywhere and are resumed from what is public |
| tenant control | `continuum/tenant_control.py`, `scope_roles.py`, `scripts/cutover_scope_identity.py` | caller bindings and their audit, SQL logins, the runtime secret | bind, disable, provision, cut over | database and secret store change one after the other, and a cutover may stop anywhere |
| MCP server, retrieval, judge story | `continuum/mcp_server.py`, `identity.py`, `retrieval.py`, `judge_story.py` | embeddings, retrieval audit, open stores, a cached story | resolve, search, fetch, index, tell | a binding changes while requests are under way |
| sandbox providers | `continuum/github_release_provider.py`, `s3_holdout_provider.py` | a draft release, a key prefix | prepare, execute, verify, clean up | lists lag, answers get lost, a quarantine is two calls |
| diagnosis agent and admission | `continuum/adaptive_diagnosis_agent.py`, `online_lineage.py` | one conversation | run | shared memory changes between search and fetch |
| child-workflow benchmarks | `scripts/run_live_ci_recovery.py`, `run_live_adaptive_diagnosis.py`, `run_live_transfer_firewall.py`, `continuum/ci_recovery.py`, ... | receipts of child runs | seal, dispatch, discover, propose, remediate, score | a dispatch has no answer; attempts share titles |
| sequential blind campaign | `continuum/sequential_blind.py`, `scripts/*sequential_blind*.py`, two workflows | seals, a role policy, observations, labels, reports | seal, deny, run, open, score, replay, sweep, publish | what is blind is a matter of order between runner, host and IAM |
| online lineage | `scripts/run_online_memory_lineage.py`, `run_online_lineage_provider.py`, two workflows | proposals, receipts, outcomes | prepare, act, finalize, reconcile | commands on the host survive the job that sent them |
| other benchmarks, evidence, deployment | the other modules and `scripts/` | JSON reports | batch computations | not concurrent |

How they interact: the orchestrator calls the retrieval tools and the episode
store.  The outbox worker calls the provider, the attestation authority and
`record_outcome_and_promote` of the episode store, which appends to the same
lineage as the memory store's `promote_candidate`.  The migrator owns the schema
all of them use.  The MCP server serves what the memory store accepted, in the
scope that the tenant control plane bound.  The campaigns are workflows of a
runner and commands on a host, which share a role policy, an S3 prefix and the
database; they use the episode store, the providers and the agents.  There are
no callbacks between components and no messages but the requests to providers:
they share rows and objects.

## 2. The modules

    ActionDelivery            what the outbox promises
      ^ implemented by
    Outbox                    MCOutbox              OutboxProofs
    MemoryStore                                     MemoryProofs
      ^ extended by                                  ^ used by
    EpisodeStore              MCEpisodeStore        EpisodeProofs
      ^ extended by
    Orchestrator              MCOrchestrator        OrchestratorProofs (uses EpisodeProofs)
    Migrator                  MCMigrator            MigratorProofs
    ReleaseTransaction                              ReleaseProofs
    TenantControl
      ^ extended by
    ScopedAccess              MCPlatform            AccessProofs
    KmsAuthority                |  extends the six    \
    SequentialBlind             |  that share no      |  CampaignProofs
    SandboxProviders            |  variable; a         |
    AdaptiveDiagnosis           |  scenario says       |
    ChildWorkflows              |  which of them       |
    OnlineLineage             -'   moves              /

Common decisions:

- One serialisable transaction is one step.  The retry loop of
  `run_transaction` re-executes a transaction that did not commit, so it adds
  nothing to that.  A call that raises before it wrote anything is no step,
  except where somebody has to hear of it (Outbox, Orchestrator, Migrator).
- A digest is the thing it is a digest of; a text or payload is left out unless
  a decision depends on it.
- Times are one clock that stops at `MaxTime`.  A process's own `now` may be
  older: `process_one` takes it once and uses it throughout, and so does the
  model.
- Every bound is a constant with `Max` in its name, or the size of a set of
  model values.  Where a run may come to an end at its bounds its configuration
  switches the deadlock check off.
- Definitions under a comment "Mutant:" are wrong on purpose.  They are the
  plausible bugs that a property must notice; nothing else uses them.

### Outbox and ActionDelivery

`Outbox` models `OutboxWorker.process_one` and `reconcile` as processes with a
program counter: `Lease`, `BeginDispatch`, `Send`, `StoreSent`, the lookup and
the handle of `_ack`, `RecordOutcome`, `MarkAcknowledged`, and on the other path
`Reconcile`, its lookup, resend and give-up (`record`, then `mark`).  Any process
may die between any two of them.  The rows are `row`, the episode is `run`,
`evidence`, `canonical` and `journal`, the provider is `effects` and `receipts`.
`Name` gives the `worker_id` of each process, so that shared names can be
studied; `Drifted` processes stand for an adapter whose lookup and send disagree.
`attempt_count`, `next_attempt_at` and payloads are left out.  `journal` is the set of
decisions here; the sequence is in EpisodeStore.

`ActionDelivery` is what a caller may rely on: at most one effect and one verdict
per action, `Recoverable` saying whether an unanswered request may be repeated.
The property `DeliversOnce` is that `Outbox` implements it under the mapping
`Verdict`.

### MemoryStore, EpisodeStore

`MemoryStore` is `store.py` with the policy kernel of `memory.py` as the
operator `Decide`: `PromoteCandidate`, `ReplayPromotion` (the idempotent answer)
and `ClaimAction`.  `told` and `granted` remember what callers heard, since the
promises are about answers.  `EpisodeStore` extends it with the runs: `StartRun`,
`RecordCitations`, `RecordProposal`, `FinishWithoutAction`, `ApproveProposal`,
`EnqueueProposal`, `IssueHandle` and `RecordOutcomeAndPromote`, the one
transaction of 600 lines, as `FirstOutcome`, `ExactReplay` and `Conflict`.  It
shares the lineage with the candidates, as in the database.  One provider is
modelled.

### Orchestrator

`agent[r]` is the conversation of a run.  A message of the model is any sequence of
tool calls; what is offered is fixed when a turn starts, though a message may hold
several blocks.  The two transactions that end a run with a proposal are two
steps.  `Raise` is any failing call, after which `CleanUp` settles the run, or `CleanUpFails`: the clean-up's own
transaction may fail, and a live caller then hears an exception over an open run (phase
`unsettled`, as when `start_run` commits and is not answered).  `Die` is the death of the process
with its caller (`lost`), `Hears` the loss of the answer to a commit.  `Downstream` lets the rest of the system
approve, enqueue and settle the proposal meanwhile.

### Migrator

Each call of `migrate()` is a process with an owner id of its own.  `Lease`,
`Heartbeat`, `Renew`, the two reads, the clearing of stale intents, the checks,
adoption, and per migration the renewals, intent, execution, record and clearing are
steps.  A statement may take effect and report that it is uncertain
(`XXA00`).  A heartbeat may fail (`stalled`) and the lease then runs out under a
call that goes on.  The statement of a process that dies takes effect at that
moment or not at all.  One manifest is used by all calls.

### ReleaseTransaction

One job of `release-envelope.yml` at a time (its concurrency group), step by step,
including the DELETE and the POST of every replaced asset, and the later site job
of `pages.yml`, which the next dispatch cancels.  The receipt's hash chain is
abstracted to its last state, which is what `reconcile_receipt` decides from.
`made` counts attestations, `index` what their public index shows; for the
kinds in `Lagging` the two may differ.  The operator of a retry passes the target of the release
that exists, as the workflow demands.

### TenantControl, ScopedAccess

`TenantControl` has the bindings with their audit (`Operate`: bind, rebind, disable),
the SQL logins of the scopes and the control plane, and the cutover as a process with
a phase: read the secret, provision the scope's login, provision the control plane, revoke
the bootstrap options, bind, verify, put the secret.  Any of its calls may raise and its
process may die (`CutoverFails`, `RevokeAfterFailure`).  A password is a number and the last
one given to a login opens it, so that "the secret works" is a relation of two stores that
change one after the other.  `ScopedAccess` puts the server on top: a start
from the secret, requests that resolve their caller and are then served in several
transactions, searches with their audit row, the indexing of memories, and the judge
endpoint with its identity from start-up, its lock and its cache.

### KmsAuthority

The runner and the host of `aws-kms-outcome-authority-proof.yml` are two processes with
a step each.  `objects` is the private prefix, `granted` the one-command policy, `ring` what
the three epochs' windows were built to be, and `Verdict` is
`PinnedPublicKeyringVerifier.verify`.  A cancelled runner cleans up while the host's
command goes on; every deletion may fail and is then remembered in `stuck`.  The workflow waits
after the grant (180) but not after `delete-role-policy` (347), so `RunnerRevoke` leaves
`granted` alone and `RevocationArrives` comes at any later time, also after the sweep.

### SequentialBlind

The runner's workflow (`stage`), the host's command (`worker`) and the role policy
(`capability`).  An episode is reduced to whether its proposal was the labelled one and
whether it selected an earlier memory; the gates are computed from that by
`Metrics`, `BatchGate` and `Separated`.  After a failure between the candidates and the
campaign report another workflow may score again (`EvaluatorReplay`), and a report that
passed is published by hand: `ReceiptsAgree` and `JudgeAccepts` are the checks of
`promote_sequential_blind_evidence.py` and `judge_readonly_verify.py`,
`PublishPage` and `PublishReference` its two writes.

### SandboxProviders

The GitHub draft and the S3 prefix have the same parts, so one state does for
both; `case` fixes the provider, how it is executed (by label, or observed) and the
fixture.  Calls may be refused, answers may get lost after the effect, and GitHub's lists may lag.

### AdaptiveDiagnosis

The loop of `adaptive_diagnosis_agent.py` by turns: `OfferGated` and `OfferFree` are the router,
`CallSearch`, `FetchMemory`, `RunProbe` and the proposal what a message may ask for.  The
memory behind the handles changes between turns, for the kinds of tools where it can.

### ChildWorkflows

The three benchmarks that act through child runs, for one fault family: `contest` fixes
which one.  `childRuns` is what GitHub has, `found` what discovery saw under the titles it looks
for, `receiptOf` what the attempt believes.  A failed run may be run again as the next
attempt, children outlive it, and `main` may move.  `ProposeRaises` is a defect of the code (below).

### OnlineLineage

A job and the commands it sent to the host (`process`): prepare, two provider actions,
finalize, and reconcile jobs of another head that take a failed job's artifact over.  A job
that gives a command up does not stop it.  A role's policy is honoured until some time after the job deleted
it (`PolicyLapses`), and any policy that is attached lets a command read the secret.  Only one attempt of
the candidate job is modelled; a second one starts from proposals of its own.  `ledger[c]` says which command's handle the outcome of case
`c` has consumed.

## 3. What is checked

| run | asks | instance, and why it is enough |
|---|---|---|
| `outbox_idempotent` | Does the outbox implement ActionDelivery over an idempotent provider? | 2 processes, 2 episodes, 4 nonces, time 0..2 with leases and handles of 1: a lease is lost, a handle expires, both episodes want one handle, a process crashes |
| `outbox_lookup_only` | Is a provider without idempotency never called twice, does a settled row agree with its episode, and does every enqueued episode get its verdict? | 3 processes of which two share a `worker_id`, on one row; room for a second effect (`MaxEffects` = 2) that must not come; under `FairSpec` and so without symmetry |
| `outbox_expiring` | Does memory agree with the effects when receipts expire and effects repeat? | 3 processes, one of them with a drifted adapter |
| `outbox_ack_crash` | *violation*: does a row with a durable receipt get acknowledged? | 1 process, 1 crash |
| `stores` | lineage, idempotent promotion, claims; outcome, journal and authority of runs | three scenarios, chosen at the start: writers (3 candidates over 4 drafts and 2 incidents of 2 tenants, 2 claimants); one destructive run with a journal of 3 (an acceptance, a replay and a conflict); two runs and a candidate that compete for 2 receipts, 2 handles and one incident |
| `agent` | groundedness, agreement of answer and store, no open run | a memory run and a stateless run, 2 turns, 3 tool calls, a lineage that grows by 3 |
| `migrator` | prefix history, covered crash gap, one at a time, right schema | 3 migrations of which the third drops what the first made, 3 calls of which one adopts, 1 crash, lease of 1 in 0..2, three initial schemas |
| `release` | signed once, whole, backed, untouched, published in the end | 3 crashes, main moves once, platform index lags |
| `release_index_lag` | *violation*: one signature when the author index lags too | 2 crashes |
| `platform` | the parts around the stores, one property or two for each (below) | nine scenarios |
| `cutover_second_scope` | *violation*: does a diligent operator get a second scope published? | 2 scopes, no crash |
| `lineage_resume` | *violation*: does a reconcile job get past what finalize recorded? | 2 reconcile jobs |

The scenarios of `platform` share no variable, so taking them one at a time leaves nothing out;
`MCPlatform` says what each one does.

| scenario | property | bounds |
|---|---|---|
| cutovers | `AuditIsTheHistory`, `PublishedSecretWorks` | 2 callers, 2 scopes, 3 versions, 6 passwords: two cutovers that fail at any place and one that is for the other scope |
| requests | `ServedAsBound` | one request, callers disabled and moved at any point of it |
| story | `StoryIsBacked` | lifetime of the cache 2 in 0..3; receipts complete, or not |
| kms | `SignedRunIsScrubbed`, `RotationStrandsNoHandle` | three epochs, as in the code; clock 0..4 |
| blind | `BlindUntilDone` | 2 batches of 2 episodes, 3 arms with a chain that passes or does not; clock 0..5 |
| sandbox | `SuccessIsTheTransition`, `ResidualIsTold` | all cases |
| diagnosis | `ProposalIsEvidenced` | 2 memories, 2 patches, 5 turns |
| children | `ReceiptsAreOwn`, `PassRestsOnReceipts` | all contests, 2 attempts |
| lineage | `ReportIsItsOwn` | 2 cases as in the code, 2 reconcile jobs |

Two processes suffice to race for a row and the third is one that comes back late; a
second crash or a longer clock repeats situations that the first one reaches,
because what is kept across a crash is only the row.  Three migrations are the
least for which a resumed call has something before and after the gap.  Two batches
are the least that have a separation.

Every property of a passing run has a mutant in `PROJECT.json`: a version of a
mapped definition with a plausible bug that the run then reports.

### Disagreements between the code and its documents

*Acknowledgement after a crash* (`outbox_ack_crash`, `SentRowSettles`).
`docs/EPISODE_CONTRACT.md:98` says that a crash after the receipt is stored and
before the acknowledgement reuses "the idempotent outcome-promotion
transaction".  If the crash is after the promotion, `_ack` issues a new handle,
`record_outcome_and_promote` accepts an exact replay only with the consumed one
(`episode.py:1102`), and the row stays SENT for ever.  The episode, its memory and
its effect are right; the outbox row is not.

*A signature nobody sees yet* (`release_index_lag`, `SignedOnce`).
`README.md:409` says that a retry adopts an existing author attestation "instead of
... signing a second envelope".  The retry looks for it in the public index, which
the workflow itself treats as lagging (`release-envelope.yml:878`).  A run that dies
right after signing and a retry before the index has it make two, and from then on
every run stops as AMBIGUOUS.

*A second scope* (`cutover_second_scope`, `ScopeIsPublished`).
`docs/CLOUD_DEPLOYMENT_RUNBOOK.md:364` says to create or reuse the scope's login with the cutover
script and then to revoke the role-creation options.  The script itself demands
before it publishes that they are revoked (`cutover_scope_identity.py:232`), and only its creation of the
control-plane login revokes them half way.  Once that login exists, a scope that has no
login yet cannot be published, and the failed cutover has moved the binding.

*Crash reconciliation* (`lineage_resume`, `ReconcileResumes`).
`docs/ONLINE_MEMORY_LINEAGE.md:44` has the recovery path resume the database
proposals.  `finalize` signs with a key of its own process, and an outcome that is
recorded admits only the handle it consumed, so a reconcile job stops at the first case that the
one before had recorded.  The recovery the document tells of was from a predecessor that had failed before any
approval; there resuming works, and the run is about one that failed later.

Two more that no run states.  The CI benchmark builds its agent with an argument that
`AgentOrchestrator` does not take (`run_live_ci_recovery.py:527`), so each campaign raises TypeError after
its calibration (`ProposeRaises`), while by
`docs/CI_RECOVERY_BENCHMARK.md:26` each proposal dispatches a child workflow.  And the
gate that `docs/SEQUENTIAL_BLIND.md:53` calls precision of canonical promotions is computed
against the provider's confirmation, not against the label (`Confirmed`, `Succeeded`).

### Fairness

- `Outbox`: weak fairness of each process's next step and of the clock.  Strong fairness of
  leasing, of `BeginDispatch` and of the reconciliation of a row, each by
  some healthy process: the worker is polled for ever, and once in a while a
  healthy process gets from its lease to its marker before the lease is over;
  the code assumes as much with leases of minutes.  Crashes are bounded.
- `Orchestrator`: weak fairness of the running process; failing calls and deaths are not
  fair, they just may happen.
- `ReleaseTransaction`: weak fairness of the job, including that a failed release is run
  again, and of the provider.  The claim stops at `immutable`: the site job may be
  cancelled by dispatches for ever.
- `TenantControl` (`DiligentSpec`, for the violation only): the cutover's steps are weakly fair;
  lending the options between cutovers, and beginning a cutover while they are lent, strongly: an
  operator who follows the runbook again and again.

Without fairness the safety runs leave out nothing.

### What holds only under a condition

- `HolderSeesNoDrift` is about a call that still holds the lease; one that lost it can
  report a drift that is none.
- `OneAtATime` and the second half of `SchemaIsCurrent` are about schedules in which
  heartbeats come in time.  Otherwise a stalled call can execute a statement that later
  migrations superseded.  `HistoryIsAPrefix`, `CrashGapCovered` and the first half (a call
  that succeeds leaves a complete history and a schema that `validate_schema` accepts)
  hold with stalls as well.
- `DraftIsPublished` is about a draft that got all its assets, on a main branch that
  stays: a draft cut short in `gh release create` fails every later run, and only a run of the
  target commit may sign.
- `AnswerMatchesStore` allows an exception over a run that stays open, but only behind a clean-up that
  failed itself (`orchestrator.py:268-276`) or a `start_run` that was not answered; of a process that died it
  says no more than that a durable proposal is the one its model made.  `RunIsSettled` excepts the same runs: nothing
  in the code ever closes them.
- `PublishedSecretWorks` assumes that a cutover and `deploy_identity.sh`, which writes the same
  secret, do not overlap: neither compares what it overwrites with what it read.
- `ServedAsBound` and `StoryIsBacked` are about the mode with a control plane.  A pool that is
  open stays open when its login's password changes.
- `SignedRunIsScrubbed` is what is left of "the clean-up leaves nothing" when revocations take time: a
  `prepare` that outlives a run cancelled before its first signature may still write its request and its
  provider's receipts after the sweep, and they stay.  After a signature the host only deletes.
- `BlindUntilDone` takes a change of a role policy as effective when the step that made it is over; this
  workflow sleeps for that.  Both take the answer of `get-role-policy` as an
  answer: the code takes any failure of it for the policy's absence.
- `ResidualIsTold` excepts a draft whose creation was never answered: its id is unknown
  and the clean-up does not look for it.
- `ReceiptsAreOwn` needs more time between the dispatches of two attempts (`RestartGap`) than
  discovery looks back (`Window`, 5 seconds), and clocks that agree that far.

## 4. What is proved

`OutboxProofs`, for any numbers of processes, episodes, crashes and lease expiries:

- `TypeCorrect`: the type invariant.
- `MarkerFirst` (of `NoEffectBeforeMarker`): before the durable dispatch marker there is no
  effect and nobody about to cause one.  The invariant is inductive together with
  the types, since a process reaches `send` only by the step that sets the
  marker, and no step takes a marker away.
- `AtMostOnce` (`NeverResentBlindly`): without idempotency there is one request at
  most.  This needs more: a process about to send owns a row that is dispatching with no effect
  yet, and it is the only such process, although processes may share a
  `worker_id` and reconcile does not look at the lease.  The uniqueness is
  the strengthening; its reason is that `BeginDispatch` turns `leased` into
  `dispatching`, which happens once per row.
- `CanonicalMemoryIsEarned` (`CanonicalIsEarned`) and `SettledRowsAgree`
  (`SettledRowAgrees`), from a second invariant `SInv`: `Ledgered` (a run is terminal exactly when
  its evidence is durable, and canonical memory holds the durable successes), `Backed` (wherever a
  receipt travels, the effect it numbers has happened) and `Settling` (a process past `store_sent`
  works on the response its row has stored, one about to settle a row holds the durable outcome).
  The last is what makes two processes on one row, with two sources of the outcome, agree.
- `OutboxDeliversOnce`: `Outbox` implements `ActionDelivery` under the mapping `Verdict`
  (`InitSimulation`, `StepSimulation`: every step is a step of the abstract delivery or a
  stutter).  It assumes `ReceiptsAreKept`, that a provider which recognises repeated requests does
  not forget them; the run `outbox_expiring` is about those that do, and leaves `DeliversOnce` out.

`ReleaseProofs`, for any number of crashes and moves of main, assuming that a
signature shows in the author index at once (`"author" \notin Lagging`; the
run `release_index_lag` shows that this is needed):

- `EnvelopeSignedOnce`, `ReleaseIsWhole`.  The invariant `IInv` adds two parts to the
  properties: `RunMatchesRelease` (which phases of a job go with which state of the
  release: one that signs or uploads is working on a draft) and `RunHasDone` (what
  a job achieved when it gets to a phase).  The second is what a crash
  takes away, so nothing of it may be needed after the next `Start`; that it is
  inductive is the recovery argument.
- `ReleaseStands` (the action property `PublishedStands`) and `SiteIsBacked`
  (`PublicIsBacked`), from `IInv` and a lemma on how a step may change a release.

`MemoryProofs`, for any incidents, drafts, candidates and claimants:

- `LineageUnbroken`, `PromotedOnce`, `PromotionIsIdempotent`, `ClaimHasOneOwner`,
  `LineageStands`.  `IInv` adds to the chain that an accepted candidate has exactly one
  event (`EventsOK`) and that what callers were told (`told`, `granted`) is what the tables
  would tell today (`ToldOK`, `ClaimsOK`).  The lemma `AppendKeepsChain` is the core: an
  event appended on the current head keeps the chain.

`EpisodeProofs`, for any numbers of runs, receipts, handles and reports.  Its invariant `EInv` is
that of MemoryStore and five parts about runs: `RunsOK` and `OutcomesOK` (types), `CitedOK` (a
proposal cites what its run cited, and that is in its incident), `RunMatches` (a run agrees with
its proposal and its evidence) and `PromotedOK` (the candidate of a verified outcome is there,
accepted, exactly when the run has that outcome), with the properties that are inductive beside
them.  An outcome that is promoted is a step of the shared lineage, so
`AppendKeepsChain` is used again (lemma `FirstOutcomeMemory`), and `EInv` keeps all of `IInv`.  What
`MemoryProofs` says of candidate promotions alone so holds in the composed specification, which is
the one the `stores` run checks: `SharedLineage`, `SharedPromotion`, `SharedReplays`, `SharedClaims`
and the action property `SharedLineageStands`.  The lemmas `OnceInLineage`, `OneAnswer`, `OwnedOnce`
and `AppendGrows` say what `IInv` means for a state and an append for a step, and serve both.

- `AuthoritySpentOnce` is inductive with the types: the first outcome of a run is recorded only
  if no other run consumed its receipt or handle.
- `VerdictApproved`, `PromotedTogether`, `JournalTellsTheTruth`, `EpisodeTypes`; and the action
  properties `VerdictIsFinal` (`OutcomeStands`) and `CitationsStand` (`CitationsAreFrozen`).

`MigratorProofs`, for any numbers of calls, migrations, crashes and stalls:

- `PrefixHistory`, `GapCovered`.  The strengthening is `Believed` (what a call read of
  history and intents is stale but not wrong: the history only grows, and an intent goes only
  after its migration is recorded) and `Reached` (before the version a call is at, everything is
  recorded).  Neither mentions the lease, so both survive its loss.
- `MutualExclusion` (`OneAtATime`), from `Leased`: unless a call has stalled, a live call has the
  lease and the lease is current.
- `NoDriftSeen` (`HolderSeesNoDrift`), from `Progress` (the history and every reading of it is
  `1..k`, and an intent comes at most one later) and `Seen`.  The second is the takeover argument: a call
  that lost the lease may still write one intent or one record, but to get to an intent it must have renewed,
  hence before the holder leased, so every migration before that intent is in what the holder reads.
- `SchemaStaysCurrent` (`SchemaIsCurrent`), from `Placed` (what a call has seen to when it comes
  to a step, and, as long as leases are kept, that what it read is all there is) and
  `SchemaBuilt`: a database that started empty is `Built(executed)`, the objects that the executed
  statements make, and is never adopted.  The lemma `BuiltGrows` is why a statement may run twice:
  executed again as the last one, it changes nothing that the first time did not.

`OrchestratorProofs`, for any numbers of runs, turns and calls, over `EInv` of EpisodeProofs:

- `LoopImplementsStore`: every step of the loop is a step of EpisodeStore or leaves it alone, so
  the store's theorems hold of the runs that the loop makes (`LoopVerdictsApproved` is one of them).
  It needs the invariant, as the store takes hashes of canonical memories only and the
  loop passes what it holds.
- `ProposalsAreGrounded` (`GroundedProposal`) and `AnswersMatch` (`AnswerMatchesStore`), from
  `Local` (budgets, the turns between search and proposal, the citation contract) and `Stored` (what the
  store holds of a run for each phase of its process).  The heart of `Stored` is that a process
  which owns its run is the only one to write citations, so what `record_citations` adds is all there is, and
  that after a lost answer the phase is `fail`, from which no write follows but
  `finish_without_action`, which the store refuses to a run that has its proposal.  A run left open by a
  failed clean-up is one that has no proposal and gets none, since its process never writes again.

`AccessProofs`, for any numbers of callers, scopes, memories and requests:

- `AuditIsHistory` (`AuditIsTheHistory`) with `AuditIsAppendOnly`: `History` of one log and one row, which
  `HistoryAppended` extends.  `PublishedSecretOpens` (`PublishedSecretWorks`) needs `CutoverAgrees`: what the payload of a running
  cutover has in common with the published secret in each phase, so that a login which is
  published gets no other password before the put.
- `RequestsAreServedAsBound` (`ServedAsBound`) and `StoriesAreBacked` (`StoryIsBacked`): identities and rows
  are kept by what they were audited as (`Audited`, `Begun`, `Finished`), which lasts because nothing
  they rest on is taken back (`Grows`), although the binding itself may change at any time.
- `ServerOnlyReadsBindings`: `AccessSpec` implements `TenantSpec`.

`CampaignProofs`, for any sizes of the six campaign modules, one section each:

- KmsAuthority: `CleanupStands` (`SignedRunIsScrubbed`, from `PreparedFirst`: once something is signed the host's
  `prepare` is over, and what it does after that writes nothing, whether its policy is still honoured or not) and `NoHandleIsStranded` (`RotationStrandsNoHandle`, from `Rotation`: the keyring
  is the one built from the turns of the keys, each handle lies between its turn and the
  next, and the rest is arithmetic of windows).
- SequentialBlind: `LabelsStayClosed` (`BlindUntilDone`), from the order of instants (`SealsFirst`, `EndsFirst`)
  and what each stage may count on (`Stages`, `Emptied`).
- SandboxProviders: `SuccessIsWhole`, `ResidualsAreCounted` (`SuccessIsTheTransition`, `ResidualIsTold`), from
  `Fresh`: what a lagging list shows is a state the preparation went through.
- AdaptiveDiagnosis: `ProposalsAreEvidenced` (`ProposalIsEvidenced`): what was read is kept as the fetch returned
  it, whatever the shared memory has become.
- ChildWorkflows: `PassesRestOnReceipts` (`PassRestsOnReceipts`), and `ReceiptsOfThisAttempt` (`ReceiptsAreOwn`) under
  `AttemptsAreApart`, `Window < RestartGap` (§3 says why it is needed): `RunTimes` keeps the times
  of all runs, by which those of an earlier attempt are too old to be found.
- OnlineLineage: `ReportsAreTheirOwn` (`ReportIsItsOwn`), from `ActsOnce` and `Finalizing`: as a case is
  acted for once, its handle is consumed once, and a finalize that gets to `judge` consumed both itself.

The theorems use the ASSUMEs of the modules and, where it is said, the two hypotheses above
and `"author" \notin Lagging`.  `NoneAssumption` of Outbox says only that "no outcome" is not an outcome.
TLC checked every invariant above on a small instance before it was proved.

Every safety property of the runs that TLC finds to hold is thus also a theorem.  Only
model-checked are the liveness properties (`EpisodeCloses`, `RunIsSettled`, `DraftIsPublished`):
TLAPS does no fairness and no ENABLED.  What the runs with an expected violation show is a
counterexample, and needs no proof.

`NoEffectBeforeMarker`, `VerdictNeedsApproval` and `CitationsAreFrozen` are proved, and the type
invariants of the modules with proofs; the runs leave them out.

## 5. Not modelled

`PROJECT.json` gives the reason for each component.  In short:

- the older evaluations (`blind_holdout.py`, `release_guardian*.py`, the ablation, the pressure and scale benchmarks):
  they generate, seal, run and score once, which SequentialBlind has with more order to get wrong;
- statistics: bootstrap and e-process are floating point, and no gate reads them.  Their
  preregistered order (`sequential_blind.py:75`) is not the one they are computed in (909);
- `build_release_envelope.py`, `judge_readonly_verify.py` (but for the check of the sequential campaign),
  `offline_judge_capsule.py`, the other `promote_*_evidence.py` and the story builders: each reads
  finished files, compares fields and writes one report.  There is no order to get wrong and nothing to resume;
- `outcome_replay_proof.py` and its runner drive EpisodeStore's replay, which is modelled there;
- deployment scripts other than the cutover, video builders, pages.

Within what is modelled: HTTP and JSON validation, the hash functions, token
verification, the lag of the releases collection, the static caller registry, a changed migration
manifest, and the crash between the draft of a story and its promotion.

## 6. Plan

The system's parts with control of their own have their modules, and every safety property
of a run its proof.  What is left, in the order of its worth:

1. An abstract lineage (one append-only chain per incident) that both MemoryStore and EpisodeStore
   implement, one refinement in place of the pairs of theorems (`LineageStands`, `SharedLineageStands`
   and so on) that `MemoryProofs` and `EpisodeProofs` state.
2. An abstract migrator (a sequence of changes, applied one after the other) that `Migrator`
   implements as long as leases are kept; `SchemaBuilt` is most of the invariant it needs.
3. Of the parts not modelled, the static caller registry and the static pool of the MCP server.
