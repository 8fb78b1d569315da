-------------------------- MODULE SandboxProviders --------------------------
(***************************************************************************)
(* The two disposable sandboxes that evaluations act on, the draft release *)
(* of github_release_provider.py and the key prefix of                     *)
(* s3_holdout_provider.py: a case prepares its fixture, executes one       *)
(* proposed action, verifies the transition and cleans up.                 *)
(*                                                                         *)
(* The two have the same parts: a container (the draft, or the marker      *)
(* object), a payload, a receipt and a quarantined payload.  A call to a   *)
(* provider may be refused, and its answer may be lost after the effect.   *)
(* What GitHub's lists show may lag behind the last write.                 *)
(***************************************************************************)
EXTENDS Integers, FiniteSets

Fixtures == {"missing", "no payload", "lost ack", "no receipt", "conflict", "pending"}
Actions == {"create", "upload", "adopt", "attach", "quarantine", "delete"}

VARIABLES
    \* What the case is, fixed at the start: its provider ("github", "s3"), its
    \* mode ("labelled": execute, "observed": execute_observed), its fixture and
    \* the action that was proposed and approved.
    case,
    step,       \* where the candidate's process is
    sandbox,    \* what the provider holds for the case
    lagging,    \* what it held before the last write
    known,      \* release_id or prefix: does the process know what to clean up?
    before,     \* the state that the execution saw first
    failure,    \* execution_error: none, or why the action was not carried out
    effects,    \* effect_count
    verdict,    \* the recorded outcome: none, succeeded, failed
    residual,   \* the residual_count that the clean-up reported
    unanswered  \* was the answer to the creation of the draft lost?

providerVars == <<case, step, sandbox, lagging, known, before, failure, effects,
                  verdict, residual, unanswered>>

Unreported == -1
Empty == [container |-> FALSE, payload |-> "none", receipt |-> FALSE, aside |-> FALSE]

\* What prepare_fixture makes of each fixture.
FixtureState(f) ==
    [container |-> f # "missing",
     payload   |-> CASE f \in {"lost ack", "no receipt", "pending"} -> "good"
                     [] f = "conflict" -> "conflict"
                     [] OTHER -> "none",
     receipt   |-> f = "pending",
     aside     |-> FALSE]

Labelled(f) ==
    CASE f = "missing" -> "create"      [] f = "no payload" -> "upload"
      [] f = "lost ack" -> "adopt"      [] f = "no receipt" -> "attach"
      [] f = "conflict" -> "quarantine" [] f = "pending" -> "delete"

ProviderInit ==
    /\ case \in [provider : {"github", "s3"}, mode : {"labelled", "observed"},
                 fixture : Fixtures, action : Actions]
    /\ step = "prepare"
    /\ sandbox = Empty /\ lagging = Empty
    /\ known = FALSE
    /\ before = Empty
    /\ failure = "none"
    /\ effects = 0
    /\ verdict = "none"
    /\ residual = Unreported
    /\ unanswered = FALSE

GitHub == case.provider = "github"
Observed == case.mode = "observed"
Becomes(state) == sandbox' = state /\ lagging' = sandbox

-----------------------------------------------------------------------------
(* The fixture.                                                            *)

\* The next part of the fixture, in the order of the writes.
NextPart(target) ==
    IF sandbox.container # target.container
      THEN [sandbox EXCEPT !.container = TRUE]
    ELSE IF sandbox.payload # target.payload
      THEN [sandbox EXCEPT !.payload = target.payload]
    ELSE [sandbox EXCEPT !.receipt = TRUE]

PrepareCall ==
    /\ step = "prepare"
    /\ sandbox # FixtureState(case.fixture)
    /\ Becomes(NextPart(FixtureState(case.fixture)))
    /\ UNCHANGED <<case, step, known, before, failure, effects, verdict, residual,
                   unanswered>>

\* _prepared[case_id]: the release is known by its id, which a missing draft
\* does not have; the prefix is known in any case.
Prepared ==
    /\ step = "prepare"
    /\ sandbox = FixtureState(case.fixture)
    /\ known' = (GitHub => sandbox.container)
    /\ step' = "execute"
    /\ UNCHANGED <<case, sandbox, lagging, before, failure, effects, verdict,
                   residual, unanswered>>

-----------------------------------------------------------------------------
(* The execution.                                                          *)

\* _state: a release whose id is not known is not looked up; the assets of a
\* release come from a list.
ViewsOfRelease ==
    IF known /\ sandbox.container
      THEN {sandbox} \cup {v \in {lagging} : v.container}
      ELSE {Empty}

ViewsOfPrefix == {sandbox}

Views == IF GitHub THEN ViewsOfRelease ELSE ViewsOfPrefix

\* _precondition.
Admits(action, s) ==
    CASE action = "create"     -> s = Empty
      [] action = "upload"     -> s.container /\ s.payload = "none"
      [] action = "adopt"      -> s.payload = "good"
      [] action = "attach"     -> s.payload = "good" /\ ~s.receipt
      [] action = "quarantine" -> s.payload = "conflict"
      [] action = "delete"     -> s.container /\ s.payload = "good" /\ s.receipt

\* _verify.
Verifies(action, s) ==
    CASE action = "create"     -> s.container
      [] action = "upload"     -> s.payload = "good"
      [] action = "adopt"      -> s.payload = "good"
      [] action = "attach"     -> s.receipt
      [] action = "quarantine" -> s.payload = "none" /\ s.aside
      [] action = "delete"     -> s = Empty

\* What the provider's call does to the state.
Applied(action, s) ==
    CASE action = "create"     -> [s EXCEPT !.container = TRUE]
      [] action = "upload"     -> [s EXCEPT !.payload = "good"]
      [] action = "adopt"      -> s
      [] action = "attach"     -> [s EXCEPT !.receipt = TRUE]
      [] action = "quarantine" -> [s EXCEPT !.payload = "none", !.aside = TRUE]
      [] action = "delete"     -> Empty

\* GitHub takes no second asset of a name, and adds assets only to a draft; S3
\* overwrites.
Takes(action, s) ==
    GitHub => /\ action \in {"upload", "attach", "quarantine", "delete"} => s.container
              /\ action = "upload" => s.payload = "none"
              /\ action = "attach" => ~s.receipt

LookBefore ==
    /\ step = "execute"
    /\ before' \in Views
    /\ step' = "act"
    /\ UNCHANGED <<case, sandbox, lagging, known, failure, effects, verdict,
                   residual, unanswered>>

\* Whether the proposal is carried out at all: execute compares it with the
\* label, execute_observed with the state it saw.
ToldToAct == IF Observed THEN Admits(case.action, before)
                         ELSE case.action = Labelled(case.fixture)

NotAdmitted ==
    /\ step = "act"
    /\ ~ToldToAct
    /\ failure' = "refused"
    /\ step' = "verify"
    /\ UNCHANGED <<case, sandbox, lagging, known, before, effects, verdict,
                   residual, unanswered>>

\* adopt makes no call that writes; execute looks at the payload once more.
Adopt ==
    /\ step = "act"
    /\ ToldToAct
    /\ case.action = "adopt"
    /\ \E view \in Views :
          failure' = IF Observed \/ view.payload = "good" THEN failure ELSE "refused"
    /\ step' = "verify"
    /\ UNCHANGED <<case, sandbox, lagging, known, before, effects, verdict, residual,
                   unanswered>>

Act ==
    /\ step = "act"
    /\ ToldToAct
    /\ case.action # "adopt"
    /\ Takes(case.action, sandbox)
    /\ Becomes(Applied(case.action, sandbox))
    /\ known' = (known \/ case.action = "create")
    /\ effects' = 1
    /\ step' = "verify"
    /\ UNCHANGED <<case, before, failure, verdict, residual, unanswered>>

\* An error that the execution catches: any of S3's, and GitHub's own answers.
\* execute catches none, and the exception reaches the caller's clean-up.
Caught == Observed

ActFails ==
    /\ step = "act"
    /\ ToldToAct
    /\ case.action # "adopt"
    /\ \/ UNCHANGED <<sandbox, lagging, unanswered>>
       \/ /\ Takes(case.action, sandbox)
          /\ Becomes(Applied(case.action, sandbox))
          /\ unanswered' = (GitHub /\ case.action = "create")
       \/ /\ case.provider = "s3" /\ case.action = "quarantine"
          /\ Becomes([sandbox EXCEPT !.aside = TRUE])       \* copied, not deleted
          /\ UNCHANGED unanswered
    /\ failure' = "error"
    /\ \/ Caught /\ step' = "verify"
       \/ (Caught => GitHub) /\ step' = "cleanup"         \* a broken connection
    /\ UNCHANGED <<case, known, before, effects, verdict, residual>>

\* The deletions of S3's delete_objects are reported one by one, and the report
\* is not read: one of the objects may be left.
Partly(s, part) == [Empty EXCEPT ![part] = s[part]]

DeleteSomeObjects ==
    /\ step = "act"
    /\ ToldToAct
    /\ case.provider = "s3" /\ case.action = "delete"
    /\ \E part \in DOMAIN Empty : Becomes(Partly(sandbox, part))
    /\ effects' = 1
    /\ step' = "verify"
    /\ UNCHANGED <<case, known, before, failure, verdict, residual, unanswered>>

\* As a defect: the state alone would decide, whatever the call had answered.
RecordState(after) ==
    verdict' = IF Verifies(case.action, after) THEN "succeeded" ELSE "failed"

\* The state after, and the outcome that is recorded under the key.
Record(after) ==
    verdict' = IF failure = "none" /\ Verifies(case.action, after)
                 THEN "succeeded" ELSE "failed"

VerifyAfter ==
    /\ step = "verify"
    /\ \E after \in Views :
          /\ (~Observed /\ GitHub /\ failure = "none") => Verifies(case.action, after)
          /\ Record(after)
    /\ step' = "cleanup"
    /\ UNCHANGED <<case, sandbox, lagging, known, before, failure, effects,
                   residual, unanswered>>

\* _retry gives up, or a read fails: nothing is recorded.
VerifyFails ==
    /\ step = "verify"
    /\ step' = "cleanup"
    /\ UNCHANGED <<case, sandbox, lagging, known, before, failure, effects, verdict,
                   residual, unanswered>>

-----------------------------------------------------------------------------
(* The clean-up.                                                           *)

\* As a defect: only markers and receipts would be counted.
LeftUncounted(s) == Cardinality({p \in {"container", "receipt", "aside"} : s[p]})

Left(s) == Cardinality({p \in {"container", "receipt", "aside"} : s[p]})
             + (IF s.payload = "none" THEN 0 ELSE 1)

\* The draft of the known id is deleted, and residuals are looked for under it.
DeleteDraft ==
    /\ step = "cleanup" /\ GitHub
    /\ IF known THEN Becomes(Empty) ELSE UNCHANGED <<sandbox, lagging>>
    /\ residual' = 0
    /\ step' = "done"
    /\ UNCHANGED <<case, known, before, failure, effects, verdict, unanswered>>

\* The prefix is deleted, and its objects are counted.
EmptyPrefix ==
    /\ step = "cleanup" /\ ~GitHub
    /\ \E part \in DOMAIN Empty : Becomes(Empty) \/ Becomes(Partly(sandbox, part))
    /\ residual' = Left(sandbox')
    /\ step' = "done"
    /\ UNCHANGED <<case, known, before, failure, effects, verdict, unanswered>>

\* A call of the preparation or of the clean-up fails: the exception ends the
\* process and nothing is reported.
CandidateDies ==
    /\ step \in {"prepare", "cleanup"}
    /\ step' = "dead"
    /\ UNCHANGED <<case, sandbox, lagging, known, before, failure, effects, verdict,
                   residual, unanswered>>

ProviderNext ==
    \/ PrepareCall \/ Prepared \/ LookBefore \/ NotAdmitted \/ Adopt \/ Act
    \/ ActFails \/ DeleteSomeObjects \/ VerifyAfter \/ VerifyFails
    \/ DeleteDraft \/ EmptyPrefix \/ CandidateDies

ProviderSpec == ProviderInit /\ [][ProviderNext]_providerVars

-----------------------------------------------------------------------------
(* Properties.                                                             *)

\* An outcome that is recorded as succeeded, and that is attested and promoted
\* for it, is the whole transition of its action from the fixture as it was
\* prepared, and counts one effect, or none for an adoption: a lagging list, a
\* lost answer or a half-done quarantine never pass for it (execute,
\* execute_observed).
SuccessIsTheTransition ==
    verdict = "succeeded" /\ step = "cleanup" =>
        LET start == FixtureState(case.fixture) IN
        /\ Admits(case.action, start)
        /\ sandbox = Applied(case.action, start)
        /\ effects = IF case.action = "adopt" THEN 0 ELSE 1

\* A clean-up that reports no residual leaves none, unless the answer to the
\* creation of the draft was lost: then the release id is not known and neither
\* the clean-up nor its count looks at the draft (cleanup).
ResidualIsTold == residual = 0 /\ ~unanswered => sandbox = Empty
=============================================================================
