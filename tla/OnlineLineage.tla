---------------------------- MODULE OnlineLineage ----------------------------
(***************************************************************************)
(* The online memory lineage: one workflow job calibrates a source on the  *)
(* provider, has the host promote it and write a proposal for each of two  *)
(* target cases (prepare), runs the two actions that were proposed, and    *)
(* has the host turn their receipts into outcomes and memories (finalize). *)
(* When such a job fails after its actions, reconcile jobs of another head *)
(* take its artifact and run finalize again, without a way to act.         *)
(*                                                                         *)
(* A job waits a bounded time for the command on the host, which goes on   *)
(* after the job gave it up; the jobs themselves run one after another     *)
(* (the concurrency group).                                                *)
(***************************************************************************)
EXTENDS Integers, FiniteSets, Sequences

CONSTANT Reconciles     \* how many reconcile jobs are dispatched at most

ASSUME LineageAssumption == Reconciles \in Nat

Candidate == 0
Jobs == Candidate .. Reconciles
Cases == {"near", "same"}
Order == <<"near", "same">>     \* target_cases, sorted by relationship

VARIABLES
    job,        \* workflow: where each job stands
    grants,     \* the jobs whose role policy IAM honours for the instance
    prep,       \* host: where the prepare command stands
    offered,    \* proposals-v1.json is in the evidence bucket
    target,     \* proposed_actions.status of the target cases
    sound,      \* cases whose proposal is the expected patch
    actions,    \* case -> the conclusions of its remediation runs
    artifact,   \* provider-outcomes-v1.json was written
    process,    \* host: where the finalize command of each job stands
    ledger,     \* outcome_evidence: whose handle was consumed for the case
    imported,   \* canonical memories of prepare: the source, the sentinel
    vectored,   \* memories that have their vector
    published   \* jobs whose report reached the evidence bucket

prepVars == <<prep, offered, imported>>
lineageVars == <<job, grants, prepVars, target, sound, actions, artifact, process,
                 ledger, vectored, published>>

Unrecorded == -1
Absent == [at |-> 0, step |-> "none"]
Starting == [at |-> 1, step |-> "secret"]

LineageInit ==
    /\ job = [j \in Jobs |-> IF j = Candidate THEN "calibrate" ELSE "idle"]
    /\ grants = {}
    /\ prep = "none" /\ offered = FALSE /\ imported = {}
    /\ target = [c \in Cases |-> "none"]
    /\ sound = {}
    /\ actions = [c \in Cases |-> <<>>]
    /\ artifact = FALSE
    /\ process = [j \in Jobs |-> Absent]
    /\ ledger = [c \in Cases |-> Unrecorded]
    /\ vectored = {}
    /\ published = {}

Advance(j, from, to) == job[j] = from /\ job' = [job EXCEPT ![j] = to]

-----------------------------------------------------------------------------
(* The candidate job.                                                      *)

\* prepare of run_online_lineage_provider.py, and the grant.
Calibrate ==
    /\ Advance(Candidate, "calibrate", "propose")
    /\ grants' = grants \cup {Candidate}
    /\ UNCHANGED <<prepVars, target, sound, actions, artifact, process, ledger,
                   vectored, published>>

SendPrepare ==
    /\ Advance(Candidate, "propose", "proposing")
    /\ prep' = "secrets"
    /\ UNCHANGED <<grants, offered, imported, target, sound, actions, artifact, process,
                   ledger, vectored, published>>

\* The command succeeded, and its file holds two proposals.
TakeProposals ==
    /\ prep = "done" /\ offered
    /\ Advance(Candidate, "proposing", "act")
    /\ UNCHANGED <<grants, prepVars, target, sound, actions, artifact, process, ledger,
                   vectored, published>>

\* execute: both actions run; the answer may be lost after they did.
RunActions ==
    /\ job[Candidate] = "act"
    /\ \E good \in SUBSET sound :
          actions' = [c \in Cases |-> Append(actions[c], c \in good)]
    /\ \/ artifact' = TRUE /\ job' = [job EXCEPT ![Candidate] = "finalize"]
       \/ artifact' = artifact /\ job' = [job EXCEPT ![Candidate] = "revoke"]
    /\ UNCHANGED <<grants, prepVars, target, sound, process, ledger, vectored,
                   published>>

-----------------------------------------------------------------------------
(* The command on the host: prepare.                                       *)

PrepareGoes(from, to) == prep = from /\ prep' = to

\* The migrator's secret, the runtime secret and the scope that its caller is
\* bound to: with the job's policy.
ReadBothSecrets ==
    /\ PrepareGoes("secrets", IF Candidate \in grants THEN "source" ELSE "dead")
    /\ UNCHANGED <<job, grants, offered, imported, target, sound, actions, artifact,
                   process, ledger, vectored, published>>

\* The green receipt becomes an episode of its own, approved by policy, and its
\* outcome the source memory.
ImportSource ==
    /\ PrepareGoes("source", "index")
    /\ imported' = imported \cup {"source"}
    /\ UNCHANGED <<job, grants, offered, target, sound, actions, artifact, process,
                   ledger, vectored, published>>

IndexSource ==
    /\ PrepareGoes("index", "sentinel")
    /\ vectored' = vectored \cup {"source"}
    /\ UNCHANGED <<job, grants, offered, imported, target, sound, actions, artifact,
                   process, ledger, published>>

\* A memory of another incident, which the scope's role must not see.
CreateForbiddenMemory ==
    /\ PrepareGoes("sentinel", "near")
    /\ imported' = imported \cup {"sentinel"}
    /\ vectored' = vectored \cup {"sentinel"}
    /\ UNCHANGED <<job, grants, offered, target, sound, actions, artifact, process,
                   ledger, published>>

\* The agent runs for a case, and its proposal is recorded. The same cause is
\* served by the source memory; the near neighbour by whichever diagnostic the
\* model chose, which may point to another patch.
WriteProposal(c) ==
    /\ PrepareGoes(c, IF c = "near" THEN "same" ELSE "upload")
    /\ target' = [target EXCEPT ![c] = "proposed"]
    /\ \/ sound' = sound \cup {c}
       \/ sound' = sound /\ c = "near"
    /\ UNCHANGED <<job, grants, offered, imported, actions, artifact, process, ledger,
                   vectored, published>>

UploadProposals ==
    /\ PrepareGoes("upload", IF Candidate \in grants THEN "done" ELSE "dead")
    /\ offered' = (Candidate \in grants)
    /\ UNCHANGED <<job, grants, imported, target, sound, actions, artifact, process,
                   ledger, vectored, published>>

\* A check, the database, a model or the host fails the command.
PrepareFails ==
    /\ prep \in {"secrets", "source", "index", "sentinel", "near", "same", "upload"}
    /\ prep' = "dead"
    /\ UNCHANGED <<job, grants, offered, imported, target, sound, actions, artifact,
                   process, ledger, vectored, published>>

-----------------------------------------------------------------------------
(* A reconcile job.                                                        *)

Over == {"failed", "passed"}

\* The predecessor failed before it saw a report, and its artifact holds two
\* proposals and two successful actions.
Resumable ==
    /\ job[Candidate] = "failed"
    /\ artifact
    /\ \A c \in Cases : Len(actions[c]) = 1 /\ actions[c][1]

StartReconcile(j) ==
    /\ j # Candidate
    /\ \A k \in 0 .. j - 1 : job[k] \in Over
    /\ Resumable
    /\ Advance(j, "idle", "finalize")
    /\ grants' = grants \cup {j}
    /\ UNCHANGED <<prepVars, target, sound, actions, artifact, process, ledger, vectored,
                   published>>

-----------------------------------------------------------------------------
(* The command on the host: finalize.                                      *)

SendFinalize(j) ==
    /\ Advance(j, "finalize", "wait")
    /\ process' = [process EXCEPT ![j] = Starting]
    /\ UNCHANGED <<grants, prepVars, target, sound, actions, artifact, ledger, vectored,
                   published>>

Goes(j, at, step) == process' = [process EXCEPT ![j] = [at |-> at, step |-> step]]
Dies(j) == Goes(j, 0, "dead")
Case(j) == Order[process[j].at]

\* The inputs are read, and the secret, with whichever policy is honoured.
ReadMigratorSecret(j) ==
    /\ process[j].step = "secret"
    /\ IF grants # {} THEN Goes(j, 1, "approve") ELSE Dies(j)
    /\ UNCHANGED <<job, grants, prepVars, target, sound, actions, artifact, ledger,
                   vectored, published>>

\* approve_proposal: nothing to do for one that is approved.
Approve(j) ==
    /\ process[j].step = "approve"
    /\ target' = [target EXCEPT ![Case(j)] = "approved"]
    /\ Goes(j, process[j].at, "record")
    /\ UNCHANGED <<job, grants, prepVars, sound, actions, artifact, ledger, vectored,
                   published>>

\* As a defect: an outcome that is there would be taken for the process's own.
RecordOutcomeReplayed(j) ==
    /\ process[j].step = "record"
    /\ IF actions[Case(j)][1]
         THEN /\ ledger' = [ledger EXCEPT ![Case(j)] = IF @ = Unrecorded THEN j ELSE @]
              /\ Goes(j, process[j].at, "index")
         ELSE Dies(j) /\ ledger' = ledger
    /\ UNCHANGED <<job, grants, prepVars, target, sound, actions, artifact, vectored,
                   published>>

\* The handle is signed with a key of this process, for a success only, and
\* record_outcome_and_promote consumes it; an outcome that is there already
\* is replayed with its own handle or not at all.
RecordOutcome(j) ==
    /\ process[j].step = "record"
    /\ IF actions[Case(j)][1] /\ ledger[Case(j)] = Unrecorded
         THEN /\ ledger' = [ledger EXCEPT ![Case(j)] = j]
              /\ Goes(j, process[j].at, "index")
         ELSE Dies(j) /\ ledger' = ledger
    /\ UNCHANGED <<job, grants, prepVars, target, sound, actions, artifact, vectored,
                   published>>

Index(j) ==
    /\ process[j].step = "index"
    /\ vectored' = vectored \cup {Case(j)}
    /\ IF process[j].at = Len(Order)
         THEN Goes(j, 0, "judge")
         ELSE Goes(j, process[j].at + 1, "approve")
    /\ UNCHANGED <<job, grants, prepVars, target, sound, actions, artifact, ledger,
                   published>>

\* The joins and the gate; a report that passes is uploaded, which needs the
\* job's own policy.
LineageGate == sound = Cases /\ Cases \subseteq vectored /\ \A c \in Cases : target[c] = "approved"

Judge(j) ==
    /\ process[j].step = "judge"
    /\ IF LineageGate /\ j \in grants
         THEN published' = published \cup {j} /\ Goes(j, 0, "done")
         ELSE published' = published /\ Dies(j)
    /\ UNCHANGED <<job, grants, prepVars, target, sound, actions, artifact, ledger,
                   vectored>>

\* The host, the database or the embedding model fails the command.
Crash(j) ==
    /\ process[j].step \in {"secret", "approve", "record", "index", "judge"}
    /\ Dies(j)
    /\ UNCHANGED <<job, grants, prepVars, target, sound, actions, artifact, ledger,
                   vectored, published>>

-----------------------------------------------------------------------------
(* The end of a job.                                                       *)

\* A step fails, the wait for the command ends with it or gives it up; the last
\* step, which always runs, takes the policy away.
LeaveStep(j) ==
    /\ job[j] \in {"calibrate", "propose", "proposing", "act", "finalize", "wait"}
    /\ job' = [job EXCEPT ![j] = "revoke"]
    /\ UNCHANGED <<grants, prepVars, target, sound, actions, artifact, process, ledger,
                   vectored, published>>

Revoke(j) ==
    /\ Advance(j, "revoke", "failed")
    /\ UNCHANGED <<grants, prepVars, target, sound, actions, artifact, process, ledger, vectored,
                   published>>

\* The command succeeded, and the job has seen its report.
Conclude(j) ==
    /\ process[j].step = "done"
    /\ Advance(j, "wait", "passed")
    /\ UNCHANGED <<grants, prepVars, target, sound, actions, artifact, process, ledger,
                   vectored, published>>

\* No step waits for the revocation: IAM honours the deleted policy a while yet.
PolicyLapses(j) ==
    /\ job[j] \in Over
    /\ j \in grants
    /\ grants' = grants \ {j}
    /\ UNCHANGED <<job, prepVars, target, sound, actions, artifact, process, ledger,
                   vectored, published>>

LineageNext ==
    \/ Calibrate \/ SendPrepare \/ TakeProposals \/ RunActions
    \/ ReadBothSecrets \/ ImportSource \/ IndexSource \/ CreateForbiddenMemory
    \/ UploadProposals \/ PrepareFails
    \/ \E c \in Cases : WriteProposal(c)
    \/ \E j \in Jobs :
          \/ StartReconcile(j) \/ SendFinalize(j) \/ ReadMigratorSecret(j) \/ Approve(j)
          \/ RecordOutcome(j) \/ Index(j) \/ Judge(j) \/ Crash(j)
          \/ LeaveStep(j) \/ Revoke(j) \/ Conclude(j) \/ PolicyLapses(j)

LineageSpec == LineageInit /\ [][LineageNext]_lineageVars

-----------------------------------------------------------------------------
(* Properties.                                                             *)

\* A report is the work of one finalize: it consumed the handles of both
\* outcomes itself, each for the only action that the attempt ever ran for the
\* case, however many commands ran side by side; so at most one report is
\* published for one attempt of the candidate job (finalize,
\* record_outcome_and_promote).
ReportIsItsOwn ==
    \A j \in published : \A c \in Cases :
        /\ ledger[c] = j
        /\ Len(actions[c]) = 1 /\ actions[c][1] /\ c \in vectored

\* "crash reconciliation": a reconcile job is never stopped by what the finalize
\* it takes over from had already recorded. VIOLATED: the handle of the retry is
\* signed with another ephemeral key, so the outcome that is there is taken for
\* a replay with a different handle.
ReconcileResumes ==
    \A j \in Jobs : j # Candidate /\ process[j].step = "record"
        => ledger[Case(j)] \in {Unrecorded, j}
=============================================================================
