---------------------------- MODULE EpisodeStore ----------------------------
(***************************************************************************)
(* The episode store: agent runs, the citations and the proposal a run     *)
(* leaves, approval, and the one transaction that turns a verified         *)
(* provider outcome into evidence, a consumed attestation, a canonical     *)
(* memory and a journal entry.  It shares the incident lineage with the    *)
(* writers of MemoryStore.                                                 *)
(*                                                                         *)
(* A run holds at most one proposal, so the proposal is named by its run.  *)
(* A call that raises rolls back, hence takes no step.                     *)
(***************************************************************************)
EXTENDS MemoryStore, Sequences

CONSTANTS
  Runs, IncidentOf,       \* agent runs and their incidents
  Stateless,              \* the runs of the stateless arm
  Destructive,            \* the runs whose proposal has a destructive risk class
  Receipts, NoReceipt,    \* (provider_receipt_id, receipt_digest) pairs
  Handles, NoHandle,      \* attestation handles, each with a nonce of its own
  HandleSeconds, MaxJournal

ASSUME EpisodeAssumption ==
  /\ IncidentOf \in [Runs -> Incidents]
  /\ Runs \X Receipts \subseteq Candidates \ Drafted
  /\ NoReceipt \notin Receipts
  /\ NoHandle \notin Handles
  /\ HandleSeconds \in Nat \ {0}
  /\ MaxJournal \in Nat

VARIABLES
  run,                    \* agent_runs.status
  cited,                  \* retrieved_citations: hashes of the memories cited
  proposal,               \* proposed_actions
  issued,                 \* handles the authority issued, with their claims
  evidence,               \* outcome_evidence joined with its attestation
  journal                 \* outcome_reconciliation_journal

episodeVars == <<run, cited, proposal, issued, evidence, journal>>
allVars == <<memoryVars, episodeVars>>

-----------------------------------------------------------------------------
(* Data *)

RunStatus == {"absent", "started", "proposed", "enqueued",
              "succeeded", "failed", "ambiguous"}

\* The replay identity of an outcome, and the time it was observed or verified.
Succeeded(receipt, t) == [status |-> "succeeded", receipt |-> receipt, time |-> t]
Unverified(status, receipt, t) == [status |-> status, receipt |-> receipt, time |-> t]

Identity(o) == <<o.status, o.receipt>>

OutcomeCandidate(r, receipt) == <<r, receipt>>

NoOutcome == [recorded |-> FALSE]
NoProposal == [status |-> "absent", citations |-> {}, human |-> FALSE]

EpisodeInit ==
  /\ MemoryInit
  /\ run = [r \in Runs |-> "absent"]
  /\ cited = [r \in Runs |-> {}]
  /\ proposal = [r \in Runs |-> NoProposal]
  /\ issued = [h \in Handles |-> NoHandle]
  /\ evidence = [r \in Runs |-> NoOutcome]
  /\ journal = [r \in Runs |-> <<>>]

-----------------------------------------------------------------------------
(* Runs, citations, proposals *)

StartRun(r) ==
  /\ run[r] = "absent"
  /\ run' = [run EXCEPT ![r] = "started"]
  /\ UNCHANGED <<memoryVars, cited, proposal, issued, evidence, journal>>

\* Citations are of canonical memories of the run's incident (the scope foreign
\* key), each at most once; a stateless run cites nothing.
RecordCitations(r, C) ==
  /\ run[r] = "started"
  /\ C \subseteq {m.event_hash : m \in Lineage(IncidentOf[r])} \ cited[r]
  /\ r \in Stateless => C = {}
  /\ cited' = [cited EXCEPT ![r] = @ \cup C]
  /\ UNCHANGED <<memoryVars, run, proposal, issued, evidence, journal>>

\* record_proposal closes the run for citations and further proposals.
RecordProposal(r, C) ==
  /\ run[r] = "started"
  /\ C \subseteq cited[r]
  /\ proposal' = [proposal EXCEPT ![r] = [status |-> "proposed",
                                          citations |-> C, human |-> FALSE]]
  /\ run' = [run EXCEPT ![r] = "proposed"]
  /\ UNCHANGED <<memoryVars, cited, issued, evidence, journal>>

\* The orchestrator's way out of a rejected or failed run.
FinishWithoutAction(r) ==
  /\ run[r] = "started"
  /\ run' = [run EXCEPT ![r] = "failed"]
  /\ UNCHANGED <<memoryVars, cited, proposal, issued, evidence, journal>>

\* An approved proposal stays as it was approved.  The run is not looked at.
ApproveProposal(r, human) ==
  /\ proposal[r].status = "proposed"
  /\ r \in Destructive => human
  /\ proposal' = [proposal EXCEPT ![r].status = "approved", ![r].human = human]
  /\ UNCHANGED <<memoryVars, run, cited, issued, evidence, journal>>

\* Mutant: the run is not looked at.
EnqueueProposalOfAnyRun(r) ==
  /\ proposal[r].status = "approved"
  /\ proposal' = [proposal EXCEPT ![r].status = "enqueued"]
  /\ run' = [run EXCEPT ![r] = "enqueued"]
  /\ UNCHANGED <<memoryVars, cited, issued, evidence, journal>>

\* enqueue_proposal, as far as these tables go.
EnqueueProposal(r) ==
  /\ proposal[r].status = "approved"
  /\ run[r] = "proposed"
  /\ proposal' = [proposal EXCEPT ![r].status = "enqueued"]
  /\ run' = [run EXCEPT ![r] = "enqueued"]
  /\ UNCHANGED <<memoryVars, cited, issued, evidence, journal>>

-----------------------------------------------------------------------------
(* Outcomes *)

\* The attestation authority binds a handle to one proposal and one receipt.
IssueHandle(h, r, receipt) ==
  /\ issued[h] = NoHandle
  /\ proposal[r].status # "absent"
  /\ issued' = [issued EXCEPT ![h] = [run |-> r, receipt |-> receipt,
                                      issued_at |-> clock,
                                      expires_at |-> clock + HandleSeconds]]
  /\ UNCHANGED <<memoryVars, run, cited, proposal, evidence, journal>>

Approved(r) == proposal[r].status \in {"approved", "enqueued"}

\* A success needs a handle whose claims name this proposal and this receipt;
\* any other outcome must come without one.
Attested(r, o, h) ==
  IF o.status = "succeeded"
  THEN h # NoHandle /\ issued[h] # NoHandle
       /\ issued[h].run = r /\ issued[h].receipt = o.receipt
  ELSE h = NoHandle

HandleExpired(h) == h # NoHandle /\ issued[h].expires_at < clock

Recorded == {r \in Runs : evidence[r] # NoOutcome}

\* Mutant: an index over handles only.
UnspentHandle(o, h) == h # NoHandle => \A q \in Recorded : evidence[q].handle # h

\* Unique indexes hold a receipt, a handle and a nonce to one outcome each.
Unspent(o, h) ==
  /\ h # NoHandle => \A q \in Recorded : evidence[q].handle # h
  /\ o.receipt # NoReceipt => \A q \in Recorded : evidence[q].outcome.receipt # o.receipt

\* build_outcome_reconciliation_entry: entry n names entry n - 1 by its hash.
JournalEntry(decision, incoming, durable) ==
  [decision |-> decision, incoming |-> incoming, durable |-> durable]

\* Mutant: the entry repeats what came in.
JournalledIncoming(r, decision, incoming, durable) ==
  journal' = [journal EXCEPT ![r] = Append(@, JournalEntry(decision, incoming, incoming))]

\* append_reconciliation.
Journalled(r, decision, incoming, durable) ==
  journal' = [journal EXCEPT ![r] = Append(@, JournalEntry(decision, incoming, durable))]

\* A success is promoted on top of the head the transaction locked, at the
\* provider's verification time; another outcome leaves the memory alone.
PromoteOutcome(r, o) ==
  IF o.status = "succeeded"
  THEN LET i == IncidentOf[r]
           c == OutcomeCandidate(r, o.receipt)
           head == incident[i].current_head
       IN /\ candidate' = [candidate EXCEPT ![c] =
               [incident |-> i, parent_hash |-> head, source_kind |-> "tool",
                action_class |-> "observe", human_approved |-> TRUE,
                oversized |-> FALSE, created_at |-> o.time,
                expires_at |-> Never, decision |-> "ACCEPTED"]]
          /\ AppendEvent(i, c, head, o.time)
  ELSE UNCHANGED <<incident, candidate, canonical>>

\* The first outcome.
FirstOutcome(r, o, h) ==
  /\ evidence[r] = NoOutcome
  /\ ~HandleExpired(h)
  /\ Unspent(o, h)
  /\ run[r] \in {"proposed", "enqueued"}
  /\ evidence' = [evidence EXCEPT ![r] = [outcome |-> o, handle |-> h]]
  /\ run' = [run EXCEPT ![r] = o.status]
  /\ Journalled(r, "accepted", Identity(o), Identity(o))
  /\ PromoteOutcome(r, o)

\* The same identity again, for a success with the same handle, expired or not.
ExactReplay(r, o, h) ==
  /\ evidence[r] # NoOutcome
  /\ Identity(evidence[r].outcome) = Identity(o)
  /\ o.status = "succeeded" => evidence[r].handle = h
  /\ Journalled(r, "exact_replay", Identity(o), Identity(evidence[r].outcome))
  /\ UNCHANGED <<incident, candidate, canonical, run, evidence>>

\* Mutant: the last outcome wins.
ConflictOverwrites(r, o, h) ==
  /\ evidence[r] # NoOutcome
  /\ Identity(evidence[r].outcome) # Identity(o)
  /\ ~HandleExpired(h)
  /\ Journalled(r, "conflict", Identity(o), Identity(evidence[r].outcome))
  /\ evidence' = [evidence EXCEPT ![r] = [outcome |-> o, handle |-> h]]
  /\ UNCHANGED <<incident, candidate, canonical, run>>

\* Another identity: journalled and committed before the call raises.
Conflict(r, o, h) ==
  /\ evidence[r] # NoOutcome
  /\ Identity(evidence[r].outcome) # Identity(o)
  /\ ~HandleExpired(h)
  /\ Journalled(r, "conflict", Identity(o), Identity(evidence[r].outcome))
  /\ UNCHANGED <<incident, candidate, canonical, run, evidence>>

\* record_outcome_and_promote.
RecordOutcomeAndPromote(r, o, h) ==
  /\ Len(journal[r]) < MaxJournal
  /\ Approved(r)
  /\ Attested(r, o, h)
  /\ FirstOutcome(r, o, h) \/ ExactReplay(r, o, h) \/ Conflict(r, o, h)
  /\ UNCHANGED <<clock, attempts, told, granted, cited, proposal, issued>>

\* What callers report: times do not lie in the future of the clock.
ReportedOutcomes ==
  {Succeeded(x, t) : x \in Receipts, t \in 0..clock}
    \cup {Unverified("failed", x, clock) : x \in Receipts}
    \cup {Unverified("ambiguous", NoReceipt, clock)}

-----------------------------------------------------------------------------
EpisodeNext ==
  \/ MemoryNext /\ UNCHANGED episodeVars
  \/ \E r \in Runs :
       \/ StartRun(r) \/ FinishWithoutAction(r) \/ EnqueueProposal(r)
       \/ \E C \in SUBSET KnownHashes : RecordCitations(r, C) \/ RecordProposal(r, C)
       \/ \E human \in BOOLEAN : ApproveProposal(r, human)
       \/ \E h \in Handles, x \in Receipts : IssueHandle(h, r, x)
       \/ \E o \in ReportedOutcomes, h \in Handles \cup {NoHandle} :
            RecordOutcomeAndPromote(r, o, h)

EpisodeSpec == EpisodeInit /\ [][EpisodeNext]_allVars

-----------------------------------------------------------------------------
(* Properties *)

EpisodeTypeOK ==
  /\ run \in [Runs -> RunStatus]
  /\ \A r \in Runs :
       /\ cited[r] \subseteq KnownHashes
       /\ proposal[r].status \in {"absent", "proposed", "approved", "enqueued"}
       /\ proposal[r].citations \subseteq cited[r]
       /\ Len(journal[r]) <= MaxJournal
  /\ \A h \in Handles : issued[h] # NoHandle =>
       issued[h].run \in Runs /\ issued[h].receipt \in Receipts

\* No verdict without approval: an episode with an outcome had an approved
\* proposal, and a destructive one a human's; a run that was finished without
\* action never gets a proposal or an outcome.
VerdictNeedsApproval ==
  \A r \in Runs :
    /\ evidence[r] # NoOutcome => Approved(r) /\ (r \in Destructive => proposal[r].human)
    /\ run[r] \in {"succeeded", "ambiguous"} => evidence[r] # NoOutcome
    /\ run[r] = "failed" => (evidence[r] # NoOutcome \/ proposal[r].status = "absent")

\* Evidence, run and memory commit together: a run succeeded exactly when its
\* evidence is a success, exactly when its verified outcome is canonical in its
\* own incident; nothing else of the run is.
SuccessIsPromoted ==
  \A r \in Runs :
    /\ evidence[r] # NoOutcome => run[r] = evidence[r].outcome.status
    /\ \A x \in Receipts :
         (\E m \in Lineage(IncidentOf[r]) : m.source = OutcomeCandidate(r, x))
           <=> (run[r] = "succeeded" /\ evidence[r].outcome.receipt = x)

\* A receipt and a handle each authorise one episode.
AuthorityIsSpentOnce ==
  \A q, r \in Recorded : q # r =>
    /\ evidence[r].outcome.receipt # NoReceipt =>
         evidence[q].outcome.receipt # evidence[r].outcome.receipt
    /\ evidence[r].handle # NoHandle => evidence[q].handle # evidence[r].handle

\* The journal tells the history of the durable outcome: it starts with its
\* acceptance, accepts nothing else, reports every entry against that outcome,
\* and calls a conflict exactly what differs from it.
JournalIsFaithful ==
  \A r \in Runs :
    /\ journal[r] = <<>> <=> evidence[r] = NoOutcome
    /\ \A n \in 1..Len(journal[r]) :
         LET e == journal[r][n] IN
         /\ e.durable = Identity(evidence[r].outcome)
         /\ e.decision = "accepted" <=> n = 1
         /\ e.decision = "conflict" <=> e.incoming # e.durable

\* The durable outcome, its handle and the terminal status of the run stand,
\* whoever reports what and when; the journal is only appended to.
OutcomeStands ==
  [][\A r \in Runs :
       /\ evidence[r] # NoOutcome => evidence'[r] = evidence[r] /\ run'[r] = run[r]
       /\ Len(journal[r]) <= Len(journal'[r])
       /\ \A n \in 1..Len(journal[r]) : journal'[r][n] = journal[r][n]]_allVars

\* A proposal rests on what its own run retrieved before it proposed: the
\* citations are of the run's incident and stay what they were.
CitationsAreFrozen ==
  [][\A r \in Runs : proposal[r].status # "absent" =>
       /\ cited'[r] = cited[r]
       /\ proposal'[r].citations = proposal[r].citations
       /\ cited[r] \subseteq {m.event_hash : m \in Lineage(IncidentOf[r])}]_allVars
=============================================================================
