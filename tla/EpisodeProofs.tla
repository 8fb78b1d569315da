---------------------------- MODULE EpisodeProofs ----------------------------
(***************************************************************************)
(* Theorems about the episode store on top of a lineage that other writers *)
(* grow, for every number of runs, receipts, handles and candidates.       *)
(***************************************************************************)
EXTENDS EpisodeStore, MemoryProofs

-----------------------------------------------------------------------------
(* The inductive invariant: MemoryStore's, and what follows *)

Status == {"succeeded", "failed", "ambiguous"}
Outcome == [status : Status, receipt : Receipts \cup {NoReceipt}, time : Nat]
Proposal == [status : {"absent", "proposed", "approved", "enqueued"},
             citations : SUBSET KnownHashes, human : BOOLEAN]
Claims == [run : Runs, receipt : Receipts, issued_at : Nat, expires_at : Nat]
Named == Status \X (Receipts \cup {NoReceipt})
Entry == [decision : {"accepted", "exact_replay", "conflict"},
          incoming : Named, durable : Named]

RunsOK ==
  /\ run \in [Runs -> RunStatus]
  /\ cited \in [Runs -> SUBSET KnownHashes]
  /\ proposal \in [Runs -> Proposal]

OutcomesOK ==
  /\ issued \in [Handles -> Claims \cup {NoHandle}]
  /\ evidence \in [Runs -> [outcome : Outcome, handle : Handles \cup {NoHandle}]
                             \cup {NoOutcome}]
  /\ journal \in [Runs -> Seq(Entry)]
  /\ \A r \in Runs : Len(journal[r]) <= MaxJournal

\* What a run cites is of its incident, and what its proposal cites it cited.
CitedOK ==
  \A r \in Runs :
    /\ cited[r] \subseteq {m.event_hash : m \in Lineage(IncidentOf[r])}
    /\ proposal[r].citations \subseteq cited[r]

\* A run, its proposal and its evidence go together.
RunMatches ==
  \A r \in Runs :
    /\ run[r] \in {"absent", "started"} => proposal[r].status = "absent"
    /\ proposal[r].status = "absent" =>
         evidence[r] = NoOutcome /\ run[r] \in {"absent", "started", "failed"}
    /\ proposal[r].status # "absent" /\ evidence[r] = NoOutcome =>
         run[r] \in {"proposed", "enqueued"}
    /\ evidence[r] # NoOutcome =>
         run[r] = evidence[r].outcome.status /\ Approved(r)
    /\ Approved(r) /\ r \in Destructive => proposal[r].human

\* The candidate of a verified outcome is there, accepted and in its run's
\* incident, exactly when that outcome is the run's.
PromotedOK ==
  \A r \in Runs, x \in Receipts :
    LET c == OutcomeCandidate(r, x) IN
    /\ candidate[c] = NoCandidate \/ candidate[c].decision = "ACCEPTED"
    /\ candidate[c] # NoCandidate <=>
         /\ evidence[r] # NoOutcome
         /\ evidence[r].outcome.status = "succeeded"
         /\ evidence[r].outcome.receipt = x
    /\ \A m \in canonical : m.source = c => m.incident = IncidentOf[r]

EInv == /\ IInv /\ RunsOK /\ OutcomesOK /\ CitedOK /\ RunMatches /\ PromotedOK
        /\ AuthorityIsSpentOnce /\ JournalIsFaithful

LEMMA EpisodeInitInv == EpisodeInit => EInv
<1> SUFFICES ASSUME EpisodeInit PROVE EInv
  OBVIOUS
<1>1. IInv
  BY InitInv DEF EpisodeInit
<1>2. canonical = {} /\ candidate = [c \in Candidates |-> NoCandidate]
  BY DEF EpisodeInit, MemoryInit
<1>3. RunsOK
  BY DEF EpisodeInit, RunsOK, RunStatus, Proposal, NoProposal
<1>4. OutcomesOK
  <2>1. <<>> \in Seq(Entry) /\ Len(<<>>) = 0 /\ 0 <= MaxJournal
    BY EpisodeAssumption
  <2> QED BY <2>1 DEF EpisodeInit, OutcomesOK
<1>5. CitedOK /\ RunMatches
  BY DEF EpisodeInit, CitedOK, RunMatches, NoProposal, NoOutcome, Approved
<1>6. PromotedOK
  BY <1>2, EpisodeAssumption DEF EpisodeInit, PromotedOK, OutcomeCandidate
<1>7. AuthorityIsSpentOnce
  BY DEF EpisodeInit, AuthorityIsSpentOnce, Recorded
<1>8. JournalIsFaithful
  BY DEF EpisodeInit, JournalIsFaithful
<1> QED BY <1>1, <1>3, <1>4, <1>5, <1>6, <1>7, <1>8 DEF EInv

-----------------------------------------------------------------------------
(* Steps of the other writers *)

\* The lineage only grows, and candidates of outcomes are no one else's.
LEMMA MemoryStepAround ==
  ASSUME EInv, [MemoryNext]_memoryVars
  PROVE  /\ IInv'
         /\ canonical \subseteq canonical'
         /\ \A r \in Runs, x \in Receipts :
              /\ candidate'[OutcomeCandidate(r, x)] = candidate[OutcomeCandidate(r, x)]
              /\ \A m \in canonical' \ canonical : m.source # OutcomeCandidate(r, x)
<1>1. IInv'
  BY StepInv DEF EInv
<1>2. \A r \in Runs, x \in Receipts :
        /\ OutcomeCandidate(r, x) \in Candidates \ Drafted
        /\ ~Undecided(OutcomeCandidate(r, x))
  BY EpisodeAssumption DEF EInv, PromotedOK, OutcomeCandidate, Undecided
<1>3. CASE UNCHANGED <<candidate, canonical>>
  BY <1>1, <1>3
<1>4. ASSUME NEW c \in Drafted, NEW draft \in Drafts, Submit(c, draft)
      PROVE  /\ canonical' = canonical
             /\ \A d \in Candidates : d # c => candidate'[d] = candidate[d]
  BY <1>4 DEF Submit, EInv, IInv, MemoryTypeOK
<1>5. ASSUME NEW c \in Candidates, PromoteCandidate(c)
      PROVE  /\ Undecided(c)
             /\ canonical \subseteq canonical'
             /\ \A m \in canonical' \ canonical : m.source = c
             /\ \A d \in Candidates : d # c => candidate'[d] = candidate[d]
  <2>1. \A d \in Candidates : d # c =>
          candidate'[d] = candidate[d]
    BY <1>5, PromoteLineage DEF EInv
  <2>2. CASE UNCHANGED canonical
    BY <1>5, <2>1, <2>2 DEF PromoteCandidate
  <2>3. CASE AppendEvent(candidate[c].incident, c, candidate[c].parent_hash, clock)
    <3>1. canonical' = canonical \cup
            {Event(candidate[c].incident, c, candidate[c].parent_hash, clock)}
      BY <2>3 DEF AppendEvent, Event
    <3>2. Event(candidate[c].incident, c, candidate[c].parent_hash, clock).source = c
      BY DEF Event
    <3> QED BY <1>5, <2>1, <3>1, <3>2 DEF PromoteCandidate
  <2> QED BY <1>5, <2>2, <2>3 DEF PromoteCandidate
<1> QED BY <1>1, <1>2, <1>3, <1>4, <1>5 DEF MemoryNext, MemoryTick, ReplayPromotion,
          ClaimAction, memoryVars

LEMMA MemoryStepInv ==
  ASSUME EInv, [MemoryNext]_memoryVars, UNCHANGED episodeVars
  PROVE  EInv'
<1>1. /\ run' = run /\ cited' = cited /\ proposal' = proposal
      /\ issued' = issued /\ evidence' = evidence /\ journal' = journal
  BY DEF episodeVars
<1>2. /\ IInv'
      /\ canonical \subseteq canonical'
      /\ \A r \in Runs, x \in Receipts :
           /\ candidate'[OutcomeCandidate(r, x)] = candidate[OutcomeCandidate(r, x)]
           /\ \A m \in canonical' \ canonical : m.source # OutcomeCandidate(r, x)
  BY MemoryStepAround
<1>3. KnownHashes \subseteq KnownHashes'
  BY <1>2 DEF KnownHashes
<1>4. \A i : {m.event_hash : m \in Lineage(i)} \subseteq {m.event_hash : m \in Lineage(i)}'
  BY <1>2 DEF Lineage
<1>5. RunsOK'
  <2>1. Proposal \subseteq Proposal'
    BY <1>3 DEF Proposal
  <2> QED BY <1>1, <1>3, <2>1 DEF EInv, RunsOK
<1>6. OutcomesOK'
  BY <1>1 DEF EInv, OutcomesOK
<1>7. CitedOK'
  BY <1>1, <1>4 DEF EInv, CitedOK
<1>8. RunMatches'
  BY <1>1 DEF EInv, RunMatches, Approved
<1>9. PromotedOK'
  BY <1>1, <1>2 DEF EInv, PromotedOK
<1>10. AuthorityIsSpentOnce' /\ JournalIsFaithful'
  BY <1>1 DEF EInv, AuthorityIsSpentOnce, JournalIsFaithful, Recorded
<1> QED BY <1>2, <1>5, <1>6, <1>7, <1>8, <1>9, <1>10 DEF EInv

-----------------------------------------------------------------------------
(* Steps of the episode itself *)

LEMMA SameMemory ==
  ASSUME EInv, UNCHANGED memoryVars
  PROVE  /\ IInv'
         /\ KnownHashes' = KnownHashes /\ Proposal' = Proposal
         /\ \A i : Lineage(i)' = Lineage(i)
         /\ candidate' = candidate /\ canonical' = canonical
BY StepInv DEF EInv, memoryVars, KnownHashes, Proposal, Lineage

\* Steps that change only how far the run and its proposal are.
LEMMA RunStep ==
  ASSUME EInv, NEW r \in Runs, UNCHANGED memoryVars,
         \/ StartRun(r) \/ FinishWithoutAction(r) \/ EnqueueProposal(r)
         \/ \E C \in SUBSET KnownHashes : RecordCitations(r, C) \/ RecordProposal(r, C)
         \/ \E human \in BOOLEAN : ApproveProposal(r, human)
  PROVE  EInv'
<1>1. /\ IInv'
      /\ KnownHashes' = KnownHashes /\ Proposal' = Proposal
      /\ \A i : Lineage(i)' = Lineage(i)
      /\ candidate' = candidate /\ canonical' = canonical
  BY SameMemory
<1>2. issued' = issued /\ evidence' = evidence /\ journal' = journal
  BY DEF StartRun, FinishWithoutAction, EnqueueProposal, RecordCitations,
         RecordProposal, ApproveProposal
<1>3. OutcomesOK' /\ AuthorityIsSpentOnce' /\ JournalIsFaithful'
  <2>1. OutcomesOK'
    BY <1>2 DEF EInv, OutcomesOK
  <2>2. AuthorityIsSpentOnce'
    BY <1>2 DEF EInv, AuthorityIsSpentOnce, Recorded
  <2>3. JournalIsFaithful'
    BY <1>2 DEF EInv, JournalIsFaithful
  <2> QED BY <2>1, <2>2, <2>3
<1>4. PromotedOK'
  BY <1>1, <1>2 DEF EInv, PromotedOK
<1>5. RunsOK /\ CitedOK /\ RunMatches
  BY DEF EInv
<1>6. CASE StartRun(r)
  <2>1. /\ run[r] = "absent" /\ run' = [run EXCEPT ![r] = "started"]
        /\ cited' = cited /\ proposal' = proposal
    BY <1>6 DEF StartRun
  <2>2. RunsOK'
    BY <1>1, <1>5, <2>1 DEF RunsOK, RunStatus
  <2>3. CitedOK'
    BY <1>1, <1>5, <2>1 DEF CitedOK
  <2>4. RunMatches'
    BY <1>2, <1>5, <2>1 DEF RunsOK, RunMatches, Approved
  <2> QED BY <1>1, <1>3, <1>4, <2>2, <2>3, <2>4 DEF EInv
<1>7. CASE FinishWithoutAction(r)
  <2>1. /\ run[r] = "started" /\ run' = [run EXCEPT ![r] = "failed"]
        /\ cited' = cited /\ proposal' = proposal
    BY <1>7 DEF FinishWithoutAction
  <2>2. RunsOK'
    BY <1>1, <1>5, <2>1 DEF RunsOK, RunStatus
  <2>3. CitedOK'
    BY <1>1, <1>5, <2>1 DEF CitedOK
  <2>4. RunMatches'
    BY <1>2, <1>5, <2>1 DEF RunsOK, RunMatches, Approved
  <2> QED BY <1>1, <1>3, <1>4, <2>2, <2>3, <2>4 DEF EInv
<1>8. CASE EnqueueProposal(r)
  <2>1. /\ proposal[r].status = "approved" /\ run[r] = "proposed"
        /\ proposal' = [proposal EXCEPT ![r].status = "enqueued"]
        /\ run' = [run EXCEPT ![r] = "enqueued"]
        /\ cited' = cited
    BY <1>8 DEF EnqueueProposal
  <2>2. /\ proposal' \in [Runs -> Proposal]
        /\ proposal'[r].status = "enqueued" /\ proposal'[r].human = proposal[r].human
        /\ proposal'[r].citations = proposal[r].citations
        /\ \A q \in Runs : q # r => proposal'[q] = proposal[q]
    BY <1>5, <2>1 DEF RunsOK, Proposal
  <2>3. RunsOK'
    BY <1>1, <1>5, <2>1, <2>2 DEF RunsOK, RunStatus
  <2>4. CitedOK'
    BY <1>1, <1>5, <2>1, <2>2 DEF CitedOK
  <2>5. evidence[r] = NoOutcome
    BY <1>5, <2>1 DEF RunMatches, RunsOK, OutcomesOK, EInv, Outcome, Status
  <2>6. RunMatches'
    BY <1>2, <1>5, <2>1, <2>2, <2>5 DEF RunsOK, RunMatches, Approved
  <2> QED BY <1>1, <1>3, <1>4, <2>3, <2>4, <2>6 DEF EInv
<1>9. ASSUME NEW C \in SUBSET KnownHashes, RecordCitations(r, C) PROVE EInv'
  <2>1. /\ C \subseteq {m.event_hash : m \in Lineage(IncidentOf[r])}
        /\ run[r] = "started" /\ cited' = [cited EXCEPT ![r] = @ \cup C]
        /\ run' = run /\ proposal' = proposal
    BY <1>9 DEF RecordCitations
  <2>2. RunsOK'
    BY <1>1, <1>5, <2>1 DEF RunsOK
  <2>3. CitedOK'
    BY <1>1, <1>5, <2>1 DEF RunsOK, CitedOK
  <2>4. RunMatches'
    BY <1>2, <1>5, <2>1 DEF RunMatches, Approved
  <2> QED BY <1>1, <1>3, <1>4, <2>2, <2>3, <2>4 DEF EInv
<1>10. ASSUME NEW C \in SUBSET KnownHashes, RecordProposal(r, C) PROVE EInv'
  <2>1. /\ run[r] = "started" /\ C \subseteq cited[r]
        /\ proposal' = [proposal EXCEPT ![r] = [status |-> "proposed",
                                                citations |-> C, human |-> FALSE]]
        /\ run' = [run EXCEPT ![r] = "proposed"]
        /\ cited' = cited
    BY <1>10 DEF RecordProposal
  <2>2. RunsOK'
    BY <1>1, <1>5, <2>1 DEF RunsOK, RunStatus, Proposal
  <2>3. CitedOK'
    BY <1>1, <1>5, <2>1 DEF RunsOK, CitedOK
  <2>4. RunMatches'
    BY <1>2, <1>5, <2>1 DEF RunsOK, RunMatches, Approved
  <2> QED BY <1>1, <1>3, <1>4, <2>2, <2>3, <2>4 DEF EInv
<1>11. ASSUME NEW human \in BOOLEAN, ApproveProposal(r, human) PROVE EInv'
  <2>1. /\ proposal[r].status = "proposed"
        /\ r \in Destructive => human
        /\ proposal' = [proposal EXCEPT ![r].status = "approved", ![r].human = human]
        /\ run' = run /\ cited' = cited
    BY <1>11 DEF ApproveProposal
  <2>2. /\ proposal' \in [Runs -> Proposal]
        /\ proposal'[r].status = "approved" /\ proposal'[r].human = human
        /\ proposal'[r].citations = proposal[r].citations
        /\ \A q \in Runs : q # r => proposal'[q] = proposal[q]
    BY <1>5, <2>1 DEF RunsOK, Proposal
  <2>3. RunsOK'
    BY <1>1, <1>5, <2>1, <2>2 DEF RunsOK
  <2>4. CitedOK'
    BY <1>1, <1>5, <2>1, <2>2 DEF CitedOK
  <2>5. RunMatches'
    BY <1>2, <1>5, <2>1, <2>2 DEF RunMatches, Approved
  <2> QED BY <1>1, <1>3, <1>4, <2>3, <2>4, <2>5 DEF EInv
<1> QED BY <1>6, <1>7, <1>8, <1>9, <1>10, <1>11

LEMMA IssueStep ==
  ASSUME EInv, NEW h \in Handles, NEW r \in Runs, NEW x \in Receipts,
         IssueHandle(h, r, x)
  PROVE  EInv'
<1>1. /\ UNCHANGED memoryVars
      /\ run' = run /\ cited' = cited /\ proposal' = proposal
      /\ evidence' = evidence /\ journal' = journal
      /\ issued' = [issued EXCEPT ![h] = [run |-> r, receipt |-> x,
                                          issued_at |-> clock,
                                          expires_at |-> clock + HandleSeconds]]
  BY DEF IssueHandle
<1>2. /\ IInv'
      /\ KnownHashes' = KnownHashes /\ Proposal' = Proposal
      /\ \A i : Lineage(i)' = Lineage(i)
      /\ candidate' = candidate /\ canonical' = canonical
  BY <1>1, SameMemory
<1>3. clock \in Nat /\ clock + HandleSeconds \in Nat
  BY MemoryAssumption, EpisodeAssumption DEF EInv, IInv, MemoryTypeOK
<1>4. OutcomesOK'
  BY <1>1, <1>3 DEF EInv, OutcomesOK, Claims
<1>5. RunsOK' /\ CitedOK' /\ RunMatches' /\ PromotedOK'
  BY <1>1, <1>2 DEF EInv, RunsOK, CitedOK, RunMatches, PromotedOK, Approved
<1>6. AuthorityIsSpentOnce' /\ JournalIsFaithful'
  BY <1>1 DEF EInv, AuthorityIsSpentOnce, JournalIsFaithful, Recorded
<1> QED BY <1>2, <1>4, <1>5, <1>6 DEF EInv

LEMMA ReportTypes ==
  ASSUME EInv, NEW o \in ReportedOutcomes
  PROVE  /\ o \in Outcome /\ Identity(o) \in Named
         /\ o.status = "succeeded" => o.receipt \in Receipts
<1>1. clock \in Nat /\ \A t \in 0..clock : t \in Nat
  BY MemoryAssumption DEF EInv, IInv, MemoryTypeOK
<1>2. o \in Outcome /\ (o.status = "succeeded" => o.receipt \in Receipts)
  <2>1. ASSUME NEW x \in Receipts, NEW t \in 0..clock, o = Succeeded(x, t)
        PROVE  o \in Outcome /\ (o.status = "succeeded" => o.receipt \in Receipts)
    BY <1>1, <2>1 DEF Succeeded, Outcome, Status
  <2>2. ASSUME NEW x \in Receipts, o = Unverified("failed", x, clock)
        PROVE  o \in Outcome /\ (o.status = "succeeded" => o.receipt \in Receipts)
    BY <1>1, <2>2 DEF Unverified, Outcome, Status
  <2>3. CASE o = Unverified("ambiguous", NoReceipt, clock)
    BY <1>1, <2>3 DEF Unverified, Outcome, Status
  <2> QED BY <2>1, <2>2, <2>3 DEF ReportedOutcomes
<1> QED BY <1>2 DEF Identity, Named, Outcome

\* A new journal entry comes last and changes no other.
LEMMA NewEntry ==
  ASSUME OutcomesOK, NEW r \in Runs, NEW decision \in {"accepted", "exact_replay", "conflict"},
         NEW incoming \in Named, NEW durable \in Named,
         Len(journal[r]) < MaxJournal, Journalled(r, decision, incoming, durable)
  PROVE  /\ journal' \in [Runs -> Seq(Entry)]
         /\ \A q \in Runs : Len(journal'[q]) <= MaxJournal
         /\ Len(journal'[r]) = Len(journal[r]) + 1
         /\ \A n \in 1..Len(journal[r]) : journal'[r][n] = journal[r][n]
         /\ journal'[r][Len(journal[r]) + 1] =
              [decision |-> decision, incoming |-> incoming, durable |-> durable]
         /\ \A q \in Runs : q # r => journal'[q] = journal[q]
<1> DEFINE e == [decision |-> decision, incoming |-> incoming, durable |-> durable]
<1>1. e \in Entry
  BY DEF Entry
<1> HIDE DEF e
<1>2. journal \in [Runs -> Seq(Entry)] /\ \A q \in Runs : Len(journal[q]) <= MaxJournal
  BY DEF OutcomesOK
<1>3. journal' = [journal EXCEPT ![r] = Append(journal[r], e)]
  BY DEF Journalled, JournalEntry, e
<1>4. /\ journal'[r] = Append(journal[r], e)
      /\ \A q \in Runs : q # r => journal'[q] = journal[q]
  BY <1>2, <1>3
<1>5. journal[r] \in Seq(Entry) /\ Len(journal[r]) \in Nat
  BY <1>2
<1>6. /\ Append(journal[r], e) \in Seq(Entry)
      /\ Len(Append(journal[r], e)) = Len(journal[r]) + 1
      /\ \A n \in 1..Len(journal[r]) : Append(journal[r], e)[n] = journal[r][n]
      /\ Append(journal[r], e)[Len(journal[r]) + 1] = e
  BY <1>1, <1>5
<1>7. Len(journal[r]) + 1 <= MaxJournal
  BY <1>5, EpisodeAssumption
<1>8. journal' \in [Runs -> Seq(Entry)]
  BY <1>2, <1>3, <1>6
<1> QED BY <1>2, <1>4, <1>6, <1>7, <1>8 DEF e

\* The memory side of a first outcome.
LEMMA FirstOutcomeMemory ==
  ASSUME EInv, NEW r \in Runs, NEW o \in ReportedOutcomes,
         NEW h \in Handles \cup {NoHandle}, FirstOutcome(r, o, h),
         UNCHANGED <<clock, attempts, told, granted>>
  PROVE  /\ IInv'
         /\ canonical \subseteq canonical'
         /\ \A m \in canonical' \ canonical :
              m.source = OutcomeCandidate(r, o.receipt) /\ m.incident = IncidentOf[r]
         /\ \A c \in Candidates :
              o.status # "succeeded" \/ c # OutcomeCandidate(r, o.receipt) =>
                candidate'[c] = candidate[c]
         /\ o.status = "succeeded" =>
              /\ candidate'[OutcomeCandidate(r, o.receipt)] # NoCandidate
              /\ candidate'[OutcomeCandidate(r, o.receipt)].decision = "ACCEPTED"
<1> DEFINE c == OutcomeCandidate(r, o.receipt)
           i == IncidentOf[r]
           head == incident[i].current_head
           rec == [incident |-> i, parent_hash |-> head, source_kind |-> "tool",
                   action_class |-> "observe", human_approved |-> TRUE,
                   oversized |-> FALSE, created_at |-> o.time,
                   expires_at |-> Never, decision |-> "ACCEPTED"]
<1>1. CASE o.status # "succeeded"
  <2>1. UNCHANGED <<incident, candidate, canonical>>
    BY <1>1 DEF FirstOutcome, PromoteOutcome
  <2>2. UNCHANGED memoryVars
    BY <2>1 DEF memoryVars
  <2> QED BY <1>1, <2>1, <2>2, SameMemory
<1>2. CASE o.status = "succeeded"
  <2>1. /\ candidate' = [candidate EXCEPT ![c] = rec]
        /\ AppendEvent(i, c, head, o.time)
        /\ evidence[r] = NoOutcome
    BY <1>2 DEF FirstOutcome, PromoteOutcome
  <2>2. o.receipt \in Receipts /\ o.time \in Nat
    BY <1>2, ReportTypes DEF Outcome
  <2>3. c \in Candidates /\ c \notin Drafted /\ i \in Incidents
    BY <2>2, EpisodeAssumption DEF OutcomeCandidate
  <2>4. candidate[c] = NoCandidate
    BY <2>1, <2>2 DEF EInv, PromotedOK
  <2>5. candidate \in [Candidates -> CandidateRecord \cup {NoCandidate}] /\ head \in KnownHashes
    BY <2>3 DEF EInv, IInv, MemoryTypeOK
  <2>6. \A m \in canonical : m.source # c
    BY <2>4 DEF EInv, IInv, EventsOK, NoCandidate
  <2> DEFINE e == Event(i, c, head, o.time)
  <2>7. /\ canonical' = canonical \cup {e}
        /\ incident' \in [Incidents -> [current_head : KnownHashes', current_sequence : Nat]]
    BY <2>1, <2>3, AppendStep DEF EInv, IInv
  <2>8. /\ e.incident = i /\ e.source = c
        /\ e.sequence_no = incident[i].current_sequence + 1
    BY DEF Event
  <2>9. e.sequence_no \in Nat \ {0}
    BY <2>3, <2>8 DEF EInv, IInv, MemoryTypeOK
  <2>10. KnownHashes \subseteq KnownHashes'
    BY <2>7 DEF KnownHashes
  <2>11. rec \in CandidateRecord /\ rec # NoCandidate /\ rec.decision = "ACCEPTED"
    BY <2>2, <2>3, <2>5 DEF CandidateRecord, NoCandidate, Sources, ActionClasses, DecisionCodes
  <2> HIDE DEF e, rec, c, i, head
  <2>12. /\ candidate'[c] = rec
         /\ \A d \in Candidates : d # c => candidate'[d] = candidate[d]
    BY <2>1, <2>3, <2>5
  <2>13. MemoryTypeOK'
    <3>1. CandidateRecord \subseteq CandidateRecord'
      BY <2>10 DEF CandidateRecord
    <3>2. candidate' \in [Candidates -> CandidateRecord' \cup {NoCandidate}]
      BY <2>1, <2>3, <2>5, <2>11, <3>1
    <3>3. \A m \in canonical' : /\ m.incident \in Incidents /\ m.source \in Candidates
                                /\ m.sequence_no \in Nat \ {0}
      BY <2>3, <2>7, <2>8, <2>9 DEF EInv, IInv, MemoryTypeOK
    <3> QED BY <2>7, <3>2, <3>3 DEF EInv, IInv, MemoryTypeOK
  <2>14. LineageIsAChain'
    BY <2>1, <2>3, AppendKeepsChain DEF EInv, IInv
  <2>15. EventsOK'
    <3>1. \A m \in canonical' : candidate'[m.source].decision = "ACCEPTED"
      BY <2>6, <2>7, <2>8, <2>11, <2>12 DEF EInv, IInv, EventsOK, MemoryTypeOK
    <3>2. \A m1, m2 \in canonical' : m1.source = m2.source => m1 = m2
      BY <2>6, <2>7, <2>8 DEF EInv, IInv, EventsOK
    <3>3. \A d \in Candidates : candidate'[d].decision = "ACCEPTED" =>
            \E m \in canonical' : m.source = d
      BY <2>7, <2>8, <2>12 DEF EInv, IInv, EventsOK
    <3> QED BY <3>1, <3>2, <3>3 DEF EventsOK
  <2>16. ToldOK'
    <3> SUFFICES ASSUME NEW t \in told
                 PROVE  /\ t.candidate \in Candidates
                        /\ Decided(t.candidate)'
                        /\ t \in Answers(t.candidate)'
      BY DEF ToldOK
    <3>1. /\ t.candidate \in Candidates /\ Decided(t.candidate)
          /\ t \in Answers(t.candidate)
      BY DEF EInv, IInv, ToldOK
    <3>2. t.candidate # c
      BY <2>4, <3>1 DEF Decided
    <3>3. /\ candidate'[t.candidate] = candidate[t.candidate]
          /\ {m \in canonical' : m.source = t.candidate}
             = {m \in canonical : m.source = t.candidate}
      BY <2>7, <2>8, <2>12, <3>1, <3>2
    <3>4. Answers(t.candidate)' = Answers(t.candidate)
      BY <3>3, AnswersStand
    <3> QED BY <3>1, <3>3, <3>4 DEF Decided
  <2>17. ClaimsOK'
    BY UntouchedClaims DEF EInv, IInv
  <2>18. IInv'
    BY <2>13, <2>14, <2>15, <2>16, <2>17 DEF IInv
  <2> QED BY <1>2, <2>7, <2>8, <2>11, <2>12, <2>18 DEF c, i
<1> QED BY <1>1, <1>2

\* The first outcome: evidence, handle, run, memory and journal move together.
LEMMA FirstOutcomeStep ==
  ASSUME EInv, NEW r \in Runs, NEW o \in ReportedOutcomes,
         NEW h \in Handles \cup {NoHandle}, RecordOutcomeAndPromote(r, o, h),
         FirstOutcome(r, o, h)
  PROVE  EInv'
<1> DEFINE x == OutcomeCandidate(r, o.receipt)
<1>1. /\ Len(journal[r]) < MaxJournal /\ Approved(r)
      /\ UNCHANGED <<clock, attempts, told, granted>>
      /\ cited' = cited /\ proposal' = proposal /\ issued' = issued
  BY DEF RecordOutcomeAndPromote
<1>2. /\ evidence[r] = NoOutcome /\ Unspent(o, h)
      /\ evidence' = [evidence EXCEPT ![r] = [outcome |-> o, handle |-> h]]
      /\ run' = [run EXCEPT ![r] = o.status]
      /\ Journalled(r, "accepted", Identity(o), Identity(o))
  BY DEF FirstOutcome
<1>3. /\ IInv'
      /\ canonical \subseteq canonical'
      /\ \A m \in canonical' \ canonical :
           m.source = OutcomeCandidate(r, o.receipt) /\ m.incident = IncidentOf[r]
      /\ \A c \in Candidates :
           o.status # "succeeded" \/ c # OutcomeCandidate(r, o.receipt) =>
             candidate'[c] = candidate[c]
      /\ o.status = "succeeded" =>
           /\ candidate'[OutcomeCandidate(r, o.receipt)] # NoCandidate
           /\ candidate'[OutcomeCandidate(r, o.receipt)].decision = "ACCEPTED"
  BY <1>1, FirstOutcomeMemory DEF FirstOutcome
<1>4. /\ o \in Outcome /\ Identity(o) \in Named
      /\ o.status = "succeeded" => o.receipt \in Receipts
  BY ReportTypes
<1>5. /\ RunsOK /\ OutcomesOK /\ CitedOK /\ RunMatches /\ PromotedOK
      /\ AuthorityIsSpentOnce /\ JournalIsFaithful
  BY DEF EInv
<1>6. /\ evidence'[r] = [outcome |-> o, handle |-> h]
      /\ evidence'[r] # NoOutcome
      /\ evidence'[r].outcome = o /\ evidence'[r].handle = h
      /\ \A q \in Runs : q # r => evidence'[q] = evidence[q]
  BY <1>2, <1>5 DEF OutcomesOK, NoOutcome
<1>7. /\ run'[r] = o.status /\ o.status \in Status
      /\ \A q \in Runs : q # r => run'[q] = run[q]
  BY <1>2, <1>4, <1>5 DEF RunsOK, Outcome
<1>8. /\ KnownHashes \subseteq KnownHashes'
      /\ \A i : {m.event_hash : m \in Lineage(i)} \subseteq {m.event_hash : m \in Lineage(i)}'
  BY <1>3 DEF KnownHashes, Lineage
<1>9. RunsOK'
  <2>1. Proposal \subseteq Proposal'
    BY <1>8 DEF Proposal
  <2>2. run' \in [Runs -> RunStatus]
    BY <1>2, <1>5, <1>7 DEF RunsOK, RunStatus, Status
  <2> QED BY <1>1, <1>5, <1>8, <2>1, <2>2 DEF RunsOK
<1>10. OutcomesOK'
  <2>1. evidence' \in [Runs -> [outcome : Outcome, handle : Handles \cup {NoHandle}]
                                 \cup {NoOutcome}]
    BY <1>2, <1>4, <1>5 DEF OutcomesOK
  <2>2. /\ journal' \in [Runs -> Seq(Entry)]
        /\ \A q \in Runs : Len(journal'[q]) <= MaxJournal
    BY <1>1, <1>2, <1>4, <1>5, NewEntry
  <2> QED BY <1>1, <1>5, <2>1, <2>2 DEF OutcomesOK
<1>11. CitedOK'
  BY <1>1, <1>5, <1>8 DEF CitedOK
<1>12. RunMatches'
  BY <1>1, <1>2, <1>5, <1>6, <1>7 DEF RunMatches, Approved, Status
<1>13. PromotedOK'
  <2> SUFFICES ASSUME NEW q \in Runs, NEW y \in Receipts
               PROVE  LET c == OutcomeCandidate(q, y) IN
                      /\ candidate'[c] = NoCandidate \/ candidate'[c].decision = "ACCEPTED"
                      /\ candidate'[c] # NoCandidate <=>
                           /\ evidence'[q] # NoOutcome
                           /\ evidence'[q].outcome.status = "succeeded"
                           /\ evidence'[q].outcome.receipt = y
                      /\ \A m \in canonical' : m.source = c => m.incident = IncidentOf[q]
    BY DEF PromotedOK
  <2> DEFINE c == OutcomeCandidate(q, y)
  <2>1. c \in Candidates /\ (c = x <=> q = r /\ y = o.receipt)
    BY EpisodeAssumption DEF OutcomeCandidate
  <2>2. /\ candidate[c] = NoCandidate \/ candidate[c].decision = "ACCEPTED"
        /\ candidate[c] # NoCandidate <=>
             /\ evidence[q] # NoOutcome
             /\ evidence[q].outcome.status = "succeeded"
             /\ evidence[q].outcome.receipt = y
        /\ \A m \in canonical : m.source = c => m.incident = IncidentOf[q]
    BY <1>5 DEF PromotedOK
  <2>3. \A m \in canonical' : m.source = c => m.incident = IncidentOf[q]
    BY <1>3, <2>1, <2>2
  <2> HIDE DEF c, x
  <2>4. CASE q # r
    BY <1>3, <1>6, <2>1, <2>2, <2>3, <2>4 DEF c, x
  <2>5. CASE q = r /\ o.status = "succeeded" /\ y = o.receipt
    BY <1>3, <1>6, <2>1, <2>3, <2>5 DEF c, x
  <2>6. CASE q = r /\ ~(o.status = "succeeded" /\ y = o.receipt)
    BY <1>2, <1>3, <1>6, <2>1, <2>2, <2>3, <2>6 DEF c, x
  <2> QED BY <2>4, <2>5, <2>6
<1>14. AuthorityIsSpentOnce'
  BY <1>2, <1>5, <1>6 DEF AuthorityIsSpentOnce, Unspent, Recorded
<1>15. JournalIsFaithful'
  <2>1. journal[r] = <<>> /\ Len(journal[r]) = 0
    BY <1>2, <1>5 DEF JournalIsFaithful
  <2>2. /\ journal' \in [Runs -> Seq(Entry)]
        /\ Len(journal'[r]) = 1
        /\ journal'[r][1] = [decision |-> "accepted", incoming |-> Identity(o),
                             durable |-> Identity(o)]
        /\ \A q \in Runs : q # r => journal'[q] = journal[q]
    <3>1. /\ journal' \in [Runs -> Seq(Entry)]
          /\ Len(journal'[r]) = Len(journal[r]) + 1
          /\ journal'[r][Len(journal[r]) + 1] =
               [decision |-> "accepted", incoming |-> Identity(o),
                durable |-> Identity(o)]
          /\ \A q \in Runs : q # r => journal'[q] = journal[q]
      BY <1>1, <1>2, <1>4, <1>5, NewEntry
    <3>2. Len(journal[r]) + 1 = 1
      BY <2>1
    <3> QED BY <3>1, <3>2
  <2>3. journal'[r] # <<>>
    <3>1. Len(<<>>) # 1
      OBVIOUS
    <3>2. Len(journal'[r]) = 1
      BY <2>2
    <3> QED BY <3>1, <3>2, Zenon
  <2>4. \A n \in 1..Len(journal'[r]) :
          /\ journal'[r][n].durable = Identity(evidence'[r].outcome)
          /\ journal'[r][n].decision = "accepted" <=> n = 1
          /\ journal'[r][n].decision = "conflict" <=>
               journal'[r][n].incoming # journal'[r][n].durable
    BY <1>6, <2>2
  <2> SUFFICES ASSUME NEW q \in Runs
               PROVE  JournalIsFaithful!(q)'
    BY DEF JournalIsFaithful
  <2>5. CASE q = r
    BY <1>6, <2>3, <2>4, <2>5
  <2>6. CASE q # r
    BY <1>5, <1>6, <2>2, <2>6 DEF JournalIsFaithful
  <2> QED BY <2>5, <2>6
<1> QED BY <1>3, <1>9, <1>10, <1>11, <1>12, <1>13, <1>14, <1>15 DEF EInv

\* A later report changes the journal only.
LEMMA LaterReportStep ==
  ASSUME EInv, NEW r \in Runs, NEW o \in ReportedOutcomes,
         NEW h \in Handles \cup {NoHandle}, RecordOutcomeAndPromote(r, o, h),
         ExactReplay(r, o, h) \/ Conflict(r, o, h)
  PROVE  EInv'
<1>1. /\ Len(journal[r]) < MaxJournal
      /\ UNCHANGED memoryVars
      /\ run' = run /\ cited' = cited /\ proposal' = proposal
      /\ issued' = issued /\ evidence' = evidence
      /\ evidence[r] # NoOutcome
  BY DEF RecordOutcomeAndPromote, ExactReplay, Conflict, memoryVars
<1>2. PICK d \in {"exact_replay", "conflict"} :
        /\ Journalled(r, d, Identity(o), Identity(evidence[r].outcome))
        /\ d = "conflict" <=> Identity(o) # Identity(evidence[r].outcome)
  BY DEF ExactReplay, Conflict
<1>3. /\ IInv'
      /\ KnownHashes' = KnownHashes /\ Proposal' = Proposal
      /\ \A i : Lineage(i)' = Lineage(i)
      /\ candidate' = candidate /\ canonical' = canonical
  BY <1>1, SameMemory
<1>4. Identity(o) \in Named /\ Identity(evidence[r].outcome) \in Named
  <2>1. evidence[r].outcome \in Outcome
    BY <1>1 DEF EInv, OutcomesOK
  <2> QED BY <2>1, ReportTypes DEF Identity, Named, Outcome
<1>5. /\ journal' \in [Runs -> Seq(Entry)]
      /\ \A q \in Runs : Len(journal'[q]) <= MaxJournal
      /\ Len(journal'[r]) = Len(journal[r]) + 1
      /\ \A n \in 1..Len(journal[r]) : journal'[r][n] = journal[r][n]
      /\ journal'[r][Len(journal[r]) + 1] =
           [decision |-> d, incoming |-> Identity(o),
            durable |-> Identity(evidence[r].outcome)]
      /\ \A q \in Runs : q # r => journal'[q] = journal[q]
  BY <1>1, <1>2, <1>4, NewEntry DEF EInv
<1>6. OutcomesOK'
  BY <1>1, <1>5 DEF EInv, OutcomesOK
<1>7. RunsOK' /\ CitedOK' /\ RunMatches' /\ PromotedOK'
  BY <1>1, <1>3 DEF EInv, RunsOK, CitedOK, RunMatches, PromotedOK, Approved
<1>8. AuthorityIsSpentOnce'
  BY <1>1 DEF EInv, AuthorityIsSpentOnce, Recorded
<1>9. JournalIsFaithful'
  <2>1. /\ journal[r] # <<>>
        /\ \A n \in 1..Len(journal[r]) :
             /\ journal[r][n].durable = Identity(evidence[r].outcome)
             /\ journal[r][n].decision = "accepted" <=> n = 1
             /\ journal[r][n].decision = "conflict" <=>
                  journal[r][n].incoming # journal[r][n].durable
    BY <1>1 DEF EInv, JournalIsFaithful
  <2>2. Len(journal[r]) \in Nat \ {0}
    BY <2>1 DEF EInv, OutcomesOK
  <2>3. journal'[r] # <<>>
    BY <1>5, <2>2
  <2>4. ASSUME NEW n \in 1..Len(journal'[r])
        PROVE  /\ journal'[r][n].durable = Identity(evidence[r].outcome)
               /\ journal'[r][n].decision = "accepted" <=> n = 1
               /\ journal'[r][n].decision = "conflict" <=>
                    journal'[r][n].incoming # journal'[r][n].durable
    <3>1. CASE n \in 1..Len(journal[r])
      BY <1>5, <2>1, <3>1
    <3>2. CASE n = Len(journal[r]) + 1
      BY <1>2, <1>5, <2>2, <3>2
    <3> QED BY <1>5, <2>2, <3>1, <3>2
  <2> SUFFICES ASSUME NEW q \in Runs
               PROVE  JournalIsFaithful!(q)'
    BY DEF JournalIsFaithful
  <2>5. CASE q = r
    BY <1>1, <2>3, <2>4, <2>5
  <2>6. CASE q # r
    BY <1>1, <1>5, <2>6 DEF EInv, JournalIsFaithful
  <2> QED BY <2>5, <2>6
<1> QED BY <1>3, <1>6, <1>7, <1>8, <1>9 DEF EInv

LEMMA EpisodeStepInv == EInv /\ [EpisodeNext]_allVars => EInv'
<1> SUFFICES ASSUME EInv, [EpisodeNext]_allVars PROVE EInv'
  OBVIOUS
<1>1. CASE MemoryNext /\ UNCHANGED episodeVars
  BY <1>1, MemoryStepInv
<1>2. CASE UNCHANGED allVars
  <2>1. UNCHANGED memoryVars /\ UNCHANGED episodeVars
    BY <1>2 DEF allVars
  <2> QED BY <2>1, MemoryStepInv
<1>3. ASSUME NEW r \in Runs,
             \/ StartRun(r) \/ FinishWithoutAction(r) \/ EnqueueProposal(r)
             \/ \E C \in SUBSET KnownHashes : RecordCitations(r, C) \/ RecordProposal(r, C)
             \/ \E human \in BOOLEAN : ApproveProposal(r, human)
      PROVE  EInv'
  <2>1. UNCHANGED memoryVars
    BY <1>3 DEF StartRun, FinishWithoutAction, EnqueueProposal, RecordCitations,
           RecordProposal, ApproveProposal
  <2> QED BY <1>3, <2>1, RunStep
<1>4. ASSUME NEW r \in Runs, NEW h \in Handles, NEW x \in Receipts, IssueHandle(h, r, x)
      PROVE  EInv'
  BY <1>4, IssueStep
<1>5. ASSUME NEW r \in Runs, NEW o \in ReportedOutcomes,
             NEW h \in Handles \cup {NoHandle}, RecordOutcomeAndPromote(r, o, h)
      PROVE  EInv'
  BY <1>5, FirstOutcomeStep, LaterReportStep DEF RecordOutcomeAndPromote
<1> QED BY <1>1, <1>2, <1>3, <1>4, <1>5 DEF EpisodeNext

LEMMA EpisodeInvariance == EpisodeSpec => []EInv
BY EpisodeInitInv, EpisodeStepInv, PTL DEF EpisodeSpec

-----------------------------------------------------------------------------
(* Theorems *)

\* The lineage stays one chain though promote_candidate and the outcome
\* promotions of the episode store append to it with code of their own.
THEOREM SharedLineage == EpisodeSpec => []LineageIsAChain
BY EpisodeInvariance, PTL DEF EInv, IInv

\* The promises of promote_candidate and claim_action hold in the same store:
\* outcome promotions accept a candidate in one go, and its event is its own.
THEOREM SharedPromotion == EpisodeSpec => []AcceptedExactlyOnce
BY OnceInLineage, EpisodeInvariance, PTL DEF EInv

\* What promote_candidate told of a candidate stays its answer, whatever
\* outcomes are promoted in between.
THEOREM SharedReplays == EpisodeSpec => []ReplayTellsTheSame
BY OneAnswer, EpisodeInvariance, PTL DEF EInv

\* Heads that outcome promotions move do not give a claim a second owner.
THEOREM SharedClaims == EpisodeSpec => []OneOwner
BY OwnedOnce, EpisodeInvariance, PTL DEF EInv

\* record_outcome_and_promote never lets a receipt or a handle authorise two
\* episodes.
THEOREM AuthoritySpentOnce == EpisodeSpec => []AuthorityIsSpentOnce
BY EpisodeInvariance, PTL DEF EInv

\* No verdict without an approved proposal, nor a destructive one without a
\* human's approval.
THEOREM VerdictApproved == EpisodeSpec => []VerdictNeedsApproval
<1>1. EInv => VerdictNeedsApproval
  <2> SUFFICES ASSUME EInv, NEW r \in Runs PROVE VerdictNeedsApproval!(r)
    BY DEF VerdictNeedsApproval
  <2>1. /\ evidence[r] # NoOutcome => Approved(r)
        /\ Approved(r) /\ r \in Destructive => proposal[r].human
        /\ proposal[r].status = "absent" => run[r] \in {"absent", "started", "failed"}
        /\ proposal[r].status # "absent" /\ evidence[r] = NoOutcome =>
             run[r] \in {"proposed", "enqueued"}
    BY DEF EInv, RunMatches
  <2> QED BY <2>1
<1> QED BY <1>1, EpisodeInvariance, PTL

\* Evidence, run status and canonical memory of an episode commit together.
THEOREM PromotedTogether == EpisodeSpec => []SuccessIsPromoted
<1>1. EInv => SuccessIsPromoted
  <2> SUFFICES ASSUME EInv, NEW r \in Runs
               PROVE  SuccessIsPromoted!(r)
    BY DEF SuccessIsPromoted
  <2>1. evidence[r] # NoOutcome => run[r] = evidence[r].outcome.status
    BY DEF EInv, RunMatches
  <2>2. run[r] = "succeeded" => evidence[r] # NoOutcome
    BY DEF EInv, RunMatches
  <2> SUFFICES ASSUME NEW x \in Receipts
               PROVE  (\E m \in Lineage(IncidentOf[r]) : m.source = OutcomeCandidate(r, x))
                        <=> (run[r] = "succeeded" /\ evidence[r].outcome.receipt = x)
    BY <2>1
  <2> DEFINE c == OutcomeCandidate(r, x)
  <2>3. c \in Candidates
    BY EpisodeAssumption DEF OutcomeCandidate
  <2>4. /\ candidate[c] = NoCandidate \/ candidate[c].decision = "ACCEPTED"
        /\ candidate[c] # NoCandidate <=>
             /\ evidence[r] # NoOutcome
             /\ evidence[r].outcome.status = "succeeded"
             /\ evidence[r].outcome.receipt = x
        /\ \A m \in canonical : m.source = c => m.incident = IncidentOf[r]
    BY DEF EInv, PromotedOK
  <2> HIDE DEF c
  <2>5. (\E m \in canonical : m.source = c) <=> candidate[c] # NoCandidate
    BY <2>3, <2>4 DEF EInv, IInv, EventsOK, NoCandidate
  <2>6. (\E m \in Lineage(IncidentOf[r]) : m.source = c) <=> candidate[c] # NoCandidate
    BY <2>4, <2>5 DEF Lineage
  <2> QED BY <2>1, <2>2, <2>4, <2>6 DEF c
<1> QED BY <1>1, EpisodeInvariance, PTL

\* The reconciliation journal tells the history of the durable outcome.
THEOREM JournalTellsTheTruth == EpisodeSpec => []JournalIsFaithful
BY EpisodeInvariance, PTL DEF EInv

\* Types, as the runs check them.
THEOREM EpisodeTypes == EpisodeSpec => []EpisodeTypeOK
<1>1. EInv => EpisodeTypeOK
  BY DEF EInv, RunsOK, OutcomesOK, CitedOK, EpisodeTypeOK, Proposal, Claims
<1> QED BY <1>1, EpisodeInvariance, PTL

\* Whoever reports what, when and how often, the first outcome, its handle and
\* the verdict stand, and the journal is only appended to.
THEOREM VerdictIsFinal == EpisodeSpec => OutcomeStands
<1> DEFINE Stands == \A r \in Runs :
      /\ evidence[r] # NoOutcome => evidence'[r] = evidence[r] /\ run'[r] = run[r]
      /\ Len(journal[r]) <= Len(journal'[r])
      /\ \A n \in 1..Len(journal[r]) : journal'[r][n] = journal[r][n]
<1>1. ASSUME EInv, [EpisodeNext]_allVars PROVE Stands
  <2>1. \A r \in Runs : Len(journal[r]) \in Nat
    BY <1>1 DEF EInv, OutcomesOK
  <2>2. CASE run' = run /\ evidence' = evidence /\ journal' = journal
    BY <2>1, <2>2
  <2>3. ASSUME NEW q \in Runs,
               \/ StartRun(q) \/ FinishWithoutAction(q) \/ EnqueueProposal(q)
               \/ \E C \in SUBSET KnownHashes : RecordCitations(q, C) \/ RecordProposal(q, C)
               \/ \E human \in BOOLEAN : ApproveProposal(q, human)
        PROVE  Stands
    <3>1. evidence' = evidence /\ journal' = journal
      BY <2>3 DEF StartRun, FinishWithoutAction, EnqueueProposal, RecordCitations,
             RecordProposal, ApproveProposal
    <3>2. run' = run \/ (run[q] \in {"absent", "started", "proposed"}
                         /\ \A r \in Runs : r # q => run'[r] = run[r])
      BY <1>1, <2>3 DEF StartRun, FinishWithoutAction, EnqueueProposal,
             RecordCitations, RecordProposal, ApproveProposal, EInv, RunsOK
    <3>3. evidence[q] # NoOutcome => run[q] \in Status
      BY <1>1 DEF EInv, RunMatches, OutcomesOK, Outcome
    <3> QED BY <2>1, <3>1, <3>2, <3>3 DEF Status
  <2>4. ASSUME NEW q \in Runs, NEW o \in ReportedOutcomes,
               NEW h \in Handles \cup {NoHandle}, RecordOutcomeAndPromote(q, o, h)
        PROVE  Stands
    <3>1. PICK d \in {"accepted", "exact_replay", "conflict"}, b \in Named :
            Journalled(q, d, Identity(o), b)
      <4>1. evidence[q] # NoOutcome => Identity(evidence[q].outcome) \in Named
        BY <1>1 DEF EInv, OutcomesOK, Identity, Named, Outcome
      <4> QED BY <1>1, <2>4, <4>1, ReportTypes DEF RecordOutcomeAndPromote, FirstOutcome,
                 ExactReplay, Conflict
    <3>2. /\ Len(journal'[q]) = Len(journal[q]) + 1
          /\ \A n \in 1..Len(journal[q]) : journal'[q][n] = journal[q][n]
          /\ \A r \in Runs : r # q => journal'[r] = journal[r]
      BY <1>1, <2>4, <3>1, ReportTypes, NewEntry DEF RecordOutcomeAndPromote, EInv
    <3>3. \A r \in Runs : evidence[r] # NoOutcome =>
            evidence'[r] = evidence[r] /\ run'[r] = run[r]
      BY <1>1, <2>4 DEF RecordOutcomeAndPromote, FirstOutcome, ExactReplay, Conflict,
             EInv, RunsOK, OutcomesOK
    <3> QED BY <2>1, <3>2, <3>3
  <2>5. CASE MemoryNext /\ UNCHANGED episodeVars
    BY <2>2, <2>5 DEF episodeVars
  <2>6. CASE UNCHANGED allVars
    BY <2>2, <2>6 DEF allVars, episodeVars
  <2>7. ASSUME NEW q \in Runs, NEW h \in Handles, NEW x \in Receipts, IssueHandle(h, q, x)
        PROVE  Stands
    BY <2>2, <2>7 DEF IssueHandle
  <2> HIDE DEF Stands
  <2> QED BY <1>1, <2>3, <2>4, <2>5, <2>6, <2>7 DEF EpisodeNext
<1>2. EpisodeSpec => [][Stands]_allVars
  BY <1>1, EpisodeInvariance, PTL DEF EpisodeSpec
<1> QED BY <1>2 DEF OutcomeStands

\* An outcome promotion, too, only appends on top of the head it locked, and
\* rewrites no candidate that was decided.
THEOREM SharedLineageStands == EpisodeSpec => LineageOnlyGrows
<1>1. ASSUME EInv, [EpisodeNext]_allVars PROVE [Grows]_memoryVars
  <2>1. CASE [MemoryNext]_memoryVars
    BY <1>1, <2>1, MemoryGrows DEF EInv
  <2>2. ASSUME NEW r \in Runs, NEW o \in ReportedOutcomes,
               NEW h \in Handles \cup {NoHandle}, RecordOutcomeAndPromote(r, o, h),
               FirstOutcome(r, o, h)
        PROVE  Grows
    <3>1. UNCHANGED <<clock, attempts, told, granted>>
      BY <2>2 DEF RecordOutcomeAndPromote
    <3>2. ASSUME NEW c \in Candidates, candidate[c] # NoCandidate
          PROVE  candidate'[c] = candidate[c]
      <4>1. CASE o.status = "succeeded" /\ c = OutcomeCandidate(r, o.receipt)
        <5>1. o.receipt \in Receipts
          BY <1>1, <2>2, <4>1, ReportTypes
        <5> QED BY <1>1, <2>2, <3>2, <4>1, <5>1 DEF EInv, PromotedOK, FirstOutcome
      <4> QED BY <1>1, <2>2, <3>1, <4>1, FirstOutcomeMemory
    <3>3. CASE o.status # "succeeded"
      BY <2>2, <3>2, <3>3 DEF FirstOutcome, PromoteOutcome, Grows
    <3>4. CASE o.status = "succeeded"
      <4>1. AppendEvent(IncidentOf[r], OutcomeCandidate(r, o.receipt),
                        incident[IncidentOf[r]].current_head, o.time)
        BY <2>2, <3>4 DEF FirstOutcome, PromoteOutcome
      <4>2. IncidentOf[r] \in Incidents
        BY EpisodeAssumption
      <4> QED BY <1>1, <3>2, <4>1, <4>2, AppendGrows DEF EInv, IInv, Grows
    <3> QED BY <3>3, <3>4
  <2>3. ASSUME NEW r \in Runs, NEW o \in ReportedOutcomes,
               NEW h \in Handles \cup {NoHandle}, RecordOutcomeAndPromote(r, o, h)
        PROVE  [Grows]_memoryVars
    <3>1. CASE ExactReplay(r, o, h) \/ Conflict(r, o, h)
      BY <2>3, <3>1 DEF RecordOutcomeAndPromote, ExactReplay, Conflict, memoryVars
    <3> QED BY <2>2, <2>3, <3>1 DEF RecordOutcomeAndPromote
  <2>4. ASSUME NEW r \in Runs,
               \/ StartRun(r) \/ FinishWithoutAction(r) \/ EnqueueProposal(r)
               \/ \E C \in SUBSET KnownHashes : RecordCitations(r, C) \/ RecordProposal(r, C)
               \/ \E human \in BOOLEAN : ApproveProposal(r, human)
               \/ \E h \in Handles, x \in Receipts : IssueHandle(h, r, x)
        PROVE  UNCHANGED memoryVars
    BY <2>4 DEF StartRun, FinishWithoutAction, EnqueueProposal, RecordCitations,
           RecordProposal, ApproveProposal, IssueHandle
  <2>5. CASE UNCHANGED allVars
    BY <2>5 DEF allVars
  <2>6. CASE MemoryNext /\ UNCHANGED episodeVars
    BY <2>1, <2>6
  <2> QED BY <1>1, <2>3, <2>4, <2>5, <2>6 DEF EpisodeNext
<1>2. EpisodeSpec => [][Grows]_memoryVars
  BY <1>1, EpisodeInvariance, PTL DEF EpisodeSpec
<1> QED BY <1>2 DEF LineageOnlyGrows, Grows

\* Once a run has proposed, its citations stay as they are and belong to its
\* incident.
THEOREM CitationsStand == EpisodeSpec => CitationsAreFrozen
<1> DEFINE Frozen == \A r \in Runs : proposal[r].status # "absent" =>
      /\ cited'[r] = cited[r]
      /\ proposal'[r].citations = proposal[r].citations
      /\ cited[r] \subseteq {m.event_hash : m \in Lineage(IncidentOf[r])}
<1>1. ASSUME EInv, [EpisodeNext]_allVars PROVE Frozen
  <2>1. \A r \in Runs : cited[r] \subseteq {m.event_hash : m \in Lineage(IncidentOf[r])}
    BY <1>1 DEF EInv, CitedOK
  <2>2. CASE cited' = cited /\ proposal' = proposal
    BY <2>1, <2>2
  <2>3. ASSUME NEW q \in Runs,
               \/ StartRun(q) \/ FinishWithoutAction(q) \/ EnqueueProposal(q)
               \/ \E C \in SUBSET KnownHashes : RecordCitations(q, C) \/ RecordProposal(q, C)
               \/ \E human \in BOOLEAN : ApproveProposal(q, human)
        PROVE  Frozen
    <3>1. /\ cited \in [Runs -> SUBSET KnownHashes]
          /\ proposal \in [Runs -> Proposal]
          /\ run[q] = "started" => proposal[q].status = "absent"
      BY <1>1 DEF EInv, RunsOK, RunMatches
    <3>2. \A r \in Runs : r # q \/ proposal[r].status # "absent" =>
            /\ cited'[r] = cited[r]
            /\ proposal'[r].citations = proposal[r].citations
      BY <2>3, <3>1 DEF StartRun, FinishWithoutAction, EnqueueProposal,
             RecordCitations, RecordProposal, ApproveProposal, Proposal
    <3> QED BY <2>1, <3>2
  <2>4. CASE MemoryNext /\ UNCHANGED episodeVars
    BY <2>2, <2>4 DEF episodeVars
  <2>5. CASE UNCHANGED allVars
    BY <2>2, <2>5 DEF allVars, episodeVars
  <2>6. ASSUME NEW q \in Runs, NEW h \in Handles, NEW x \in Receipts, IssueHandle(h, q, x)
        PROVE  Frozen
    BY <2>2, <2>6 DEF IssueHandle
  <2>7. ASSUME NEW q \in Runs, NEW o \in ReportedOutcomes,
               NEW h \in Handles \cup {NoHandle}, RecordOutcomeAndPromote(q, o, h)
        PROVE  Frozen
    BY <2>2, <2>7 DEF RecordOutcomeAndPromote
  <2> HIDE DEF Frozen
  <2> QED BY <1>1, <2>3, <2>4, <2>5, <2>6, <2>7 DEF EpisodeNext
<1>2. EpisodeSpec => [][Frozen]_allVars
  BY <1>1, EpisodeInvariance, PTL DEF EpisodeSpec
<1> QED BY <1>2 DEF CitationsAreFrozen
=============================================================================
