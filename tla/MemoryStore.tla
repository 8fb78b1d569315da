----------------------------- MODULE MemoryStore -----------------------------
(***************************************************************************)
(* The canonical memory of an incident: a lineage of accepted events, each *)
(* naming its predecessor by hash, grown by promoting durable candidates   *)
(* through the policy kernel, and the action claims fenced by its head.    *)
(*                                                                         *)
(* promote_candidate and claim_action each run as one SERIALIZABLE         *)
(* transaction (run_transaction repeats it on SQLSTATE 40001, which leaves *)
(* nothing behind), hence as one step.                                     *)
(***************************************************************************)
EXTENDS Naturals, FiniteSets

CONSTANTS
  Incidents, TenantOf,    \* incidents, and the tenant each belongs to
  Candidates,             \* candidate ids
  Drafted,                \* those that writers submit for promotion
  Drafts,                 \* the candidate contents the writers come up with
  Genesis,                \* the head of an incident without memory
  Never,
  ActionKeys, Claimants,  \* action keys, and the <<tenant, worker>> claiming them
  MaxTime

VARIABLES
  clock,
  incident,               \* incidents: current_head, current_sequence
  candidate,              \* memory_candidates
  canonical,              \* canonical_memories
  attempts,               \* action_attempts: <<claim, worker>>
  told,                   \* every answer a promotion gave (observed)
  granted                 \* every answer a claim gave (observed)

memoryVars == <<clock, incident, candidate, canonical, attempts, told, granted>>

-----------------------------------------------------------------------------
(* Data *)

Sources == {"human", "tool", "model", "external"}
TrustedSources == {"human", "tool"}
ActionClasses == {"observe", "recommend", "destructive"}
DecisionCodes == {"ACCEPTED", "STALE_PARENT", "EXPIRED", "UNTRUSTED_SOURCE",
                  "HUMAN_APPROVAL_REQUIRED", "PAYLOAD_TOO_LARGE"}

\* What a writer decides about a candidate.
DraftRecord ==
  [incident : Incidents, source_kind : Sources, action_class : ActionClasses,
   human_approved : BOOLEAN, oversized : BOOLEAN, expires_at : Nat \cup {Never}]

ASSUME MemoryAssumption ==
  /\ Drafted \subseteq Candidates
  /\ Drafts \subseteq DraftRecord
  /\ MaxTime \in Nat

NoCandidate == [decision |-> "none"]

\* SHA-256 of the event envelope, taken to be injective.
EventHash(c, parent, acceptedAt) == <<c, parent, acceptedAt>>

\* The hashes anybody can name as a parent or as an expected head.
KnownHashes == {Genesis} \cup {m.event_hash : m \in canonical}

ClaimKey(i, head, key) == [incident |-> i, expected_head |-> head, action_key |-> key]

-----------------------------------------------------------------------------
(* evaluate_candidate: the first check that fails names the decision.  A    *)
(* durable candidate carries the tenant and incident of its incident row    *)
(* (memory_candidates_scope_fk), so the two scope checks pass.              *)

Decide(c, head, now) ==
  IF c.parent_hash # head THEN "STALE_PARENT"
  ELSE IF c.created_at > now \/ (c.expires_at # Never /\ c.expires_at <= now)
  THEN "EXPIRED"
  ELSE IF c.source_kind \notin TrustedSources THEN "UNTRUSTED_SOURCE"
  ELSE IF c.action_class = "destructive" /\ ~c.human_approved
  THEN "HUMAN_APPROVAL_REQUIRED"
  ELSE IF c.oversized THEN "PAYLOAD_TOO_LARGE"
  ELSE "ACCEPTED"

-----------------------------------------------------------------------------
MemoryInit ==
  /\ clock = 0
  /\ incident = [i \in Incidents |-> [current_head |-> Genesis,
                                      current_sequence |-> 0]]
  /\ candidate = [c \in Candidates |-> NoCandidate]
  /\ canonical = {}
  /\ attempts = {}
  /\ told = {}
  /\ granted = {}

\* A writer inserts a candidate that builds on a head it has seen, current or
\* not.
Submit(c, draft) ==
  /\ candidate[c] = NoCandidate
  /\ \E h \in KnownHashes :
       candidate' = [candidate EXCEPT ![c] =
         [incident |-> draft.incident, parent_hash |-> h,
          source_kind |-> draft.source_kind, action_class |-> draft.action_class,
          human_approved |-> draft.human_approved, oversized |-> draft.oversized,
          created_at |-> clock, expires_at |-> draft.expires_at,
          decision |-> "undecided"]]
  /\ UNCHANGED <<clock, incident, canonical, attempts, told, granted>>

\* Mutant: the sequence number is the predecessor's.
AppendEventUnnumbered(i, c, parent, acceptedAt) ==
  /\ incident[i].current_head = parent
  /\ incident' = [incident EXCEPT ![i] =
                    [current_head |-> EventHash(c, parent, acceptedAt),
                     current_sequence |-> @.current_sequence + 1]]
  /\ canonical' = canonical \cup
       {[incident |-> i, sequence_no |-> incident[i].current_sequence,
         parent_hash |-> parent, event_hash |-> EventHash(c, parent, acceptedAt),
         source |-> c, accepted_at |-> acceptedAt]}

\* The event joins the lineage of incident i and becomes its head: a compare
\* and set on the parent, so the caller's view of the head must be current.
AppendEvent(i, c, parent, acceptedAt) ==
  /\ incident[i].current_head = parent
  /\ incident' = [incident EXCEPT ![i] =
                    [current_head |-> EventHash(c, parent, acceptedAt),
                     current_sequence |-> @.current_sequence + 1]]
  /\ canonical' = canonical \cup
       {[incident |-> i, sequence_no |-> incident[i].current_sequence + 1,
         parent_hash |-> parent, event_hash |-> EventHash(c, parent, acceptedAt),
         source |-> c, accepted_at |-> acceptedAt]}

\* Mutant: the head of today instead of the event of then.
AnswersWithHead(c) ==
  LET i == candidate[c].incident IN
  {[candidate |-> c, code |-> candidate[c].decision,
    event_hash |-> incident[i].current_head,
    sequence_no |-> incident[i].current_sequence]}

\* The durable result of a decided candidate.
Answers(c) ==
  IF candidate[c].decision = "ACCEPTED"
  THEN {[candidate |-> c, code |-> "ACCEPTED", event_hash |-> m.event_hash,
         sequence_no |-> m.sequence_no] : m \in {n \in canonical : n.source = c}}
  ELSE {[candidate |-> c, code |-> candidate[c].decision,
         event_hash |-> Genesis, sequence_no |-> 0]}

\* Mutant: an earlier decision is not looked for.
UndecidedOrNot(c) == candidate[c] # NoCandidate

Undecided(c) == candidate[c] # NoCandidate /\ candidate[c].decision = "undecided"

\* promote_candidate on a decided candidate returns the original result.
ReplayPromotion(c) ==
  /\ candidate[c] # NoCandidate
  /\ candidate[c].decision # "undecided"
  /\ told' = told \cup Answers(c)
  /\ UNCHANGED <<clock, incident, candidate, canonical, attempts, granted>>

\* promote_candidate on an undecided one: a rejection is recorded, an accepted
\* event extends the lineage; both are told to the caller.
PromoteCandidate(c) ==
  /\ Undecided(c)
  /\ LET i == candidate[c].incident
         code == Decide(candidate[c], incident[i].current_head, clock)
     IN /\ candidate' = [candidate EXCEPT ![c].decision = code]
        /\ IF code = "ACCEPTED"
           THEN AppendEvent(i, c, candidate[c].parent_hash, clock)
           ELSE UNCHANGED <<incident, canonical>>
  /\ told' = told \cup Answers(c)'
  /\ UNCHANGED <<clock, attempts, granted>>

\* Mutant: the insert never finds the claim that is there.
OwnersNotFound(k) == {}

Owners(k) == {a[2] : a \in {b \in attempts : b[1] = k}}

\* claim_action, for the head the worker planned against.  A claim of another
\* tenant or of a head that moved is refused; otherwise the first insert of a
\* key wins, and every later claim of it is answered with the durable winner.
ClaimAction(i, head, key, claimant) ==
  LET k == ClaimKey(i, head, key)
      answer(code, owner) == [claim |-> k, asker |-> claimant[2], code |-> code,
                              owner |-> owner]
  IN
  /\ TenantOf[i] = claimant[1]
  /\ incident[i].current_head = head
  /\ \/ /\ Owners(k) = {}
        /\ attempts' = attempts \cup {<<k, claimant[2]>>}
        /\ granted' = granted \cup {answer("CLAIMED", claimant[2])}
     \/ /\ \E owner \in Owners(k) :
             granted' = granted \cup {answer("DUPLICATE", owner)}
        /\ UNCHANGED attempts
  /\ UNCHANGED <<clock, incident, candidate, canonical, told>>

MemoryTick ==
  /\ clock < MaxTime
  /\ clock' = clock + 1
  /\ UNCHANGED <<incident, candidate, canonical, attempts, told, granted>>

MemoryNext ==
  \/ MemoryTick
  \/ \E c \in Drafted, draft \in Drafts : Submit(c, draft)
  \/ \E c \in Candidates : PromoteCandidate(c) \/ ReplayPromotion(c)
  \/ \E i \in Incidents, h \in KnownHashes, key \in ActionKeys, w \in Claimants :
       ClaimAction(i, h, key, w)

MemorySpec == MemoryInit /\ [][MemoryNext]_memoryVars

-----------------------------------------------------------------------------
(* Properties *)

CandidateRecord ==
  [incident : Incidents, parent_hash : KnownHashes, source_kind : Sources,
   action_class : ActionClasses, human_approved : BOOLEAN, oversized : BOOLEAN,
   created_at : Nat, expires_at : Nat \cup {Never},
   decision : DecisionCodes \cup {"undecided"}]

\* Heads and parents name events that are there.
MemoryTypeOK ==
  /\ clock \in 0..MaxTime
  /\ incident \in [Incidents -> [current_head : KnownHashes, current_sequence : Nat]]
  /\ candidate \in [Candidates -> CandidateRecord \cup {NoCandidate}]
  /\ \A m \in canonical :
       m.incident \in Incidents /\ m.source \in Candidates /\ m.sequence_no \in Nat \ {0}

Lineage(i) == {m \in canonical : m.incident = i}

\* The canonical memory of an incident is one unbroken chain: sequence numbers
\* 1..current_sequence, each event on top of its predecessor, the first on the
\* genesis, the last one the head, whoever the concurrent writers are.
LineageIsAChain ==
  \A i \in Incidents :
    LET n == incident[i].current_sequence IN
    /\ \A m \in Lineage(i) : m.sequence_no \in 1..n
    /\ \A k \in 1..n : \E m \in Lineage(i) : m.sequence_no = k
    /\ \A m1, m2 \in Lineage(i) :
         /\ m1.sequence_no = m2.sequence_no => m1 = m2
         /\ m2.sequence_no = m1.sequence_no + 1 => m2.parent_hash = m1.event_hash
    /\ \A m \in Lineage(i) :
         /\ m.sequence_no = 1 => m.parent_hash = Genesis
         /\ m.sequence_no = n => m.event_hash = incident[i].current_head
    /\ n = 0 => incident[i].current_head = Genesis

\* A candidate is canonical exactly when its durable decision says so, and
\* once: a replay or a second promoter never adds an event.
AcceptedExactlyOnce ==
  /\ \A m \in canonical : candidate[m.source] # NoCandidate
                          /\ candidate[m.source].decision = "ACCEPTED"
  /\ \A c \in Candidates :
       candidate[c] # NoCandidate /\ candidate[c].decision = "ACCEPTED" =>
         Cardinality({m \in canonical : m.source = c}) = 1

\* Repeated promotions of a candidate all hear the original result, though the
\* head has moved and time has passed since ("idempotent" in the docstring).
ReplayTellsTheSame ==
  \A a, b \in told : a.candidate = b.candidate => a = b

\* At one head an action key has one owner: whoever asks and how often, at most
\* one worker hears CLAIMED and everybody hears the same owner.
OneOwner ==
  \A a, b \in granted : a.claim = b.claim =>
    /\ a.owner = b.owner
    /\ a.code = "CLAIMED" => a.asker = a.owner

\* The lineage only grows, by one event on top of the head it had; a decision,
\* once taken, stands.
LineageOnlyGrows ==
  [][/\ canonical \subseteq canonical'
     /\ \A m \in canonical' \ canonical :
          /\ m.parent_hash = incident[m.incident].current_head
          /\ m.event_hash = incident'[m.incident].current_head
     /\ \A c \in Candidates :
          candidate[c] # NoCandidate /\ candidate[c].decision # "undecided" =>
            candidate'[c] = candidate[c]]_memoryVars
=============================================================================
