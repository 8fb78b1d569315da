---------------------------- MODULE MemoryProofs ----------------------------
(***************************************************************************)
(* Theorems about the canonical memory, for every number of incidents,     *)
(* candidates, writers and claimants.                                      *)
(***************************************************************************)
EXTENDS MemoryStore, FiniteSetTheorems, TLAPS

-----------------------------------------------------------------------------
(* The inductive invariant *)

Decided(c) == candidate[c] # NoCandidate /\ candidate[c].decision # "undecided"

\* An event belongs to an accepted candidate, and an accepted candidate has
\* one event.
EventsOK ==
  /\ \A m \in canonical : candidate[m.source].decision = "ACCEPTED"
  /\ \A m1, m2 \in canonical : m1.source = m2.source => m1 = m2
  /\ \A c \in Candidates : candidate[c].decision = "ACCEPTED" =>
       \E m \in canonical : m.source = c

\* What a promotion told is what it would tell today.
ToldOK ==
  \A t \in told : /\ t.candidate \in Candidates
                  /\ Decided(t.candidate)
                  /\ t \in Answers(t.candidate)

\* A key has one owner, and whoever was answered was told of it.
ClaimsOK ==
  /\ \A a, b \in attempts : a[1] = b[1] => a[2] = b[2]
  /\ \A g \in granted : g.owner \in Owners(g.claim)
  /\ \A g \in granted : g.code = "CLAIMED" => g.asker = g.owner

IInv == MemoryTypeOK /\ LineageIsAChain /\ EventsOK /\ ToldOK /\ ClaimsOK

-----------------------------------------------------------------------------
(* Lemmas about the operators *)

\* The record that AppendEvent adds.
Event(i, c, parent, t) ==
  [incident |-> i, sequence_no |-> incident[i].current_sequence + 1,
   parent_hash |-> parent, event_hash |-> EventHash(c, parent, t),
   source |-> c, accepted_at |-> t]

LEMMA AppendStep ==
  ASSUME MemoryTypeOK, NEW i \in Incidents, NEW c, NEW parent, NEW t,
         AppendEvent(i, c, parent, t)
  PROVE  /\ canonical' = canonical \cup {Event(i, c, parent, t)}
         /\ incident'[i].current_head = EventHash(c, parent, t)
         /\ incident'[i].current_sequence = incident[i].current_sequence + 1
         /\ \A j \in Incidents : j # i => incident'[j] = incident[j]
         /\ incident' \in [Incidents -> [current_head : KnownHashes', current_sequence : Nat]]
<1>1. incident' = [incident EXCEPT ![i] =
                     [current_head |-> EventHash(c, parent, t),
                      current_sequence |-> incident[i].current_sequence + 1]]
  BY DEF AppendEvent
<1>2. canonical' = canonical \cup {Event(i, c, parent, t)}
  BY DEF AppendEvent, Event
<1>3. KnownHashes \subseteq KnownHashes' /\ EventHash(c, parent, t) \in KnownHashes'
  <2>1. Event(i, c, parent, t).event_hash = EventHash(c, parent, t)
    BY DEF Event
  <2> QED BY <1>2, <2>1 DEF KnownHashes
<1>4. incident \in [Incidents -> [current_head : KnownHashes, current_sequence : Nat]]
  BY DEF MemoryTypeOK
<1>5. /\ incident'[i].current_head = EventHash(c, parent, t)
      /\ incident'[i].current_sequence = incident[i].current_sequence + 1
      /\ \A j \in Incidents : j # i => incident'[j] = incident[j]
  BY <1>1, <1>4
<1>6. incident[i].current_sequence \in Nat
  BY <1>4
<1>7. [current_head |-> EventHash(c, parent, t),
       current_sequence |-> incident[i].current_sequence + 1]
        \in [current_head : KnownHashes', current_sequence : Nat]
  BY <1>3, <1>6
<1>8. \A j \in Incidents :
        incident[j] \in [current_head : KnownHashes', current_sequence : Nat]
  BY <1>3, <1>4
<1>9. incident' \in [Incidents -> [current_head : KnownHashes', current_sequence : Nat]]
  BY <1>1, <1>4, <1>7, <1>8
<1> QED BY <1>2, <1>5, <1>9

\* Whoever appends an event to a lineage leaves every lineage a chain.
LEMMA AppendKeepsChain ==
  ASSUME MemoryTypeOK, LineageIsAChain,
         NEW i \in Incidents, NEW c, NEW parent, NEW t, AppendEvent(i, c, parent, t)
  PROVE  LineageIsAChain'
<1> DEFINE e == Event(i, c, parent, t)
           n == incident[i].current_sequence
<1>1. /\ canonical' = canonical \cup {e}
      /\ incident'[i].current_head = EventHash(c, parent, t)
      /\ incident'[i].current_sequence = n + 1
      /\ \A j \in Incidents : j # i => incident'[j] = incident[j]
  BY AppendStep
<1>2. /\ e.incident = i /\ e.sequence_no = n + 1 /\ e.parent_hash = parent
      /\ e.event_hash = EventHash(c, parent, t)
  BY DEF Event
<1>3. n \in Nat /\ incident[i].current_head = parent
  BY DEF MemoryTypeOK, AppendEvent
<1> HIDE DEF e, n
<1> SUFFICES ASSUME NEW j \in Incidents
             PROVE  LineageIsAChain!(j)'
  BY DEF LineageIsAChain
<1>4. CASE j # i
  <2>1. Lineage(j)' = Lineage(j)
    BY <1>1, <1>2, <1>4 DEF Lineage
  <2>2. incident'[j] = incident[j]
    BY <1>1, <1>4
  <2> QED BY <2>1, <2>2 DEF LineageIsAChain
<1>5. CASE j = i
  <2>1. Lineage(i)' = Lineage(i) \cup {e}
    BY <1>1, <1>2 DEF Lineage
  <2>2. /\ \A m \in Lineage(i) : m.sequence_no \in 1..n
        /\ \A k \in 1..n : \E m \in Lineage(i) : m.sequence_no = k
        /\ \A m1, m2 \in Lineage(i) :
             /\ m1.sequence_no = m2.sequence_no => m1 = m2
             /\ m2.sequence_no = m1.sequence_no + 1 => m2.parent_hash = m1.event_hash
        /\ \A m \in Lineage(i) :
             /\ m.sequence_no = 1 => m.parent_hash = Genesis
             /\ m.sequence_no = n => m.event_hash = parent
        /\ n = 0 => parent = Genesis
    BY <1>3 DEF LineageIsAChain, n
  <2>3. \A m \in Lineage(i)' : m.sequence_no \in 1..(n + 1)
    BY <1>2, <1>3, <2>1, <2>2
  <2>4. \A k \in 1..(n + 1) : \E m \in Lineage(i)' : m.sequence_no = k
    BY <1>2, <1>3, <2>1, <2>2
  <2>5. \A m1, m2 \in Lineage(i)' :
          /\ m1.sequence_no = m2.sequence_no => m1 = m2
          /\ m2.sequence_no = m1.sequence_no + 1 => m2.parent_hash = m1.event_hash
    BY <1>2, <1>3, <2>1, <2>2
  <2>6. \A m \in Lineage(i)' :
          /\ m.sequence_no = 1 => m.parent_hash = Genesis
          /\ m.sequence_no = n + 1 => m.event_hash = incident'[i].current_head
    BY <1>1, <1>2, <1>3, <2>1, <2>2
  <2>7. n + 1 # 0
    BY <1>3
  <2> QED BY <1>1, <1>5, <2>3, <2>4, <2>5, <2>6, <2>7
<1> QED BY <1>4, <1>5

\* A durable result is what it was as long as the candidate and its event are.
LEMMA AnswersStand ==
  ASSUME NEW c, candidate'[c] = candidate[c],
         {m \in canonical' : m.source = c} = {m \in canonical : m.source = c}
  PROVE  Answers(c)' = Answers(c)
<1>1. {[candidate |-> c, code |-> "ACCEPTED", event_hash |-> m.event_hash,
        sequence_no |-> m.sequence_no] : m \in {n \in canonical : n.source = c}}'
      = {[candidate |-> c, code |-> "ACCEPTED", event_hash |-> m.event_hash,
          sequence_no |-> m.sequence_no] : m \in {n \in canonical : n.source = c}}
  OBVIOUS
<1> QED BY <1>1 DEF Answers

-----------------------------------------------------------------------------
(* The invariant holds initially and is kept by every step *)

LEMMA InitInv == MemoryInit => IInv
<1> SUFFICES ASSUME MemoryInit PROVE IInv
  OBVIOUS
<1>1. MemoryTypeOK
  BY MemoryAssumption DEF MemoryInit, MemoryTypeOK, KnownHashes
<1>2. LineageIsAChain
  BY DEF MemoryInit, LineageIsAChain, Lineage
<1>3. EventsOK
  BY DEF MemoryInit, EventsOK, NoCandidate
<1>4. ToldOK /\ ClaimsOK
  BY DEF MemoryInit, ToldOK, ClaimsOK
<1> QED BY <1>1, <1>2, <1>3, <1>4 DEF IInv

\* Steps that leave the lineage and the candidates alone.
LEMMA Untouched ==
  ASSUME IInv, clock' \in 0..MaxTime, UNCHANGED <<incident, candidate, canonical>>
  PROVE  MemoryTypeOK' /\ LineageIsAChain' /\ EventsOK'
<1>1. MemoryTypeOK'
  BY DEF IInv, MemoryTypeOK, KnownHashes, CandidateRecord
<1>2. LineageIsAChain'
  BY DEF IInv, LineageIsAChain, Lineage
<1>3. EventsOK'
  BY DEF IInv, EventsOK
<1> QED BY <1>1, <1>2, <1>3

LEMMA UntouchedTold ==
  ASSUME ToldOK, UNCHANGED <<candidate, canonical>>
  PROVE  \A t \in told : /\ t.candidate \in Candidates
                         /\ Decided(t.candidate)'
                         /\ t \in Answers(t.candidate)'
BY DEF ToldOK, Decided, Answers

LEMMA UntouchedClaims ==
  ASSUME ClaimsOK, UNCHANGED <<attempts, granted>>
  PROVE  ClaimsOK'
BY DEF ClaimsOK, Owners

LEMMA SubmitStep ==
  ASSUME IInv, NEW c \in Drafted, NEW draft \in Drafts, Submit(c, draft)
  PROVE  IInv'
<1>1. PICK h \in KnownHashes : candidate' = [candidate EXCEPT ![c] =
         [incident |-> draft.incident, parent_hash |-> h,
          source_kind |-> draft.source_kind, action_class |-> draft.action_class,
          human_approved |-> draft.human_approved, oversized |-> draft.oversized,
          created_at |-> clock, expires_at |-> draft.expires_at,
          decision |-> "undecided"]]
  BY DEF Submit
<1>2. UNCHANGED <<clock, incident, canonical, attempts, told, granted>>
  BY DEF Submit
<1>3. c \in Candidates /\ draft \in DraftRecord /\ candidate[c] = NoCandidate
  BY MemoryAssumption DEF Submit
<1>4. candidate \in [Candidates -> CandidateRecord \cup {NoCandidate}]
  BY DEF IInv, MemoryTypeOK
<1>5. /\ candidate'[c].decision = "undecided"
      /\ \A d \in Candidates : d # c => candidate'[d] = candidate[d]
  BY <1>1, <1>3, <1>4
<1>6. \A m \in canonical : m.source # c /\ m.source \in Candidates
  BY <1>3 DEF IInv, EventsOK, MemoryTypeOK, NoCandidate
<1>7. MemoryTypeOK'
  <2>1. KnownHashes' = KnownHashes /\ CandidateRecord' = CandidateRecord
    BY <1>2 DEF KnownHashes, CandidateRecord
  <2>2. clock \in Nat
    BY MemoryAssumption DEF IInv, MemoryTypeOK
  <2>3. candidate'[c] \in CandidateRecord
    BY <1>1, <1>3, <1>4, <2>2 DEF CandidateRecord, DraftRecord
  <2>4. candidate' \in [Candidates -> CandidateRecord \cup {NoCandidate}]
    BY <1>1, <1>3, <1>4, <2>3
  <2> QED BY <1>2, <2>1, <2>4 DEF IInv, MemoryTypeOK
<1>8. LineageIsAChain'
  BY <1>2 DEF IInv, LineageIsAChain, Lineage
<1>9. EventsOK'
  BY <1>2, <1>5, <1>6 DEF IInv, EventsOK
<1>10. ToldOK'
  <2> SUFFICES ASSUME NEW t \in told
               PROVE  /\ t.candidate \in Candidates
                      /\ Decided(t.candidate)'
                      /\ t \in Answers(t.candidate)'
    BY <1>2 DEF ToldOK
  <2>1. t.candidate \in Candidates /\ Decided(t.candidate) /\ t \in Answers(t.candidate)
    BY DEF IInv, ToldOK
  <2>2. candidate'[t.candidate] = candidate[t.candidate]
    BY <1>3, <1>5, <2>1 DEF Decided
  <2>3. Answers(t.candidate)' = Answers(t.candidate)
    BY <1>2, <2>2, AnswersStand
  <2> QED BY <2>1, <2>2, <2>3 DEF Decided
<1>11. ClaimsOK'
  BY <1>2, UntouchedClaims DEF IInv
<1> QED BY <1>7, <1>8, <1>9, <1>10, <1>11 DEF IInv

LEMMA ReplayStep ==
  ASSUME IInv, NEW c \in Candidates, ReplayPromotion(c)
  PROVE  IInv'
<1>1. /\ told' = told \cup Answers(c)
      /\ UNCHANGED <<clock, incident, candidate, canonical, attempts, granted>>
      /\ Decided(c)
  BY DEF ReplayPromotion, Decided
<1>2. MemoryTypeOK' /\ LineageIsAChain' /\ EventsOK'
  BY <1>1, Untouched DEF IInv, MemoryTypeOK
<1>3. \A t \in Answers(c) : t.candidate = c
  BY DEF Answers
<1>4. Answers(c)' = Answers(c)
  BY <1>1, AnswersStand
<1>5. ToldOK'
  BY <1>1, <1>3, <1>4, UntouchedTold DEF IInv, ToldOK, Decided
<1>6. ClaimsOK'
  BY <1>1, UntouchedClaims DEF IInv
<1> QED BY <1>2, <1>5, <1>6 DEF IInv

LEMMA ClaimStep ==
  ASSUME IInv, NEW i \in Incidents, NEW head, NEW key, NEW claimant,
         ClaimAction(i, head, key, claimant)
  PROVE  IInv'
<1> DEFINE k == ClaimKey(i, head, key)
           answer(code, owner) == [claim |-> k, asker |-> claimant[2],
                                   code |-> code, owner |-> owner]
<1>1. UNCHANGED <<clock, incident, candidate, canonical, told>>
  BY DEF ClaimAction
<1>2. MemoryTypeOK' /\ LineageIsAChain' /\ EventsOK'
  BY <1>1, Untouched DEF IInv, MemoryTypeOK
<1>3. ToldOK'
  BY <1>1, UntouchedTold DEF IInv, ToldOK
<1>4. ClaimsOK'
  <2>1. CASE /\ Owners(k) = {}
             /\ attempts' = attempts \cup {<<k, claimant[2]>>}
             /\ granted' = granted \cup {answer("CLAIMED", claimant[2])}
    <3>1. \A a \in attempts : a[1] # k
      BY <2>1 DEF Owners
    <3>2. \A x : Owners(x) \subseteq Owners(x)'
      BY <2>1 DEF Owners
    <3>3. claimant[2] \in Owners(k)'
      <4> DEFINE a == <<k, claimant[2]>>
      <4>1. a \in attempts' /\ a[1] = k /\ a[2] = claimant[2]
        BY <2>1
      <4> HIDE DEF a, k
      <4> QED BY <4>1 DEF Owners
    <3>4. \A a, b \in attempts' : a[1] = b[1] => a[2] = b[2]
      BY <2>1, <3>1 DEF IInv, ClaimsOK
    <3>5. \A g \in granted' : /\ g.owner \in Owners(g.claim)'
                              /\ g.code = "CLAIMED" => g.asker = g.owner
      <4> SUFFICES ASSUME NEW g \in granted'
                   PROVE  /\ g.owner \in Owners(g.claim)'
                          /\ g.code = "CLAIMED" => g.asker = g.owner
        OBVIOUS
      <4>1. CASE g \in granted
        BY <3>2, <4>1 DEF IInv, ClaimsOK
      <4>2. CASE g = answer("CLAIMED", claimant[2])
        BY <3>3, <4>2
      <4> QED BY <2>1, <4>1, <4>2
    <3> QED BY <3>4, <3>5 DEF ClaimsOK
  <2>2. CASE /\ \E owner \in Owners(k) :
                  granted' = granted \cup {answer("DUPLICATE", owner)}
             /\ UNCHANGED attempts
    <3>1. \A x : Owners(x)' = Owners(x)
      BY <2>2 DEF Owners
    <3> QED BY <2>2, <3>1 DEF IInv, ClaimsOK
  <2> QED BY <2>1, <2>2 DEF ClaimAction
<1> QED BY <1>2, <1>3, <1>4 DEF IInv

\* What a promotion that decides does to everything but the answers.
LEMMA PromoteLineage ==
  ASSUME IInv, NEW c \in Candidates, PromoteCandidate(c)
  PROVE  /\ MemoryTypeOK' /\ LineageIsAChain' /\ EventsOK'
         /\ Decided(c)'
         /\ \A d \in Candidates : d # c =>
              /\ candidate'[d] = candidate[d]
              /\ {m \in canonical' : m.source = d} = {m \in canonical : m.source = d}
<1> DEFINE i == candidate[c].incident
           code == Decide(candidate[c], incident[i].current_head, clock)
           parent == candidate[c].parent_hash
<1>1. /\ candidate[c] # NoCandidate
      /\ candidate[c].decision = "undecided"
      /\ candidate' = [candidate EXCEPT ![c].decision = code]
      /\ IF code = "ACCEPTED" THEN AppendEvent(i, c, parent, clock)
         ELSE UNCHANGED <<incident, canonical>>
      /\ clock' = clock
  BY DEF PromoteCandidate, Undecided
<1>2. candidate \in [Candidates -> CandidateRecord \cup {NoCandidate}]
  BY DEF IInv, MemoryTypeOK
<1>3. candidate[c] \in CandidateRecord /\ i \in Incidents
  BY <1>1, <1>2 DEF CandidateRecord
<1>4. code \in DecisionCodes
  BY DEF Decide, DecisionCodes
<1> HIDE DEF i, code, parent
<1>5. /\ candidate'[c].decision = code
      /\ candidate'[c] # NoCandidate
      /\ \A d \in Candidates : d # c => candidate'[d] = candidate[d]
  <2>1. candidate'[c] = [candidate[c] EXCEPT !.decision = code]
    BY <1>1, <1>2
  <2>2. candidate'[c].decision = code
    BY <1>3, <2>1 DEF CandidateRecord
  <2>3. code # "none"
    BY <1>4 DEF DecisionCodes
  <2> QED BY <1>1, <1>2, <2>2, <2>3 DEF NoCandidate
<1>6. KnownHashes \subseteq KnownHashes'
  <2>1. canonical \subseteq canonical'
    BY <1>1, <1>3, AppendStep DEF IInv
  <2> QED BY <2>1 DEF KnownHashes
<1>7. candidate' \in [Candidates -> CandidateRecord' \cup {NoCandidate}]
  <2>1. CandidateRecord \subseteq CandidateRecord'
    BY <1>6 DEF CandidateRecord
  <2>2. candidate'[c] \in CandidateRecord
    <3>1. candidate'[c] = [candidate[c] EXCEPT !.decision = code]
      BY <1>1, <1>2
    <3> QED BY <1>3, <1>4, <3>1 DEF CandidateRecord
  <2> QED BY <1>1, <1>2, <1>5, <2>1, <2>2
<1>8. CASE code = "ACCEPTED"
  <2>1. AppendEvent(i, c, parent, clock)
    BY <1>1, <1>8
  <2>2. /\ canonical' = canonical \cup {Event(i, c, parent, clock)}
        /\ incident' \in [Incidents -> [current_head : KnownHashes', current_sequence : Nat]]
    BY <1>3, <2>1, AppendStep DEF IInv
  <2> DEFINE e == Event(i, c, parent, clock)
  <2>3. /\ e.incident = i /\ e.source = c
        /\ e.sequence_no = incident[i].current_sequence + 1
    BY DEF Event
  <2>4. e.sequence_no \in Nat \ {0}
    BY <1>3, <2>3 DEF IInv, MemoryTypeOK
  <2> HIDE DEF e
  <2>5. LineageIsAChain'
    BY <1>3, <2>1, AppendKeepsChain DEF IInv
  <2>6. \A m \in canonical : m.source # c /\ m.source \in Candidates
    BY <1>1 DEF IInv, EventsOK, MemoryTypeOK
  <2>7. canonical' = canonical \cup {e}
    BY <2>2 DEF e
  <2>8. \A m \in canonical' : /\ m.incident \in Incidents /\ m.source \in Candidates
                              /\ m.sequence_no \in Nat \ {0}
    BY <1>3, <2>3, <2>4, <2>7 DEF IInv, MemoryTypeOK
  <2>9. MemoryTypeOK'
    BY <1>1, <1>7, <2>2, <2>8 DEF IInv, MemoryTypeOK
  <2>10. EventsOK'
    <3>1. \A m \in canonical' : candidate'[m.source].decision = "ACCEPTED"
      BY <1>5, <1>8, <2>3, <2>6, <2>7 DEF IInv, EventsOK
    <3>2. \A m1, m2 \in canonical' : m1.source = m2.source => m1 = m2
      BY <2>3, <2>6, <2>7 DEF IInv, EventsOK
    <3>3. \A d \in Candidates : candidate'[d].decision = "ACCEPTED" =>
            \E m \in canonical' : m.source = d
      BY <1>5, <2>3, <2>7 DEF IInv, EventsOK
    <3> QED BY <3>1, <3>2, <3>3 DEF EventsOK
  <2>11. \A d : d # c =>
           {m \in canonical' : m.source = d} = {m \in canonical : m.source = d}
    BY <2>3, <2>7
  <2> QED BY <1>4, <1>5, <1>8, <2>5, <2>9, <2>10, <2>11 DEF Decided
<1>9. CASE code # "ACCEPTED"
  <2>1. UNCHANGED <<incident, canonical>>
    BY <1>1, <1>9
  <2>2. \A m \in canonical : m.source # c /\ m.source \in Candidates
    BY <1>1 DEF IInv, EventsOK, MemoryTypeOK
  <2>3. KnownHashes' = KnownHashes
    BY <2>1 DEF KnownHashes
  <2>4. MemoryTypeOK'
    BY <1>1, <1>7, <2>1, <2>3 DEF IInv, MemoryTypeOK
  <2>5. LineageIsAChain'
    BY <2>1 DEF IInv, LineageIsAChain, Lineage
  <2>6. EventsOK'
    BY <1>5, <1>9, <2>1, <2>2 DEF IInv, EventsOK
  <2>7. code # "undecided"
    BY <1>4 DEF DecisionCodes
  <2> QED BY <1>5, <2>1, <2>4, <2>5, <2>6, <2>7 DEF Decided
<1> QED BY <1>8, <1>9

LEMMA PromoteStep ==
  ASSUME IInv, NEW c \in Candidates, PromoteCandidate(c)
  PROVE  IInv'
<1>1. told' = told \cup Answers(c)' /\ UNCHANGED <<attempts, granted>>
  BY DEF PromoteCandidate
<1>2. candidate[c].decision = "undecided"
  BY DEF PromoteCandidate, Undecided
<1>3. ToldOK'
  <2> SUFFICES ASSUME NEW t \in told'
               PROVE  /\ t.candidate \in Candidates
                      /\ Decided(t.candidate)'
                      /\ t \in Answers(t.candidate)'
    BY DEF ToldOK
  <2>1. CASE t \in told
    <3>1. /\ t.candidate \in Candidates /\ Decided(t.candidate)
          /\ t \in Answers(t.candidate)
      BY <2>1 DEF IInv, ToldOK
    <3>2. t.candidate # c
      BY <1>2, <3>1 DEF Decided
    <3>3. /\ candidate'[t.candidate] = candidate[t.candidate]
          /\ {m \in canonical' : m.source = t.candidate}
             = {m \in canonical : m.source = t.candidate}
      BY <3>1, <3>2, PromoteLineage
    <3>4. Answers(t.candidate)' = Answers(t.candidate)
      BY <3>3, AnswersStand
    <3> QED BY <3>1, <3>3, <3>4 DEF Decided
  <2>2. CASE t \in Answers(c)'
    <3>1. t.candidate = c
      BY <2>2 DEF Answers
    <3> QED BY <2>2, <3>1, PromoteLineage
  <2> QED BY <1>1, <2>1, <2>2
<1>4. ClaimsOK'
  BY <1>1, UntouchedClaims DEF IInv
<1> QED BY <1>3, <1>4, PromoteLineage DEF IInv

LEMMA StepInv == IInv /\ [MemoryNext]_memoryVars => IInv'
<1> SUFFICES ASSUME IInv, [MemoryNext]_memoryVars PROVE IInv'
  OBVIOUS
<1>1. CASE MemoryTick
  <2>1. clock' \in 0..MaxTime
    BY <1>1, MemoryAssumption DEF MemoryTick, IInv, MemoryTypeOK
  <2>2. UNCHANGED <<incident, candidate, canonical, attempts, told, granted>>
    BY <1>1 DEF MemoryTick
  <2>3. ToldOK' /\ ClaimsOK'
    BY <2>2, UntouchedTold, UntouchedClaims DEF IInv, ToldOK
  <2> QED BY <2>1, <2>2, <2>3, Untouched DEF IInv
<1>2. ASSUME NEW c \in Drafted, NEW draft \in Drafts, Submit(c, draft) PROVE IInv'
  BY <1>2, SubmitStep
<1>3. ASSUME NEW c \in Candidates, PromoteCandidate(c) PROVE IInv'
  BY <1>3, PromoteStep
<1>4. ASSUME NEW c \in Candidates, ReplayPromotion(c) PROVE IInv'
  BY <1>4, ReplayStep
<1>5. ASSUME NEW i \in Incidents, NEW h \in KnownHashes, NEW key \in ActionKeys,
             NEW w \in Claimants, ClaimAction(i, h, key, w)
      PROVE  IInv'
  BY <1>5, ClaimStep
<1>6. CASE UNCHANGED memoryVars
  <2>1. UNCHANGED <<clock, incident, candidate, canonical, attempts, told, granted>>
    BY <1>6 DEF memoryVars
  <2>2. ToldOK' /\ ClaimsOK'
    BY <2>1, UntouchedTold, UntouchedClaims DEF IInv, ToldOK
  <2> QED BY <2>1, <2>2, Untouched DEF IInv, MemoryTypeOK
<1> QED BY <1>1, <1>2, <1>3, <1>4, <1>5, <1>6 DEF MemoryNext

LEMMA Invariance == MemorySpec => []IInv
BY InitInv, StepInv, PTL DEF MemorySpec

-----------------------------------------------------------------------------
(* What the invariant says of a state, and of a step *)

LEMMA OnceInLineage == IInv => AcceptedExactlyOnce
<1> SUFFICES ASSUME IInv PROVE AcceptedExactlyOnce
  OBVIOUS
<1>1. \A m \in canonical : candidate[m.source] # NoCandidate
                           /\ candidate[m.source].decision = "ACCEPTED"
  BY DEF IInv, EventsOK, NoCandidate
<1>2. ASSUME NEW c \in Candidates, candidate[c].decision = "ACCEPTED"
      PROVE  Cardinality({m \in canonical : m.source = c}) = 1
  <2>1. PICK e \in canonical : e.source = c
    BY <1>2 DEF IInv, EventsOK
  <2>2. {m \in canonical : m.source = c} = {e}
    BY <2>1 DEF IInv, EventsOK
  <2> QED BY <2>2, FS_Singleton
<1> QED BY <1>1, <1>2 DEF AcceptedExactlyOnce

LEMMA OneAnswer == IInv => ReplayTellsTheSame
<1> SUFFICES ASSUME IInv, NEW a \in told, NEW b \in told,
                    a.candidate = b.candidate
             PROVE  a = b
  BY DEF ReplayTellsTheSame
<1> DEFINE c == a.candidate
<1>1. a \in Answers(c) /\ b \in Answers(c)
  BY DEF IInv, ToldOK
<1>2. \A m1, m2 \in {n \in canonical : n.source = c} : m1 = m2
  BY DEF IInv, EventsOK
<1> HIDE DEF c
<1> QED BY <1>1, <1>2 DEF Answers

LEMMA OwnedOnce == IInv => OneOwner
BY DEF IInv, ClaimsOK, Owners, OneOwner

\* LineageOnlyGrows, of one step.
Grows ==
  /\ canonical \subseteq canonical'
  /\ \A m \in canonical' \ canonical :
       /\ m.parent_hash = incident[m.incident].current_head
       /\ m.event_hash = incident'[m.incident].current_head
  /\ \A c \in Candidates :
       candidate[c] # NoCandidate /\ candidate[c].decision # "undecided" =>
         candidate'[c] = candidate[c]

\* An event that is appended goes on top of the head it finds.
LEMMA AppendGrows ==
  ASSUME MemoryTypeOK, NEW i \in Incidents, NEW c, NEW parent, NEW t,
         AppendEvent(i, c, parent, t)
  PROVE  /\ canonical \subseteq canonical'
         /\ \A m \in canonical' \ canonical :
              /\ m.parent_hash = incident[m.incident].current_head
              /\ m.event_hash = incident'[m.incident].current_head
<1> DEFINE e == Event(i, c, parent, t)
<1>1. /\ canonical' = canonical \cup {e}
      /\ incident'[i].current_head = EventHash(c, parent, t)
  BY AppendStep
<1>2. /\ e.incident = i /\ e.parent_hash = incident[i].current_head
      /\ e.event_hash = EventHash(c, parent, t)
  BY DEF Event, AppendEvent
<1> HIDE DEF e
<1> QED BY <1>1, <1>2

LEMMA MemoryGrows ==
  ASSUME IInv, [MemoryNext]_memoryVars
  PROVE  Grows
<1>1. CASE UNCHANGED <<candidate, canonical>>
  BY <1>1 DEF Grows
<1>2. ASSUME NEW d \in Drafted, NEW draft \in Drafts, Submit(d, draft) PROVE Grows
  BY <1>2 DEF Submit, IInv, MemoryTypeOK, Grows
<1>3. ASSUME NEW d \in Candidates, PromoteCandidate(d) PROVE Grows
  <2>1. \A c \in Candidates : Decided(c) => candidate'[c] = candidate[c]
    BY <1>3, PromoteLineage DEF PromoteCandidate, Undecided, Decided
  <2>2. CASE UNCHANGED canonical
    BY <2>1, <2>2 DEF Decided, Grows
  <2>3. CASE AppendEvent(candidate[d].incident, d, candidate[d].parent_hash, clock)
    <3>1. candidate[d].incident \in Incidents
      BY <1>3 DEF PromoteCandidate, Undecided, IInv, MemoryTypeOK, CandidateRecord
    <3> QED BY <2>1, <2>3, <3>1, AppendGrows DEF Decided, Grows, IInv
  <2> QED BY <1>3, <2>2, <2>3 DEF PromoteCandidate
<1> QED BY <1>1, <1>2, <1>3 DEF MemoryNext, MemoryTick, ReplayPromotion,
          ClaimAction, memoryVars

-----------------------------------------------------------------------------
(* Theorems *)

\* The canonical memory of every incident is one unbroken chain from the
\* genesis to its head, whatever candidates promote_candidate is called with, in
\* any order and any number of times.
THEOREM LineageUnbroken == MemorySpec => []LineageIsAChain
BY Invariance, PTL DEF IInv

\* promote_candidate puts an accepted candidate into the lineage exactly once.
THEOREM PromotedOnce == MemorySpec => []AcceptedExactlyOnce
BY OnceInLineage, Invariance, PTL

\* However often and however late promote_candidate is repeated for a
\* candidate, it tells the original result.
THEOREM PromotionIsIdempotent == MemorySpec => []ReplayTellsTheSame
BY OneAnswer, Invariance, PTL

\* claim_action names one owner of an action key at a head to everybody.
THEOREM ClaimHasOneOwner == MemorySpec => []OneOwner
BY OwnedOnce, Invariance, PTL

\* No step of the store rewrites a lineage or a decision: an event is only
\* added, and on top of the head it finds.
THEOREM LineageStands == MemorySpec => LineageOnlyGrows
<1>1. MemorySpec => [][Grows]_memoryVars
  BY MemoryGrows, Invariance, PTL DEF MemorySpec
<1> QED BY <1>1 DEF LineageOnlyGrows, Grows
=============================================================================
