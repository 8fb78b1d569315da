--------------------------- MODULE MCEpisodeStore ---------------------------
(***************************************************************************)
(* A small instance of EpisodeStore and of the MemoryStore it extends.     *)
(* The actors that may move are those of one scenario, chosen at the       *)
(* start: writers and claimants alone; one run whose journal gets long;    *)
(* two runs that compete with a writer.  All of them together would only   *)
(* multiply the states.                                                    *)
(***************************************************************************)
EXTENDS EpisodeStore, TLC

CONSTANTS i1, i2, t1, t2, w1, w2, r1, r2, r3

VARIABLE scenario

OwnTenant == (i1 :> t1) @@ (i2 :> t2)
TwoClaimants == {<<t1, w1>>, <<t1, w2>>}
SameIncident == [r \in Runs |-> i1]
WithOutcomes == Drafted \cup (Runs \X Receipts)

Draft(i, source, class, approved, expires) ==
  [incident |-> i, source_kind |-> source, action_class |-> class,
   human_approved |-> approved, oversized |-> FALSE, expires_at |-> expires]

\* Acceptable drafts for both incidents, one that expires, and one that the
\* policy rejects.
SampleDrafts ==
  {Draft(i1, "human", "recommend", FALSE, Never),
   Draft(i1, "tool", "observe", FALSE, 1),
   Draft(i2, "human", "destructive", TRUE, Never),
   Draft(i1, "model", "observe", TRUE, Never)}

MCInit == EpisodeInit /\ scenario \in {"writers", "one run", "two runs"}

Runners == CASE scenario = "writers" -> {}
             [] scenario = "one run" -> {r1}
             [] OTHER -> {r2, r3}

Submitted == {c \in Drafted : candidate[c] # NoCandidate}

MCNext ==
  /\ EpisodeNext
  /\ \A r \in Runs \ Runners : run'[r] = run[r]
  /\ scenario # "writers" =>
       /\ Cardinality(Submitted') <= 1
       /\ \A c \in Submitted' : candidate'[c].action_class = "recommend"
       /\ UNCHANGED <<attempts, granted>>
  /\ scenario = "writers" => Cardinality(Submitted') + Cardinality(granted') <= 4
  /\ scenario # "one run" => clock' <= 1
  /\ scenario = "two runs" => \A r \in Runs : Len(journal'[r]) <= 1
  /\ UNCHANGED scenario

MCSpec == MCInit /\ [][MCNext]_<<allVars, scenario>>

Symmetry == Permutations(Drafted) \cup Permutations(Receipts) \cup Permutations(Handles)
=============================================================================
