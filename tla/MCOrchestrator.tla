--------------------------- MODULE MCOrchestrator ---------------------------
(* A small instance of Orchestrator: a memory arm and a stateless arm. *)
EXTENDS Orchestrator, TLC

CONSTANTS i1, c1, c2, t1, r1, r2, x1

AllTenant == [i \in Incidents |-> t1]
SameIncident == [r \in Runs |-> i1]
WithOutcomes == Drafted \cup (Runs \X Receipts)

SampleDrafts ==
  {[incident |-> i1, source_kind |-> "human", action_class |-> "recommend",
    human_approved |-> FALSE, oversized |-> FALSE, expires_at |-> Never]}
=============================================================================
