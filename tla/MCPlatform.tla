----------------------------- MODULE MCPlatform -----------------------------
(***************************************************************************)
(* Small instances of the parts around the stores. They share no variable, *)
(* so a scenario, chosen at the start, says which one moves: "cutovers",   *)
(* "requests" and "story" are ScopedAccess with its TenantControl, and     *)
(* each of the others is the module that is named beside it.               *)
(*                                                                         *)
(* What a scenario leaves out, to stay small, is said beside its steps.    *)
(***************************************************************************)
EXTENDS ScopedAccess, KmsAuthority, SequentialBlind, SandboxProviders,
        AdaptiveDiagnosis, ChildWorkflows, OnlineLineage, TLC

CONSTANTS c1, c2, s1, s2, m1, m2, m3, n1, n2, p1, p2

VARIABLE scenario

Scoped == (m1 :> s1) @@ (m2 :> s1) @@ (m3 :> s2)

AccessScenarios == {"cutovers", "requests", "story"}
Scenarios == AccessScenarios
               \cup {"kms", "blind", "sandbox", "diagnosis", "children", "lineage"}

\* One arbitrary initial state for a part that does not move.
IdleCase == [provider |-> "s3", mode |-> "labelled", fixture |-> "missing",
             action |-> "create"]
IdleSetting == [arm |-> "stateless", transfer |-> FALSE, tools |-> "static"]
IdleContest == [bench |-> "adaptive", sameCause |-> TRUE]

PlatformInit ==
  /\ scenario \in Scenarios
  /\ AccessInit /\ KmsInit /\ CampaignInit /\ ProviderInit /\ DiagnosisInit
  /\ ChildInit /\ LineageInit
  /\ scenario # "sandbox" => case = IdleCase
  /\ scenario # "diagnosis" => setting = IdleSetting
  /\ scenario # "children" => contest = IdleContest

\* Outside of "cutovers" nothing goes wrong in one, and nobody else edits the
\* secret or lends the options at another time than they are needed.
Orderly ==
  /\ secret'.scope = secret.scope
  /\ ~At("idle") => (cutover' # Idle \/ At("put"))
  /\ (login[Control] = 0 \/ ~mayCreate) => mayCreate' = mayCreate
  /\ secret.control # 0 => UNCHANGED cutover
  /\ secret.control = 0 => server' = server /\ accepted' = accepted
                           /\ receipts' = receipts /\ binding'[c2] = binding[c2]
                           /\ (binding'[c1] = binding[c1] \/ At("bind"))

AccessStep ==
  /\ scenario \in AccessScenarios
  /\ AccessNext
  /\ scenario = "cutovers" => UNCHANGED accessVars /\ binding'[c2] = binding[c2]
  /\ scenario # "cutovers" => Orderly
  /\ scenario = "requests" => UNCHANGED <<clock, receipts, judge>>
  /\ scenario = "story" => /\ \A q \in Requests : request'[q].phase # "fetched"
                           /\ binding'[c2] = binding[c2]
                           /\ accepted' \subseteq {Story}

KmsStep == scenario = "kms" /\ KmsNext

\* One chain for each arm, which passes, and one for the last, which does not.
GoodChain(arm) ==
  [e \in 1..Episodes |-> [proposal |-> "match", selected |-> arm # "stateless" /\ e > 1]]
BadChain == [e \in 1..Episodes |-> [proposal |-> "failed", selected |-> FALSE]]
SampleChains(arm) == {NoChain, GoodChain(arm)}
                       \cup (IF arm = "continuum" THEN {BadChain} ELSE {})

BlindStep ==
  /\ scenario = "blind"
  /\ CampaignNext
  /\ \A b \in Batch, arm \in Arms : chain'[b][arm] \in SampleChains(arm)

SandboxStep == scenario = "sandbox" /\ ProviderNext
DiagnosisStep == scenario = "diagnosis" /\ DiagnosisNext

\* A second attempt where titles are shared, and time that passes between the two.
ChildStep ==
  /\ scenario = "children"
  /\ ChildNext
  /\ try' # try => Benchmark("ci_recovery")
  /\ second' # second => leg = "died"

LineageStep == scenario = "lineage" /\ LineageNext

PlatformNext ==
  /\ UNCHANGED scenario
  /\ \/ AccessStep /\ UNCHANGED <<kvars, sbVars, providerVars, dvars, childVars, lineageVars>>
     \/ KmsStep /\ UNCHANGED <<vars, sbVars, providerVars, dvars, childVars, lineageVars>>
     \/ BlindStep /\ UNCHANGED <<vars, kvars, providerVars, dvars, childVars, lineageVars>>
     \/ SandboxStep /\ UNCHANGED <<vars, kvars, sbVars, dvars, childVars, lineageVars>>
     \/ DiagnosisStep /\ UNCHANGED <<vars, kvars, sbVars, providerVars, childVars, lineageVars>>
     \/ ChildStep /\ UNCHANGED <<vars, kvars, sbVars, providerVars, dvars, lineageVars>>
     \/ LineageStep /\ UNCHANGED <<vars, kvars, sbVars, providerVars, dvars, childVars>>

PlatformSpec ==
  PlatformInit /\ [][PlatformNext]_<<vars, kvars, sbVars, providerVars, dvars, childVars,
                                    lineageVars, scenario>>
=============================================================================
