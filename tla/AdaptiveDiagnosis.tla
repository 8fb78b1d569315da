-------------------------- MODULE AdaptiveDiagnosis --------------------------
(***************************************************************************)
(* The agent of adaptive_diagnosis_agent.py: it turns one ambiguous        *)
(* incident into one proposed patch.  In every turn a router offers the    *)
(* model the tools of the current phase and the model calls one: search,   *)
(* fetch, a read-only probe, or a proposal.                                *)
(*                                                                         *)
(* The memory behind scoped tools is shared: between the search that       *)
(* issues a handle and the fetch, the outcomes of other episodes may have  *)
(* changed it, so a fetch may return anything.  Hits that were fixed for   *)
(* the episode (_StaticMemoryTools) stay as they are, and the admission    *)
(* tools of online_lineage.py show only verified sources and fail a fetch  *)
(* that finds another payload than the search did.                         *)
(***************************************************************************)
EXTENDS Integers, FiniteSets, Sequences

CONSTANTS
    Notes,      \* memories that a search may show; a handle stands for one
    Patches,    \* the two patches of the incident's ambiguity group
    MaxTurns    \* max_model_turns

ASSUME DiagnosisAssumption == MaxTurns \in Nat /\ Cardinality(Patches) = 2

NoPatch == "no patch"

\* A memory's payload: its provider_conclusion and patch, and whether it is of
\* the incident's environment or of another one, for which the server may have
\* attested the transfer.
Contents == [good : BOOLEAN, patch : Patches, from : {"here", "attested", "elsewhere"}]

VARIABLES
    setting,    \* fixed for the episode: the arm, the contract, the tools
    shown,      \* handles: what the agent holds of each issued memory
    looked,     \* searched
    read,       \* fetched_handles
    evidence,   \* evidence_patch_id of the receipts, in their order
    turn,       \* model turns that were used
    answer,     \* the result, or why there is none
    atFetch     \* what the provider-verified memories said when fetched

dvars == <<setting, shown, looked, read, evidence, turn, answer, atFetch>>

Undecided == [status |-> "running", patch |-> NoPatch, cites |-> {}]
Stopped == [status |-> "error", patch |-> NoPatch, cites |-> {}]
Running == answer = Undecided

Remembers == setting.arm # "stateless"

DiagnosisInit ==
    /\ setting \in [arm : {"stateless", "raw_rag", "continuum"}, transfer : BOOLEAN,
                   tools : {"static", "scoped", "admission"}]
    /\ setting.tools # "static" => Remembers
    /\ setting.tools = "admission" => setting.arm = "continuum" /\ setting.transfer
    /\ shown = <<>>
    /\ looked = ~Remembers
    /\ read = {}
    /\ evidence = <<>>
    /\ turn = 0
    /\ answer = Undecided
    /\ atFetch = <<>>

-----------------------------------------------------------------------------
(* The router.                                                             *)

\* _memory_authorizes_patch.
Authorizes(payload, patch) ==
    /\ payload.good
    /\ payload.patch = patch
    /\ \/ payload.from = "here"
       \/ setting.transfer /\ setting.arm = "raw_rag"
       \/ setting.transfer /\ setting.arm = "continuum" /\ payload.from = "attested"

Authorizing == {m \in DOMAIN shown : Authorizes(shown[m], shown[m].patch)}

\* The arms for which memory that authorises a patch comes before everything.
Gated == \/ setting.arm = "continuum"
         \/ setting.arm = "raw_rag" /\ setting.transfer

Readable == {m \in DOMAIN shown \ read :
                  setting.arm = "continuum" /\ setting.transfer => m \in Authorizing}

PatchesOf(ms) == {shown[m].patch : m \in ms}

Tool(name, over) == [name : {name}, over : over]

\* Memory that authorises a patch must be fetched, and then be proposed: the
\* fetched ones have to agree.
OfferGated ==
    LET fetched == Authorizing \cap read IN
    IF fetched = {} THEN Tool("fetch", Authorizing)
    ELSE IF Cardinality(PatchesOf(fetched)) = 1 THEN Tool("propose", PatchesOf(fetched))
    ELSE {}

\* Without it: what is still readable, a probe, or what the memories that were
\* fetched support.
OfferFree == UNION {Tool("fetch", Readable),
                    Tool("probe", Patches),
                    Tool("propose", PatchesOf(Authorizing \cap read))}

\* _tool_specs: the calls that the tools of this turn allow. A provider's fact
\* outranks all memory. A proposal is offered for one patch.
Offered ==
    IF ~looked THEN Tool("search", {NoPatch})
    ELSE IF evidence # <<>> THEN Tool("propose", {evidence[Len(evidence)]})
    ELSE IF Gated /\ Authorizing # {} THEN OfferGated
    ELSE OfferFree

\* The router offers nothing, or the turns are used up: an error.
OutOfTools ==
    /\ Running
    /\ Offered = {} \/ turn = MaxTurns
    /\ answer' = Stopped
    /\ UNCHANGED <<setting, shown, looked, read, evidence, turn, atFetch>>

\* The model calls a tool that was offered. Only the name of the call is held
\* against the offer: the handle may be any that was issued.
Turn(name) ==
    /\ Running
    /\ turn < MaxTurns
    /\ \E call \in Offered : call.name = name
    /\ turn' = turn + 1

\* The model cannot be reached, answers with something else than one offered
\* call, or a tool fails: the run ends with an error and its receipts.
TurnFails ==
    /\ Running
    /\ turn < MaxTurns
    /\ turn' = turn + 1
    /\ answer' = Stopped
    /\ UNCHANGED <<setting, shown, looked, read, evidence, atFetch>>

\* TransferAdmissionTools.search leaves out what is no verified source.
Showable == IF setting.tools = "admission" THEN {p \in Contents : p.good} ELSE Contents

SearchMemory ==
    /\ Turn("search")
    /\ looked' = TRUE
    /\ \E hits \in SUBSET Notes : shown' \in [hits -> Showable]
    /\ UNCHANGED <<setting, read, evidence, answer, atFetch>>

\* Scoped tools return the memory as it is now.
Fetched(m) == IF setting.tools = "scoped" THEN Contents ELSE {shown[m]}

\* As a defect: the handle would go on standing for what the search showed.
FetchMemoryUnread(m) ==
    /\ Turn("fetch")
    /\ m \in DOMAIN shown \ read
    /\ read' = read \cup {m}
    /\ \E payload \in Fetched(m) :
          atFetch' = [k \in read' |-> IF k = m THEN payload ELSE atFetch[k]]
    /\ UNCHANGED <<setting, shown, looked, evidence, answer>>

\* The handle now stands for what the fetch returned.
FetchMemory(m) ==
    /\ Turn("fetch")
    /\ m \in DOMAIN shown \ read
    /\ read' = read \cup {m}
    /\ \E payload \in Fetched(m) :
          /\ shown' = [shown EXCEPT ![m] = payload]
          /\ atFetch' = [k \in read' |-> IF k = m THEN payload ELSE atFetch[k]]
    /\ UNCHANGED <<setting, looked, evidence, answer>>

\* A handle that was read before: "adaptive memory handle was fetched twice".
FetchTwice(m) ==
    /\ Turn("fetch")
    /\ m \in read
    /\ answer' = Stopped
    /\ UNCHANGED <<setting, shown, looked, read, evidence, atFetch>>

\* evidence_patch_id: a probe is named after the patch of its own fault; a
\* result within the contract leaves the other fault of the group.
EvidencePatch(probe, finding) ==
    IF finding = "anomaly" THEN probe ELSE CHOOSE p \in Patches : p # probe

\* One of the two probes, and what its child workflow finds.
RunProbe(probe) ==
    /\ Turn("probe")
    /\ \E finding \in {"anomaly", "within-contract"} :
          evidence' = Append(evidence, EvidencePatch(probe, finding))
    /\ UNCHANGED <<setting, shown, looked, read, answer, atFetch>>

\* A proposal; the model may cite any issued handle. It is turned back, and the
\* loop goes on, unless each one was fetched and authorises this patch and
\* there is one or a receipt.
Admitted(patch, cites) ==
    /\ \A m \in cites : m \in read /\ Authorizes(shown[m], patch)
    /\ evidence # <<>> \/ cites # {}

Propose(patch) ==
    /\ Turn("propose")
    /\ [name |-> "propose", over |-> patch] \in Offered
    /\ \E cites \in SUBSET DOMAIN shown :
          answer' = IF Admitted(patch, cites)
                      THEN [status |-> "proposed", patch |-> patch, cites |-> cites]
                      ELSE answer
    /\ UNCHANGED <<setting, shown, looked, read, evidence, atFetch>>

DiagnosisNext ==
    \/ OutOfTools \/ TurnFails \/ SearchMemory
    \/ \E m \in Notes : FetchMemory(m) \/ FetchTwice(m)
    \/ \E p \in Patches : RunProbe(p) \/ Propose(p)

DiagnosisSpec == DiagnosisInit /\ [][DiagnosisNext]_dvars

-----------------------------------------------------------------------------
(* Properties.                                                             *)

Says(m, patch) == atFetch[m].good /\ atFetch[m].patch = patch

\* A proposal is what the provider's evidence says: the finding of the probe
\* when one was run, and otherwise memories that, when they were fetched, told
\* of a success of this very patch; for the continuum arm, in this environment
\* or with an attested transfer. What a search showed is never enough, and one
\* memory never vouches for another one's patch (run, _tool_specs).
ProposalIsEvidenced ==
    answer.status = "proposed" =>
        /\ evidence # <<>> => answer.patch = evidence[Len(evidence)]
        /\ evidence = <<>> => answer.cites # {}
        /\ \A m \in answer.cites :
              /\ m \in read /\ Says(m, answer.patch)
              /\ setting.arm = "continuum" =>
                    \/ atFetch[m].from = "here"
                    \/ setting.transfer /\ atFetch[m].from = "attested"
=============================================================================
