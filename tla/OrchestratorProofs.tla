------------------------- MODULE OrchestratorProofs -------------------------
(***************************************************************************)
(* Theorems about the bounded tool loop: driven by it, the episode store   *)
(* is still the store of EpisodeStore, and what the loop makes durable and *)
(* what it answers agree with what the store holds, for any number of      *)
(* runs, whatever the model answers and whichever call fails.              *)
(***************************************************************************)
EXTENDS Orchestrator, EpisodeProofs

-----------------------------------------------------------------------------
(* The inductive invariant *)

AgentRecord ==
  [phase : Phases, turns : Nat, calls : Nat, allowed : SUBSET {"search", "fetch", "propose"},
   answered : BOOLEAN, searched : Nat, fetched : BOOLEAN,
   shown : SUBSET KnownHashes, choice : {NoChoice} \cup SUBSET KnownHashes]

\* The phases in which the process still owns its run.
Owning == {"ask", "tools", "write", "propose", "close", "exhausted"}

\* What the local state of a run keeps by itself: the budgets, the turns that
\* lie between the search and a proposal, and the contract of its citations.
Local(r, a) ==
  /\ a.turns <= MaxTurns /\ a.calls <= MaxCalls /\ a.searched <= a.turns
  /\ a.phase = "ask" => a.turns < MaxTurns
  /\ a.phase \in {"write", "propose"} => a.choice # NoChoice
  /\ r \in Stateless => a.shown = {} /\ (a.phase = "tools" => a.allowed = {"propose"})
  /\ r \notin Stateless /\ a.phase = "tools" /\ "propose" \in a.allowed =>
       a.searched \in 1..a.turns - 1
  /\ a.choice # NoChoice =>
       /\ a.choice \subseteq a.shown
       /\ r \notin Stateless => a.searched \in 1..a.turns - 1 /\ (a.shown # {} => a.choice # {})

\* The same, beside what the store holds of the run.
Stored(r, a) ==
  /\ a.phase = "idle" => /\ run[r] = "absent" /\ cited[r] = {}
                         /\ a.turns = 0 /\ a.searched = 0 /\ a.shown = {} /\ a.choice = NoChoice
  /\ a.phase \in Owning => run[r] = "started"
  /\ a.phase \in Owning \ {"propose"} => cited[r] = {}
  /\ a.phase = "propose" => cited[r] = a.shown
  /\ proposal[r].status # "absent" =>
       /\ a.choice # NoChoice /\ cited[r] = a.shown /\ proposal[r].citations = a.choice
  /\ a.phase = "proposed" => proposal[r].status # "absent"
  /\ a.phase = "finished" => run[r] = "failed" /\ proposal[r].status = "absent"
  /\ a.phase = "raised" => run[r] # "started"

LocalOK == \A r \in Runs : Local(r, agent[r])
StoredOK == \A r \in Runs : Stored(r, agent[r])
LoopInv == agent \in [Runs -> AgentRecord] /\ LocalOK /\ StoredOK

AgentInv == EInv /\ LoopInv

LEMMA InitAgent == AgentInit => AgentInv
<1> SUFFICES ASSUME AgentInit PROVE AgentInv
  OBVIOUS
<1>1. EInv
  BY EpisodeInitInv DEF AgentInit
<1>2. NewAgent \in AgentRecord
  BY DEF NewAgent, AgentRecord, Phases
<1>3. ASSUME NEW r \in Runs
      PROVE  Local(r, NewAgent) /\ Stored(r, NewAgent)
  BY OrchestratorAssumption DEF AgentInit, EpisodeInit, NoProposal, NewAgent, Local, Stored, Owning
<1>4. \A r \in Runs : agent[r] = NewAgent
  BY DEF AgentInit
<1>5. agent \in [Runs -> AgentRecord]
  BY <1>2 DEF AgentInit
<1> QED BY <1>1, <1>3, <1>4, <1>5 DEF AgentInv, LoopInv, LocalOK, StoredOK

-----------------------------------------------------------------------------
(* What a step of one run leaves to show *)

\* The process of run r comes to b, and only its own run may change.
LEMMA RunMoves ==
  ASSUME LoopInv, canonical' = canonical, NEW r \in Runs, NEW b \in AgentRecord,
         agent' \in [Runs -> AgentRecord], agent'[r] = b,
         \A q \in Runs \ {r} : /\ agent'[q] = agent[q] /\ run'[q] = run[q]
                               /\ cited'[q] = cited[q] /\ proposal'[q] = proposal[q],
         Local(r, b), Stored(r, b)'
  PROVE  LoopInv'
<1>1. LocalOK'
  BY DEF LoopInv, LocalOK, Local
<1>2. StoredOK'
  <2> SUFFICES ASSUME NEW q \in Runs PROVE Stored(q, agent[q])'
    BY DEF StoredOK
  <2>1. CASE q = r
    BY <2>1 DEF Stored
  <2>2. CASE q # r
    BY <2>2 DEF LoopInv, StoredOK, Stored
  <2> QED BY <2>1, <2>2
<1>3. AgentRecord' = AgentRecord
  BY DEF AgentRecord, KnownHashes
<1> QED BY <1>1, <1>2, <1>3 DEF LoopInv

\* No process moves.
LEMMA StoreMoves ==
  ASSUME LoopInv, agent' = agent, canonical \subseteq canonical',
         \A r \in Runs, a \in AgentRecord : Stored(r, a) => Stored(r, a)'
  PROVE  LoopInv'
<1>1. LocalOK'
  BY DEF LoopInv, LocalOK, Local
<1>2. StoredOK'
  <2> SUFFICES ASSUME NEW r \in Runs PROVE Stored(r, agent[r])'
    BY DEF StoredOK
  <2> PICK a \in AgentRecord : a = agent[r] /\ a = agent'[r]
    BY DEF LoopInv
  <2>1. Stored(r, a)'
    BY DEF LoopInv, StoredOK
  <2> QED BY <2>1 DEF Stored
<1>3. AgentRecord \subseteq AgentRecord'
  <2>1. KnownHashes \subseteq KnownHashes'
    BY DEF KnownHashes
  <2> SUFFICES ASSUME NEW a \in AgentRecord PROVE a \in AgentRecord'
    OBVIOUS
  <2> QED BY <2>1 DEF AgentRecord
<1>4. (agent \in [Runs -> AgentRecord])'
  BY <1>3 DEF LoopInv
<1> QED BY <1>1, <1>2, <1>4 DEF LoopInv

\* What changing the phase alone does.
LEMMA GoesFields ==
  ASSUME LoopInv, NEW r \in Runs, NEW phase \in Phases, Goes(r, phase)
  PROVE  /\ agent' \in [Runs -> AgentRecord]
         /\ \A q \in Runs \ {r} : agent'[q] = agent[q]
         /\ agent'[r] = [agent[r] EXCEPT !.phase = phase]
BY DEF LoopInv, Goes, AgentRecord

LEMMA PhaseField ==
  ASSUME NEW a \in AgentRecord, NEW phase \in Phases, NEW b, b = [a EXCEPT !.phase = phase]
  PROVE  /\ b \in AgentRecord /\ b.phase = phase
         /\ b.turns = a.turns /\ b.calls = a.calls /\ b.allowed = a.allowed
         /\ b.searched = a.searched /\ b.shown = a.shown /\ b.choice = a.choice
BY DEF AgentRecord

\* The process of a run goes to another phase, and the store is left alone or
\* does one transaction for it.
LEMMA PhaseMoves ==
  ASSUME LoopInv, canonical' = canonical, NEW r \in Runs, NEW phase \in Phases, Goes(r, phase),
         \A q \in Runs \ {r} : /\ run'[q] = run[q] /\ cited'[q] = cited[q]
                               /\ proposal'[q] = proposal[q],
         phase = "ask" => agent[r].turns < MaxTurns,
         phase \in {"write", "propose"} => agent[r].choice # NoChoice,
         phase # "tools",
         \A b \in AgentRecord : 
           /\ b.phase = phase /\ b.turns = agent[r].turns /\ b.searched = agent[r].searched
           /\ b.shown = agent[r].shown /\ b.choice = agent[r].choice
           => Stored(r, b)'
  PROVE  LoopInv'
<1> PICK a \in AgentRecord : a = agent[r]
  BY DEF LoopInv
<1> PICK b : b = [a EXCEPT !.phase = phase]
  OBVIOUS
<1>1. /\ b \in AgentRecord /\ b.phase = phase
      /\ b.turns = a.turns /\ b.calls = a.calls /\ b.allowed = a.allowed
      /\ b.searched = a.searched /\ b.shown = a.shown /\ b.choice = a.choice
  BY PhaseField
<1>2. Local(r, a)
  BY DEF LoopInv, LocalOK
<1>3. Local(r, b)
  BY <1>1, <1>2 DEF Local
<1>4. Stored(r, b)'
  BY <1>1
<1>5. /\ agent' \in [Runs -> AgentRecord] /\ agent'[r] = b
      /\ \A q \in Runs \ {r} : agent'[q] = agent[q]
  BY GoesFields
<1> QED BY <1>1, <1>3, <1>4, <1>5, RunMoves

-----------------------------------------------------------------------------
(* The steps of the loop *)

\* While a process owns its run, the run has no proposal.
LEMMA OwnedIsOpen ==
  ASSUME AgentInv, NEW r \in Runs, agent[r].phase \in Owning
  PROVE  run[r] = "started" /\ proposal[r].status = "absent"
BY DEF AgentInv, LoopInv, StoredOK, Stored, EInv, RunMatches

LEMMA StoreIsFramed ==
  ASSUME UNCHANGED allVars
  PROVE  UNCHANGED <<canonical, run, cited, proposal>>
BY DEF allVars, memoryVars, episodeVars

LEMMA ConverseStep ==
  ASSUME AgentInv, NEW r \in Runs, Converse(r)
  PROVE  LoopInv'
<1> PICK a \in AgentRecord : a = agent[r]
  BY DEF AgentInv, LoopInv, LocalOK, StoredOK
<1> PICK n : n = a.turns + 1
  OBVIOUS
<1> PICK tools : tools = Tools(r)
  OBVIOUS
<1>1. /\ a.phase = "ask" /\ UNCHANGED <<canonical, run, cited, proposal>>
      /\ agent' = [agent EXCEPT ![r].phase = "tools", ![r].turns = n,
                               ![r].allowed = tools, ![r].answered = FALSE]
  BY StoreIsFramed DEF Converse
<1>2. /\ tools \subseteq {"search", "fetch", "propose"}
      /\ r \in Stateless => tools = {"propose"}
      /\ r \notin Stateless /\ "propose" \in tools => a.searched # 0
  BY DEF Tools
<1>3. Local(r, a) /\ Stored(r, a)
  BY DEF AgentInv, LoopInv, LocalOK, StoredOK
<1>4. n \in Nat /\ n <= MaxTurns /\ a.turns = n - 1
  BY <1>1, <1>3, OrchestratorAssumption DEF Local, AgentRecord
<1> PICK b : b = agent'[r]
  OBVIOUS
<1>5. /\ agent' \in [Runs -> AgentRecord] /\ b \in AgentRecord
      /\ \A q \in Runs \ {r} : agent'[q] = agent[q]
      /\ b.phase = "tools" /\ b.turns = n /\ b.allowed = tools
      /\ b.calls = a.calls /\ b.searched = a.searched /\ b.shown = a.shown /\ b.choice = a.choice
  BY <1>1, <1>2, <1>4 DEF AgentInv, LoopInv, AgentRecord, Phases
<1>6. Local(r, b)
  BY <1>2, <1>3, <1>4, <1>5 DEF Local, AgentRecord
<1>7. Stored(r, b)'
  BY <1>1, <1>3, <1>5, OwnedIsOpen DEF Stored, Owning
<1> QED BY <1>1, <1>5, <1>6, <1>7, RunMoves DEF AgentInv

LEMMA FetchStepKeeps ==
  ASSUME AgentInv, NEW r \in Runs, Fetch(r)
  PROVE  LoopInv'
<1> PICK a \in AgentRecord : a = agent[r]
  BY DEF AgentInv, LoopInv, LocalOK, StoredOK
<1> PICK n : n = a.calls + 1
  OBVIOUS
<1>1. /\ a.phase = "tools" /\ a.calls < MaxCalls /\ UNCHANGED <<canonical, run, cited, proposal>>
      /\ agent' = [agent EXCEPT ![r].calls = n, ![r].answered = TRUE, ![r].fetched = TRUE]
  BY StoreIsFramed DEF Fetch, UsesTool
<1>2. Local(r, a) /\ Stored(r, a)
  BY DEF AgentInv, LoopInv, LocalOK, StoredOK
<1>3. n \in Nat /\ n <= MaxCalls
  BY <1>1, OrchestratorAssumption DEF AgentRecord
<1> PICK b : b = agent'[r]
  OBVIOUS
<1>4. /\ agent' \in [Runs -> AgentRecord] /\ b \in AgentRecord
      /\ \A q \in Runs \ {r} : agent'[q] = agent[q]
      /\ b.calls = n /\ b.phase = a.phase /\ b.turns = a.turns /\ b.allowed = a.allowed
      /\ b.searched = a.searched /\ b.shown = a.shown /\ b.choice = a.choice
  BY <1>1, <1>3 DEF AgentInv, LoopInv, AgentRecord
<1>5. Local(r, b)
  BY <1>2, <1>3, <1>4 DEF Local
<1>6. Stored(r, b)'
  BY <1>1, <1>2, <1>4 DEF Stored
<1> QED BY <1>1, <1>4, <1>5, <1>6, RunMoves DEF AgentInv

LEMMA SearchStepKeeps ==
  ASSUME AgentInv, NEW r \in Runs, NEW C \in SUBSET KnownHashes, Search(r, C)
  PROVE  LoopInv'
<1> PICK a \in AgentRecord : a = agent[r]
  BY DEF AgentInv, LoopInv, LocalOK, StoredOK
<1> PICK n : n = a.calls + 1
  OBVIOUS
<1>1. /\ a.phase = "tools" /\ "search" \in a.allowed /\ a.searched = 0
      /\ a.calls < MaxCalls /\ UNCHANGED <<canonical, run, cited, proposal>>
      /\ agent' = [agent EXCEPT ![r].calls = n, ![r].answered = TRUE,
                               ![r].searched = a.turns, ![r].shown = C]
  BY StoreIsFramed DEF Search, UsesTool
<1>2. Local(r, a) /\ Stored(r, a)
  BY DEF AgentInv, LoopInv, LocalOK, StoredOK
<1>3. n \in Nat /\ n <= MaxCalls
  BY <1>1, OrchestratorAssumption DEF AgentRecord
\* The message that searches may not propose, so nothing was chosen before.
<1>4. r \notin Stateless /\ "propose" \notin a.allowed /\ a.choice = NoChoice
  BY <1>1, <1>2 DEF Local, AgentRecord
<1> PICK b : b = agent'[r]
  OBVIOUS
<1>5. /\ agent' \in [Runs -> AgentRecord] /\ b \in AgentRecord
      /\ \A q \in Runs \ {r} : agent'[q] = agent[q]
      /\ b.calls = n /\ b.phase = a.phase /\ b.turns = a.turns /\ b.allowed = a.allowed
      /\ b.searched = a.turns /\ b.shown = C /\ b.choice = a.choice
  BY <1>1, <1>3 DEF AgentInv, LoopInv, AgentRecord
<1>6. Local(r, b)
  BY <1>1, <1>2, <1>3, <1>4, <1>5 DEF Local, AgentRecord
<1>7. Stored(r, b)'
  BY <1>1, <1>2, <1>5, OwnedIsOpen DEF Stored, Owning
<1> QED BY <1>1, <1>5, <1>6, <1>7, RunMoves DEF AgentInv

LEMMA ProposeStepKeeps ==
  ASSUME AgentInv, NEW r \in Runs, NEW C \in SUBSET KnownHashes, Propose(r, C)
  PROVE  LoopInv'
<1> PICK a \in AgentRecord : a = agent[r]
  BY DEF AgentInv, LoopInv, LocalOK, StoredOK
<1> PICK n : n = a.calls + 1
  OBVIOUS
<1>1. /\ a.phase = "tools" /\ "propose" \in a.allowed /\ a.calls < MaxCalls
      /\ MayCite(r, C) /\ UNCHANGED <<canonical, run, cited, proposal>>
      /\ agent' = [agent EXCEPT ![r].calls = n, ![r].choice = C]
  BY StoreIsFramed DEF Propose, UsesTool
<1>2. Local(r, a) /\ Stored(r, a)
  BY DEF AgentInv, LoopInv, LocalOK, StoredOK
<1>3. n \in Nat /\ n <= MaxCalls
  BY <1>1, OrchestratorAssumption DEF AgentRecord
<1> PICK b : b = agent'[r]
  OBVIOUS
<1>4. /\ agent' \in [Runs -> AgentRecord] /\ b \in AgentRecord
      /\ \A q \in Runs \ {r} : agent'[q] = agent[q]
      /\ b.calls = n /\ b.phase = a.phase /\ b.turns = a.turns /\ b.allowed = a.allowed
      /\ b.searched = a.searched /\ b.shown = a.shown /\ b.choice = C
  BY <1>1, <1>3 DEF AgentInv, LoopInv, AgentRecord
<1>5. Local(r, b)
  BY <1>1, <1>2, <1>3, <1>4 DEF Local, MayCite
<1>6. Stored(r, b)'
  BY <1>1, <1>2, <1>4, OwnedIsOpen DEF Stored, Owning
<1> QED BY <1>1, <1>4, <1>5, <1>6, RunMoves DEF AgentInv

LEMMA EndMessageStep ==
  ASSUME AgentInv, NEW r \in Runs, EndMessage(r)
  PROVE  LoopInv'
<1>1. agent[r].phase = "tools" /\ UNCHANGED <<canonical, run, cited, proposal>>
  BY StoreIsFramed DEF EndMessage
<1>2. /\ run[r] = "started" /\ proposal[r].status = "absent" /\ cited[r] = {}
  BY <1>1, OwnedIsOpen DEF Owning, AgentInv, LoopInv, StoredOK, Stored
<1>3. PICK phase \in {"write", "close", "ask", "exhausted"} :
        /\ Goes(r, phase)
        /\ phase = "write" => agent[r].choice # NoChoice
        /\ phase = "ask" => agent[r].turns < MaxTurns
  BY DEF EndMessage
<1>4. \A b \in AgentRecord : b.phase = phase => Stored(r, b)'
  BY <1>1, <1>2, <1>3 DEF Stored
<1> QED BY <1>1, <1>3, <1>4, PhaseMoves DEF AgentInv, Phases

\* The process gives up, or is gone; the store is as it was.
LEMMA RaiseStep ==
  ASSUME AgentInv, NEW r \in Runs, Raise(r) \/ Die(r)
  PROVE  LoopInv'
<1>1. UNCHANGED <<canonical, run, cited, proposal>>
  BY StoreIsFramed DEF Raise, Die
<1>2. PICK phase \in {"fail", "lost"} : Goes(r, phase)
  BY DEF Raise, Die
<1>3. Stored(r, agent[r])
  BY DEF AgentInv, LoopInv, StoredOK
<1>4. \A b \in AgentRecord :
        b.phase = phase /\ b.shown = agent[r].shown /\ b.choice = agent[r].choice => Stored(r, b)'
  BY <1>1, <1>2, <1>3 DEF Stored, Owning
<1> QED BY <1>1, <1>2, <1>4, PhaseMoves DEF AgentInv, Phases

LEMMA BeginStep ==
  ASSUME AgentInv, NEW r \in Runs, BeginRun(r)
  PROVE  LoopInv'
<1>1. /\ agent[r].phase = "idle" /\ run[r] = "absent"
      /\ run' = [run EXCEPT ![r] = "started"] /\ UNCHANGED <<canonical, cited, proposal>>
  BY DEF BeginRun, StartRun, memoryVars
<1>2. PICK phase \in {"ask", "unsettled"} : Goes(r, phase)
  BY DEF BeginRun
<1>3. /\ agent[r].turns = 0 /\ cited[r] = {} /\ proposal[r].status = "absent"
  BY <1>1 DEF AgentInv, LoopInv, StoredOK, Stored, EInv, RunMatches
<1>4. run'[r] = "started" /\ \A q \in Runs \ {r} : run'[q] = run[q]
  BY <1>1 DEF AgentInv, EInv, RunsOK
<1>5. \A b \in AgentRecord : b.phase = phase => Stored(r, b)'
  BY <1>1, <1>2, <1>3, <1>4 DEF Stored, Owning
<1> QED BY <1>1, <1>2, <1>3, <1>4, <1>5, PhaseMoves, OrchestratorAssumption
        DEF AgentInv, Phases, Returned

LEMMA RecordShownStep ==
  ASSUME AgentInv, NEW r \in Runs, RecordShown(r)
  PROVE  LoopInv'
<1>1. /\ agent[r].phase = "write" /\ UNCHANGED <<canonical, run, proposal>>
      /\ cited' = [cited EXCEPT ![r] = cited[r] \cup agent[r].shown]
  BY DEF RecordShown, RecordCitations, memoryVars
<1>2. PICK phase \in {"propose", "fail"} : Goes(r, phase)
  BY DEF RecordShown, Hears
<1>3. /\ run[r] = "started" /\ proposal[r].status = "absent" /\ cited[r] = {}
      /\ agent[r].choice # NoChoice
  BY <1>1, OwnedIsOpen DEF Owning, AgentInv, LoopInv, LocalOK, Local, StoredOK, Stored
<1>4. cited'[r] = agent[r].shown /\ \A q \in Runs \ {r} : cited'[q] = cited[q]
  BY <1>1, <1>3 DEF AgentInv, EInv, RunsOK
<1>5. \A b \in AgentRecord : b.phase = phase /\ b.shown = agent[r].shown => Stored(r, b)'
  BY <1>1, <1>2, <1>3, <1>4 DEF Stored, Owning
<1> QED BY <1>1, <1>2, <1>3, <1>4, <1>5, PhaseMoves DEF AgentInv, Phases

LEMMA RecordChoiceStep ==
  ASSUME AgentInv, NEW r \in Runs, RecordChoice(r)
  PROVE  LoopInv'
<1> PICK p : p = [status |-> "proposed", citations |-> agent[r].choice, human |-> FALSE]
  OBVIOUS
<1>1. /\ agent[r].phase = "propose" /\ UNCHANGED <<canonical, cited>>
      /\ proposal' = [proposal EXCEPT ![r] = p] /\ run' = [run EXCEPT ![r] = "proposed"]
  BY DEF RecordChoice, RecordProposal, memoryVars
<1>2. PICK phase \in {"proposed", "fail"} : Goes(r, phase)
  BY DEF RecordChoice, Hears
<1>3. agent[r].choice # NoChoice /\ cited[r] = agent[r].shown
  BY <1>1 DEF AgentInv, LoopInv, LocalOK, Local, StoredOK, Stored
<1>4. /\ proposal'[r].status = "proposed" /\ proposal'[r].citations = agent[r].choice
      /\ run'[r] = "proposed"
      /\ \A q \in Runs \ {r} : proposal'[q] = proposal[q] /\ run'[q] = run[q]
  BY <1>1 DEF AgentInv, EInv, RunsOK
<1>5. \A b \in AgentRecord :
        b.phase = phase /\ b.shown = agent[r].shown /\ b.choice = agent[r].choice => Stored(r, b)'
  BY <1>1, <1>2, <1>3, <1>4 DEF Stored, Owning
<1> QED BY <1>1, <1>2, <1>4, <1>5, PhaseMoves DEF AgentInv, Phases, Returned

\* The run is finished without action: by the loop, or in its except branch,
\* which may fail.
LEMMA CloseStep ==
  ASSUME AgentInv, NEW r \in Runs, Close(r) \/ CleanUp(r) \/ CleanUpFails(r)
  PROVE  LoopInv'
<1>1. CASE FinishWithoutAction(r)
  <2>1. /\ run[r] = "started" /\ run' = [run EXCEPT ![r] = "failed"]
        /\ UNCHANGED <<canonical, cited, proposal>>
    BY <1>1 DEF FinishWithoutAction, memoryVars
  <2>2. PICK phase \in {"finished", "fail", "raised", "unsettled"} : Goes(r, phase)
    BY DEF Close, CleanUp, CleanUpFails, Hears
  <2>3. proposal[r].status = "absent"
    BY <2>1 DEF AgentInv, EInv, RunMatches
  <2>4. run'[r] = "failed" /\ \A q \in Runs \ {r} : run'[q] = run[q]
    BY <2>1 DEF AgentInv, EInv, RunsOK
  <2>5. \A b \in AgentRecord : b.phase = phase => Stored(r, b)'
    BY <2>1, <2>2, <2>3, <2>4 DEF Stored, Owning
  <2> QED BY <2>1, <2>2, <2>4, <2>5, PhaseMoves DEF AgentInv, Phases, Returned
<1>2. CASE CleanUp(r) /\ run[r] # "started" /\ UNCHANGED allVars
  <2>1. Goes(r, "raised") /\ UNCHANGED <<canonical, run, cited, proposal>>
    BY <1>2, StoreIsFramed DEF CleanUp
  <2>2. Stored(r, agent[r])
    BY DEF AgentInv, LoopInv, StoredOK
  <2>3. \A b \in AgentRecord :
          b.phase = "raised" /\ b.shown = agent[r].shown /\ b.choice = agent[r].choice => Stored(r, b)'
    BY <1>2, <2>1, <2>2 DEF Stored, Owning
  <2> QED BY <2>1, <2>3, PhaseMoves DEF AgentInv, Phases, Returned
<1>3. CASE CleanUpFails(r) /\ UNCHANGED allVars
  <2>1. Goes(r, "unsettled") /\ UNCHANGED <<canonical, run, cited, proposal>>
    BY <1>3, StoreIsFramed DEF CleanUpFails
  <2>2. Stored(r, agent[r])
    BY DEF AgentInv, LoopInv, StoredOK
  <2>3. \A b \in AgentRecord :
          b.phase = "unsettled" /\ b.shown = agent[r].shown /\ b.choice = agent[r].choice
            => Stored(r, b)'
    BY <2>1, <2>2 DEF Stored, Owning
  <2> QED BY <2>1, <2>3, PhaseMoves DEF AgentInv, Phases, Returned
<1> QED BY <1>1, <1>2, <1>3 DEF Close, CleanUp, CleanUpFails

\* Approval, delivery and outcome leave a run as its process knows it.
LEMMA DownstreamStep ==
  ASSUME AgentInv, NEW r \in Runs, Downstream(r), UNCHANGED agent
  PROVE  LoopInv'
<1>1. /\ Approved(r) \/ proposal[r].status = "proposed"
      /\ cited' = cited /\ canonical \subseteq canonical'
      /\ proposal'[r].status # "absent" /\ proposal'[r].citations = proposal[r].citations
      /\ \A q \in Runs \ {r} : proposal'[q] = proposal[q] /\ run'[q] = run[q]
      /\ run'[r] = run[r] \/ run'[r] \in {"enqueued", "succeeded", "failed", "ambiguous"}
  <2>1. CASE EnqueueProposal(r)
    BY <2>1 DEF EnqueueProposal, Approved, memoryVars, AgentInv, EInv, RunsOK, Proposal
  <2>2. ASSUME NEW human \in BOOLEAN, ApproveProposal(r, human)
        PROVE  <1>1!:
    BY <2>2 DEF ApproveProposal, memoryVars, AgentInv, EInv, RunsOK, Proposal
  <2>3. ASSUME NEW o \in ReportedOutcomes, RecordOutcomeAndPromote(r, o, NoHandle)
        PROVE  <1>1!:
    <3>1. o.status \in {"succeeded", "failed", "ambiguous"}
      BY DEF ReportedOutcomes, Succeeded, Unverified
    <3>2. canonical \subseteq canonical'
      BY <2>3 DEF RecordOutcomeAndPromote, FirstOutcome, ExactReplay, Conflict, PromoteOutcome, AppendEvent
    <3>3. /\ Approved(r) /\ cited' = cited /\ proposal' = proposal
          /\ run' = run \/ run' = [run EXCEPT ![r] = o.status]
      BY <2>3 DEF RecordOutcomeAndPromote, FirstOutcome, ExactReplay, Conflict
    <3> QED BY <3>1, <3>2, <3>3 DEF Approved, AgentInv, EInv, RunsOK
  <2> QED BY <2>1, <2>2, <2>3 DEF Downstream
<1>2. proposal[r].status # "absent" /\ run[r] \notin {"absent", "started"}
  BY <1>1 DEF Approved, AgentInv, EInv, RunMatches
<1>3. \A q \in Runs, a \in AgentRecord : Stored(q, a) => Stored(q, a)'
  <2> SUFFICES ASSUME NEW q \in Runs, NEW a \in AgentRecord, Stored(q, a) PROVE Stored(q, a)'
    OBVIOUS
  <2>1. CASE q # r
    BY <1>1, <2>1 DEF Stored
  <2>2. CASE q = r
    BY <1>1, <1>2, <2>2 DEF Stored, Owning
  <2> QED BY <2>1, <2>2
<1> QED BY <1>1, <1>3, StoreMoves DEF AgentInv

-----------------------------------------------------------------------------
(* The loop implements the store, and its invariant is inductive *)

\* Every step of the loop is a step of the store or leaves the store alone: the
\* hashes it passes are of memories that are there.
LEMMA LoopStep ==
  ASSUME AgentInv, [AgentNext]_agentVars
  PROVE  [EpisodeNext]_allVars
<1>1. CASE UNCHANGED agentVars
  BY <1>1 DEF agentVars
<1>2. CASE MemoryNext /\ UNCHANGED <<episodeVars, agent>>
  BY <1>2 DEF EpisodeNext
<1>3. ASSUME NEW r \in Runs, Downstream(r)
      PROVE  EpisodeNext
  BY <1>3 DEF Downstream, EpisodeNext
<1>4. ASSUME NEW r \in Runs, BeginRun(r)
      PROVE  EpisodeNext
  BY <1>4 DEF BeginRun, EpisodeNext
<1>5. ASSUME NEW r \in Runs, AgentStep(r) \/ Raise(r) \/ CleanUpFails(r) \/ Die(r)
      PROVE  [EpisodeNext]_allVars
  <2>1. agent[r] \in AgentRecord /\ Local(r, agent[r])
    BY DEF AgentInv, LoopInv, LocalOK
  <2>2. CASE RecordShown(r)
    <3>1. agent[r].shown \in SUBSET KnownHashes /\ RecordCitations(r, agent[r].shown)
      BY <2>1, <2>2 DEF RecordShown, AgentRecord
    <3> QED BY <3>1 DEF EpisodeNext
  <2>3. CASE RecordChoice(r)
    <3>1. agent[r].choice \in SUBSET KnownHashes /\ RecordProposal(r, agent[r].choice)
      BY <2>1, <2>3 DEF RecordChoice, AgentRecord, Local
    <3> QED BY <3>1 DEF EpisodeNext
  <2>4. CASE FinishWithoutAction(r)
    BY <2>4 DEF EpisodeNext
  <2>5. CASE UNCHANGED allVars
    BY <2>5
  <2>6. \/ RecordShown(r) \/ RecordChoice(r) \/ FinishWithoutAction(r)
        \/ UNCHANGED allVars
    BY <1>5 DEF AgentStep, Converse, Fetch, EndMessage, Search, Propose, Close, CleanUp,
           CleanUpFails, Raise, Die
  <2> QED BY <2>2, <2>3, <2>4, <2>5, <2>6
<1> QED BY <1>1, <1>2, <1>3, <1>4, <1>5 DEF AgentNext

LEMMA AgentStepInv == AgentInv /\ [AgentNext]_agentVars => AgentInv'
<1> SUFFICES ASSUME AgentInv, [AgentNext]_agentVars PROVE AgentInv'
  OBVIOUS
<1>1. EInv'
  BY LoopStep, EpisodeStepInv DEF AgentInv
<1>2. CASE UNCHANGED agentVars
  <2>1. agent' = agent /\ UNCHANGED <<canonical, run, cited, proposal>>
    BY <1>2, StoreIsFramed DEF agentVars
  <2> QED BY <1>1, <2>1, StoreMoves DEF AgentInv, Stored
<1>3. CASE MemoryNext /\ UNCHANGED <<episodeVars, agent>>
  <2>1. canonical \subseteq canonical'
    BY <1>3, MemoryStepAround DEF AgentInv
  <2>2. agent' = agent /\ UNCHANGED <<run, cited, proposal>>
    BY <1>3 DEF episodeVars
  <2> QED BY <1>1, <2>1, <2>2, StoreMoves DEF AgentInv, Stored
<1>4. ASSUME NEW r \in Runs, Downstream(r), UNCHANGED agent
      PROVE  AgentInv'
  BY <1>1, <1>4, DownstreamStep DEF AgentInv
<1>5. ASSUME NEW r \in Runs, BeginRun(r) \/ AgentStep(r) \/ Raise(r) \/ CleanUpFails(r) \/ Die(r)
      PROVE  LoopInv'
  <2>1. CASE BeginRun(r)
    BY <2>1, BeginStep
  <2>2. CASE Raise(r) \/ Die(r)
    BY <2>2, RaiseStep
  <2>3. CASE Converse(r) \/ Fetch(r) \/ EndMessage(r)
    BY <2>3, ConverseStep, FetchStepKeeps, EndMessageStep
  <2>4. ASSUME NEW C \in SUBSET KnownHashes, Search(r, C) \/ Propose(r, C)
        PROVE  LoopInv'
    BY <2>4, SearchStepKeeps, ProposeStepKeeps
  <2>5. CASE RecordShown(r) \/ RecordChoice(r)
    BY <2>5, RecordShownStep, RecordChoiceStep
  <2>6. CASE Close(r) \/ CleanUp(r) \/ CleanUpFails(r)
    BY <2>6, CloseStep
  <2> QED BY <1>5, <2>1, <2>2, <2>3, <2>4, <2>5, <2>6 DEF AgentStep
<1>6. AgentInv <=> EInv /\ LoopInv
  BY DEF AgentInv
<1> QED BY <1>1, <1>2, <1>3, <1>4, <1>5, <1>6 DEF AgentInv, AgentNext

LEMMA AgentInvariance == AgentSpec => []AgentInv
BY InitAgent, AgentStepInv, PTL DEF AgentSpec

-----------------------------------------------------------------------------
(* Theorems *)

\* AgentOrchestrator.run drives the store only as its other callers do: the
\* loop, with the model, the failures and the deaths it meets, implements the
\* episode store, so every theorem about the store holds of its runs.
THEOREM LoopImplementsStore == AgentSpec => EpisodeSpec
<1>1. AgentInit => EpisodeInit
  BY DEF AgentInit
<1> QED BY <1>1, LoopStep, AgentInvariance, PTL DEF AgentSpec, EpisodeSpec

\* The turns, the calls and the search of a run stay within their budgets, and
\* what it was shown is canonical.
THEOREM LoopTypes == AgentSpec => []AgentTypeOK
<1>1. AgentInv => AgentTypeOK
  <2> SUFFICES ASSUME AgentInv, NEW r \in Runs
               PROVE  /\ agent[r].phase \in Phases
                      /\ agent[r].turns \in 0..MaxTurns
                      /\ agent[r].calls \in 0..MaxCalls
                      /\ agent[r].searched \in 0..agent[r].turns
                      /\ agent[r].shown \subseteq KnownHashes
    BY DEF AgentTypeOK
  <2> PICK a \in AgentRecord : a = agent[r]
    BY DEF AgentInv, LoopInv
  <2>1. Local(r, a)
    BY DEF AgentInv, LoopInv, LocalOK
  <2> QED BY <2>1, OrchestratorAssumption DEF Local, AgentRecord
<1> QED BY <1>1, AgentInvariance, PTL

\* A durable proposal is grounded, however its message, its transactions and
\* their lost answers fell: everything the model saw is durable beside it, it
\* cites some of that if there was any, and it was made after the hits were
\* seen.
THEOREM ProposalsAreGrounded == AgentSpec => []GroundedProposal
<1>1. AgentInv => GroundedProposal
  <2> SUFFICES ASSUME AgentInv, NEW r \in Runs, proposal[r].status # "absent"
               PROVE  /\ cited[r] = agent[r].shown
                      /\ proposal[r].citations \subseteq cited[r]
                      /\ r \in Stateless => cited[r] = {}
                      /\ r \notin Stateless =>
                           /\ agent[r].searched \in 1..(agent[r].turns - 1)
                           /\ cited[r] # {} => proposal[r].citations # {}
    BY DEF GroundedProposal
  <2>1. Local(r, agent[r]) /\ Stored(r, agent[r])
    BY DEF AgentInv, LoopInv, LocalOK, StoredOK
  <2> QED BY <2>1 DEF Local, Stored
<1> QED BY <1>1, AgentInvariance, PTL

\* The caller of run() hears what the store holds, whatever is approved,
\* delivered or recorded after the loop let go of the run: an exception leaves
\* the run open only behind a clean-up that failed or a start_run that was not
\* answered, and no answer stands before a proposal the model did not make.
THEOREM AnswersMatch == AgentSpec => []AnswerMatchesStore
<1>1. AgentInv => AnswerMatchesStore
  <2> SUFFICES ASSUME AgentInv, NEW r \in Runs
               PROVE  /\ agent[r].phase = "proposed" => proposal[r].status # "absent"
                      /\ agent[r].phase = "finished" =>
                           run[r] = "failed" /\ proposal[r].status = "absent"
                      /\ agent[r].phase \in Returned /\ run[r] = "started" =>
                           agent[r].phase = "unsettled"
                      /\ proposal[r].status # "absent" =>
                           proposal[r].citations = agent[r].choice
    BY DEF AnswerMatchesStore
  <2>1. Stored(r, agent[r])
    BY DEF AgentInv, LoopInv, StoredOK
  <2>2. proposal[r].status # "absent" => run[r] # "started"
    BY DEF AgentInv, EInv, RunMatches
  <2> QED BY <2>1, <2>2 DEF Stored, Returned
<1> QED BY <1>1, AgentInvariance, PTL

\* Under the loop no verdict comes without approval, and a run that ended
\* without action never gets a proposal or an outcome.
THEOREM LoopVerdictsApproved == AgentSpec => []VerdictNeedsApproval
BY LoopImplementsStore, VerdictApproved, PTL
=============================================================================
