---------------------------- MODULE Orchestrator ----------------------------
(***************************************************************************)
(* The bounded tool loop that drives one agent run against the episode     *)
(* store.  A model is asked for its next message, whose tool blocks search *)
(* the incident's memory, fetch one hit, or propose; the proposal and all  *)
(* the citations shown become durable, or the run is finished without      *)
(* action.                                                                 *)
(*                                                                         *)
(* One process per run.  The model may answer anything; any call may fail, *)
(* a transaction may commit without its caller hearing of it, and the      *)
(* process may die.  Approval, delivery and the memory writers go on       *)
(* meanwhile, as EpisodeStore has them.                                    *)
(***************************************************************************)
EXTENDS EpisodeStore

CONSTANTS
  MaxTurns, MaxCalls,     \* max_model_turns, max_tool_calls
  SearchLimit,            \* the most hits a search returns
  NoChoice

ASSUME OrchestratorAssumption ==
  /\ MaxTurns \in Nat \ {0}
  /\ MaxCalls \in Nat \ {0}
  /\ SearchLimit \in Nat \ {0}

VARIABLE agent            \* the local state of run() for each run

agentVars == <<allVars, agent>>

-----------------------------------------------------------------------------
(* Data *)

\* How run() can end for a caller that is alive: with a result, or with an
\* exception.  It cannot tell the two exceptions apart: behind "raised" the
\* clean-up did its work or was refused, behind "unsettled" it failed as well,
\* or was never begun.  "lost" is a process that died.
Returned == {"proposed", "finished", "raised", "unsettled"}
Phases == {"idle", "ask", "tools", "write", "propose", "close", "exhausted",
           "fail", "lost"} \cup Returned

\* searched is the turn of the search, 0 before it; shown are the memories
\* behind the citation handles given out; choice is the proposal's citations.
NewAgent == [phase |-> "idle", turns |-> 0, calls |-> 0, allowed |-> {},
             answered |-> FALSE, searched |-> 0, fetched |-> FALSE,
             shown |-> {}, choice |-> NoChoice]

AgentInit == EpisodeInit /\ agent = [r \in Runs |-> NewAgent]

Goes(r, phase) == agent' = [agent EXCEPT ![r].phase = phase]

\* A call that changed the store returns, or its answer is lost on the way.
Hears(r, phase) == Goes(r, phase) \/ Goes(r, "fail")

\* _tool_specs: what the next message may use.
Tools(r) ==
  IF r \in Stateless THEN {"propose"}
  ELSE IF agent[r].searched = 0 THEN {"search"}
  ELSE {"propose"} \cup
       (IF agent[r].shown # {} /\ ~agent[r].fetched THEN {"fetch"} ELSE {})

-----------------------------------------------------------------------------
(* The loop *)

\* run: start_run is called outside the try, so when its answer is lost the
\* caller hears that exception and nobody is there to finish the run.
BeginRun(r) ==
  /\ agent[r].phase = "idle"
  /\ StartRun(r)
  /\ Goes(r, "ask") \/ Goes(r, "unsettled")

\* converse: the tools on offer are fixed for the whole message.
Converse(r) ==
  /\ agent[r].phase = "ask"
  /\ agent' = [agent EXCEPT ![r].phase = "tools", ![r].turns = @ + 1,
                            ![r].allowed = Tools(r), ![r].answered = FALSE]
  /\ UNCHANGED allVars

\* The next block of the message uses an allowed tool within the budget.
UsesTool(r, name) ==
  /\ agent[r].phase = "tools"
  /\ name \in agent[r].allowed
  /\ agent[r].calls < MaxCalls

Search(r, C) ==
  /\ UsesTool(r, "search")
  /\ agent[r].searched = 0
  /\ C \subseteq {m.event_hash : m \in Lineage(IncidentOf[r])}
  /\ Cardinality(C) <= SearchLimit
  /\ agent' = [agent EXCEPT ![r].calls = @ + 1, ![r].answered = TRUE,
                            ![r].searched = agent[r].turns, ![r].shown = C]
  /\ UNCHANGED allVars

Fetch(r) ==
  /\ UsesTool(r, "fetch")
  /\ ~agent[r].fetched
  /\ agent[r].shown # {}
  /\ agent' = [agent EXCEPT ![r].calls = @ + 1, ![r].answered = TRUE,
                            ![r].fetched = TRUE]
  /\ UNCHANGED allVars

\* _proposal: a memory arm cites what it was shown, and something if anything
\* was; the stateless arm cites nothing.
MayCite(r, C) ==
  /\ C \subseteq agent[r].shown
  /\ IF r \in Stateless THEN C = {}
     ELSE agent[r].searched # 0 /\ (agent[r].shown # {} => C # {})

Propose(r, C) ==
  /\ UsesTool(r, "propose")
  /\ agent[r].choice = NoChoice
  /\ MayCite(r, C)
  /\ agent' = [agent EXCEPT ![r].calls = @ + 1, ![r].choice = C]
  /\ UNCHANGED allVars

\* Mutant: the run of a silent model is left as it is.
EndMessageUnclosed(r) ==
  /\ agent[r].phase = "tools"
  /\ Goes(r, IF agent[r].choice # NoChoice THEN "write"
             ELSE IF ~agent[r].answered THEN "finished"
             ELSE IF agent[r].turns < MaxTurns THEN "ask" ELSE "exhausted")
  /\ UNCHANGED allVars

\* The message has no further block.
EndMessage(r) ==
  /\ agent[r].phase = "tools"
  /\ Goes(r, IF agent[r].choice # NoChoice THEN "write"
             ELSE IF ~agent[r].answered THEN "close"
             ELSE IF agent[r].turns < MaxTurns THEN "ask" ELSE "exhausted")
  /\ UNCHANGED allVars

\* Mutant: only what the proposal cites is kept.
RecordChosen(r) ==
  /\ agent[r].phase = "write"
  /\ RecordCitations(r, agent[r].choice)
  /\ Hears(r, "propose")

\* Everything the model was shown is made durable, cited or not ...
RecordShown(r) ==
  /\ agent[r].phase = "write"
  /\ RecordCitations(r, agent[r].shown)
  /\ Hears(r, "propose")

\* ... and then, in a second transaction, the proposal.
RecordChoice(r) ==
  /\ agent[r].phase = "propose"
  /\ RecordProposal(r, agent[r].choice)
  /\ Hears(r, "proposed")

\* A message without tool use ends the run, and so does the turn budget, which
\* then raises.
Close(r) ==
  /\ \/ agent[r].phase = "close" /\ Hears(r, "finished")
     \/ agent[r].phase = "exhausted" /\ Goes(r, "fail")
  /\ FinishWithoutAction(r)

\* A malformed message, a tool or model that fails, a contract or a budget
\* broken, a transaction that rolls back.
Raise(r) ==
  /\ agent[r].phase \in {"ask", "tools", "write", "propose", "close", "exhausted"}
  /\ Goes(r, "fail")
  /\ UNCHANGED allVars

\* Mutant: the exception just passes through.
CleanUpNothing(r) ==
  /\ agent[r].phase = "fail"
  /\ Goes(r, "raised")
  /\ UNCHANGED allVars

\* except Exception: finish the run, unless a proposal or a terminal record
\* owns the transition already; then raise again.
CleanUp(r) ==
  /\ agent[r].phase = "fail"
  /\ FinishWithoutAction(r) \/ (run[r] # "started" /\ UNCHANGED allVars)
  /\ Goes(r, "raised")

\* The clean-up fails itself: its transaction rolls back, or commits and its
\* answer is lost.  Spent retries are a RuntimeError and swallowed, any other
\* error takes the place of the first; either way the caller hears an exception
\* and nothing tries again.
CleanUpFails(r) ==
  /\ agent[r].phase = "fail"
  /\ FinishWithoutAction(r) \/ UNCHANGED allVars
  /\ Goes(r, "unsettled")

\* The process dies, and its caller with it.
Die(r) ==
  /\ agent[r].phase \notin {"idle", "lost"} \cup Returned
  /\ Goes(r, "lost")
  /\ UNCHANGED allVars

-----------------------------------------------------------------------------
AgentStep(r) ==
  \/ Converse(r) \/ Fetch(r) \/ EndMessage(r)
  \/ \E C \in SUBSET KnownHashes : Search(r, C) \/ Propose(r, C)
  \/ RecordShown(r) \/ RecordChoice(r) \/ Close(r) \/ CleanUp(r)

\* Approval, delivery and outcome, as the other callers of the store bring them.
Downstream(r) ==
  \/ EnqueueProposal(r)
  \/ \E human \in BOOLEAN : ApproveProposal(r, human)
  \/ \E o \in ReportedOutcomes : RecordOutcomeAndPromote(r, o, NoHandle)

AgentNext ==
  \/ MemoryNext /\ UNCHANGED <<episodeVars, agent>>
  \/ \E r \in Runs : Downstream(r) /\ UNCHANGED agent
  \/ \E r \in Runs : BeginRun(r) \/ AgentStep(r) \/ Raise(r) \/ CleanUpFails(r) \/ Die(r)

AgentSpec == AgentInit /\ [][AgentNext]_agentVars

\* run() is a plain loop: it goes on unless its process dies.
LiveAgentSpec == AgentSpec /\ \A r \in Runs : WF_agentVars(AgentStep(r))

-----------------------------------------------------------------------------
(* Properties *)

AgentTypeOK ==
  \A r \in Runs :
    /\ agent[r].phase \in Phases
    /\ agent[r].turns \in 0..MaxTurns
    /\ agent[r].calls \in 0..MaxCalls
    /\ agent[r].searched \in 0..agent[r].turns
    /\ agent[r].shown \subseteq KnownHashes

\* A durable proposal is grounded: a memory arm made it in a message later than
\* the one that searched, so having seen the hits; it cites some of them if
\* there were any, and everything the model saw, no more and no less, is durable
\* beside it.  The stateless arm cites nothing.
GroundedProposal ==
  \A r \in Runs : proposal[r].status # "absent" =>
    /\ cited[r] = agent[r].shown
    /\ proposal[r].citations \subseteq cited[r]
    /\ r \in Stateless => cited[r] = {}
    /\ r \notin Stateless =>
         /\ agent[r].searched \in 1..(agent[r].turns - 1)
         /\ cited[r] # {} => proposal[r].citations # {}

\* What the caller of run() hears agrees with the store, whatever was approved,
\* delivered or recorded in between.  A result with a proposal means the run has
\* one, a result without means the run failed and has none.  An exception may
\* hide a proposal that committed, or leave the run open, but the latter only if
\* the clean-up failed too or start_run was not answered; and whatever the
\* caller heard, a durable proposal is the one this model made.
AnswerMatchesStore ==
  \A r \in Runs :
    /\ agent[r].phase = "proposed" => proposal[r].status # "absent"
    /\ agent[r].phase = "finished" => run[r] = "failed" /\ proposal[r].status = "absent"
    /\ agent[r].phase \in Returned /\ run[r] = "started" => agent[r].phase = "unsettled"
    /\ proposal[r].status # "absent" => proposal[r].citations = agent[r].choice

\* A run that was started does not stay open: it leaves "started" by a proposal
\* or by a failure, unless its process died, the clean-up of its failure failed,
\* or start_run was not answered.  Those runs stay open for good.
RunIsSettled ==
  \A r \in Runs : run[r] = "started" ~>
    (run[r] # "started" \/ agent[r].phase \in {"lost", "unsettled"})
=============================================================================
