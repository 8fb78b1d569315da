------------------------------- MODULE Outbox -------------------------------
(***************************************************************************)
(* The transactional outbox: workers that lease a row, cross the provider  *)
(* boundary and acknowledge, reconcilers that repair what a crash left     *)
(* behind, the provider they call, and the part of the episode store the   *)
(* acknowledgement commits to (outcome evidence, attestation, journal).    *)
(*                                                                         *)
(* Every database transaction is SERIALIZABLE, hence one step.  A worker   *)
(* can be delayed or crash between any two of its steps.                   *)
(***************************************************************************)
EXTENDS Integers, FiniteSets

CONSTANTS
  Proposals,              \* approved proposals, one outbox row each
  Workers,                \* processes running process_one or reconcile
  Name,                   \* the worker_id each process was configured with
  Drifted,                \* processes whose live adapter is not the manifest's
  Nonces,                 \* random nonces of attestation handles
  NoProposal, NoOutcome, NoHandle,
  SupportsIdempotency, ReceiptLookup, ReconciliationTimeout,
  ReceiptsMayExpire,      \* the provider keeps receipts for a limited time
  LeaseSeconds, HandleSeconds,
  MaxTime, MaxCrashes, MaxEffects

ASSUME ManifestAssumption ==
  /\ SupportsIdempotency \in BOOLEAN
  /\ ReceiptLookup \in BOOLEAN
  /\ ReceiptsMayExpire \in BOOLEAN
  /\ ReconciliationTimeout \in Nat
  /\ ~ReceiptLookup => ReconciliationTimeout = 0

ASSUME BoundsAssumption ==
  /\ LeaseSeconds \in Nat \ {0}
  /\ HandleSeconds \in Nat \ {0}
  /\ MaxTime \in Nat
  /\ MaxCrashes \in Nat
  /\ MaxEffects \in Nat \ {0}

ASSUME NullAssumption ==
  /\ NoProposal \notin Proposals
  /\ NoHandle \notin Nonces
  /\ Drifted \subseteq Workers

VARIABLES
  clock,
  proposal, run,          \* proposed_actions.status, agent_runs.status
  row,                    \* action_outbox
  evidence,               \* outcome_evidence joined with its attestation
  canonical,              \* canonical memories: <<proposal, receipt>>
  journal,                \* decisions in the reconciliation journal
  effects, receipts,      \* the provider
  pc, task, at, result, handle,   \* the processes
  crashes

storeVars  == <<proposal, run, row>>
ledgerVars == <<run, evidence, canonical, journal>>
providerVars == <<effects, receipts>>
workerVars == <<pc, task, at, result, handle>>
vars == <<clock, proposal, run, row, evidence, canonical, journal, effects,
          receipts, pc, task, at, result, handle, crashes>>

-----------------------------------------------------------------------------
(* Data *)

RowStatus == {"absent", "pending", "leased", "dispatching", "sent",
              "acknowledged", "ambiguous"}
RunStatus == {"proposed", "enqueued", "succeeded", "failed", "ambiguous"}
TerminalRun == {"succeeded", "failed", "ambiguous"}

\* Where a process is: idle, or before the named step of its call.
Step == {"idle", "leased", "send", "resend", "store", "verify", "promote",
         "markAcknowledged", "requeue", "lookup", "giveUp", "markAmbiguous"}

\* What a provider answers: the receipt is the number of the effect behind it.
Reply == [status : {"succeeded", "failed"}, receipt : 1..MaxEffects]
Ambiguous == [status |-> "ambiguous", receipt |-> 0]
Outcome == Reply \cup {Ambiguous}
Handle == [nonce : Nonces, issuedAt : 0..MaxTime]
Evidence == [outcome : Outcome, nonce : Nonces \cup {NoHandle}]

Row == [status : RowStatus,
        owner : {Name[w] : w \in Workers} \cup {NoProposal},
        leaseExpires : 0..MaxTime, dispatchStarted : 0..MaxTime,
        outcome : Outcome \cup {NoOutcome}]

\* None is neither an outcome nor a row of outcome_evidence.
ASSUME NoneAssumption == NoOutcome \notin Outcome \cup Evidence

NoRow == [status |-> "absent", owner |-> NoProposal, leaseExpires |-> 0,
          dispatchStarted |-> 0, outcome |-> NoOutcome]

\* The horizon: every instant from MaxTime on is the same instant.
Later(t, d) == IF t + d < MaxTime THEN t + d ELSE MaxTime

Go(w, step) == pc' = [pc EXCEPT ![w] = step]

\* The call returns or raises: its locals are gone.
Return(w) ==
  /\ Go(w, "idle")
  /\ task' = [task EXCEPT ![w] = NoProposal]
  /\ at' = [at EXCEPT ![w] = 0]
  /\ result' = [result EXCEPT ![w] = NoOutcome]
  /\ handle' = [handle EXCEPT ![w] = NoHandle]

-----------------------------------------------------------------------------
Init ==
  /\ clock = 0
  /\ proposal = [p \in Proposals |-> "approved"]
  /\ run = [p \in Proposals |-> "proposed"]
  /\ row = [p \in Proposals |-> NoRow]
  /\ evidence = [p \in Proposals |-> NoOutcome]
  /\ canonical = {}
  /\ journal = [p \in Proposals |-> {}]
  /\ effects = [p \in Proposals |-> 0]
  /\ receipts = [p \in Proposals |-> NoOutcome]
  /\ pc = [w \in Workers |-> "idle"]
  /\ task = [w \in Workers |-> NoProposal]
  /\ at = [w \in Workers |-> 0]
  /\ result = [w \in Workers |-> NoOutcome]
  /\ handle = [w \in Workers |-> NoHandle]
  /\ crashes = 0

Tick ==
  /\ clock < MaxTime
  /\ clock' = clock + 1
  /\ UNCHANGED <<storeVars, evidence, canonical, journal, providerVars,
                 workerVars, crashes>>

-----------------------------------------------------------------------------
(* The outbox store *)

\* enqueue_proposal: the row, the proposal and the run move in one transaction.
\* A replay of an enqueued proposal only reads.
Enqueue(p) ==
  /\ proposal[p] = "approved"
  /\ run[p] = "proposed"
  /\ row' = [row EXCEPT ![p].status = "pending"]
  /\ proposal' = [proposal EXCEPT ![p] = "enqueued"]
  /\ run' = [run EXCEPT ![p] = "enqueued"]
  /\ UNCHANGED <<clock, evidence, canonical, journal, providerVars,
                 workerVars, crashes>>

\* Mutant: a lease that ran out is never taken over.
LeasableOnlyPending(p, now) == row[p].status = "pending"

Leasable(p, now) ==
  \/ row[p].status = "pending"
  \/ row[p].status = "leased" /\ row[p].leaseExpires <= now

\* lease_next.  SKIP LOCKED makes the choice among leasable rows arbitrary.
Lease(w, p) ==
  /\ pc[w] = "idle"
  /\ Leasable(p, clock)
  /\ row' = [row EXCEPT ![p].status = "leased",
                        ![p].owner = Name[w],
                        ![p].leaseExpires = Later(clock, LeaseSeconds)]
  /\ Go(w, "leased")
  /\ task' = [task EXCEPT ![w] = p]
  /\ at' = [at EXCEPT ![w] = clock]
  /\ UNCHANGED <<clock, proposal, run, evidence, canonical, journal,
                 providerVars, result, handle, crashes>>

\* Mutant: the status is not checked again.
HoldsLeaseInAnyStatus(w, p) ==
  w \notin Drifted /\ row[p].owner = Name[w] /\ row[p].leaseExpires >= at[w]

HoldsLease(w, p) ==
  /\ w \notin Drifted
  /\ row[p].status = "leased"
  /\ row[p].owner = Name[w]
  /\ row[p].leaseExpires >= at[w]

\* begin_dispatch: the durable marker written before the boundary is crossed.
BeginDispatch(w, p) ==
  /\ pc[w] = "leased"
  /\ task[w] = p
  /\ HoldsLease(w, p)
  /\ row' = [row EXCEPT ![p].status = "dispatching",
                        ![p].dispatchStarted = at[w]]
  /\ Go(w, "send")
  /\ UNCHANGED <<clock, proposal, run, evidence, canonical, journal,
                 providerVars, task, at, result, handle, crashes>>

\* _require_provider refuses the adapter, or the lease is absent or expired.
LoseLease(w) ==
  /\ pc[w] = "leased"
  /\ ~HoldsLease(w, task[w])
  /\ Return(w)
  /\ UNCHANGED <<clock, storeVars, evidence, canonical, journal,
                 providerVars, crashes>>

\* store_sent: only a dispatching row takes a response; replaying the stored
\* one is harmless.  Neither the owner nor the lease is looked at.
StoreSent(w, p) ==
  /\ pc[w] = "store"
  /\ task[w] = p
  /\ \/ /\ row[p].status = "dispatching"
        /\ row' = [row EXCEPT ![p].status = "sent",
                              ![p].outcome = result[w]]
     \/ /\ row[p].status = "sent"
        /\ row[p].outcome = result[w]
        /\ UNCHANGED row
  /\ Go(w, "verify")
  /\ UNCHANGED <<clock, proposal, run, evidence, canonical, journal,
                 providerVars, task, at, result, handle, crashes>>

StoreSentRefused(w) ==
  LET p == task[w] IN
  /\ pc[w] = "store"
  /\ row[p].status # "dispatching"
  /\ row[p].status = "sent" => row[p].outcome # result[w]
  /\ Return(w)
  /\ UNCHANGED <<clock, storeVars, evidence, canonical, journal,
                 providerVars, crashes>>

\* mark_acknowledged; on any other status it only reads (and raises unless
\* the row is already acknowledged).
MarkAcknowledged(w, p) ==
  /\ pc[w] = "markAcknowledged"
  /\ task[w] = p
  /\ row' = IF row[p].status = "sent"
            THEN [row EXCEPT ![p].status = "acknowledged",
                             ![p].owner = NoProposal, ![p].leaseExpires = 0]
            ELSE row
  /\ Return(w)
  /\ UNCHANGED <<clock, proposal, run, evidence, canonical, journal,
                 providerVars, crashes>>

\* mark_ambiguous, likewise.
MarkAmbiguous(w, p) ==
  /\ pc[w] = "markAmbiguous"
  /\ task[w] = p
  /\ row' = IF row[p].status = "dispatching"
            THEN [row EXCEPT ![p].status = "ambiguous",
                             ![p].outcome = Ambiguous,
                             ![p].owner = NoProposal, ![p].leaseExpires = 0]
            ELSE row
  /\ Return(w)
  /\ UNCHANGED <<clock, proposal, run, evidence, canonical, journal,
                 providerVars, crashes>>

LeaseRanOut(w, p) == row[p].status = "leased" /\ row[p].leaseExpires <= at[w]

\* requeue_expired: the lease is judged by the time the call was given.
RequeueExpired(w, p) ==
  /\ pc[w] = "requeue"
  /\ task[w] = p
  /\ row' = IF LeaseRanOut(w, p)
            THEN [row EXCEPT ![p].status = "pending",
                             ![p].owner = NoProposal, ![p].leaseExpires = 0]
            ELSE row
  /\ Return(w)
  /\ UNCHANGED <<clock, proposal, run, evidence, canonical, journal,
                 providerVars, crashes>>

-----------------------------------------------------------------------------
(* The provider (external) *)

\* An idempotent provider answers a known key from its receipt; any other send
\* is a new effect, and what the provider keeps of it depends on its manifest.
ProviderSend(p, reply) ==
  \/ /\ SupportsIdempotency
     /\ receipts[p] # NoOutcome
     /\ reply = receipts[p]
     /\ UNCHANGED providerVars
  \/ /\ ~(SupportsIdempotency /\ receipts[p] # NoOutcome)
     /\ effects[p] < MaxEffects
     /\ reply.receipt = effects[p] + 1
     /\ effects' = [effects EXCEPT ![p] = @ + 1]
     /\ receipts' = IF SupportsIdempotency \/ ReceiptLookup
                    THEN [receipts EXCEPT ![p] = reply]
                    ELSE receipts

\* The sandbox's receipt table drops an item when its time to live is over.
ExpireReceipt(p) ==
  /\ ReceiptsMayExpire
  /\ receipts[p] # NoOutcome
  /\ receipts' = [receipts EXCEPT ![p] = NoOutcome]
  /\ UNCHANGED <<clock, storeVars, evidence, canonical, journal, effects,
                 workerVars, crashes>>

\* process_one after its marker, or a reconciler of an idempotent provider.
Send(w, p) ==
  /\ pc[w] \in {"send", "resend"}
  /\ task[w] = p
  /\ \E reply \in Reply :
       /\ ProviderSend(p, reply)
       /\ result' = [result EXCEPT ![w] = reply]
  /\ Go(w, "store")
  /\ UNCHANGED <<clock, storeVars, evidence, canonical, journal, task, at,
                 handle, crashes>>

-----------------------------------------------------------------------------
(* The outcome ledger: record_outcome_and_promote *)

Spent == {evidence[p].nonce : p \in {q \in Proposals : evidence[q] # NoOutcome}}
InFlight == {handle[w].nonce : w \in {v \in Workers : handle[v] # NoHandle}}

Expired(h) == h # NoHandle /\ Later(h.issuedAt, HandleSeconds) < clock
NonceOf(h) == IF h = NoHandle THEN NoHandle ELSE h.nonce

\* Mutant: a memory for every outcome that names a receipt.
MemoryOfAnyOutcome(p, outcome) ==
  IF outcome.receipt # 0 THEN {<<p, outcome.receipt>>} ELSE {}

MemoryOf(p, outcome) ==
  IF outcome.status = "succeeded" THEN {<<p, outcome.receipt>>} ELSE {}

\* The first outcome of a proposal: evidence, consumed handle, canonical
\* memory, terminal run and journal entry commit together.
AcceptOutcome(p, outcome, h) ==
  /\ evidence[p] = NoOutcome
  /\ ~Expired(h)
  /\ h # NoHandle => h.nonce \notin Spent
  /\ run[p] \in {"proposed", "enqueued"}
  /\ evidence' = [evidence EXCEPT ![p] = [outcome |-> outcome,
                                          nonce |-> NonceOf(h)]]
  /\ run' = [run EXCEPT ![p] = outcome.status]
  /\ canonical' = canonical \cup MemoryOf(p, outcome)
  /\ journal' = [journal EXCEPT ![p] = @ \cup {"accepted"}]

\* The durable outcome again; a success also has to bring the handle that was
\* consumed for it.
ReplayOutcome(p, outcome, h) ==
  /\ evidence[p] # NoOutcome
  /\ evidence[p].outcome = outcome
  /\ outcome.status = "succeeded" => evidence[p].nonce = NonceOf(h)
  /\ journal' = [journal EXCEPT ![p] = @ \cup {"exact_replay"}]
  /\ UNCHANGED <<run, evidence, canonical>>

\* A different outcome: the conflict is journalled, committed, then raised.
ConflictOutcome(p, outcome, h) ==
  /\ evidence[p] # NoOutcome
  /\ evidence[p].outcome # outcome
  /\ ~Expired(h)
  /\ journal' = [journal EXCEPT ![p] = @ \cup {"conflict"}]
  /\ UNCHANGED <<run, evidence, canonical>>

\* The attestation is refused (expired, spent, or not the one that was
\* consumed) and the transaction leaves nothing behind.
RefuseOutcome(p, outcome, h) ==
  /\ \/ evidence[p] = NoOutcome /\ (Expired(h) \/ NonceOf(h) \in Spent \ {NoHandle})
     \/ /\ evidence[p] # NoOutcome
        /\ evidence[p].outcome # outcome
        /\ Expired(h)
     \/ /\ evidence[p] # NoOutcome
        /\ evidence[p].outcome = outcome
        /\ outcome.status = "succeeded"
        /\ evidence[p].nonce # NonceOf(h)
  /\ UNCHANGED ledgerVars

\* The call returns to the worker's step next, or raises.
RecordOutcome(w, p, outcome, h, next) ==
  \/ /\ AcceptOutcome(p, outcome, h) \/ ReplayOutcome(p, outcome, h)
     /\ Go(w, next)
     /\ UNCHANGED <<task, at, result, handle>>
  \/ /\ ConflictOutcome(p, outcome, h) \/ RefuseOutcome(p, outcome, h)
     /\ Return(w)

-----------------------------------------------------------------------------
(* The acknowledgement: _ack *)

\* A failure needs no attestation.
AckFailure(w) ==
  /\ pc[w] = "verify"
  /\ result[w].status = "failed"
  /\ Go(w, "promote")
  /\ UNCHANGED <<clock, storeVars, evidence, canonical, journal, providerVars,
                 task, at, result, handle, crashes>>

Verifiable(w) ==
  /\ ReceiptLookup
  /\ receipts[task[w]] = result[w]

\* A success is looked up again; the authority then issues a handle with its
\* own clock and a nonce nobody holds and no outcome consumed.
Attest(w) ==
  /\ pc[w] = "verify"
  /\ result[w].status = "succeeded"
  /\ Verifiable(w)
  /\ \E n \in Nonces \ (Spent \cup InFlight) :
       handle' = [handle EXCEPT ![w] = [nonce |-> n, issuedAt |-> clock]]
  /\ Go(w, "promote")
  /\ UNCHANGED <<clock, storeVars, evidence, canonical, journal, providerVars,
                 task, at, result, crashes>>

AttestRefused(w) ==
  /\ pc[w] = "verify"
  /\ result[w].status = "succeeded"
  /\ ~Verifiable(w)
  /\ Return(w)
  /\ UNCHANGED <<clock, storeVars, evidence, canonical, journal,
                 providerVars, crashes>>

Promote(w, p) ==
  /\ pc[w] = "promote"
  /\ task[w] = p
  /\ RecordOutcome(w, p, result[w], handle[w], "markAcknowledged")
  /\ UNCHANGED <<clock, proposal, row, providerVars, crashes>>

-----------------------------------------------------------------------------
(* Reconciliation: reconcile *)

\* Mutants: always give up; mark the row before the outcome
\* is recorded.
AlwaysGiveUp == "giveUp"
MarkFirst == IF SupportsIdempotency THEN "resend" ELSE "markAmbiguous"

\* Nothing tells whether the effect happened: an idempotent provider is asked
\* again, any other is given up.
WithoutReceipt == IF SupportsIdempotency THEN "resend" ELSE "giveUp"

\* The next step for the status that get read; the row may change meanwhile.
ReconcileStep(status) ==
  CASE status = "leased"      -> "requeue"
    [] status = "sent"        -> "verify"
    [] status = "dispatching" -> IF ReceiptLookup THEN "lookup" ELSE WithoutReceipt

\* On any other status the call returns what it read.
Reconcile(w, p) ==
  /\ pc[w] = "idle"
  /\ w \notin Drifted
  /\ row[p].status \in {"leased", "dispatching", "sent"}
  /\ Go(w, ReconcileStep(row[p].status))
  /\ task' = [task EXCEPT ![w] = p]
  /\ at' = [at EXCEPT ![w] = clock]
  /\ result' = [result EXCEPT ![w] = IF row[p].status = "sent"
                                     THEN row[p].outcome ELSE NoOutcome]
  /\ UNCHANGED <<clock, storeVars, evidence, canonical, journal, providerVars,
                 handle, crashes>>

\* dispatch_started_at is part of the row that get returned; it never changes
\* once the row is dispatching.
TimedOut(w) ==
  at[w] >= Later(row[task[w]].dispatchStarted, ReconciliationTimeout)

LookupFound(w) ==
  /\ pc[w] = "lookup"
  /\ receipts[task[w]] # NoOutcome
  /\ result' = [result EXCEPT ![w] = receipts[task[w]]]
  /\ Go(w, "store")
  /\ UNCHANGED <<clock, storeVars, evidence, canonical, journal, providerVars,
                 task, at, handle, crashes>>

LookupWaits(w) ==
  /\ pc[w] = "lookup"
  /\ receipts[task[w]] = NoOutcome
  /\ ~TimedOut(w)
  /\ Return(w)
  /\ UNCHANGED <<clock, storeVars, evidence, canonical, journal,
                 providerVars, crashes>>

LookupTimesOut(w) ==
  /\ pc[w] = "lookup"
  /\ receipts[task[w]] = NoOutcome
  /\ TimedOut(w)
  /\ Go(w, WithoutReceipt)
  /\ UNCHANGED <<clock, storeVars, evidence, canonical, journal, providerVars,
                 task, at, result, handle, crashes>>

\* The ambiguous outcome is recorded first; the row is marked in a later
\* transaction.
GiveUp(w, p) ==
  /\ pc[w] = "giveUp"
  /\ task[w] = p
  /\ RecordOutcome(w, p, Ambiguous, NoHandle, "markAmbiguous")
  /\ UNCHANGED <<clock, proposal, row, providerVars, crashes>>

-----------------------------------------------------------------------------
\* A process dies, or a call into the database or the provider raises.
Crash(w) ==
  /\ pc[w] # "idle"
  /\ crashes < MaxCrashes
  /\ crashes' = crashes + 1
  /\ Return(w)
  /\ UNCHANGED <<clock, storeVars, evidence, canonical, journal, providerVars>>

\* Every step of a process but its start and its crash.
WorkerStep(w) ==
  \/ LoseLease(w) \/ StoreSentRefused(w)
  \/ AckFailure(w) \/ Attest(w) \/ AttestRefused(w)
  \/ LookupFound(w) \/ LookupWaits(w) \/ LookupTimesOut(w)
  \/ \E p \in Proposals :
       \/ BeginDispatch(w, p) \/ Send(w, p) \/ StoreSent(w, p)
       \/ Promote(w, p) \/ MarkAcknowledged(w, p)
       \/ RequeueExpired(w, p) \/ GiveUp(w, p) \/ MarkAmbiguous(w, p)

Next ==
  \/ Tick
  \/ \E p \in Proposals : Enqueue(p) \/ ExpireReceipt(p)
  \/ \E w \in Workers, p \in Proposals : Lease(w, p) \/ Reconcile(w, p)
  \/ \E w \in Workers : WorkerStep(w) \/ Crash(w)

Spec == Init /\ [][Next]_vars

-----------------------------------------------------------------------------
(* Properties *)

TypeOK ==
  /\ clock \in 0..MaxTime
  /\ proposal \in [Proposals -> {"approved", "enqueued"}]
  /\ run \in [Proposals -> RunStatus]
  /\ row \in [Proposals -> Row]
  /\ evidence \in [Proposals -> Evidence \cup {NoOutcome}]
  /\ canonical \subseteq (Proposals \X (1..MaxEffects))
  /\ journal \in [Proposals -> SUBSET {"accepted", "exact_replay", "conflict"}]
  /\ effects \in [Proposals -> 0..MaxEffects]
  /\ receipts \in [Proposals -> Reply \cup {NoOutcome}]
  /\ pc \in [Workers -> Step]
  /\ task \in [Workers -> Proposals \cup {NoProposal}]
  /\ at \in [Workers -> 0..MaxTime]
  /\ result \in [Workers -> Reply \cup {NoOutcome}]
  /\ handle \in [Workers -> Handle \cup {NoHandle}]
  /\ crashes \in 0..MaxCrashes

\* A provider without idempotency is never called blindly: whatever leases
\* expire, workers stall and reconcilers give up, it is sent one request at
\* most (module docstring of outbox.py).
NeverResentBlindly ==
  ~SupportsIdempotency => \A p \in Proposals : effects[p] <= 1

\* Until the durable dispatching marker no effect exists and nobody is about to
\* cause one, so handing the row to another worker is safe.
NoEffectBeforeMarker ==
  \A p \in Proposals :
    row[p].status \in {"absent", "pending", "leased"} =>
      /\ effects[p] = 0
      /\ \A w \in Workers : task[w] = p => pc[w] \notin {"send", "resend", "store"}

\* Canonical memory is earned: it exists exactly for the durable successes, and
\* its receipt is of an effect the provider really had.
CanonicalIsEarned ==
  /\ \A m \in canonical :
       /\ evidence[m[1]] # NoOutcome
       /\ evidence[m[1]].outcome = [status |-> "succeeded", receipt |-> m[2]]
       /\ m[2] <= effects[m[1]]
  /\ \A p \in Proposals :
       run[p] = "succeeded" => \E n \in 1..MaxEffects : <<p, n>> \in canonical

\* A settled row tells the same story as the episode: what was acknowledged is
\* the durable outcome, and an ambiguous row has an ambiguous episode.
SettledRowAgrees ==
  \A p \in Proposals :
    /\ row[p].status \in {"acknowledged", "ambiguous"} =>
         /\ evidence[p] # NoOutcome
         /\ evidence[p].outcome = row[p].outcome
         /\ run[p] = row[p].outcome.status
    /\ evidence[p] # NoOutcome => run[p] = evidence[p].outcome.status

-----------------------------------------------------------------------------
(* The outbox keeps the promise of ActionDelivery as long as the provider  *)
(* keeps its receipts.                                                     *)

Verdict == [p \in Proposals |-> IF run[p] \in TerminalRun THEN run[p] ELSE "open"]

Delivery == INSTANCE ActionDelivery WITH
              Actions <- Proposals, Recoverable <- SupportsIdempotency,
              effects <- effects, verdict <- Verdict

\* At most one effect and one verdict per action.
DeliversOnce == Delivery!Spec

-----------------------------------------------------------------------------
(* Liveness: processes that do not crash go on, somebody keeps polling and *)
(* reconciling, time passes, and a healthy worker sometimes gets from its  *)
(* lease to its marker before the lease runs out.                          *)

Healthy == Workers \ Drifted

Fairness ==
  /\ WF_vars(Tick)
  /\ \A w \in Workers : WF_vars(WorkerStep(w))
  /\ \A p \in Proposals :
       /\ SF_vars(\E w \in Healthy : Lease(w, p))
       /\ SF_vars(\E w \in Healthy : BeginDispatch(w, p))
       /\ SF_vars(\E w \in Healthy :
                    row[p].status \in {"dispatching", "sent"} /\ Reconcile(w, p))

FairSpec == Spec /\ Fairness

\* Every enqueued episode gets its verdict, whatever finite number of crashes
\* it takes.
EpisodeCloses ==
  \A p \in Proposals : row[p].status = "pending" ~> run[p] \in TerminalRun

\* "A crash after receipt persistence but before acknowledgement reuses the
\* durable receipt and the idempotent outcome-promotion transaction": a row
\* with a durable receipt is eventually acknowledged.
SentRowSettles ==
  \A p \in Proposals : row[p].status = "sent" ~> row[p].status = "acknowledged"
=============================================================================
