---------------------------- MODULE OutboxProofs ----------------------------
(***************************************************************************)
(* Theorems about the outbox, for every number of proposals, processes,    *)
(* nonces, crashes and effects, and every provider manifest.               *)
(***************************************************************************)
EXTENDS Outbox, TLAPS

-----------------------------------------------------------------------------
(* The inductive invariant *)

\* The types by component, and what they rest on: a busy process works on a
\* proposal; one that holds a response holds a reply of the provider, and so
\* does a sent row.
RowsOK ==
  /\ proposal \in [Proposals -> {"approved", "enqueued"}]
  /\ row \in [Proposals -> Row]
  /\ \A p \in Proposals : row[p].status = "sent" => row[p].outcome \in Reply

LedgerOK ==
  /\ run \in [Proposals -> RunStatus]
  /\ evidence \in [Proposals -> Evidence \cup {NoOutcome}]
  /\ canonical \subseteq (Proposals \X (1..MaxEffects))
  /\ journal \in [Proposals -> SUBSET {"accepted", "exact_replay", "conflict"}]

ProviderOK ==
  /\ effects \in [Proposals -> 0..MaxEffects]
  /\ receipts \in [Proposals -> Reply \cup {NoOutcome}]

WorkersOK ==
  /\ pc \in [Workers -> Step]
  /\ task \in [Workers -> Proposals \cup {NoProposal}]
  /\ at \in [Workers -> 0..MaxTime]
  /\ result \in [Workers -> Reply \cup {NoOutcome}]
  /\ handle \in [Workers -> Handle \cup {NoHandle}]
  /\ \A w \in Workers :
       /\ pc[w] # "idle" => task[w] \in Proposals
       /\ pc[w] \in {"store", "verify", "promote"} => result[w] \in Reply

CountersOK == clock \in 0..MaxTime /\ crashes \in 0..MaxCrashes

TInv == RowsOK /\ LedgerOK /\ ProviderOK /\ WorkersOK /\ CountersOK

LEMMA TypesOK == TInv => TypeOK
BY DEF TInv, RowsOK, LedgerOK, ProviderOK, WorkersOK, CountersOK, TypeOK

BeforeMarker == {"absent", "pending", "leased"}

\* A row exists only for an enqueued proposal; an effect, or a process past its
\* marker, leaves the row past the marker.
Marked ==
  /\ \A p \in Proposals : proposal[p] = "approved" => row[p].status = "absent"
  /\ \A p \in Proposals : effects[p] > 0 => row[p].status \notin BeforeMarker
  /\ \A w \in Workers : pc[w] \notin {"idle", "leased", "requeue"} =>
                          row[task[w]].status \notin BeforeMarker

\* Without idempotency one process at most is about to send for a row, for the
\* first time, and nobody sends again.
SendsOnce ==
  ~SupportsIdempotency =>
    /\ \A p \in Proposals : effects[p] <= 1
    /\ \A w \in Workers : pc[w] # "resend"
    /\ \A w \in Workers : pc[w] = "send" => effects[task[w]] = 0
    /\ \A v, w \in Workers :
         pc[v] = "send" /\ pc[w] = "send" /\ task[v] = task[w] => v = w

IInv == TInv /\ Marked /\ SendsOnce

-----------------------------------------------------------------------------
(* Type correctness *)

LEMMA LaterType ==
  ASSUME NEW t \in 0..MaxTime, NEW d \in Nat
  PROVE  Later(t, d) \in 0..MaxTime
BY BoundsAssumption DEF Later

LEMMA InitTInv == Init => TInv
BY BoundsAssumption
   DEF Init, TInv, RowsOK, LedgerOK, ProviderOK, WorkersOK, CountersOK, NoRow,
       Row, RowStatus, RunStatus, Step

-----------------------------------------------------------------------------
(* Rows *)

Owners == {Name[w] : w \in Workers} \cup {NoProposal}

LEMMA OwnersFacts ==
  /\ NoProposal \in Owners
  /\ \A w \in Workers : Name[w] \in Owners
  /\ 0 \in 0..MaxTime
BY BoundsAssumption DEF Owners

\* The rows the outbox store writes, field by field.
LEMMA RowEnqueued ==
  ASSUME NEW r \in Row, NEW s \in RowStatus
  PROVE  LET n == [r EXCEPT !.status = s]
         IN  n \in Row /\ n.status = s /\ n.outcome = r.outcome
BY DEF Row

LeasedRow(r, s, o, t) == [r EXCEPT !.status = s, !.owner = o, !.leaseExpires = t]

LEMMA RowLeased ==
  ASSUME NEW r \in Row, NEW s \in RowStatus, NEW o \in Owners, NEW t \in 0..MaxTime
  PROVE  /\ LeasedRow(r, s, o, t) \in Row
         /\ LeasedRow(r, s, o, t).status = s
         /\ LeasedRow(r, s, o, t).outcome = r.outcome
BY DEF Row, Owners, LeasedRow

LEMMA RowDispatched ==
  ASSUME NEW r \in Row, NEW s \in RowStatus, NEW t \in 0..MaxTime
  PROVE  LET n == [r EXCEPT !.status = s, !.dispatchStarted = t]
         IN  n \in Row /\ n.status = s /\ n.outcome = r.outcome
BY DEF Row

LEMMA RowSent ==
  ASSUME NEW r \in Row, NEW s \in RowStatus, NEW x \in Outcome
  PROVE  LET n == [r EXCEPT !.status = s, !.outcome = x]
         IN  n \in Row /\ n.status = s /\ n.outcome = x
BY DEF Row

SettledRow(r, s, x, o, t) ==
  [r EXCEPT !.status = s, !.outcome = x, !.owner = o, !.leaseExpires = t]

LEMMA RowSettled ==
  ASSUME NEW r \in Row, NEW s \in RowStatus, NEW x \in Outcome,
         NEW o \in Owners, NEW t \in 0..MaxTime
  PROVE  /\ SettledRow(r, s, x, o, t) \in Row
         /\ SettledRow(r, s, x, o, t).status = s
         /\ SettledRow(r, s, x, o, t).outcome = x
BY DEF Row, Owners, SettledRow

LEMMA RowUpdate ==
  ASSUME row \in [Proposals -> Row], NEW p \in Proposals, NEW r \in Row,
         row' = [row EXCEPT ![p] = r]
  PROVE  /\ row' \in [Proposals -> Row]
         /\ row'[p] = r
         /\ \A q \in Proposals : q # p => row'[q] = row[q]
OBVIOUS

\* What each writer leaves in the row it writes, and in the others.
WritesRow(p, status, outcome) ==
  /\ row' \in [Proposals -> Row]
  /\ row'[p].status = status
  /\ row'[p].outcome = outcome
  /\ \A q \in Proposals : q # p => row'[q] = row[q]

LEMMA EnqueueRow ==
  ASSUME NEW p \in Proposals, RowsOK, Enqueue(p)
  PROVE  WritesRow(p, "pending", row[p].outcome)
<1> DEFINE r == [row[p] EXCEPT !.status = "pending"]
<1>1. row[p] \in Row /\ row \in [Proposals -> Row]
  BY DEF RowsOK
<1>2. r \in Row /\ r.status = "pending" /\ r.outcome = row[p].outcome
  BY <1>1, RowEnqueued DEF RowStatus
<1>3. row' = [row EXCEPT ![p] = r]
  BY Zenon DEF Enqueue
<1> HIDE DEF r
<1> QED BY <1>1, <1>2, <1>3, RowUpdate DEF WritesRow

LEMMA LeaseRow ==
  ASSUME NEW w \in Workers, NEW p \in Proposals, RowsOK, CountersOK, Lease(w, p)
  PROVE  WritesRow(p, "leased", row[p].outcome)
<1> DEFINE t == Later(clock, LeaseSeconds)
           r == LeasedRow(row[p], "leased", Name[w], t)
<1>1. row[p] \in Row /\ row \in [Proposals -> Row]
  BY DEF RowsOK
<1>2. t \in 0..MaxTime
  BY LaterType, BoundsAssumption DEF CountersOK
<1>3. r \in Row /\ r.status = "leased" /\ r.outcome = row[p].outcome
  <2> HIDE DEF t
  <2>1. "leased" \in RowStatus
    BY DEF RowStatus
  <2> QED BY <1>1, <1>2, <2>1, RowLeased, OwnersFacts
<1>4. row' = [row EXCEPT ![p] = r]
  BY Zenon DEF Lease, LeasedRow
<1> HIDE DEF r
<1> QED BY <1>1, <1>3, <1>4, RowUpdate DEF WritesRow

LEMMA BeginDispatchRow ==
  ASSUME NEW w \in Workers, NEW p \in Proposals, RowsOK, WorkersOK,
         BeginDispatch(w, p)
  PROVE  WritesRow(p, "dispatching", row[p].outcome)
<1> DEFINE r == [row[p] EXCEPT !.status = "dispatching", !.dispatchStarted = at[w]]
<1>1. row[p] \in Row /\ row \in [Proposals -> Row] /\ at[w] \in 0..MaxTime
  BY DEF RowsOK, WorkersOK
<1>2. r \in Row /\ r.status = "dispatching" /\ r.outcome = row[p].outcome
  BY <1>1, RowDispatched DEF RowStatus
<1>3. row' = [row EXCEPT ![p] = r]
  BY Zenon DEF BeginDispatch
<1> HIDE DEF r
<1> QED BY <1>1, <1>2, <1>3, RowUpdate DEF WritesRow

LEMMA StoreSentRow ==
  ASSUME NEW w \in Workers, NEW p \in Proposals, RowsOK, WorkersOK,
         StoreSent(w, p)
  PROVE  /\ row[p].status \in {"dispatching", "sent"}
         /\ result[w] \in Reply
         /\ WritesRow(p, "sent", result[w])
<1> DEFINE r == [row[p] EXCEPT !.status = "sent", !.outcome = result[w]]
<1>1. row[p] \in Row /\ row \in [Proposals -> Row] /\ result[w] \in Reply
  BY DEF RowsOK, WorkersOK, StoreSent
<1>2. CASE row[p].status = "dispatching" /\ row' = [row EXCEPT ![p].status = "sent", ![p].outcome = result[w]]
  <2>1. r \in Row /\ r.status = "sent" /\ r.outcome = result[w]
    BY <1>1, RowSent DEF RowStatus, Outcome
  <2>2. row' = [row EXCEPT ![p] = r]
    BY <1>2, Zenon
  <2> HIDE DEF r
  <2> QED BY <1>1, <1>2, <2>1, <2>2, RowUpdate DEF WritesRow
<1>3. CASE row[p].status = "sent" /\ row[p].outcome = result[w] /\ UNCHANGED row
  BY <1>1, <1>3 DEF WritesRow
<1> QED BY <1>2, <1>3, Zenon DEF StoreSent

LEMMA MarkAcknowledgedRow ==
  ASSUME NEW w \in Workers, NEW p \in Proposals, RowsOK, MarkAcknowledged(w, p)
  PROVE  \/ row[p].status = "sent" /\ WritesRow(p, "acknowledged", row[p].outcome)
         \/ UNCHANGED row
<1> DEFINE r == LeasedRow(row[p], "acknowledged", NoProposal, 0)
<1>1. row[p] \in Row /\ row \in [Proposals -> Row]
  BY DEF RowsOK
<1>2. CASE row[p].status = "sent"
  <2>1. r \in Row /\ r.status = "acknowledged" /\ r.outcome = row[p].outcome
    <3>1. "acknowledged" \in RowStatus
      BY DEF RowStatus
    <3> QED BY <1>1, <3>1, RowLeased, OwnersFacts
  <2>2. row' = [row EXCEPT ![p] = r]
    BY <1>2, Zenon DEF MarkAcknowledged, LeasedRow
  <2> HIDE DEF r
  <2> QED BY <1>1, <1>2, <2>1, <2>2, RowUpdate DEF WritesRow
<1> QED BY <1>2, Zenon DEF MarkAcknowledged

LEMMA RequeueExpiredRow ==
  ASSUME NEW w \in Workers, NEW p \in Proposals, RowsOK, RequeueExpired(w, p)
  PROVE  \/ row[p].status = "leased" /\ WritesRow(p, "pending", row[p].outcome)
         \/ UNCHANGED row
<1> DEFINE r == LeasedRow(row[p], "pending", NoProposal, 0)
<1>1. row[p] \in Row /\ row \in [Proposals -> Row]
  BY DEF RowsOK
<1>2. CASE LeaseRanOut(w, p)
  <2>1. r \in Row /\ r.status = "pending" /\ r.outcome = row[p].outcome
    <3>1. "pending" \in RowStatus
      BY DEF RowStatus
    <3> QED BY <1>1, <3>1, RowLeased, OwnersFacts
  <2>2. row' = [row EXCEPT ![p] = r]
    BY <1>2, Zenon DEF RequeueExpired, LeasedRow
  <2>3. row[p].status = "leased"
    BY <1>2 DEF LeaseRanOut
  <2> HIDE DEF r
  <2> QED BY <1>1, <2>1, <2>2, <2>3, RowUpdate DEF WritesRow
<1> QED BY <1>2, Zenon DEF RequeueExpired

LEMMA MarkAmbiguousRow ==
  ASSUME NEW w \in Workers, NEW p \in Proposals, RowsOK, MarkAmbiguous(w, p)
  PROVE  \/ row[p].status = "dispatching" /\ WritesRow(p, "ambiguous", Ambiguous)
         \/ UNCHANGED row
<1> DEFINE r == SettledRow(row[p], "ambiguous", Ambiguous, NoProposal, 0)
<1>1. row[p] \in Row /\ row \in [Proposals -> Row]
  BY DEF RowsOK
<1>2. CASE row[p].status = "dispatching"
  <2>1. r \in Row /\ r.status = "ambiguous" /\ r.outcome = Ambiguous
    <3>1. "ambiguous" \in RowStatus /\ Ambiguous \in Outcome
      BY DEF RowStatus, Outcome
    <3> QED BY <1>1, <3>1, RowSettled, OwnersFacts
  <2>2. row' = [row EXCEPT ![p] = r]
    BY <1>2, Zenon DEF MarkAmbiguous, SettledRow
  <2> HIDE DEF r
  <2> QED BY <1>1, <1>2, <2>1, <2>2, RowUpdate DEF WritesRow
<1> QED BY <1>2, Zenon DEF MarkAmbiguous

-----------------------------------------------------------------------------
(* Processes and the ledger *)

\* Process w goes to a step; the others stay where they are.
Moves(w, step) ==
  /\ pc'[w] = step
  /\ \A v \in Workers : v # w => pc'[v] = pc[v] /\ task'[v] = task[v]

LEMMA ReturnWorkers ==
  ASSUME NEW w \in Workers, WorkersOK, Return(w)
  PROVE  WorkersOK' /\ Moves(w, "idle")
BY BoundsAssumption DEF WorkersOK, Return, Go, Moves, Step

LEMMA GoWorkers ==
  ASSUME NEW w \in Workers, NEW step \in Step, WorkersOK, Go(w, step),
         pc[w] # "idle",
         step \in {"store", "verify", "promote"} => result[w] \in Reply,
         UNCHANGED <<task, at, result, handle>>
  PROVE  WorkersOK' /\ Moves(w, step) /\ task'[w] = task[w]
BY DEF WorkersOK, Go, Moves

LEMMA OutcomeFacts ==
  ASSUME NEW o \in Outcome
  PROVE  /\ o.status \in RunStatus
         /\ o.status = "succeeded" => o \in Reply /\ o.receipt \in 1..MaxEffects
BY DEF Outcome, Reply, Ambiguous, RunStatus

LEMMA LedgerStep ==
  ASSUME NEW p \in Proposals, NEW o \in Outcome, NEW h \in Handle \cup {NoHandle},
         LedgerOK,
         \/ AcceptOutcome(p, o, h) \/ ReplayOutcome(p, o, h)
         \/ ConflictOutcome(p, o, h) \/ RefuseOutcome(p, o, h)
  PROVE  LedgerOK'
<1>1. CASE AcceptOutcome(p, o, h)
  <2>1. NonceOf(h) \in Nonces \cup {NoHandle}
    BY DEF NonceOf, Handle
  <2>2. [outcome |-> o, nonce |-> NonceOf(h)] \in Evidence
    BY <2>1 DEF Evidence
  <2>3. evidence' \in [Proposals -> Evidence \cup {NoOutcome}]
    BY <1>1, <2>2 DEF AcceptOutcome, LedgerOK
  <2>4. run' \in [Proposals -> RunStatus]
    BY <1>1, OutcomeFacts DEF AcceptOutcome, LedgerOK
  <2>5. MemoryOf(p, o) \subseteq (Proposals \X (1..MaxEffects))
    BY OutcomeFacts DEF MemoryOf
  <2>6. canonical' \subseteq (Proposals \X (1..MaxEffects))
    BY <1>1, <2>5 DEF AcceptOutcome, LedgerOK
  <2>7. journal' \in [Proposals -> SUBSET {"accepted", "exact_replay", "conflict"}]
    BY <1>1 DEF AcceptOutcome, LedgerOK
  <2> QED BY <2>3, <2>4, <2>6, <2>7 DEF LedgerOK
<1>2. CASE ReplayOutcome(p, o, h)
  BY <1>2 DEF ReplayOutcome, LedgerOK
<1>3. CASE ConflictOutcome(p, o, h)
  BY <1>3 DEF ConflictOutcome, LedgerOK
<1>4. CASE RefuseOutcome(p, o, h)
  BY <1>4 DEF RefuseOutcome, LedgerOK, ledgerVars
<1> QED BY <1>1, <1>2, <1>3, <1>4

\* Recording an outcome either moves the process on or ends its call.
LEMMA RecordStep ==
  ASSUME NEW w \in Workers, NEW p \in Proposals, NEW o \in Outcome,
         NEW h \in Handle \cup {NoHandle},
         NEW next \in {"markAcknowledged", "markAmbiguous"},
         LedgerOK, WorkersOK, pc[w] # "idle", RecordOutcome(w, p, o, h, next)
  PROVE  /\ LedgerOK' /\ WorkersOK'
         /\ Moves(w, "idle") \/ (Moves(w, next) /\ task'[w] = task[w])
<1>1. LedgerOK'
  BY LedgerStep, Zenon DEF RecordOutcome
<1>2. CASE Go(w, next) /\ UNCHANGED <<task, at, result, handle>>
  <2>1. next \in Step /\ next \notin {"store", "verify", "promote"}
    BY DEF Step
  <2> QED BY <1>1, <1>2, <2>1, GoWorkers
<1>3. CASE Return(w)
  BY <1>1, <1>3, ReturnWorkers
<1> QED BY <1>2, <1>3, Zenon DEF RecordOutcome

-----------------------------------------------------------------------------
(* Every step keeps the types *)

\* What a component does not touch keeps its types.
LEMMA Frames ==
  /\ RowsOK /\ UNCHANGED <<proposal, row>> => RowsOK'
  /\ LedgerOK /\ UNCHANGED <<run, evidence, canonical, journal>> => LedgerOK'
  /\ ProviderOK /\ UNCHANGED providerVars => ProviderOK'
  /\ WorkersOK /\ UNCHANGED workerVars => WorkersOK'
  /\ CountersOK /\ UNCHANGED <<clock, crashes>> => CountersOK'
BY DEF RowsOK, LedgerOK, ProviderOK, WorkersOK, CountersOK, providerVars, workerVars

LEMMA WrittenRows ==
  ASSUME NEW p \in Proposals, NEW s, NEW x, RowsOK, WritesRow(p, s, x),
         UNCHANGED proposal, s = "sent" => x \in Reply
  PROVE  RowsOK'
BY DEF RowsOK, WritesRow

LEMMA EnvironmentTInv ==
  ASSUME TInv
  PROVE  /\ Tick => TInv'
         /\ \A p \in Proposals : Enqueue(p) \/ ExpireReceipt(p) => TInv'
<1> USE DEF TInv
<1>1. ASSUME Tick PROVE TInv'
  <2>1. CountersOK'
    BY <1>1, BoundsAssumption DEF Tick, CountersOK
  <2> QED BY <1>1, <2>1, Frames DEF Tick, storeVars
<1>2. ASSUME NEW p \in Proposals, Enqueue(p) PROVE TInv'
  <2>1. RowsOK'
    BY <1>2, EnqueueRow DEF RowsOK, WritesRow, Enqueue
  <2>2. LedgerOK'
    BY <1>2 DEF LedgerOK, Enqueue, RunStatus
  <2> QED BY <1>2, <2>1, <2>2, Frames DEF Enqueue
<1>3. ASSUME NEW p \in Proposals, ExpireReceipt(p) PROVE TInv'
  <2>1. ProviderOK'
    BY <1>3 DEF ProviderOK, ExpireReceipt
  <2> QED BY <1>3, <2>1, Frames DEF ExpireReceipt, storeVars
<1> QED BY <1>1, <1>2, <1>3

LEMMA StartTInv ==
  ASSUME NEW w \in Workers, NEW p \in Proposals, TInv, Lease(w, p) \/ Reconcile(w, p)
  PROVE  TInv'
<1> USE DEF TInv
<1>1. CASE Lease(w, p)
  <2>1. RowsOK'
    BY <1>1, LeaseRow, WrittenRows, Zenon DEF Lease
  <2>2. WorkersOK'
    BY <1>1 DEF Lease, Go, WorkersOK, Step, CountersOK
  <2> QED BY <1>1, <2>1, <2>2, Frames DEF Lease
<1>2. CASE Reconcile(w, p)
  <2>1. ReconcileStep(row[p].status) \in Step
    BY <1>2 DEF Reconcile, ReconcileStep, WithoutReceipt, Step
  <2>2. ReconcileStep(row[p].status) \notin {"store", "promote"}
    BY <1>2 DEF Reconcile, ReconcileStep, WithoutReceipt
  <2>3. ReconcileStep(row[p].status) = "verify" => row[p].status = "sent"
    BY <1>2 DEF Reconcile, ReconcileStep, WithoutReceipt
  <2>4. row[p].status = "sent" => row[p].outcome \in Reply
    BY DEF RowsOK
  <2>5. WorkersOK'
    BY <1>2, <2>1, <2>2, <2>3, <2>4 DEF Reconcile, Go, WorkersOK, CountersOK
  <2> QED BY <1>2, <2>5, Frames DEF Reconcile, storeVars
<1> QED BY <1>1, <1>2

\* The steps a process takes on its own, with what they do to its position.
LEMMA LocalTInv ==
  ASSUME NEW w \in Workers, TInv,
         \/ LoseLease(w) \/ StoreSentRefused(w) \/ AckFailure(w) \/ Attest(w)
         \/ AttestRefused(w) \/ LookupFound(w) \/ LookupWaits(w)
         \/ LookupTimesOut(w) \/ Crash(w)
  PROVE  /\ TInv'
         /\ UNCHANGED <<row, effects>>
         /\ \/ Moves(w, "idle")
            \/ /\ pc[w] \in {"verify", "lookup"}
               /\ task'[w] = task[w]
               /\ \/ Moves(w, "promote") \/ Moves(w, "store")
                  \/ Moves(w, WithoutReceipt)
<1> USE DEF TInv
<1>1. CASE LoseLease(w)
  BY <1>1, ReturnWorkers, Frames DEF LoseLease, storeVars, providerVars
<1>2. CASE StoreSentRefused(w)
  BY <1>2, ReturnWorkers, Frames DEF StoreSentRefused, storeVars, providerVars
<1>3. CASE AckFailure(w)
  <2>1. WorkersOK' /\ Moves(w, "promote") /\ task'[w] = task[w]
    BY <1>3 DEF AckFailure, WorkersOK, Go, Step, Moves
  <2> QED BY <1>3, <2>1, Frames DEF AckFailure, storeVars, providerVars
<1>4. CASE Attest(w)
  <2>1. \E n \in Nonces : handle' = [handle EXCEPT ![w] = [nonce |-> n, issuedAt |-> clock]]
    BY <1>4 DEF Attest
  <2>2. handle' \in [Workers -> Handle \cup {NoHandle}]
    BY <2>1 DEF Handle, WorkersOK, CountersOK
  <2>3. /\ pc' = [pc EXCEPT ![w] = "promote"] /\ pc[w] = "verify"
        /\ UNCHANGED <<task, at, result>>
    BY <1>4 DEF Attest, Go
  <2>4. WorkersOK' /\ Moves(w, "promote") /\ task'[w] = task[w]
    BY <2>2, <2>3 DEF WorkersOK, Step, Moves
  <2> QED BY <1>4, <2>3, <2>4, Frames DEF Attest, storeVars, providerVars
<1>5. CASE AttestRefused(w)
  BY <1>5, ReturnWorkers, Frames DEF AttestRefused, storeVars, providerVars
<1>6. CASE LookupFound(w)
  <2>1. task[w] \in Proposals /\ receipts[task[w]] \in Reply
    BY <1>6 DEF LookupFound, WorkersOK, ProviderOK
  <2>2. WorkersOK' /\ Moves(w, "store") /\ task'[w] = task[w]
    BY <1>6, <2>1 DEF LookupFound, WorkersOK, Go, Step, Moves
  <2> QED BY <1>6, <2>2, Frames DEF LookupFound, storeVars, providerVars
<1>7. CASE LookupWaits(w)
  BY <1>7, ReturnWorkers, Frames DEF LookupWaits, storeVars, providerVars
<1>8. CASE LookupTimesOut(w)
  <2>1. WithoutReceipt \in Step \ {"store", "verify", "promote"}
    BY DEF WithoutReceipt, Step
  <2>2. WorkersOK' /\ Moves(w, WithoutReceipt) /\ task'[w] = task[w]
    BY <1>8, <2>1, GoWorkers DEF LookupTimesOut
  <2> QED BY <1>8, <2>2, Frames DEF LookupTimesOut, storeVars, providerVars
<1>9. CASE Crash(w)
  <2>1. CountersOK'
    BY <1>9, BoundsAssumption DEF Crash, CountersOK
  <2> QED BY <1>9, <2>1, ReturnWorkers, Frames DEF Crash, storeVars, providerVars
<1> QED BY <1>1, <1>2, <1>3, <1>4, <1>5, <1>6, <1>7, <1>8, <1>9

LEMMA BeginDispatchTInv ==
  ASSUME NEW w \in Workers, NEW p \in Proposals, TInv, BeginDispatch(w, p)
  PROVE  /\ TInv'
         /\ pc[w] = "leased" /\ row[p].status = "leased" /\ task'[w] = p
         /\ WritesRow(p, "dispatching", row[p].outcome)
         /\ Moves(w, "send") /\ UNCHANGED effects
<1> USE DEF TInv
<1>1. WritesRow(p, "dispatching", row[p].outcome)
  BY BeginDispatchRow
<1>2. RowsOK'
  BY <1>1, WrittenRows, Zenon DEF BeginDispatch
<1>3. WorkersOK' /\ Moves(w, "send") /\ task'[w] = task[w]
  BY GoWorkers DEF BeginDispatch, Step
<1> QED BY <1>1, <1>2, <1>3, Frames DEF BeginDispatch, HoldsLease, providerVars

LEMMA SendTInv ==
  ASSUME NEW w \in Workers, NEW p \in Proposals, TInv, Send(w, p)
  PROVE  /\ TInv'
         /\ pc[w] \in {"send", "resend"} /\ task[w] = p /\ task'[w] = p
         /\ UNCHANGED row /\ Moves(w, "store")
         /\ \/ UNCHANGED effects
            \/ effects' = [effects EXCEPT ![p] = @ + 1]
<1> USE DEF TInv
<1>1. PICK reply \in Reply : ProviderSend(p, reply) /\ result' = [result EXCEPT ![w] = reply]
  BY DEF Send
<1>2. ProviderOK'
  <2>1. CASE UNCHANGED providerVars
    BY <2>1, Frames
  <2>2. CASE /\ effects[p] < MaxEffects
             /\ effects' = [effects EXCEPT ![p] = @ + 1]
             /\ receipts' \in {receipts, [receipts EXCEPT ![p] = reply]}
    <3>1. effects' \in [Proposals -> 0..MaxEffects]
      BY <2>2, BoundsAssumption DEF ProviderOK
    <3>2. receipts' \in [Proposals -> Reply \cup {NoOutcome}]
      BY <2>2 DEF ProviderOK
    <3> QED BY <3>1, <3>2 DEF ProviderOK
  <2> QED BY <1>1, <2>1, <2>2 DEF ProviderSend
<1>3. WorkersOK' /\ Moves(w, "store") /\ task'[w] = task[w]
  BY <1>1 DEF Send, WorkersOK, Go, Step, Moves
<1>4. UNCHANGED effects \/ effects' = [effects EXCEPT ![p] = @ + 1]
  BY <1>1 DEF ProviderSend, providerVars
<1> QED BY <1>2, <1>3, <1>4, Frames DEF Send, storeVars

LEMMA StoreSentTInv ==
  ASSUME NEW w \in Workers, NEW p \in Proposals, TInv, StoreSent(w, p)
  PROVE  /\ TInv'
         /\ pc[w] = "store" /\ row[p].status \in {"dispatching", "sent"}
         /\ task'[w] = p
         /\ WritesRow(p, "sent", result[w])
         /\ Moves(w, "verify") /\ UNCHANGED effects
<1> USE DEF TInv
<1>1. /\ row[p].status \in {"dispatching", "sent"}
      /\ result[w] \in Reply
      /\ WritesRow(p, "sent", result[w])
  BY StoreSentRow
<1>2. RowsOK'
  BY <1>1, WrittenRows, Zenon DEF StoreSent
<1>3. WorkersOK' /\ Moves(w, "verify") /\ task'[w] = task[w]
  BY <1>1, GoWorkers DEF StoreSent, Step
<1> QED BY <1>1, <1>2, <1>3, Frames DEF StoreSent, providerVars

\* The outcome transaction leaves the outbox row and the provider alone.
LEMMA RecordTInv ==
  ASSUME NEW w \in Workers, NEW p \in Proposals, TInv, Promote(w, p) \/ GiveUp(w, p)
  PROVE  /\ TInv'
         /\ pc[w] \in {"promote", "giveUp"}
         /\ UNCHANGED <<row, effects>>
         /\ \/ Moves(w, "idle")
            \/ /\ Moves(w, "markAcknowledged") \/ Moves(w, "markAmbiguous")
               /\ task'[w] = task[w]
<1> USE DEF TInv
<1>1. CASE Promote(w, p)
  <2>1. result[w] \in Outcome /\ handle[w] \in Handle \cup {NoHandle}
    BY <1>1 DEF Promote, WorkersOK, Outcome
  <2>2. /\ LedgerOK' /\ WorkersOK'
        /\ \/ Moves(w, "idle")
           \/ Moves(w, "markAcknowledged") /\ task'[w] = task[w]
    BY <1>1, <2>1, RecordStep DEF Promote
  <2> QED BY <1>1, <2>2, Frames DEF Promote, providerVars
<1>2. CASE GiveUp(w, p)
  <2>1. Ambiguous \in Outcome /\ NoHandle \in Handle \cup {NoHandle}
    BY DEF Outcome
  <2>2. /\ LedgerOK' /\ WorkersOK'
        /\ \/ Moves(w, "idle")
           \/ Moves(w, "markAmbiguous") /\ task'[w] = task[w]
    BY <1>2, <2>1, RecordStep DEF GiveUp
  <2> QED BY <1>2, <2>2, Frames DEF GiveUp, providerVars
<1> QED BY <1>1, <1>2

\* The last transaction of a call settles the row, requeues it or only reads.
LEMMA MarkTInv ==
  ASSUME NEW w \in Workers, NEW p \in Proposals, TInv,
         MarkAcknowledged(w, p) \/ MarkAmbiguous(w, p) \/ RequeueExpired(w, p)
  PROVE  /\ TInv'
         /\ Moves(w, "idle") /\ UNCHANGED effects
         /\ \/ UNCHANGED row
            \/ /\ row[p].status = "sent"
               /\ WritesRow(p, "acknowledged", row[p].outcome)
            \/ /\ row[p].status = "dispatching"
               /\ WritesRow(p, "ambiguous", Ambiguous)
            \/ /\ row[p].status = "leased"
               /\ WritesRow(p, "pending", row[p].outcome)
<1> USE DEF TInv
<1>1. /\ Return(w) /\ UNCHANGED providerVars
      /\ UNCHANGED <<clock, crashes, proposal, run, evidence, canonical, journal>>
  BY DEF MarkAcknowledged, MarkAmbiguous, RequeueExpired
<1>2. WorkersOK' /\ Moves(w, "idle")
  BY <1>1, ReturnWorkers
<1>3. \/ UNCHANGED row
      \/ row[p].status = "sent" /\ WritesRow(p, "acknowledged", row[p].outcome)
      \/ row[p].status = "dispatching" /\ WritesRow(p, "ambiguous", Ambiguous)
      \/ row[p].status = "leased" /\ WritesRow(p, "pending", row[p].outcome)
  BY MarkAcknowledgedRow, MarkAmbiguousRow, RequeueExpiredRow
<1>4. RowsOK'
  BY <1>1, <1>3, Frames, WrittenRows
<1> QED BY <1>1, <1>2, <1>3, <1>4, Frames DEF providerVars

-----------------------------------------------------------------------------
(* Every step keeps the marker before the effect *)

LEMMA InitIInv == Init => IInv
BY InitTInv DEF Init, IInv, Marked, SendsOnce, NoRow, BeforeMarker

\* A step that moves process w, keeps marked rows marked and makes an effect
\* only behind a marker.
LEMMA MarkedStep ==
  ASSUME NEW w \in Workers, NEW step, TInv, TInv', Marked, Moves(w, step),
         UNCHANGED proposal,
         \A p \in Proposals :
           /\ row[p].status = "absent" => row'[p].status = "absent"
           /\ row[p].status \notin BeforeMarker => row'[p].status \notin BeforeMarker
           /\ effects'[p] > 0 => effects[p] > 0 \/ row'[p].status \notin BeforeMarker,
         step \notin {"idle", "leased", "requeue"} =>
           row'[task'[w]].status \notin BeforeMarker
  PROVE  Marked'
<1>1. ASSUME NEW v \in Workers, pc'[v] \notin {"idle", "leased", "requeue"}
      PROVE  row'[task'[v]].status \notin BeforeMarker
  <2>1. CASE v = w
    BY <1>1, <2>1 DEF Moves
  <2>2. CASE v # w
    <3>1. pc[v] \notin {"idle", "leased", "requeue"} /\ task'[v] = task[v]
      BY <1>1, <2>2 DEF Moves
    <3>2. task[v] \in Proposals
      BY <3>1 DEF TInv, WorkersOK
    <3> QED BY <3>1, <3>2 DEF Marked
  <2> QED BY <2>1, <2>2
<1>2. \A p \in Proposals : effects'[p] > 0 => row'[p].status \notin BeforeMarker
  BY DEF Marked
<1>3. \A p \in Proposals : proposal'[p] = "approved" => row'[p].status = "absent"
  BY DEF Marked
<1> QED BY <1>1, <1>2, <1>3 DEF Marked

\* A step that moves process w to anywhere but a send, without an effect.
LEMMA SilentStep ==
  ASSUME NEW w \in Workers, NEW step, TInv', SendsOnce, Moves(w, step),
         step # "send", ~SupportsIdempotency => step # "resend", UNCHANGED effects
  PROVE  SendsOnce'
BY DEF SendsOnce, Moves, TInv, WorkersOK

LEMMA EnvironmentIInv ==
  ASSUME IInv
  PROVE  /\ Tick => IInv'
         /\ \A p \in Proposals : Enqueue(p) \/ ExpireReceipt(p) => IInv'
<1> USE DEF IInv
<1>1. ASSUME Tick PROVE IInv'
  BY <1>1, EnvironmentTInv
     DEF Tick, Marked, SendsOnce, storeVars, providerVars, workerVars
<1>2. ASSUME NEW p \in Proposals, Enqueue(p) PROVE IInv'
  <2>1. row[p].status = "absent" /\ TInv'
    BY <1>2, EnvironmentTInv DEF Enqueue, Marked
  <2>2. WritesRow(p, "pending", row[p].outcome)
    BY <1>2, EnqueueRow DEF TInv
  <2>3. UNCHANGED <<effects, pc, task>> /\ proposal' = [proposal EXCEPT ![p] = "enqueued"]
    BY <1>2 DEF Enqueue, providerVars, workerVars
  <2>4. Marked'
    <3>1. \A q \in Proposals : proposal'[q] = "approved" => row'[q].status = "absent"
      BY <2>2, <2>3 DEF Marked, WritesRow, TInv, RowsOK
    <3>2. \A q \in Proposals : effects'[q] > 0 => row'[q].status \notin BeforeMarker
      BY <2>1, <2>2, <2>3 DEF Marked, WritesRow, BeforeMarker
    <3>3. \A w \in Workers : pc[w] \notin {"idle", "leased", "requeue"} => task[w] \in Proposals
      BY DEF TInv, WorkersOK
    <3>4. \A w \in Workers : pc'[w] \notin {"idle", "leased", "requeue"} =>
                              row'[task'[w]].status \notin BeforeMarker
      BY <2>1, <2>2, <2>3, <3>3 DEF Marked, WritesRow, BeforeMarker
    <3> QED BY <3>1, <3>2, <3>4 DEF Marked
  <2>5. SendsOnce'
    BY <2>3 DEF SendsOnce
  <2> QED BY <2>1, <2>4, <2>5
<1>3. ASSUME NEW p \in Proposals, ExpireReceipt(p) PROVE IInv'
  BY <1>3, EnvironmentTInv DEF ExpireReceipt, Marked, SendsOnce, storeVars, workerVars
<1> QED BY <1>1, <1>2, <1>3

LEMMA StartIInv ==
  ASSUME NEW w \in Workers, NEW p \in Proposals, IInv, Lease(w, p) \/ Reconcile(w, p)
  PROVE  IInv'
<1> USE DEF IInv
<1>1. TInv'
  BY StartTInv
<1>2. CASE Lease(w, p)
  <2>1. row[p].status \in {"pending", "leased"}
    BY <1>2 DEF Lease, Leasable
  <2>2. /\ WritesRow(p, "leased", row[p].outcome)
        /\ Moves(w, "leased") /\ UNCHANGED <<proposal, effects>>
    BY <1>2, LeaseRow DEF TInv, Lease, Moves, Go, WorkersOK, providerVars
  <2>3. Marked'
    BY <1>1, <2>1, <2>2, MarkedStep DEF WritesRow, BeforeMarker
  <2>4. SendsOnce'
    BY <1>1, <2>2, SilentStep
  <2> QED BY <1>1, <2>3, <2>4
<1>3. CASE Reconcile(w, p)
  <2> DEFINE step == ReconcileStep(row[p].status)
  <2>1. /\ row[p].status \in {"leased", "dispatching", "sent"}
        /\ UNCHANGED <<proposal, row, effects>> /\ task'[w] = p
        /\ Moves(w, step)
    BY <1>3 DEF Reconcile, Moves, Go, TInv, WorkersOK, storeVars, providerVars
  <2>2. /\ step # "send"
        /\ ~SupportsIdempotency => step # "resend"
        /\ row[p].status = "leased" => step = "requeue"
    BY <2>1 DEF ReconcileStep, WithoutReceipt
  <2> HIDE DEF step
  <2>3. Marked'
    BY <1>1, <2>1, <2>2, MarkedStep DEF BeforeMarker
  <2>4. SendsOnce'
    BY <1>1, <2>1, <2>2, SilentStep
  <2> QED BY <1>1, <2>3, <2>4
<1> QED BY <1>2, <1>3

LEMMA LocalIInv ==
  ASSUME NEW w \in Workers, IInv,
         \/ LoseLease(w) \/ StoreSentRefused(w) \/ AckFailure(w) \/ Attest(w)
         \/ AttestRefused(w) \/ LookupFound(w) \/ LookupWaits(w)
         \/ LookupTimesOut(w) \/ Crash(w)
  PROVE  IInv'
<1> USE DEF IInv
<1>1. TInv' /\ UNCHANGED <<proposal, row, effects>>
  BY LocalTInv DEF LoseLease, StoreSentRefused, AckFailure, Attest, AttestRefused,
                   LookupFound, LookupWaits, LookupTimesOut, Crash, storeVars
<1>2. PICK step : /\ Moves(w, step) /\ step # "send"
                  /\ ~SupportsIdempotency => step # "resend"
                  /\ step # "idle" => /\ pc[w] \in {"verify", "lookup"}
                                      /\ task'[w] = task[w]
  <2>1. /\ WithoutReceipt # "send"
        /\ ~SupportsIdempotency => WithoutReceipt # "resend"
    BY DEF WithoutReceipt
  <2> QED BY <2>1, LocalTInv
<1>3. step # "idle" => row[task[w]].status \notin BeforeMarker
  BY <1>2 DEF Marked
<1>4. Marked'
  BY <1>1, <1>2, <1>3, MarkedStep DEF Marked
<1>5. SendsOnce'
  BY <1>1, <1>2, SilentStep
<1> QED BY <1>1, <1>4, <1>5

LEMMA DispatchIInv ==
  ASSUME NEW w \in Workers, NEW p \in Proposals, IInv, BeginDispatch(w, p)
  PROVE  IInv'
<1> USE DEF IInv
<1>1. /\ TInv' /\ UNCHANGED <<proposal, effects>>
      /\ pc[w] = "leased" /\ row[p].status = "leased" /\ task'[w] = p
      /\ WritesRow(p, "dispatching", row[p].outcome)
      /\ Moves(w, "send")
  BY BeginDispatchTInv DEF BeginDispatch
<1>2. Marked'
  BY <1>1, MarkedStep DEF WritesRow, BeforeMarker
<1>3. effects[p] = 0
  BY <1>1 DEF Marked, BeforeMarker, TInv, ProviderOK
\* Nobody else is about to send: the row was not marked.
<1>4. \A v \in Workers : v # w /\ pc[v] = "send" => task[v] # p
  BY <1>1 DEF Marked, BeforeMarker
<1>5. SendsOnce'
  BY <1>1, <1>3, <1>4 DEF SendsOnce, Moves
<1> QED BY <1>1, <1>2, <1>5

LEMMA SendIInv ==
  ASSUME NEW w \in Workers, NEW p \in Proposals, IInv, Send(w, p)
  PROVE  IInv'
<1> USE DEF IInv
<1>1. /\ TInv' /\ UNCHANGED <<proposal, row>>
      /\ pc[w] \in {"send", "resend"} /\ task[w] = p /\ task'[w] = p
      /\ Moves(w, "store")
  BY SendTInv DEF Send, storeVars
<1>2. UNCHANGED effects \/ effects' = [effects EXCEPT ![p] = @ + 1]
  BY SendTInv
<1>3. row[p].status \notin BeforeMarker
  BY <1>1 DEF Marked
<1>4. Marked'
  <2>1. \A q \in Proposals : effects'[q] > 0 => effects[q] > 0 \/ q = p
    BY <1>2 DEF TInv, ProviderOK
  <2> QED BY <1>1, <1>3, <2>1, MarkedStep
<1>5. SendsOnce'
  <2>1. CASE SupportsIdempotency
    BY <2>1 DEF SendsOnce
  <2>2. CASE ~SupportsIdempotency
    <3>1. /\ pc[w] = "send" /\ effects[p] = 0
          /\ \A v \in Workers : v # w /\ pc[v] = "send" => task[v] # p
      BY <1>1, <2>2 DEF SendsOnce
    <3>2. \A q \in Proposals : /\ effects'[q] <= 1
                               /\ q # p => effects'[q] = effects[q]
      BY <1>2, <2>2, <3>1 DEF SendsOnce, TInv, ProviderOK
    <3>3. \A v \in Workers : pc'[v] = "send" =>
            v # w /\ pc[v] = "send" /\ task'[v] = task[v] /\ task[v] \in Proposals
      BY <1>1 DEF Moves, TInv, WorkersOK
    <3>4. \A v \in Workers : pc'[v] # "resend"
      BY <1>1, <2>2 DEF Moves, SendsOnce
    <3>5. ASSUME NEW v \in Workers, pc'[v] = "send" PROVE effects'[task'[v]] = 0
      <4>1. v # w /\ pc[v] = "send" /\ task'[v] = task[v] /\ task[v] \in Proposals
        BY <3>3, <3>5
      <4>2. effects[task[v]] = 0
        BY <2>2, <4>1 DEF SendsOnce
      <4> QED BY <3>1, <3>2, <4>1, <4>2
    <3>6. \A u, v \in Workers :
            pc'[u] = "send" /\ pc'[v] = "send" /\ task'[u] = task'[v] => u = v
      BY <2>2, <3>3 DEF SendsOnce
    <3> QED BY <3>2, <3>4, <3>5, <3>6 DEF SendsOnce
  <2> QED BY <2>1, <2>2
<1> QED BY <1>1, <1>4, <1>5

LEMMA FinishIInv ==
  ASSUME NEW w \in Workers, NEW p \in Proposals, IInv,
         \/ StoreSent(w, p) \/ Promote(w, p) \/ GiveUp(w, p)
         \/ MarkAcknowledged(w, p) \/ MarkAmbiguous(w, p) \/ RequeueExpired(w, p)
  PROVE  IInv'
<1> USE DEF IInv
<1>1. CASE StoreSent(w, p)
  <2>1. /\ TInv' /\ UNCHANGED <<proposal, effects>>
        /\ row[p].status \in {"dispatching", "sent"} /\ task'[w] = p
        /\ WritesRow(p, "sent", result[w]) /\ Moves(w, "verify")
    BY <1>1, StoreSentTInv DEF StoreSent
  <2>2. Marked'
    BY <2>1, MarkedStep DEF WritesRow, BeforeMarker
  <2>3. SendsOnce'
    BY <2>1, SilentStep
  <2> QED BY <2>1, <2>2, <2>3
<1>2. CASE Promote(w, p) \/ GiveUp(w, p)
  <2>1. TInv' /\ UNCHANGED <<proposal, row, effects>>
    BY <1>2, RecordTInv DEF Promote, GiveUp
  <2>2. PICK step \in {"idle", "markAcknowledged", "markAmbiguous"} :
          Moves(w, step) /\ (step # "idle" => task'[w] = task[w])
    BY <1>2, RecordTInv
  <2>3. row[task[w]].status \notin BeforeMarker
    BY <1>2, RecordTInv DEF Marked
  <2>4. Marked'
    BY <2>1, <2>2, <2>3, MarkedStep DEF Marked
  <2>5. SendsOnce'
    BY <2>1, <2>2, SilentStep
  <2> QED BY <2>1, <2>4, <2>5
<1>3. CASE MarkAcknowledged(w, p) \/ MarkAmbiguous(w, p) \/ RequeueExpired(w, p)
  <2>1. TInv' /\ UNCHANGED <<proposal, effects>> /\ Moves(w, "idle")
    BY <1>3, MarkTInv DEF MarkAcknowledged, MarkAmbiguous, RequeueExpired
  <2>2. \A q \in Proposals :
          /\ row[q].status = "absent" => row'[q].status = "absent"
          /\ row[q].status \notin BeforeMarker => row'[q].status \notin BeforeMarker
    BY <1>3, MarkTInv DEF WritesRow, BeforeMarker
  <2>3. Marked'
    BY <2>1, <2>2, MarkedStep
  <2>4. SendsOnce'
    BY <2>1, SilentStep
  <2> QED BY <2>1, <2>3, <2>4
<1> QED BY <1>1, <1>2, <1>3

THEOREM Inductive == IInv /\ [Next]_vars => IInv'
<1> SUFFICES ASSUME IInv, [Next]_vars PROVE IInv'
  OBVIOUS
<1>1. CASE Tick
  BY <1>1, EnvironmentIInv
<1>2. ASSUME NEW p \in Proposals, Enqueue(p) \/ ExpireReceipt(p) PROVE IInv'
  BY <1>2, EnvironmentIInv
<1>3. ASSUME NEW w \in Workers, NEW p \in Proposals, Lease(w, p) \/ Reconcile(w, p)
      PROVE  IInv'
  BY <1>3, StartIInv
<1>4. ASSUME NEW w \in Workers, WorkerStep(w) \/ Crash(w) PROVE IInv'
  BY <1>4, LocalIInv, DispatchIInv, SendIInv, FinishIInv DEF WorkerStep
<1>5. CASE UNCHANGED vars
  BY <1>5 DEF vars, IInv, TInv, RowsOK, LedgerOK, ProviderOK, WorkersOK,
              CountersOK, Marked, SendsOnce
<1> QED BY <1>1, <1>2, <1>3, <1>4, <1>5 DEF Next

THEOREM Invariance == Spec => []IInv
BY InitIInv, Inductive, PTL DEF Spec

-----------------------------------------------------------------------------
(* The theorems *)

\* The tables and the processes always hold values of their types.
THEOREM TypeCorrect == Spec => []TypeOK
<1>1. IInv => TypeOK
  BY TypesOK DEF IInv
<1> QED BY <1>1, Invariance, PTL

\* A provider that does not recognise a repeated request gets one request per
\* approved action at most.
THEOREM AtMostOnce == Spec => []NeverResentBlindly
<1>1. IInv => NeverResentBlindly
  BY DEF IInv, SendsOnce, NeverResentBlindly
<1> QED BY <1>1, Invariance, PTL

\* No effect exists, and nobody is about to cause one, until the marker is
\* durable.
THEOREM MarkerFirst == Spec => []NoEffectBeforeMarker
<1>1. IInv => NoEffectBeforeMarker
  BY DEF IInv, Marked, TInv, ProviderOK, BeforeMarker, NoEffectBeforeMarker
<1> QED BY <1>1, Invariance, PTL
-----------------------------------------------------------------------------
(* What was acknowledged, promoted and remembered *)

\* The ledger on its own: a run is terminal exactly when its evidence is
\* durable, and canonical memory holds the durable successes.
Ledgered ==
  /\ \A p \in Proposals :
       IF evidence[p] = NoOutcome
       THEN run[p] \in {"proposed", "enqueued"}
       ELSE /\ run[p] = evidence[p].outcome.status
            /\ run[p] = "succeeded" => <<p, evidence[p].outcome.receipt>> \in canonical
  /\ \A m \in canonical :
       /\ evidence[m[1]] # NoOutcome
       /\ evidence[m[1]].outcome = [status |-> "succeeded", receipt |-> m[2]]

\* Wherever a receipt travels - the provider's table, a process, a row, the
\* ledger - the effect it numbers has happened.
Backed ==
  /\ \A p \in Proposals :
       /\ receipts[p] # NoOutcome => receipts[p].receipt <= effects[p]
       /\ row[p].status = "sent" => row[p].outcome.receipt <= effects[p]
       /\ evidence[p] # NoOutcome => evidence[p].outcome.receipt <= effects[p]
  /\ \A w \in Workers : pc[w] \in {"store", "verify", "promote"} =>
                          result[w].receipt <= effects[task[w]]

\* A process past store_sent works on the response its row has stored; one about
\* to settle a row holds the durable outcome.
Settling ==
  /\ \A w \in Workers :
       /\ pc[w] \in {"verify", "promote", "markAcknowledged"} =>
            /\ row[task[w]].status \in {"sent", "acknowledged"}
            /\ row[task[w]].outcome = result[w]
       /\ pc[w] = "markAcknowledged" =>
            /\ evidence[task[w]] # NoOutcome
            /\ evidence[task[w]].outcome = result[w]
       /\ pc[w] = "markAmbiguous" =>
            /\ evidence[task[w]] # NoOutcome
            /\ evidence[task[w]].outcome = Ambiguous
  /\ \A p \in Proposals :
       row[p].status \in {"acknowledged", "ambiguous"} =>
         evidence[p] # NoOutcome /\ evidence[p].outcome = row[p].outcome

SInv == IInv /\ Ledgered /\ Backed /\ Settling

\* Process v stays where it is, with what it holds; process w goes on with what
\* it holds.
Stays(v) == pc'[v] = pc[v] /\ task'[v] = task[v] /\ result'[v] = result[v]
Others(w) == \A v \in Workers : v # w => Stays(v)
GoesOn(w, step) ==
  pc'[w] = step /\ task'[w] = task[w] /\ result'[w] = result[w] /\ Others(w)

LEMMA ReplyFacts ==
  /\ \A o \in Reply : o.receipt \in 1..MaxEffects /\ o.receipt \in Nat
  /\ \A o \in Reply : o.status \in {"succeeded", "failed"}
  /\ \A o \in Outcome : o.receipt \in Nat /\ o.status \in TerminalRun
  /\ \A o \in Outcome : o \in Reply \/ o = Ambiguous
  /\ \A e \in Evidence : e.outcome \in Outcome /\ e # NoOutcome
  /\ Ambiguous.receipt = 0 /\ Ambiguous.status = "ambiguous"
  /\ NoOutcome \notin Reply
BY NoneAssumption, BoundsAssumption
   DEF Reply, Outcome, Ambiguous, Evidence, TerminalRun

LEMMA BackedStep ==
  ASSUME TInv, TInv', Backed,
         \A p \in Proposals :
           /\ effects[p] <= effects'[p]
           /\ receipts'[p] # NoOutcome =>
                receipts'[p] = receipts[p] \/ receipts'[p].receipt <= effects'[p]
           /\ row'[p].status = "sent" =>
                \/ row[p].status = "sent" /\ row'[p].outcome = row[p].outcome
                \/ row'[p].outcome.receipt <= effects'[p]
           /\ evidence'[p] # NoOutcome =>
                evidence'[p] = evidence[p] \/ evidence'[p].outcome.receipt <= effects'[p],
         \A w \in Workers : pc'[w] \in {"store", "verify", "promote"} =>
           \/ Stays(w)
           \/ result'[w].receipt <= effects'[task'[w]]
  PROVE  Backed'
<1>1. ASSUME NEW p \in Proposals
      PROVE  /\ effects[p] \in Nat /\ effects'[p] \in Nat
             /\ receipts[p] # NoOutcome => receipts[p].receipt \in Nat
             /\ row[p].status = "sent" => row[p].outcome.receipt \in Nat
             /\ evidence[p] # NoOutcome => evidence[p].outcome.receipt \in Nat
  <2>1. effects[p] \in 0..MaxEffects /\ effects'[p] \in 0..MaxEffects
    BY DEF TInv, ProviderOK
  <2>2. receipts[p] # NoOutcome => receipts[p] \in Reply
    BY DEF TInv, ProviderOK
  <2>3. row[p].status = "sent" => row[p].outcome \in Reply
    BY DEF TInv, RowsOK
  <2>4. evidence[p] # NoOutcome => evidence[p] \in Evidence
    BY DEF TInv, LedgerOK
  <2> QED BY <2>1, <2>2, <2>3, <2>4, ReplyFacts, BoundsAssumption
<1>2. ASSUME NEW p \in Proposals
      PROVE  /\ receipts'[p] # NoOutcome => receipts'[p].receipt <= effects'[p]
             /\ row'[p].status = "sent" => row'[p].outcome.receipt <= effects'[p]
             /\ evidence'[p] # NoOutcome => evidence'[p].outcome.receipt <= effects'[p]
  BY <1>1 DEF Backed
<1>3. ASSUME NEW w \in Workers, pc'[w] \in {"store", "verify", "promote"}
      PROVE  result'[w].receipt <= effects'[task'[w]]
  <2>1. CASE Stays(w)
    <3>1. pc[w] \in {"store", "verify", "promote"}
      BY <1>3, <2>1 DEF Stays
    <3>2. task[w] \in Proposals /\ result[w] \in Reply
      BY <3>1 DEF TInv, WorkersOK
    <3>3. result[w].receipt <= effects[task[w]] /\ result[w].receipt \in Nat
      BY <3>1, <3>2, ReplyFacts DEF Backed
    <3>4. effects[task[w]] <= effects'[task[w]]
      BY <3>2
    <3> QED BY <1>1, <2>1, <3>2, <3>3, <3>4 DEF Stays
  <2> QED BY <1>3, <2>1
<1> QED BY <1>2, <1>3 DEF Backed

LEMMA SettlingStep ==
  ASSUME TInv, Settling,
         \A p \in Proposals :
           /\ evidence[p] # NoOutcome => evidence'[p] = evidence[p]
           /\ row[p].status \in {"sent", "acknowledged"} =>
                /\ row'[p].status \in {"sent", "acknowledged"}
                /\ row'[p].outcome = row[p].outcome
           /\ row'[p].status \in {"acknowledged", "ambiguous"} =>
                \/ row'[p].status = row[p].status /\ row'[p].outcome = row[p].outcome
                \/ evidence[p] # NoOutcome /\ evidence[p].outcome = row'[p].outcome,
         \A w \in Workers :
           \/ Stays(w)
           \/ /\ pc'[w] \in {"verify", "promote", "markAcknowledged"} =>
                   /\ row'[task'[w]].status \in {"sent", "acknowledged"}
                   /\ row'[task'[w]].outcome = result'[w]
              /\ pc'[w] = "markAcknowledged" =>
                   /\ evidence'[task'[w]] # NoOutcome
                   /\ evidence'[task'[w]].outcome = result'[w]
              /\ pc'[w] = "markAmbiguous" =>
                   /\ evidence'[task'[w]] # NoOutcome
                   /\ evidence'[task'[w]].outcome = Ambiguous
  PROVE  Settling'
<1>1. ASSUME NEW w \in Workers
      PROVE  /\ pc'[w] \in {"verify", "promote", "markAcknowledged"} =>
                  /\ row'[task'[w]].status \in {"sent", "acknowledged"}
                  /\ row'[task'[w]].outcome = result'[w]
             /\ pc'[w] = "markAcknowledged" =>
                  /\ evidence'[task'[w]] # NoOutcome
                  /\ evidence'[task'[w]].outcome = result'[w]
             /\ pc'[w] = "markAmbiguous" =>
                  /\ evidence'[task'[w]] # NoOutcome
                  /\ evidence'[task'[w]].outcome = Ambiguous
  <2>1. CASE Stays(w)
    <3>1. pc[w] # "idle" => task[w] \in Proposals
      BY DEF TInv, WorkersOK
    <3> QED BY <2>1, <3>1 DEF Stays, Settling
  <2> QED BY <2>1
<1>2. ASSUME NEW p \in Proposals, row'[p].status \in {"acknowledged", "ambiguous"}
      PROVE  evidence'[p] # NoOutcome /\ evidence'[p].outcome = row'[p].outcome
  BY <1>2 DEF Settling
<1> QED BY <1>1, <1>2 DEF Settling

\* Where each step takes its process, and what it does to the provider and the
\* ledger.
LEMMA LocalFacts ==
  ASSUME NEW w \in Workers, WorkersOK,
         \/ LoseLease(w) \/ StoreSentRefused(w) \/ AckFailure(w) \/ Attest(w)
         \/ AttestRefused(w) \/ LookupFound(w) \/ LookupWaits(w)
         \/ LookupTimesOut(w) \/ Crash(w)
  PROVE  /\ UNCHANGED <<proposal, run, row, evidence, canonical, effects, receipts>>
         /\ Others(w)
         /\ \/ pc'[w] = "idle"
            \/ pc[w] = "verify" /\ GoesOn(w, "promote")
            \/ /\ pc[w] = "lookup" /\ pc'[w] = "store" /\ task'[w] = task[w]
               /\ task[w] \in Proposals
               /\ receipts[task[w]] # NoOutcome /\ result'[w] = receipts[task[w]]
            \/ pc[w] = "lookup" /\ GoesOn(w, WithoutReceipt)
<1> USE DEF WorkersOK, Return, Go, Others, Stays, GoesOn, storeVars, providerVars
<1>1. CASE LoseLease(w) \/ StoreSentRefused(w) \/ AttestRefused(w) \/ LookupWaits(w) \/ Crash(w)
  BY <1>1 DEF LoseLease, StoreSentRefused, AttestRefused, LookupWaits, Crash
<1>2. CASE AckFailure(w)
  BY <1>2 DEF AckFailure
<1>3. CASE Attest(w)
  BY <1>3 DEF Attest
<1>4. CASE LookupFound(w)
  BY <1>4 DEF LookupFound
<1>5. CASE LookupTimesOut(w)
  BY <1>5 DEF LookupTimesOut
<1> QED BY <1>1, <1>2, <1>3, <1>4, <1>5

LEMMA StartFacts ==
  ASSUME NEW w \in Workers, NEW p \in Proposals, TInv
  PROVE  /\ Lease(w, p) =>
              /\ UNCHANGED <<proposal, run, evidence, canonical, effects, receipts>>
              /\ row[p].status \in {"pending", "leased"}
              /\ WritesRow(p, "leased", row[p].outcome)
              /\ pc'[w] = "leased" /\ Others(w)
         /\ Reconcile(w, p) =>
              /\ UNCHANGED <<proposal, run, row, evidence, canonical, effects, receipts>>
              /\ pc'[w] = ReconcileStep(row[p].status) /\ task'[w] = p /\ Others(w)
              /\ row[p].status \in {"leased", "dispatching", "sent"}
              /\ row[p].status = "sent" => result'[w] = row[p].outcome
<1> USE DEF TInv, WorkersOK, Go, Others, Stays, storeVars, providerVars
<1>1. ASSUME Lease(w, p)
      PROVE  /\ UNCHANGED <<proposal, run, evidence, canonical, effects, receipts>>
             /\ row[p].status \in {"pending", "leased"}
             /\ pc'[w] = "leased" /\ Others(w)
  BY <1>1 DEF Lease, Leasable
<1>2. ASSUME Reconcile(w, p)
      PROVE  /\ UNCHANGED <<proposal, run, row, evidence, canonical, effects, receipts>>
             /\ pc'[w] = ReconcileStep(row[p].status) /\ task'[w] = p /\ Others(w)
             /\ row[p].status \in {"leased", "dispatching", "sent"}
             /\ row[p].status = "sent" => result'[w] = row[p].outcome
  BY <1>2 DEF Reconcile
<1> QED BY <1>1, <1>2, LeaseRow

LEMMA RowFacts ==
  ASSUME NEW w \in Workers, NEW p \in Proposals, TInv
  PROVE  /\ BeginDispatch(w, p) =>
              /\ UNCHANGED <<proposal, run, evidence, canonical, effects, receipts>>
              /\ pc[w] = "leased" /\ task[w] = p /\ GoesOn(w, "send")
         /\ StoreSent(w, p) =>
              /\ UNCHANGED <<proposal, run, evidence, canonical, effects, receipts>>
              /\ pc[w] = "store" /\ task[w] = p /\ GoesOn(w, "verify")
              /\ \/ row[p].status = "dispatching"
                 \/ UNCHANGED row /\ row[p].status = "sent" /\ row[p].outcome = result[w]
         /\ MarkAcknowledged(w, p) \/ MarkAmbiguous(w, p) \/ RequeueExpired(w, p) =>
              /\ UNCHANGED <<proposal, run, evidence, canonical, effects, receipts>>
              /\ task[w] = p /\ pc'[w] = "idle" /\ Others(w)
         /\ MarkAcknowledged(w, p) => pc[w] = "markAcknowledged"
         /\ MarkAmbiguous(w, p) => pc[w] = "markAmbiguous"
         /\ RequeueExpired(w, p) => pc[w] = "requeue"
<1> USE DEF TInv, WorkersOK, Return, Go, Others, Stays, GoesOn, providerVars
<1>1. ASSUME BeginDispatch(w, p)
      PROVE  /\ UNCHANGED <<proposal, run, evidence, canonical, effects, receipts>>
             /\ pc[w] = "leased" /\ task[w] = p /\ GoesOn(w, "send")
  BY <1>1 DEF BeginDispatch
<1>2. ASSUME StoreSent(w, p)
      PROVE  /\ UNCHANGED <<proposal, run, evidence, canonical, effects, receipts>>
             /\ pc[w] = "store" /\ task[w] = p /\ GoesOn(w, "verify")
             /\ \/ row[p].status = "dispatching"
                \/ UNCHANGED row /\ row[p].status = "sent" /\ row[p].outcome = result[w]
  BY <1>2 DEF StoreSent
<1>3. ASSUME MarkAcknowledged(w, p) \/ MarkAmbiguous(w, p) \/ RequeueExpired(w, p)
      PROVE  /\ UNCHANGED <<proposal, run, evidence, canonical, effects, receipts>>
             /\ task[w] = p /\ pc'[w] = "idle" /\ Others(w)
  BY <1>3 DEF MarkAcknowledged, MarkAmbiguous, RequeueExpired
<1> QED BY <1>1, <1>2, <1>3 DEF MarkAcknowledged, MarkAmbiguous, RequeueExpired

\* A send is answered with the receipt the provider kept, or with a new effect.
LEMMA SendFacts ==
  ASSUME NEW w \in Workers, NEW p \in Proposals, TInv, Send(w, p)
  PROVE  /\ UNCHANGED <<proposal, run, row, evidence, canonical>>
         /\ pc[w] \in {"send", "resend"} /\ task[w] = p
         /\ pc'[w] = "store" /\ task'[w] = p /\ Others(w)
         /\ \/ /\ SupportsIdempotency /\ receipts[p] # NoOutcome
               /\ result'[w] = receipts[p]
               /\ UNCHANGED <<effects, receipts>>
            \/ /\ SupportsIdempotency => receipts[p] = NoOutcome
               /\ result'[w] \in Reply /\ result'[w].receipt = effects[p] + 1
               /\ effects' = [effects EXCEPT ![p] = @ + 1]
               /\ \/ receipts' = [receipts EXCEPT ![p] = result'[w]]
                  \/ ~SupportsIdempotency /\ UNCHANGED receipts
<1>1. PICK reply \in Reply : ProviderSend(p, reply) /\ result' = [result EXCEPT ![w] = reply]
  BY DEF Send
<1>2. result'[w] = reply /\ \A v \in Workers : v # w => result'[v] = result[v]
  BY <1>1 DEF TInv, WorkersOK
<1>3. /\ UNCHANGED <<proposal, run, row, evidence, canonical>>
      /\ pc[w] \in {"send", "resend"} /\ task[w] = p
      /\ pc'[w] = "store" /\ task'[w] = p /\ Others(w)
  BY <1>2 DEF TInv, WorkersOK, Send, Go, Others, Stays, storeVars
<1>4. \/ /\ SupportsIdempotency /\ receipts[p] # NoOutcome
         /\ reply = receipts[p]
         /\ UNCHANGED <<effects, receipts>>
      \/ /\ SupportsIdempotency => receipts[p] = NoOutcome
         /\ reply.receipt = effects[p] + 1
         /\ effects' = [effects EXCEPT ![p] = @ + 1]
         /\ \/ receipts' = [receipts EXCEPT ![p] = reply]
            \/ ~SupportsIdempotency /\ UNCHANGED receipts
  BY <1>1 DEF ProviderSend, providerVars
<1> QED BY <1>1, <1>2, <1>3, <1>4

\* What the outcome transaction does, for the outcome o of proposal p.
Accepts(p, o) ==
  /\ evidence[p] = NoOutcome /\ run[p] \in {"proposed", "enqueued"}
  /\ evidence' \in [Proposals -> Evidence \cup {NoOutcome}]
  /\ evidence'[p] # NoOutcome /\ evidence'[p].outcome = o
  /\ \A q \in Proposals : q # p => evidence'[q] = evidence[q]
  /\ run' = [run EXCEPT ![p] = o.status]
  /\ canonical' = canonical \cup MemoryOf(p, o)

LEMMA RecordFacts ==
  ASSUME NEW w \in Workers, NEW p \in Proposals, NEW o \in Outcome,
         NEW h \in Handle \cup {NoHandle}, NEW next, LedgerOK, WorkersOK,
         RecordOutcome(w, p, o, h, next)
  PROVE  /\ Others(w)
         /\ Accepts(p, o) \/ UNCHANGED <<run, evidence, canonical>>
         /\ \/ pc'[w] = "idle"
            \/ /\ GoesOn(w, next)
               /\ evidence'[p] # NoOutcome /\ evidence'[p].outcome = o
<1>1. ASSUME AcceptOutcome(p, o, h) PROVE Accepts(p, o)
  <2> DEFINE e == [outcome |-> o, nonce |-> NonceOf(h)]
  <2>1. NonceOf(h) \in Nonces \cup {NoHandle}
    BY DEF NonceOf, Handle
  <2>2. e \in Evidence /\ e # NoOutcome /\ e.outcome = o
    BY <2>1, ReplyFacts DEF Evidence
  <2>3. evidence' = [evidence EXCEPT ![p] = e]
    BY <1>1 DEF AcceptOutcome
  <2> HIDE DEF e
  <2> QED BY <1>1, <2>2, <2>3 DEF AcceptOutcome, Accepts, LedgerOK
<1>2. ASSUME ReplayOutcome(p, o, h) \/ ConflictOutcome(p, o, h) \/ RefuseOutcome(p, o, h)
      PROVE  UNCHANGED <<run, evidence, canonical>>
  BY <1>2 DEF ReplayOutcome, ConflictOutcome, RefuseOutcome, ledgerVars
<1>3. Others(w)
  BY DEF RecordOutcome, WorkersOK, Return, Go, Others, Stays
<1>4. CASE Return(w)
  <2>1. pc'[w] = "idle"
    BY <1>4 DEF WorkersOK, Return, Go
  <2> QED BY <1>1, <1>2, <1>3, <2>1, Zenon DEF RecordOutcome
<1>5. CASE /\ AcceptOutcome(p, o, h) \/ ReplayOutcome(p, o, h)
           /\ Go(w, next) /\ UNCHANGED <<task, at, result, handle>>
  <2>1. GoesOn(w, next)
    BY <1>3, <1>5 DEF WorkersOK, Go, GoesOn
  <2>2. evidence'[p] # NoOutcome /\ evidence'[p].outcome = o
    BY <1>1, <1>5 DEF Accepts, ReplayOutcome
  <2> QED BY <1>1, <1>2, <1>3, <1>5, <2>1, <2>2
<1> QED BY <1>4, <1>5, Zenon DEF RecordOutcome

LEMMA AcceptedLedger ==
  ASSUME NEW p \in Proposals, NEW o \in Outcome, LedgerOK, Ledgered, Accepts(p, o)
  PROVE  Ledgered'
<1>1. ASSUME NEW q \in Proposals, q # p
      PROVE  /\ evidence'[q] = evidence[q] /\ run'[q] = run[q]
             /\ \A n : <<q, n>> \in canonical => <<q, n>> \in canonical'
  BY <1>1 DEF Accepts, LedgerOK
<1>2. /\ run'[p] = o.status
      /\ o.status = "succeeded" => <<p, o.receipt>> \in canonical'
  BY DEF Accepts, LedgerOK, MemoryOf
<1>3. ASSUME NEW q \in Proposals
      PROVE  IF evidence'[q] = NoOutcome
             THEN run'[q] \in {"proposed", "enqueued"}
             ELSE /\ run'[q] = evidence'[q].outcome.status
                  /\ run'[q] = "succeeded" => <<q, evidence'[q].outcome.receipt>> \in canonical'
  <2>1. CASE q = p
    BY <1>2, <2>1 DEF Accepts
  <2>2. CASE q # p
    BY <1>1, <2>2 DEF Ledgered
  <2> QED BY <2>1, <2>2
<1>4. ASSUME NEW m \in canonical'
      PROVE  /\ evidence'[m[1]] # NoOutcome
             /\ evidence'[m[1]].outcome = [status |-> "succeeded", receipt |-> m[2]]
  <2>1. CASE m \in canonical
    <3>1. m[1] \in Proposals /\ evidence[m[1]] # NoOutcome /\ m[1] # p
      BY <2>1 DEF LedgerOK, Ledgered, Accepts
    <3> QED BY <2>1, <3>1 DEF Ledgered, Accepts
  <2>2. CASE m \in MemoryOf(p, o)
    <3>1. o.status = "succeeded" /\ m = <<p, o.receipt>>
      BY <2>2 DEF MemoryOf
    <3>2. o = [status |-> "succeeded", receipt |-> o.receipt]
      BY <3>1 DEF Outcome, Reply, Ambiguous
    <3> QED BY <3>1, <3>2 DEF Accepts
  <2> QED BY <2>1, <2>2 DEF Accepts
<1> QED BY <1>3, <1>4 DEF Ledgered

LEMMA InitSInv == Init => SInv
BY InitIInv, ReplyFacts DEF Init, SInv, Ledgered, Backed, Settling, NoRow

\* Steps that leave the ledger and the provider alone.
LEMMA LedgerKept ==
  ASSUME Ledgered, UNCHANGED <<run, evidence, canonical>>
  PROVE  Ledgered'
BY DEF Ledgered

LEMMA EffectsKept ==
  ASSUME TInv, UNCHANGED effects
  PROVE  \A p \in Proposals : effects[p] <= effects'[p]
BY BoundsAssumption DEF TInv, ProviderOK

LEMMA EnvironmentSInv ==
  ASSUME SInv
  PROVE  /\ Tick => SInv'
         /\ \A p \in Proposals : Enqueue(p) \/ ExpireReceipt(p) => SInv'
<1> USE DEF SInv, IInv
<1>1. ASSUME Tick PROVE SInv'
  <2>1. UNCHANGED <<run, row, evidence, canonical, effects, receipts, pc, task, result>>
    BY <1>1 DEF Tick, storeVars, providerVars, workerVars
  <2> QED BY <1>1, <2>1, EnvironmentIInv DEF Ledgered, Backed, Settling
<1>2. ASSUME NEW p \in Proposals, Enqueue(p) PROVE SInv'
  <2>1. /\ UNCHANGED <<evidence, canonical, effects, receipts, pc, task, result>>
        /\ run[p] = "proposed" /\ run' = [run EXCEPT ![p] = "enqueued"]
        /\ row[p].status = "absent"
    BY <1>2 DEF Enqueue, Marked, providerVars, workerVars
  <2>2. WritesRow(p, "pending", row[p].outcome) /\ IInv'
    BY <1>2, EnqueueRow, EnvironmentIInv DEF TInv
  <2>3. Ledgered'
    <3>1. evidence[p] = NoOutcome
      <4>1. evidence[p] # NoOutcome => evidence[p].outcome.status \in TerminalRun
        BY ReplyFacts DEF TInv, LedgerOK
      <4> QED BY <2>1, <4>1 DEF Ledgered, TerminalRun
    <3>2. \A q \in Proposals : run'[q] = IF q = p THEN "enqueued" ELSE run[q]
      BY <2>1 DEF TInv, LedgerOK
    <3> QED BY <2>1, <3>1, <3>2 DEF Ledgered
  <2>4. \A v \in Workers : Stays(v)
    BY <2>1 DEF Stays
  <2>5. Backed'
    BY <2>1, <2>2, <2>4, EffectsKept, BackedStep DEF WritesRow
  <2>6. Settling'
    BY <2>1, <2>2, <2>4, SettlingStep DEF WritesRow
  <2> QED BY <2>2, <2>3, <2>5, <2>6
<1>3. ASSUME NEW p \in Proposals, ExpireReceipt(p) PROVE SInv'
  <2>1. /\ UNCHANGED <<run, row, evidence, canonical, effects, pc, task, result>>
        /\ receipts' = [receipts EXCEPT ![p] = NoOutcome]
    BY <1>3 DEF ExpireReceipt, storeVars, workerVars
  <2>2. \A q \in Proposals : receipts'[q] = receipts[q] \/ receipts'[q] = NoOutcome
    BY <2>1 DEF TInv, ProviderOK
  <2> QED BY <1>3, <2>1, <2>2, EnvironmentIInv DEF Ledgered, Backed, Settling
<1> QED BY <1>1, <1>2, <1>3

LEMMA StartSInv ==
  ASSUME NEW w \in Workers, NEW p \in Proposals, SInv, Lease(w, p) \/ Reconcile(w, p)
  PROVE  SInv'
<1> USE DEF SInv, IInv
<1>1. IInv'
  BY StartIInv
<1>2. CASE Lease(w, p)
  <2>1. /\ UNCHANGED <<run, evidence, canonical, effects, receipts>>
        /\ row[p].status \in {"pending", "leased"}
        /\ WritesRow(p, "leased", row[p].outcome)
        /\ pc'[w] = "leased" /\ \A v \in Workers : v # w => Stays(v)
    BY <1>2, StartFacts DEF Others
  <2>2. Backed'
    BY <1>1, <2>1, EffectsKept, BackedStep DEF WritesRow
  <2>3. Settling'
    BY <2>1, SettlingStep DEF WritesRow
  <2> QED BY <1>1, <2>1, <2>2, <2>3, LedgerKept
<1>3. CASE Reconcile(w, p)
  <2>1. /\ UNCHANGED <<run, row, evidence, canonical, effects, receipts>>
        /\ pc'[w] = ReconcileStep(row[p].status) /\ task'[w] = p
        /\ \A v \in Workers : v # w => Stays(v)
        /\ row[p].status \in {"leased", "dispatching", "sent"}
        /\ row[p].status = "sent" => result'[w] = row[p].outcome
    BY <1>3, StartFacts DEF Others
  <2>2. /\ pc'[w] \notin {"store", "promote", "markAcknowledged", "markAmbiguous"}
        /\ pc'[w] = "verify" => row[p].status = "sent"
    BY <2>1 DEF ReconcileStep, WithoutReceipt
  <2>3. Backed'
    <3>1. pc'[w] = "verify" => result'[w].receipt <= effects'[task'[w]]
      BY <2>1, <2>2 DEF Backed
    <3> QED BY <1>1, <2>1, <2>2, <3>1, EffectsKept, BackedStep
  <2>4. Settling'
    BY <2>1, <2>2, SettlingStep
  <2> QED BY <1>1, <2>1, <2>3, <2>4, LedgerKept
<1> QED BY <1>2, <1>3

LEMMA LocalSInv ==
  ASSUME NEW w \in Workers, SInv,
         \/ LoseLease(w) \/ StoreSentRefused(w) \/ AckFailure(w) \/ Attest(w)
         \/ AttestRefused(w) \/ LookupFound(w) \/ LookupWaits(w)
         \/ LookupTimesOut(w) \/ Crash(w)
  PROVE  SInv'
<1> USE DEF SInv, IInv
<1>1. IInv'
  BY LocalIInv
<1>2. /\ UNCHANGED <<run, row, evidence, canonical, effects, receipts>>
      /\ \A v \in Workers : v # w => Stays(v)
  BY LocalFacts DEF Others, TInv
<1>3. \/ pc'[w] = "idle"
      \/ pc[w] = "verify" /\ GoesOn(w, "promote")
      \/ /\ pc'[w] = "store" /\ task'[w] = task[w] /\ task[w] \in Proposals
         /\ receipts[task[w]] # NoOutcome /\ result'[w] = receipts[task[w]]
      \/ GoesOn(w, WithoutReceipt)
  BY LocalFacts DEF TInv
<1>4. WithoutReceipt \in {"resend", "giveUp"}
  BY DEF WithoutReceipt
<1>5. pc'[w] \in {"store", "verify", "promote"} => result'[w].receipt <= effects'[task'[w]]
  BY <1>2, <1>3, <1>4 DEF GoesOn, Backed
<1>6. pc'[w] = "idle" \/ pc'[w] \in {"store", "resend", "giveUp"}
        \/ (pc[w] = "verify" /\ GoesOn(w, "promote"))
  BY <1>3, <1>4 DEF GoesOn
<1>7. Backed'
  BY <1>1, <1>2, <1>5, EffectsKept, BackedStep
<1>8. Settling'
  <2>1. CASE pc[w] = "verify" /\ GoesOn(w, "promote")
    <3>1. /\ row'[task'[w]].status \in {"sent", "acknowledged"}
          /\ row'[task'[w]].outcome = result'[w]
          /\ pc'[w] = "promote"
      BY <1>2, <2>1 DEF GoesOn, Settling
    <3> QED BY <1>2, <3>1, SettlingStep
  <2>2. CASE pc'[w] \in {"idle", "store", "resend", "giveUp"}
    BY <1>2, <2>2, SettlingStep
  <2> QED BY <1>6, <2>1, <2>2
<1> QED BY <1>1, <1>2, <1>7, <1>8, LedgerKept

LEMMA SendSInv ==
  ASSUME NEW w \in Workers, NEW p \in Proposals, SInv, Send(w, p)
  PROVE  SInv'
<1> USE DEF SInv, IInv
<1>1. IInv'
  BY SendIInv
<1>2. /\ UNCHANGED <<run, row, evidence, canonical>>
      /\ pc'[w] = "store" /\ task'[w] = p
      /\ \A v \in Workers : v # w => Stays(v)
  BY SendFacts DEF Others
<1>3. /\ \A q \in Proposals : /\ effects[q] <= effects'[q]
                              /\ receipts'[q] # NoOutcome =>
                                   \/ receipts'[q] = receipts[q]
                                   \/ receipts'[q].receipt <= effects'[q]
      /\ result'[w].receipt <= effects'[p]
  <2>1. CASE UNCHANGED <<effects, receipts>> /\ receipts[p] # NoOutcome /\ result'[w] = receipts[p]
    BY <2>1, EffectsKept DEF Backed
  <2>2. CASE /\ result'[w].receipt = effects[p] + 1
             /\ effects' = [effects EXCEPT ![p] = @ + 1]
             /\ UNCHANGED receipts \/ receipts' = [receipts EXCEPT ![p] = result'[w]]
    <3>1. \A q \in Proposals : effects[q] \in Nat
      BY BoundsAssumption DEF TInv, ProviderOK
    <3>2. \A q \in Proposals : effects'[q] = IF q = p THEN effects[p] + 1 ELSE effects[q]
      BY <2>2 DEF TInv, ProviderOK
    <3>3. \A q \in Proposals : receipts'[q] = receipts[q] \/ (q = p /\ receipts'[q] = result'[w])
      BY <2>2 DEF TInv, ProviderOK
    <3> QED BY <2>2, <3>1, <3>2, <3>3
  <2> QED BY <2>1, <2>2, SendFacts
<1>4. Backed'
  BY <1>1, <1>2, <1>3, BackedStep
<1>5. Settling'
  BY <1>2, SettlingStep
<1> QED BY <1>1, <1>2, <1>4, <1>5, LedgerKept

LEMMA RowSInv ==
  ASSUME NEW w \in Workers, NEW p \in Proposals, SInv,
         \/ BeginDispatch(w, p) \/ StoreSent(w, p)
         \/ MarkAcknowledged(w, p) \/ MarkAmbiguous(w, p) \/ RequeueExpired(w, p)
  PROVE  SInv'
<1> USE DEF SInv, IInv
<1>1. IInv'
  BY DispatchIInv, FinishIInv
<1>2. /\ UNCHANGED <<run, evidence, canonical, effects, receipts>>
      /\ \A v \in Workers : v # w => Stays(v)
  BY RowFacts DEF Others, GoesOn
<1>3. CASE BeginDispatch(w, p)
  <2>1. /\ row[p].status = "leased" /\ WritesRow(p, "dispatching", row[p].outcome)
        /\ pc'[w] = "send"
    BY <1>3, BeginDispatchTInv, RowFacts DEF GoesOn
  <2>2. Backed'
    BY <1>1, <1>2, <2>1, EffectsKept, BackedStep DEF WritesRow
  <2>3. Settling'
    BY <1>2, <2>1, SettlingStep DEF WritesRow
  <2> QED BY <1>1, <1>2, <2>2, <2>3, LedgerKept
<1>4. CASE StoreSent(w, p)
  <2>1. /\ pc[w] = "store" /\ task[w] = p /\ pc'[w] = "verify" /\ task'[w] = p
        /\ result'[w] = result[w]
        /\ WritesRow(p, "sent", result[w])
        /\ \/ row[p].status = "dispatching"
           \/ row[p].status = "sent" /\ row[p].outcome = result[w]
    BY <1>4, StoreSentTInv, RowFacts DEF GoesOn
  <2>2. result[w].receipt <= effects[p]
    BY <2>1 DEF Backed
  <2>3. Backed'
    BY <1>1, <1>2, <2>1, <2>2, EffectsKept, BackedStep DEF WritesRow
  <2>4. Settling'
    BY <1>2, <2>1, SettlingStep DEF WritesRow
  <2> QED BY <1>1, <1>2, <2>3, <2>4, LedgerKept
<1>5. CASE MarkAcknowledged(w, p) \/ MarkAmbiguous(w, p) \/ RequeueExpired(w, p)
  <2>1. task[w] = p /\ pc'[w] = "idle"
    BY <1>5, RowFacts
  <2>2. \/ UNCHANGED row
        \/ /\ row[p].status = "sent" /\ WritesRow(p, "acknowledged", row[p].outcome)
           /\ evidence[p] # NoOutcome /\ evidence[p].outcome = row[p].outcome
        \/ /\ row[p].status = "dispatching" /\ WritesRow(p, "ambiguous", Ambiguous)
           /\ evidence[p] # NoOutcome /\ evidence[p].outcome = Ambiguous
        \/ row[p].status = "leased" /\ WritesRow(p, "pending", row[p].outcome)
    <3>1. CASE MarkAcknowledged(w, p)
      BY <2>1, <3>1, MarkAcknowledgedRow, RowFacts DEF TInv, Settling
    <3>2. CASE MarkAmbiguous(w, p)
      BY <2>1, <3>2, MarkAmbiguousRow, RowFacts DEF TInv, Settling
    <3>3. CASE RequeueExpired(w, p)
      BY <3>3, RequeueExpiredRow DEF TInv
    <3> QED BY <1>5, <3>1, <3>2, <3>3
  <2>3. Backed'
    BY <1>1, <1>2, <2>1, <2>2, EffectsKept, BackedStep DEF WritesRow
  <2>4. Settling'
    BY <1>2, <2>1, <2>2, SettlingStep DEF WritesRow
  <2> QED BY <1>1, <1>2, <2>3, <2>4, LedgerKept
<1> QED BY <1>3, <1>4, <1>5

LEMMA RecordSInv ==
  ASSUME NEW w \in Workers, NEW p \in Proposals, SInv, Promote(w, p) \/ GiveUp(w, p)
  PROVE  SInv'
<1> USE DEF SInv, IInv
<1>1. IInv'
  BY FinishIInv
<1>2. UNCHANGED <<row, effects, receipts>> /\ task[w] = p
  BY DEF Promote, GiveUp, providerVars
<1>3. PICK o \in Outcome :
        /\ \/ pc[w] = "promote" /\ o = result[w]
           \/ pc[w] = "giveUp" /\ o = Ambiguous
        /\ Others(w)
        /\ Accepts(p, o) \/ UNCHANGED <<run, evidence, canonical>>
        /\ \/ pc'[w] = "idle"
           \/ /\ evidence'[p] # NoOutcome /\ evidence'[p].outcome = o
              /\ \/ pc[w] = "promote" /\ GoesOn(w, "markAcknowledged")
                 \/ pc[w] = "giveUp" /\ GoesOn(w, "markAmbiguous")
  <2>1. CASE Promote(w, p)
    <3>1. result[w] \in Outcome /\ handle[w] \in Handle \cup {NoHandle} /\ pc[w] = "promote"
      BY <2>1 DEF Promote, TInv, WorkersOK, Outcome
    <3> QED BY <2>1, <3>1, RecordFacts DEF Promote, TInv
  <2>2. CASE GiveUp(w, p)
    <3>1. Ambiguous \in Outcome /\ NoHandle \in Handle \cup {NoHandle} /\ pc[w] = "giveUp"
      BY <2>2 DEF GiveUp, Outcome
    <3> QED BY <2>2, <3>1, RecordFacts DEF GiveUp, TInv
  <2> QED BY <2>1, <2>2
<1>4. \A v \in Workers : v # w => Stays(v)
  BY <1>3 DEF Others
<1>5. Ledgered'
  BY <1>3, AcceptedLedger, LedgerKept DEF TInv
<1>6. o.receipt <= effects[p]
  <2>1. effects[p] \in Nat
    BY BoundsAssumption DEF TInv, ProviderOK
  <2> QED BY <1>2, <1>3, <2>1, ReplyFacts DEF Backed
<1>7. \A q \in Proposals :
        /\ evidence[q] # NoOutcome => evidence'[q] = evidence[q]
        /\ evidence'[q] # NoOutcome =>
             evidence'[q] = evidence[q] \/ evidence'[q].outcome.receipt <= effects'[q]
  BY <1>2, <1>3, <1>6 DEF Accepts
<1>8. Backed'
  <2>1. pc'[w] \notin {"store", "verify", "promote"}
    BY <1>3 DEF GoesOn
  <2> QED BY <1>1, <1>2, <1>4, <1>7, <2>1, EffectsKept, BackedStep
<1>9. Settling'
  <2>1. \/ pc'[w] = "idle"
        \/ /\ pc'[w] = "markAcknowledged"
           /\ row'[task'[w]].status \in {"sent", "acknowledged"}
           /\ row'[task'[w]].outcome = result'[w]
           /\ evidence'[task'[w]] # NoOutcome
           /\ evidence'[task'[w]].outcome = result'[w]
        \/ /\ pc'[w] = "markAmbiguous"
           /\ evidence'[task'[w]] # NoOutcome
           /\ evidence'[task'[w]].outcome = Ambiguous
    BY <1>2, <1>3 DEF GoesOn, Settling
  <2> QED BY <1>2, <1>4, <1>7, <2>1, SettlingStep
<1> QED BY <1>1, <1>5, <1>8, <1>9

THEOREM SettlingInductive == SInv /\ [Next]_vars => SInv'
<1> SUFFICES ASSUME SInv, [Next]_vars PROVE SInv'
  OBVIOUS
<1>1. CASE Tick
  BY <1>1, EnvironmentSInv
<1>2. ASSUME NEW p \in Proposals, Enqueue(p) \/ ExpireReceipt(p) PROVE SInv'
  BY <1>2, EnvironmentSInv
<1>3. ASSUME NEW w \in Workers, NEW p \in Proposals, Lease(w, p) \/ Reconcile(w, p)
      PROVE  SInv'
  BY <1>3, StartSInv
<1>4. ASSUME NEW w \in Workers, WorkerStep(w) \/ Crash(w) PROVE SInv'
  BY <1>4, LocalSInv, SendSInv, RowSInv, RecordSInv DEF WorkerStep
<1>5. CASE UNCHANGED vars
  BY <1>5, Inductive DEF vars, SInv, Ledgered, Backed, Settling
<1> QED BY <1>1, <1>2, <1>3, <1>4, <1>5 DEF Next

THEOREM SettlingInvariance == Spec => []SInv
BY InitSInv, SettlingInductive, PTL DEF Spec

\* Canonical memory exists exactly for the durable successes, and the effect its
\* receipt numbers has happened at the provider.
THEOREM CanonicalMemoryIsEarned == Spec => []CanonicalIsEarned
<1>1. SInv => CanonicalIsEarned
  <2> SUFFICES ASSUME SInv PROVE CanonicalIsEarned
    OBVIOUS
  <2>1. ASSUME NEW m \in canonical
        PROVE  /\ evidence[m[1]] # NoOutcome
               /\ evidence[m[1]].outcome = [status |-> "succeeded", receipt |-> m[2]]
               /\ m[2] <= effects[m[1]]
    <3>1. m[1] \in Proposals
      BY DEF SInv, IInv, TInv, LedgerOK
    <3> QED BY <3>1 DEF SInv, Ledgered, Backed
  <2>2. ASSUME NEW p \in Proposals, run[p] = "succeeded"
        PROVE  \E n \in 1..MaxEffects : <<p, n>> \in canonical
    <3>1. <<p, evidence[p].outcome.receipt>> \in canonical
      BY <2>2 DEF SInv, Ledgered
    <3>2. evidence[p].outcome.receipt \in 1..MaxEffects
      BY <3>1 DEF SInv, IInv, TInv, LedgerOK
    <3> QED BY <3>1, <3>2
  <2> QED BY <2>1, <2>2 DEF CanonicalIsEarned
<1> QED BY <1>1, SettlingInvariance, PTL

\* What a settled row says is what the episode says.
THEOREM SettledRowsAgree == Spec => []SettledRowAgrees
<1>1. SInv => SettledRowAgrees
  BY DEF SInv, Ledgered, Settling, SettledRowAgrees
<1> QED BY <1>1, SettlingInvariance, PTL

-----------------------------------------------------------------------------
(* The outbox implements ActionDelivery, unless an idempotent provider     *)
(* forgets its receipts                                                    *)

ReceiptsAreKept == SupportsIdempotency => ~ReceiptsMayExpire

\* An effect of an idempotent provider has its receipt, so a repeated request
\* finds it; and such a provider is asked again, never given up.
NoRepeat ==
  /\ \A p \in Proposals : effects[p] <= 1
  /\ SupportsIdempotency =>
       /\ \A p \in Proposals : effects[p] > 0 => receipts[p] # NoOutcome
       /\ \A w \in Workers : pc[w] # "giveUp"

RInv == SInv /\ NoRepeat

LEMMA InitRInv == Init => RInv
BY InitSInv DEF Init, RInv, NoRepeat

\* A new effect is the first one of its proposal.
LEMMA FirstEffect ==
  ASSUME NEW w \in Workers, NEW p \in Proposals, RInv, Send(w, p),
         effects' # effects
  PROVE  effects[p] = 0
<1>1. effects[p] \in Nat
  BY BoundsAssumption DEF RInv, SInv, IInv, TInv, ProviderOK
<1>2. CASE SupportsIdempotency
  BY <1>1, <1>2, SendFacts DEF RInv, SInv, IInv, NoRepeat
<1>3. CASE ~SupportsIdempotency
  BY <1>1, <1>3, SendFacts DEF RInv, SInv, IInv, SendsOnce
<1> QED BY <1>2, <1>3

LEMMA NoRepeatStep ==
  ASSUME ReceiptsAreKept, RInv, SInv', [Next]_vars
  PROVE  NoRepeat'
<1> USE DEF RInv, NoRepeat
<1>1. TInv /\ IInv /\ TInv'
  BY DEF SInv, IInv
<1>2. CASE UNCHANGED <<effects, receipts, pc>>
  BY <1>2
<1>3. CASE Tick
  BY <1>2, <1>3 DEF Tick, providerVars, workerVars
<1>4. ASSUME NEW p \in Proposals, Enqueue(p) PROVE NoRepeat'
  BY <1>2, <1>4 DEF Enqueue, providerVars, workerVars
<1>5. ASSUME NEW p \in Proposals, ExpireReceipt(p) PROVE NoRepeat'
  BY <1>5 DEF ExpireReceipt, ReceiptsAreKept, workerVars
<1>6. ASSUME NEW w \in Workers, UNCHANGED <<effects, receipts>>, Others(w),
             SupportsIdempotency => pc'[w] # "giveUp"
      PROVE  NoRepeat'
  BY <1>6 DEF Others, Stays
<1>7. ASSUME NEW w \in Workers, NEW p \in Proposals, Lease(w, p) \/ Reconcile(w, p)
      PROVE  NoRepeat'
  <2>1. SupportsIdempotency => pc'[w] # "giveUp"
    BY <1>1, <1>7, StartFacts DEF ReconcileStep, WithoutReceipt
  <2> QED BY <1>1, <1>6, <1>7, <2>1, StartFacts
<1>8. ASSUME NEW w \in Workers,
             \/ LoseLease(w) \/ StoreSentRefused(w) \/ AckFailure(w) \/ Attest(w)
             \/ AttestRefused(w) \/ LookupFound(w) \/ LookupWaits(w)
             \/ LookupTimesOut(w) \/ Crash(w)
      PROVE  NoRepeat'
  <2>1. SupportsIdempotency => pc'[w] # "giveUp"
    BY <1>1, <1>8, LocalFacts DEF TInv, GoesOn, WithoutReceipt
  <2> QED BY <1>1, <1>6, <1>8, <2>1, LocalFacts DEF TInv
<1>9. ASSUME NEW w \in Workers, NEW p \in Proposals,
             \/ BeginDispatch(w, p) \/ StoreSent(w, p)
             \/ MarkAcknowledged(w, p) \/ MarkAmbiguous(w, p) \/ RequeueExpired(w, p)
      PROVE  NoRepeat'
  BY <1>1, <1>6, <1>9, RowFacts DEF GoesOn
<1>10. ASSUME NEW w \in Workers, NEW p \in Proposals, Promote(w, p) \/ GiveUp(w, p)
       PROVE  NoRepeat'
  <2>1. UNCHANGED <<effects, receipts>>
    BY <1>10 DEF Promote, GiveUp, providerVars
  <2>2. Others(w) /\ pc'[w] # "giveUp"
    BY <1>1, <1>10 DEF Promote, GiveUp, RecordOutcome, TInv, WorkersOK, Return, Go,
                       Others, Stays
  <2> QED BY <1>6, <2>1, <2>2
<1>11. ASSUME NEW w \in Workers, NEW p \in Proposals, Send(w, p)
       PROVE  NoRepeat'
  <2>1. Others(w) /\ pc'[w] = "store"
    BY <1>1, <1>11, SendFacts
  <2>2. CASE UNCHANGED <<effects, receipts>>
    BY <1>6, <2>1, <2>2
  <2>3. CASE ~UNCHANGED <<effects, receipts>>
    <3>1. /\ result'[w] \in Reply
          /\ effects' = [effects EXCEPT ![p] = @ + 1]
          /\ \/ receipts' = [receipts EXCEPT ![p] = result'[w]]
             \/ ~SupportsIdempotency /\ UNCHANGED receipts
      BY <1>1, <1>11, <2>3, SendFacts
    <3>2. effects \in [Proposals -> Nat]
      BY <1>1, BoundsAssumption DEF TInv, ProviderOK
    <3>3. effects[p] = 0
      BY <1>11, <3>1, <3>2, FirstEffect
    <3>4. \A q \in Proposals : effects'[q] = IF q = p THEN 1 ELSE effects[q]
      BY <3>1, <3>2, <3>3
    <3>5. SupportsIdempotency =>
            \A q \in Proposals : effects'[q] > 0 => receipts'[q] # NoOutcome
      BY <1>1, <3>1, <3>4, ReplyFacts DEF TInv, ProviderOK
    <3> QED BY <2>1, <3>4, <3>5 DEF Others, Stays
  <2> QED BY <2>2, <2>3
<1>12. CASE UNCHANGED vars
  BY <1>2, <1>12 DEF vars
<1> QED BY <1>3, <1>4, <1>5, <1>7, <1>8, <1>9, <1>10, <1>11, <1>12 DEF Next, WorkerStep

\* The invariant the simulation rests on.
LEMMA DeliveryInvariance ==
  ASSUME ReceiptsAreKept
  PROVE  Spec => []RInv
<1>1. RInv /\ [Next]_vars => RInv'
  BY SettlingInductive, NoRepeatStep DEF RInv
<1> QED BY <1>1, InitRInv, PTL DEF Spec

LEMMA InitSimulation == Init => Delivery!Init
<1> SUFFICES ASSUME Init PROVE Verdict = [p \in Proposals |-> "open"]
  BY DEF Init, Delivery!Init
<1> QED BY DEF Init, Verdict, TerminalRun

\* A terminal run has its evidence, and a definite one its effect.
LEMMA VerdictFacts ==
  ASSUME RInv, NEW p \in Proposals
  PROVE  /\ Verdict[p] \in {"open"} \cup TerminalRun
         /\ Verdict[p] = "open" <=> evidence[p] = NoOutcome
         /\ Verdict[p] \in {"succeeded", "failed"} => effects[p] > 0
<1>1. CASE evidence[p] = NoOutcome
  BY <1>1 DEF RInv, SInv, Ledgered, Verdict, TerminalRun
<1>2. CASE evidence[p] # NoOutcome
  <2>1. evidence[p].outcome \in Outcome /\ run[p] = evidence[p].outcome.status
    BY <1>2, ReplyFacts DEF RInv, SInv, IInv, TInv, LedgerOK, Ledgered
  <2>2. Verdict[p] = evidence[p].outcome.status /\ Verdict[p] \in TerminalRun
    BY <2>1, ReplyFacts DEF Verdict
  <2>3. evidence[p].outcome.receipt <= effects[p] /\ effects[p] \in Nat
    BY <1>2, BoundsAssumption DEF RInv, SInv, IInv, TInv, ProviderOK, Backed
  <2>4. evidence[p].outcome.status # "ambiguous" => evidence[p].outcome.receipt \in 1..MaxEffects
    BY <2>1, ReplyFacts
  <2> QED BY <1>2, <2>2, <2>3, <2>4, BoundsAssumption DEF TerminalRun
<1> QED BY <1>1, <1>2

\* A send is an effect of the abstract provider, or nothing.
LEMMA SendSimulation ==
  ASSUME NEW w \in Workers, NEW p \in Proposals, RInv, Send(w, p)
  PROVE  Delivery!Effect(p) \/ UNCHANGED <<effects, Verdict>>
<1>1. UNCHANGED run
  BY SendFacts DEF RInv, SInv, IInv
<1>2. UNCHANGED Verdict
  BY <1>1 DEF Verdict
<1>3. CASE effects' # effects
  <2>1. effects[p] = 0 /\ effects' = [effects EXCEPT ![p] = @ + 1]
    BY <1>3, FirstEffect, SendFacts DEF RInv, SInv, IInv
  <2>2. effects' = [effects EXCEPT ![p] = 1]
    BY <2>1 DEF RInv, SInv, IInv, TInv, ProviderOK
  <2>3. Verdict[p] \in {"open", "ambiguous"}
    BY <2>1, VerdictFacts DEF TerminalRun
  <2> QED BY <1>2, <2>1, <2>2, <2>3 DEF Delivery!Effect
<1> QED BY <1>2, <1>3

\* Recording an outcome decides the action, leaves it in doubt, or repeats what
\* was decided.
LEMMA RecordSimulation ==
  ASSUME NEW w \in Workers, NEW p \in Proposals, RInv, Promote(w, p) \/ GiveUp(w, p)
  PROVE  \/ Delivery!Decide(p) \/ Delivery!LeaveInDoubt(p)
         \/ UNCHANGED <<effects, Verdict>>
<1> USE DEF RInv, SInv, IInv, TInv
<1>1. UNCHANGED effects
  BY DEF Promote, GiveUp, providerVars
<1>2. CASE UNCHANGED run
  BY <1>1, <1>2 DEF Verdict
<1>3. ASSUME NEW o \in Outcome, Accepts(p, o)
      PROVE  /\ Verdict[p] = "open"
             /\ Verdict' = [Verdict EXCEPT ![p] = o.status]
  <2>1. o.status \in TerminalRun
    BY ReplyFacts
  <2>2. \A q \in Proposals : run'[q] = IF q = p THEN o.status ELSE run[q]
    BY <1>3 DEF Accepts, LedgerOK
  <2>3. Verdict[p] = "open"
    BY <1>3, VerdictFacts DEF Accepts
  <2>4. \A q \in Proposals : Verdict'[q] = IF q = p THEN o.status ELSE Verdict[q]
    BY <2>1, <2>2 DEF Verdict
  <2> QED BY <2>3, <2>4 DEF Verdict
<1>4. CASE Promote(w, p)
  <2>1. /\ result[w] \in Reply /\ result[w] \in Outcome
        /\ handle[w] \in Handle \cup {NoHandle}
        /\ task[w] = p /\ result[w].receipt <= effects[p]
    BY <1>4 DEF Promote, WorkersOK, Outcome, Backed
  <2>2. effects[p] = 1
    BY <2>1, ReplyFacts, BoundsAssumption DEF ProviderOK, NoRepeat
  <2>3. Accepts(p, result[w]) \/ UNCHANGED run
    BY <1>4, <2>1, RecordFacts DEF Promote
  <2>4. ASSUME Accepts(p, result[w]) PROVE Delivery!Decide(p)
    BY <1>1, <1>3, <2>1, <2>2, <2>4, ReplyFacts DEF Delivery!Decide
  <2> QED BY <1>2, <2>3, <2>4
<1>5. CASE GiveUp(w, p)
  <2>1. ~SupportsIdempotency
    BY <1>5 DEF GiveUp, NoRepeat
  <2>2. Ambiguous \in Outcome /\ NoHandle \in Handle \cup {NoHandle}
    BY DEF Outcome
  <2>3. Accepts(p, Ambiguous) \/ UNCHANGED run
    BY <1>5, <2>2, RecordFacts DEF GiveUp
  <2>4. ASSUME Accepts(p, Ambiguous) PROVE Delivery!LeaveInDoubt(p)
    BY <1>1, <1>3, <2>1, <2>2, <2>4, ReplyFacts DEF Delivery!LeaveInDoubt
  <2> QED BY <1>2, <2>3, <2>4
<1> QED BY <1>4, <1>5

\* Enqueueing a run leaves its verdict open.
LEMMA EnqueueSimulation ==
  ASSUME NEW p \in Proposals, RInv, Enqueue(p)
  PROVE  UNCHANGED <<effects, Verdict>>
<1>1. UNCHANGED effects /\ run[p] = "proposed" /\ run' = [run EXCEPT ![p] = "enqueued"]
  BY DEF Enqueue, providerVars
<1>2. \A q \in Proposals : run'[q] = IF q = p THEN "enqueued" ELSE run[q]
  BY <1>1 DEF RInv, SInv, IInv, TInv, LedgerOK
<1> QED BY <1>1, <1>2 DEF Verdict, TerminalRun

LEMMA StepSimulation ==
  ASSUME RInv, [Next]_vars
  PROVE  [Delivery!Next]_(Delivery!vars)
<1>1. CASE UNCHANGED <<effects, run>>
  BY <1>1 DEF Delivery!vars, Verdict
<1>2. ASSUME NEW p \in Proposals, Delivery!Effect(p) \/ Delivery!Decide(p) \/ Delivery!LeaveInDoubt(p)
      PROVE  Delivery!Next
  BY <1>2 DEF Delivery!Next
<1>3. TInv
  BY DEF RInv, SInv, IInv
<1>4. CASE Tick \/ UNCHANGED vars
  BY <1>1, <1>4 DEF Tick, vars, storeVars, providerVars
<1>5. ASSUME NEW p \in Proposals, Enqueue(p) \/ ExpireReceipt(p)
      PROVE  UNCHANGED <<effects, Verdict>>
  <2>1. CASE ExpireReceipt(p)
    BY <2>1 DEF ExpireReceipt, storeVars, Verdict
  <2> QED BY <1>5, <2>1, EnqueueSimulation
<1>6. ASSUME NEW w \in Workers, NEW p \in Proposals, Lease(w, p) \/ Reconcile(w, p)
      PROVE  UNCHANGED <<effects, run>>
  BY <1>3, <1>6, StartFacts
<1>7. ASSUME NEW w \in Workers, WorkerStep(w) \/ Crash(w)
      PROVE  \/ UNCHANGED <<effects, run>>
             \/ \E p \in Proposals : Send(w, p) \/ Promote(w, p) \/ GiveUp(w, p)
  BY <1>3, <1>7, LocalFacts, RowFacts DEF WorkerStep, TInv
<1>8. ASSUME NEW w \in Workers, WorkerStep(w) \/ Crash(w)
      PROVE  [Delivery!Next]_(Delivery!vars)
  BY <1>1, <1>2, <1>7, <1>8, SendSimulation, RecordSimulation DEF Delivery!vars
<1> QED BY <1>1, <1>4, <1>5, <1>6, <1>8 DEF Next, Delivery!vars

\* One effect and one verdict per action, the verdict only after the effect,
\* and no doubt left where a repeated request is recognised: for every provider
\* but an idempotent one that forgets its receipts.
THEOREM OutboxDeliversOnce ==
  ASSUME ReceiptsAreKept
  PROVE  Spec => DeliversOnce
<1>1. Init => Delivery!Init
  BY InitSimulation
<1>2. RInv /\ [Next]_vars => [Delivery!Next]_(Delivery!vars)
  BY StepSimulation
<1> QED BY <1>1, <1>2, DeliveryInvariance, PTL DEF Spec, DeliversOnce, Delivery!Spec
=============================================================================
