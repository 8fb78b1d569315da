--------------------------- MODULE MigratorProofs ---------------------------
(***************************************************************************)
(* Theorems about the migrator, for every number of calls, migrations,     *)
(* crashes and stalls, and every initial schema.                           *)
(***************************************************************************)
EXTENDS Migrator, FiniteSetTheorems, TLAPS

-----------------------------------------------------------------------------
(* The inductive invariant *)

\* What a call read is still true, in the sense it acts on: the history only
\* grows, and an intent goes only when its migration is recorded.
Believed ==
  \A m \in Calls : /\ applied[m] \subseteq history
                   /\ pending[m] \subseteq history \cup intents

\* Where the loop of a call is, everything before is recorded.
Reached ==
  \A m \in Calls :
    /\ pc[m] \in {"start", "loadApplied", "loadIntents", "validate"} => version[m] = 1
    /\ pc[m] \in InLoop \cup Adoption => 1..(version[m] - 1) \subseteq history
    /\ pc[m] \in Adoption \cup (InLoop \ {"renew"}) => version[m] \in Versions
    /\ pc[m] = "clear" => version[m] \in history
    /\ pc[m] = "execute" => version[m] \in history \cup intents

\* As long as no live call let its lease run out, a live call has the lease, and
\* the lease is current.
Leased ==
  ~stalled => \A m \in Calls : Live(m) => Holds(m) /\ lock.expires > clock

IInv == /\ TypeOK /\ Believed /\ Reached /\ Leased
        /\ HistoryIsAPrefix /\ CrashGapCovered

LEMMA InitInv == Init => IInv
<1> SUFFICES ASSUME Init PROVE IInv
  OBVIOUS
<1>1. TypeOK
  <2>1. 0 \in 0..MaxTime /\ 0 \in 0..MaxCrashes /\ 1 \in 1..(N + 1)
    BY MigratorAssumption
  <2>2. objects \subseteq Versions
    BY MigratorAssumption DEF Init
  <2> QED BY <2>1, <2>2 DEF Init, TypeOK, Free, Over
<1>2. Believed /\ HistoryIsAPrefix /\ CrashGapCovered
  BY DEF Init, Believed, HistoryIsAPrefix, CrashGapCovered
<1>3. Reached
  BY DEF Init, Reached, InLoop, Adoption
<1>4. Leased
  BY DEF Init, Leased, Live, Over, Changing
<1> QED BY <1>1, <1>2, <1>3, <1>4 DEF IInv

-----------------------------------------------------------------------------
(* Lemmas about the operators *)

\* A new lease runs out later than now.
LEMMA LeaseIsCurrent ==
  ASSUME TypeOK
  PROVE  clock + LeaseSeconds \in Nat /\ clock + LeaseSeconds > clock
BY MigratorAssumption DEF TypeOK

\* A statement makes or drops an object of the migrations.
LEMMA AfterIsTyped ==
  ASSUME TypeOK, NEW v \in Versions
  PROVE  After(v) \subseteq Versions
BY DEF After, TypeOK

\* Steps that touch only the lease.
LEMMA LeaseOnly ==
  ASSUME IInv, NEW m \in Calls, UNCHANGED <<clock, tables, locals, crashes, observed>>,
         lost' \in [Calls -> BOOLEAN],
         NEW to \in Over \cup InLoop \cup Adoption \cup
                    {"loadApplied", "loadIntents", "validate", "release", "finish"},
         pc' = [pc EXCEPT ![m] = to],
         lock' \in [owner : Calls \cup {Nobody}, expires : Nat],
         \* the lease is as it was, or given up by its owner, or new for m
         \/ lock' = lock
         \/ lock' = Free /\ Holds(m) /\ to \in Over
         \/ lock' = [owner |-> m, expires |-> clock + LeaseSeconds]
              /\ (Holds(m) \/ Available),
         \* the target is entered rightly
         to \in {"start", "loadApplied", "loadIntents", "validate"} => version[m] = 1,
         to \in InLoop \cup Adoption => 1..(version[m] - 1) \subseteq history,
         to \in Adoption \cup (InLoop \ {"renew"}) => version[m] \in Versions,
         to = "clear" => version[m] \in history,
         to = "execute" => version[m] \in history \cup intents,
         to \notin Over =>
           Live(m) \/ lock' = [owner |-> m, expires |-> clock + LeaseSeconds]
  PROVE  IInv'
<1>1. /\ clock' = clock /\ history' = history /\ intents' = intents
      /\ objects' = objects /\ executed' = executed
      /\ applied' = applied /\ pending' = pending /\ version' = version
      /\ crashes' = crashes /\ unmanaged' = unmanaged /\ stalled' = stalled
  BY DEF tables, locals, observed
<1>2. /\ pc'[m] = to
      /\ \A n \in Calls : n # m => pc'[n] = pc[n]
      /\ TypeOK'
  BY <1>1 DEF IInv, TypeOK
<1>3. Believed' /\ HistoryIsAPrefix' /\ CrashGapCovered'
  BY <1>1 DEF IInv, Believed, HistoryIsAPrefix, CrashGapCovered
<1>4. Reached'
  BY <1>1, <1>2 DEF IInv, Reached
<1>5. Leased'
  <2> SUFFICES ASSUME ~stalled, NEW n \in Calls, Live(n)'
               PROVE  Holds(n)' /\ lock'.expires > clock
    BY <1>1 DEF Leased
  <2>1. \A k \in Calls : Live(k) => Holds(k) /\ lock.expires > clock
    BY DEF IInv, Leased
  <2>2. Nobody \notin Calls /\ clock + LeaseSeconds > clock
    BY MigratorAssumption, LeaseIsCurrent DEF IInv
  <2>3. CASE lock' = [owner |-> m, expires |-> clock + LeaseSeconds]
             /\ (Holds(m) \/ Available)
    <3>1. lock'.owner = m /\ lock'.expires > clock
      BY <2>2, <2>3
    <3>2. lock.expires \in Nat /\ clock \in Nat
      BY DEF IInv, TypeOK
    <3>3. n = m
      BY <1>2, <2>1, <2>2, <2>3, <3>2 DEF Holds, Live, Available
    <3> QED BY <3>1, <3>3 DEF Holds
  <2>4. CASE lock' = Free /\ Holds(m) /\ to \in Over
    BY <1>2, <2>1, <2>2, <2>4 DEF Live, Holds
  <2>5. CASE lock' = lock /\ lock' # [owner |-> m, expires |-> clock + LeaseSeconds]
    BY <1>2, <2>1, <2>5 DEF Live, Holds
  <2>6. lock' = [owner |-> m, expires |-> clock + LeaseSeconds] /\ lock' = lock =>
          n = m \/ Live(n)
    BY <1>2 DEF Live
  <2>7. CASE lock' = [owner |-> m, expires |-> clock + LeaseSeconds] /\ lock' = lock
    BY <2>1, <2>2, <2>6, <2>7 DEF Holds
  <2> QED BY <2>3, <2>4, <2>5, <2>7
<1> QED BY <1>2, <1>3, <1>4, <1>5 DEF IInv

LEMMA TickStep == IInv /\ Tick => IInv'
<1> SUFFICES ASSUME IInv, Tick PROVE IInv'
  OBVIOUS
<1>1. /\ lock' = lock /\ history' = history /\ intents' = intents
      /\ objects' = objects /\ executed' = executed /\ pc' = pc
      /\ applied' = applied /\ pending' = pending /\ version' = version
      /\ lost' = lost /\ crashes' = crashes /\ unmanaged' = unmanaged
      /\ clock < MaxTime /\ clock' = clock + 1
      /\ stalled' = (stalled \/ \E m \in Calls : Live(m) /\ Holds(m)
                                                 /\ lock.expires <= clock + 1)
  BY DEF Tick, tables, locals
<1>2. TypeOK'
  BY <1>1, MigratorAssumption DEF IInv, TypeOK
<1>3. Leased'
  <2> SUFFICES ASSUME ~stalled', NEW n \in Calls, Live(n)
               PROVE  Holds(n) /\ lock.expires > clock + 1
    BY <1>1 DEF Leased, Live, Holds
  <2>1. ~stalled
    BY <1>1
  <2>2. ~(Live(n) /\ Holds(n) /\ lock.expires <= clock + 1)
    BY <1>1
  <2> QED BY <2>1, <2>2 DEF IInv, Leased, TypeOK
<1>4. Believed' /\ Reached' /\ HistoryIsAPrefix' /\ CrashGapCovered'
  BY <1>1 DEF IInv, Believed, Reached, HistoryIsAPrefix, CrashGapCovered
<1> QED BY <1>2, <1>3, <1>4 DEF IInv

\* What a step of one call leaves alone.
LEMMA LeasedStays ==
  ASSUME IInv, NEW m \in Calls, clock' = clock, lock' = lock, stalled' = stalled,
         NEW to, pc' = [pc EXCEPT ![m] = to],
         to \notin Over => Live(m)
  PROVE  Leased'
<1>1. pc'[m] = to /\ \A n \in Calls : n # m => pc'[n] = pc[n]
  BY DEF IInv, TypeOK
<1> QED BY <1>1 DEF IInv, Leased, Live, Holds

\* A renewal gets a call to the step it asks for, or to give up.
LEMMA RenewStep ==
  ASSUME IInv, NEW m \in Calls,
         UNCHANGED <<clock, tables, locals, lost, crashes, observed>>,
         NEW to \in Adoption \cup (InLoop \ {"renew", "clear"}),
         Live(m), Renew(m, to),
         1..(version[m] - 1) \subseteq history, version[m] \in Versions,
         to = "execute" => version[m] \in history \cup intents
  PROVE  IInv'
<1>1. lost' \in [Calls -> BOOLEAN] /\ clock + LeaseSeconds \in Nat
  BY LeaseIsCurrent DEF IInv, TypeOK
<1>2. CASE Holds(m)
  <2>1. lock' = [lock EXCEPT !.expires = clock + LeaseSeconds]
        /\ pc' = [pc EXCEPT ![m] = to]
    BY <1>2 DEF Renew, Go
  <2>2. lock' = [owner |-> m, expires |-> clock + LeaseSeconds]
    BY <1>2, <2>1 DEF Holds, IInv, TypeOK
  <2>3. lock' \in [owner : Calls \cup {Nobody}, expires : Nat] /\ lock'.owner = m
    BY <1>1, <2>2
  <2> QED BY <1>1, <1>2, <2>1, <2>2, <2>3, LeaseOnly DEF InLoop, Adoption
<1>3. CASE ~Holds(m)
  <2>1. lock' = lock /\ pc' = [pc EXCEPT ![m] = "release"]
    BY <1>3 DEF Renew, Go
  <2> QED BY <1>1, <2>1, LeaseOnly DEF IInv, TypeOK, InLoop, Adoption, Over, Changing
<1> QED BY <1>2, <1>3

LEMMA CallStepInv ==
  ASSUME IInv, NEW m \in Calls, CallStep(m), UNCHANGED observed
  PROVE  IInv'
<1>0. /\ pc \in [Calls -> Over \cup InLoop \cup Adoption \cup
                   {"loadApplied", "loadIntents", "validate", "release", "finish"}]
      /\ lock \in [owner : Calls \cup {Nobody}, expires : Nat]
      /\ lost \in [Calls -> BOOLEAN]
      /\ version \in [Calls -> 1..(N + 1)]
      /\ unmanaged' = unmanaged /\ stalled' = stalled
      /\ clock + LeaseSeconds \in Nat
  BY LeaseIsCurrent DEF IInv, TypeOK, observed
<1>1. CASE Lease(m)
  <2>1. /\ pc[m] = "start" /\ version[m] = 1
        /\ UNCHANGED <<clock, tables, locals, lost, crashes>>
    BY <1>1 DEF Lease, IInv, Reached
  <2>2. CASE Available
    <3>1. lock' = [owner |-> m, expires |-> clock + LeaseSeconds]
          /\ pc' = [pc EXCEPT ![m] = "loadApplied"]
      BY <1>1, <2>2 DEF Lease, Go
    <3>2. lock' \in [owner : Calls \cup {Nobody}, expires : Nat] /\ lock'.owner = m
      BY <1>0, <3>1
    <3> QED BY <1>0, <2>1, <2>2, <3>1, <3>2, LeaseOnly
            DEF InLoop, Adoption, Changing, Over
  <2>3. CASE ~Available
    <3>1. lock' = lock /\ pc' = [pc EXCEPT ![m] = "failed"]
      BY <1>1, <2>3 DEF Lease, Go
    <3> QED BY <1>0, <2>1, <3>1, LeaseOnly
            DEF InLoop, Adoption, Changing, Over, Live
  <2> QED BY <2>2, <2>3
<1>2. CASE Heartbeat(m)
  <2>1. /\ Live(m) /\ pc' = pc
        /\ UNCHANGED <<clock, tables, locals, crashes>>
    BY <1>2 DEF Heartbeat
  <2>2. CASE Holds(m)
    <3>1. lock' = [lock EXCEPT !.expires = clock + LeaseSeconds] /\ lost' = lost
      BY <1>2, <2>2 DEF Heartbeat
    <3>2. lock' = [owner |-> m, expires |-> clock + LeaseSeconds]
      BY <1>0, <2>2, <3>1 DEF Holds
    <3>3. lock' \in [owner : Calls \cup {Nobody}, expires : Nat] /\ lock'.owner = m
      BY <1>0, <3>2
    <3>4. pc' = [pc EXCEPT ![m] = pc[m]]
      BY <1>0, <2>1
    <3> QED BY <1>0, <2>1, <2>2, <3>1, <3>2, <3>3, <3>4, LeaseOnly
            DEF IInv, Reached, Live
  <2>3. CASE ~Holds(m)
    <3>1. lock' = lock /\ lost' = [lost EXCEPT ![m] = TRUE]
      BY <1>2, <2>3 DEF Heartbeat
    <3> QED BY <1>0, <2>1, <3>1
            DEF IInv, TypeOK, Believed, Reached, Leased, HistoryIsAPrefix,
                CrashGapCovered, tables, locals, Live, Holds
  <2> QED BY <2>2, <2>3
<1>3. CASE Release(m)
  <2>1. /\ lock' = lock \/ (lock' = Free /\ Holds(m))
        /\ pc' = [pc EXCEPT ![m] = "failed"] /\ Live(m)
        /\ UNCHANGED <<clock, tables, locals, lost, crashes>>
    BY <1>3 DEF Release, Unlock, Go, Live, Over
  <2>2. Free \in [owner : Calls \cup {Nobody}, expires : Nat]
    BY DEF Free
  <2> QED BY <1>0, <2>1, <2>2, LeaseOnly DEF InLoop, Adoption, Changing, Over
<1>4. CASE Finish(m)
  <2>1. PICK to \in {"failed", "done"} :
          /\ lock' = lock \/ (lock' = Free /\ Holds(m))
          /\ pc' = [pc EXCEPT ![m] = to] /\ Live(m)
          /\ UNCHANGED <<clock, tables, locals, lost, crashes>>
    BY <1>4 DEF Finish, Unlock, Go, Live, Over
  <2>2. Free \in [owner : Calls \cup {Nobody}, expires : Nat]
    BY DEF Free
  <2> QED BY <1>0, <2>1, <2>2, LeaseOnly DEF InLoop, Adoption, Changing, Over
<1>5. CASE LoadApplied(m)
  <2>1. /\ pc[m] = "loadApplied" /\ version[m] = 1
        /\ pc' = [pc EXCEPT ![m] = "loadIntents"]
        /\ applied' = [applied EXCEPT ![m] = history]
        /\ UNCHANGED <<clock, lock, tables, pending, version, lost, crashes>>
    BY <1>5 DEF LoadApplied, Go, IInv, Reached
  <2>2. Leased'
    BY <1>0, <2>1, LeasedStays DEF Changing, Over, Live
  <2> QED BY <1>0, <2>1, <2>2
          DEF IInv, TypeOK, Believed, Reached, HistoryIsAPrefix, CrashGapCovered,
              tables, InLoop, Adoption
<1>6. CASE LoadIntents(m)
  <2>1. /\ pc[m] = "loadIntents" /\ version[m] = 1
        /\ pc' = [pc EXCEPT ![m] = "validate"]
        /\ pending' = [pending EXCEPT ![m] = intents]
        /\ UNCHANGED <<clock, lock, tables, applied, version, lost, crashes>>
    BY <1>6 DEF LoadIntents, Go, IInv, Reached
  <2>2. Leased'
    BY <1>0, <2>1, LeasedStays DEF Changing, Over, Live
  <2> QED BY <1>0, <2>1, <2>2
          DEF IInv, TypeOK, Believed, Reached, HistoryIsAPrefix, CrashGapCovered,
              tables, InLoop, Adoption
<1>7. CASE ClearStale(m)
  <2>1. PICK v \in applied[m] \cap pending[m] :
          /\ intents' = intents \ {v}
          /\ pending' = [pending EXCEPT ![m] = @ \ {v}]
    BY <1>7 DEF ClearStale, StaleIntents
  <2>2. UNCHANGED <<clock, lock, history, objects, executed, pc, applied, version,
                    lost, crashes>>
    BY <1>7 DEF ClearStale
  <2>3. v \in history
    BY <2>1 DEF IInv, Believed
  <2>4. TypeOK'
    BY <1>0, <2>1, <2>2 DEF IInv, TypeOK
  <2>5. Believed' /\ Reached' /\ CrashGapCovered' /\ HistoryIsAPrefix'
    BY <1>0, <2>1, <2>2, <2>3
       DEF IInv, TypeOK, Believed, Reached, HistoryIsAPrefix, CrashGapCovered
  <2>6. Leased'
    BY <1>0, <2>2 DEF IInv, Leased, Live, Holds
  <2> QED BY <2>4, <2>5, <2>6 DEF IInv
<1>8. CASE Validate(m)
  <2>1. PICK to \in {"release", "renew", "adopt"} : pc' = [pc EXCEPT ![m] = to]
    BY <1>8 DEF Validate, Go
  <2>2. /\ pc[m] = "validate" /\ version[m] = 1 /\ lock' = lock
        /\ UNCHANGED <<clock, tables, locals, lost, crashes>>
    BY <1>8 DEF Validate, IInv, Reached
  <2>3. 1..(version[m] - 1) = {} /\ 1 \in Versions
    BY <2>2, MigratorAssumption DEF Versions
  <2> QED BY <1>0, <2>1, <2>2, <2>3, LeaseOnly DEF InLoop, Adoption, Changing, Over, Live
<1>9. CASE Adopt(m)
  <2>1. PICK to \in {"release", "renewAdopt"} : pc' = [pc EXCEPT ![m] = to]
    BY <1>9 DEF Adopt, Go
  <2>2. /\ pc[m] = "adopt" /\ lock' = lock
        /\ 1..(version[m] - 1) \subseteq history /\ version[m] \in Versions
        /\ UNCHANGED <<clock, tables, locals, lost, crashes>>
    BY <1>9 DEF Adopt, IInv, Reached, Adoption
  <2> QED BY <1>0, <2>1, <2>2, LeaseOnly DEF InLoop, Adoption, Changing, Over, Live
<1>10. CASE RenewAdopt(m)
  <2>1. /\ pc[m] = "renewAdopt"
        /\ 1..(version[m] - 1) \subseteq history /\ version[m] \in Versions
        /\ UNCHANGED <<clock, tables, locals, lost, crashes>>
        /\ Renew(m, "recordAdopt")
    BY <1>10 DEF RenewAdopt, IInv, Reached, Adoption
  <2> QED BY <1>0, <2>1, RenewStep DEF InLoop, Adoption, Over, Live
<1>11. CASE RecordAdopt(m)
  <2>1. /\ pc[m] = "recordAdopt"
        /\ 1..(version[m] - 1) \subseteq history /\ version[m] \in Versions
        /\ UNCHANGED <<clock, lock, intents, objects, executed, applied, pending,
                       lost, crashes>>
    BY <1>11 DEF RecordAdopt, IInv, Reached, Adoption
  <2>2. CASE version[m] \in history
    <3>1. history' = history /\ version' = version /\ pc' = [pc EXCEPT ![m] = "release"]
      BY <1>11, <2>2 DEF RecordAdopt, Record, Go
    <3> QED BY <1>0, <2>1, <3>1, LeaseOnly
            DEF tables, locals, InLoop, Adoption, Changing, Over, Live
  <2>3. CASE version[m] \notin history
    <3>1. history' = history \cup {version[m]}
      BY <1>11, <2>3 DEF RecordAdopt, Record
    <3>2. \/ /\ pc' = [pc EXCEPT ![m] = "finish"] /\ version' = version
          \/ /\ pc' = [pc EXCEPT ![m] = "renewAdopt"]
             /\ version' = [version EXCEPT ![m] = @ + 1] /\ version[m] # N
      BY <1>11, <2>3 DEF RecordAdopt, Record, LastAdopted, Go
    <3>3. version[m] \in 1..N /\ N \in Nat
      BY <2>1, MigratorAssumption DEF Versions
    <3>4. TypeOK'
      <4>1. version' \in [Calls -> 1..(N + 1)]
        BY <1>0, <3>2, <3>3
      <4>2. pc' \in [Calls -> Over \cup InLoop \cup Adoption \cup
                     {"loadApplied", "loadIntents", "validate", "release", "finish"}]
        BY <1>0, <3>2 DEF Adoption
      <4> QED BY <1>0, <2>1, <3>1, <4>1, <4>2 DEF IInv, TypeOK
    <3>5. Believed' /\ HistoryIsAPrefix' /\ CrashGapCovered'
      BY <2>1, <3>1, <3>3 DEF IInv, Believed, HistoryIsAPrefix, CrashGapCovered
    <3>6. Reached'
      BY <1>0, <2>1, <3>1, <3>2, <3>3 DEF IInv, Reached, InLoop, Adoption, Versions
    <3>7. Leased'
      BY <1>0, <2>1, <3>2, LeasedStays DEF Changing, Over, Live
    <3> QED BY <3>4, <3>5, <3>6, <3>7 DEF IInv
  <2> QED BY <2>2, <2>3
<1>12. CASE Skip(m)
  <2>1. /\ pc[m] = "renew" /\ version[m] \in applied[m]
        /\ version' = [version EXCEPT ![m] = @ + 1]
        /\ UNCHANGED <<clock, lock, tables, pc, applied, pending, lost, crashes>>
    BY <1>12 DEF Skip, Settled
  <2>2. /\ 1..(version[m] - 1) \subseteq history /\ version[m] \in history
        /\ version[m] \in 1..N /\ N \in Nat
    BY <2>1, MigratorAssumption DEF IInv, Reached, Believed, TypeOK, InLoop, Versions
  <2>3. TypeOK'
    BY <1>0, <2>1, <2>2 DEF IInv, TypeOK, tables
  <2>4. Believed' /\ HistoryIsAPrefix' /\ CrashGapCovered'
    BY <2>1 DEF IInv, Believed, HistoryIsAPrefix, CrashGapCovered, tables
  <2>5. Reached'
    BY <1>0, <2>1, <2>2 DEF IInv, Reached, InLoop, Adoption, tables
  <2>6. Leased'
    BY <1>0, <2>1 DEF IInv, Leased, Live, Holds
  <2> QED BY <2>3, <2>4, <2>5, <2>6 DEF IInv
<1>13. CASE RenewFirst(m)
  <2>1. PICK to \in {"execute", "intent"} :
          /\ Renew(m, to)
          /\ to = "execute" => version[m] \in pending[m]
    BY <1>13 DEF RenewFirst
  <2>2. /\ pc[m] = "renew" /\ version[m] \in Versions
        /\ 1..(version[m] - 1) \subseteq history
        /\ to = "execute" => version[m] \in history \cup intents
        /\ UNCHANGED <<clock, tables, locals, lost, crashes>>
    BY <1>13, <2>1 DEF RenewFirst, IInv, Reached, Believed, InLoop
  <2> QED BY <1>0, <2>1, <2>2, RenewStep DEF InLoop, Adoption, Over, Live
<1>14. CASE StartIntent(m)
  <2>1. /\ pc[m] = "intent" /\ version[m] \in Versions
        /\ 1..(version[m] - 1) \subseteq history
        /\ intents' = intents \cup {version[m]}
        /\ pc' = [pc EXCEPT ![m] = "execute"]
        /\ UNCHANGED <<clock, lock, history, objects, executed, locals, lost, crashes>>
    BY <1>14 DEF StartIntent, Go, IInv, Reached, InLoop
  <2>2. TypeOK'
    BY <1>0, <2>1 DEF IInv, TypeOK, locals, InLoop
  <2>3. Believed' /\ HistoryIsAPrefix' /\ CrashGapCovered'
    BY <2>1 DEF IInv, Believed, HistoryIsAPrefix, CrashGapCovered, locals
  <2>4. Reached'
    BY <1>0, <2>1 DEF IInv, Reached, InLoop, Adoption, locals
  <2>5. Leased'
    BY <1>0, <2>1, LeasedStays DEF Changing, Over, Live
  <2> QED BY <2>2, <2>3, <2>4, <2>5 DEF IInv
<1>15. CASE Execute(m)
  <2>1. /\ pc[m] = "execute" /\ version[m] \in Versions
        /\ 1..(version[m] - 1) \subseteq history
        /\ version[m] \in history \cup intents
        /\ UNCHANGED <<clock, lock, history, intents, locals, lost, crashes>>
    BY <1>15 DEF Execute, IInv, Reached, InLoop
  <2>2. PICK to \in {"renewAgain", "release"} : pc' = [pc EXCEPT ![m] = to]
    BY <1>15 DEF Execute, Go, WhenUncertain
  <2>3. /\ executed' \subseteq executed \cup {version[m]}
        /\ objects' = objects \/ objects' = After(version[m])
    BY <1>15 DEF Execute
  <2>4. TypeOK'
    BY <1>0, <2>1, <2>2, <2>3, AfterIsTyped DEF IInv, TypeOK, locals, InLoop
  <2>5. Believed' /\ HistoryIsAPrefix' /\ CrashGapCovered'
    BY <2>1, <2>3 DEF IInv, Believed, HistoryIsAPrefix, CrashGapCovered, locals
  <2>6. Reached'
    BY <1>0, <2>1, <2>2 DEF IInv, Reached, InLoop, Adoption, locals
  <2>7. Leased'
    BY <1>0, <2>1, <2>2, LeasedStays DEF Changing, Over, Live
  <2> QED BY <2>4, <2>5, <2>6, <2>7 DEF IInv
<1>16. CASE RenewAgain(m)
  <2>1. /\ pc[m] = "renewAgain" /\ version[m] \in Versions
        /\ 1..(version[m] - 1) \subseteq history
        /\ Renew(m, "record")
        /\ UNCHANGED <<clock, tables, locals, lost, crashes>>
    BY <1>16 DEF RenewAgain, IInv, Reached, InLoop
  <2> QED BY <1>0, <2>1, RenewStep DEF InLoop, Adoption, Over, Live
<1>17. CASE RecordApplied(m)
  <2>1. /\ pc[m] = "record" /\ version[m] \in Versions
        /\ 1..(version[m] - 1) \subseteq history
        /\ UNCHANGED <<clock, lock, intents, objects, executed, locals, lost, crashes>>
    BY <1>17 DEF RecordApplied, IInv, Reached, InLoop
  <2>2. PICK to \in {"release", "clear"} :
          /\ pc' = [pc EXCEPT ![m] = to]
          /\ history' = history \/ history' = history \cup {version[m]}
          /\ to = "clear" => version[m] \in history'
    BY <1>17 DEF RecordApplied, Record, Go
  <2>3. version[m] \in 1..N /\ N \in Nat
    BY <2>1, MigratorAssumption DEF Versions
  <2>4. TypeOK'
    BY <1>0, <2>1, <2>2 DEF IInv, TypeOK, locals, InLoop
  <2>5. Believed' /\ HistoryIsAPrefix' /\ CrashGapCovered'
    BY <2>1, <2>2, <2>3 DEF IInv, Believed, HistoryIsAPrefix, CrashGapCovered, locals
  <2>6. Reached'
    BY <1>0, <2>1, <2>2 DEF IInv, Reached, InLoop, Adoption, locals
  <2>7. Leased'
    BY <1>0, <2>1, <2>2, LeasedStays DEF Changing, Over, Live
  <2> QED BY <2>4, <2>5, <2>6, <2>7 DEF IInv
<1>18. CASE ClearIntent(m)
  <2>1. /\ pc[m] = "clear" /\ version[m] \in Versions /\ version[m] \in history
        /\ 1..(version[m] - 1) \subseteq history
        /\ intents' = intents \ {version[m]}
        /\ version' = [version EXCEPT ![m] = @ + 1]
        /\ pc' = [pc EXCEPT ![m] = "renew"]
        /\ UNCHANGED <<clock, lock, history, objects, executed, applied, pending,
                       lost, crashes>>
    BY <1>18 DEF ClearIntent, Go, IInv, Reached, InLoop
  <2>2. version[m] \in 1..N /\ N \in Nat
    BY <2>1, MigratorAssumption DEF Versions
  <2>3. TypeOK'
    BY <1>0, <2>1, <2>2 DEF IInv, TypeOK, InLoop
  <2>4. Believed' /\ HistoryIsAPrefix' /\ CrashGapCovered'
    BY <2>1 DEF IInv, Believed, HistoryIsAPrefix, CrashGapCovered
  <2>5. Reached'
    BY <1>0, <2>1, <2>2 DEF IInv, Reached, InLoop, Adoption
  <2>6. Leased'
    BY <1>0, <2>1, LeasedStays DEF Changing, Over, Live
  <2> QED BY <2>3, <2>4, <2>5, <2>6 DEF IInv
<1>19. CASE ValidateSchema(m)
  <2>1. PICK to \in {"finish", "release"} : pc' = [pc EXCEPT ![m] = to]
    BY <1>19 DEF ValidateSchema, Go
  <2>2. /\ pc[m] = "renew" /\ lock' = lock
        /\ UNCHANGED <<clock, tables, locals, lost, crashes>>
    BY <1>19 DEF ValidateSchema
  <2> QED BY <1>0, <2>1, <2>2, LeaseOnly DEF InLoop, Adoption, Changing, Over, Live
<1>20. CASE Crash(m)
  <2>1. /\ Live(m) /\ crashes < MaxCrashes /\ crashes' = crashes + 1
        /\ pc' = [pc EXCEPT ![m] = "crashed"]
        /\ UNCHANGED <<clock, lock, history, intents, locals, lost>>
    BY <1>20 DEF Crash, Go
  <2>2. \/ UNCHANGED <<objects, executed>>
        \/ /\ version[m] \in Versions /\ version[m] \in history \cup intents
           /\ objects' = After(version[m])
           /\ executed' = executed \cup {version[m]}
    BY <1>20 DEF Crash, IInv, Reached, InLoop
  <2>3. TypeOK'
    <3>1. crashes' \in 0..MaxCrashes
      BY <2>1, MigratorAssumption DEF IInv, TypeOK
    <3>2. objects' \subseteq Versions /\ executed' \subseteq Versions
      BY <2>2, AfterIsTyped DEF IInv, TypeOK
    <3> QED BY <1>0, <2>1, <3>1, <3>2 DEF IInv, TypeOK, locals, Over
  <2>4. Believed' /\ HistoryIsAPrefix' /\ CrashGapCovered'
    BY <2>1, <2>2 DEF IInv, Believed, HistoryIsAPrefix, CrashGapCovered, locals
  <2>5. Reached'
    BY <1>0, <2>1 DEF IInv, Reached, InLoop, Adoption, locals
  <2>6. Leased'
    BY <1>0, <2>1, LeasedStays DEF Changing, Over
  <2> QED BY <2>3, <2>4, <2>5, <2>6 DEF IInv
<1> QED BY <1>1, <1>2, <1>3, <1>4, <1>5, <1>6, <1>7, <1>8, <1>9, <1>10, <1>11, <1>12,
          <1>13, <1>14, <1>15, <1>16, <1>17, <1>18, <1>19, <1>20 DEF CallStep

LEMMA StepInv == IInv /\ [Next]_vars => IInv'
<1> SUFFICES ASSUME IInv, [Next]_vars PROVE IInv'
  OBVIOUS
<1>1. CASE UNCHANGED vars
  BY <1>1 DEF vars, IInv, TypeOK, Believed, Reached, Leased, HistoryIsAPrefix,
     CrashGapCovered, Live, Holds
<1> QED BY <1>1, TickStep, CallStepInv DEF Next

LEMMA Invariance == Spec => []IInv
BY InitInv, StepInv, PTL DEF Spec

-----------------------------------------------------------------------------
(* A second invariant: what a call read, and what the schema holds          *)

\* The history, and every reading of it, runs from the first migration, and an
\* intent comes at most one migration after it.
Progress ==
  /\ \E k \in 0..N : history = 1..k
  /\ \A m \in Calls : \E k \in 0..N : applied[m] = 1..k
  /\ \A v \in intents : 1..(v - 1) \subseteq history

\* Though calls that lost the lease go on writing, none of them can still begin
\* a migration that the holder would take for drift: to get that far it would
\* have had to renew.
Seen ==
  \A m \in Calls : Holds(m) =>
    /\ pc[m] \in {"loadIntents", "validate"} =>
         /\ \A v \in intents : 1..(v - 1) \subseteq applied[m]
         /\ \A n \in Calls : pc[n] = "intent" => 1..(version[n] - 1) \subseteq applied[m]
    /\ pc[m] = "validate" => \A v \in pending[m] : 1..(v - 1) \subseteq applied[m]

\* What a call has seen to when it comes to a step.
Earned(m, step) ==
  /\ step \in {"intent", "execute", "renewAgain", "record"} => version[m] \notin applied[m]
  /\ step \in {"renewAgain", "record"} => version[m] \in executed
  /\ step \in {"renewAdopt", "recordAdopt", "finish", "done"} => SchemaValid
  /\ step \in {"finish", "done"} => history = Versions

\* What it knows of the tables if no one else can have written to them.
Fresh(m, step) ==
  /\ step \in {"loadIntents", "validate"} => history \subseteq applied[m]
  /\ step = "validate" => intents \subseteq pending[m]
  /\ step \in InLoop \ {"clear"} => history \subseteq applied[m] \cup 1..(version[m] - 1)
  /\ step = "clear" => history \subseteq applied[m] \cup 1..version[m]

Placed == \A m \in Calls : Earned(m, pc[m]) /\ (~stalled => Fresh(m, pc[m]))

\* The schema that some of the migrations make of an empty one.
Built(E) == {v \in E : Drops[v] = 0} \ {Drops[v] : v \in E}

\* A database that started empty, under calls that keep their leases, is what
\* was executed, and is never adopted.
SchemaBuilt ==
  ~stalled /\ unmanaged = {} =>
    /\ history \subseteq executed /\ objects = Built(executed)
    /\ \A m \in Calls : pc[m] \notin Adoption

SInv == IInv /\ Progress /\ Seen /\ Placed /\ SchemaBuilt

LEMMA InitSeen == Init => SInv
<1> SUFFICES ASSUME Init PROVE SInv
  OBVIOUS
<1>1. IInv
  BY InitInv
<1>2. {} = 1..0 /\ 0 \in 0..N
  BY MigratorAssumption
<1>3. Progress
  BY <1>2 DEF Init, Progress
<1>4. Seen /\ Placed
  BY DEF Init, Seen, Placed, Earned, Fresh, InLoop
<1>5. Built({}) = {}
  BY DEF Built
<1>6. SchemaBuilt
  BY <1>5 DEF Init, SchemaBuilt, Adoption
<1> QED BY <1>1, <1>3, <1>4, <1>6 DEF SInv

\* The statement of the last migration that may have run, again or for the
\* first time, gives what the migrations up to it make.
LEMMA BuiltGrows ==
  ASSUME NEW E \in SUBSET Versions, NEW v \in Versions, \A w \in E : w <= v,
         objects = Built(E)
  PROVE  After(v) = Built(E \cup {v})
<1>1. /\ N \in Nat /\ \A w \in Versions : w \in 1..N /\ Drops[w] \in 0..N /\ Drops[w] < w
  BY MigratorAssumption DEF Versions
<1>2. CASE Drops[v] = 0
  <2>1. \A w \in E \cup {v} : Drops[w] # v
    BY <1>1
  <2>2. After(v) = objects \cup {v}
    BY <1>2 DEF After
  <2>3. 0 \notin Versions
    BY DEF Versions
  <2> QED BY <1>2, <2>1, <2>2, <2>3 DEF Built
<1>3. CASE Drops[v] # 0
  BY <1>3 DEF After, Built
<1> QED BY <1>2, <1>3

\* No statement takes away what validate_schema looks for.
LEMMA TargetStands ==
  ASSUME NEW v \in Versions, SchemaValid
  PROVE  Target \subseteq After(v)
BY DEF SchemaValid, Target, Dropped, After

\* One more record.
LEMMA HistoryGrows ==
  ASSUME NEW H, NEW k \in 0..N, H = 1..k, NEW v \in Versions, v \notin H,
         1..(v - 1) \subseteq H
  PROVE  k + 1 \in 0..N /\ v = k + 1 /\ H \cup {v} = 1..(k + 1)
<1>1. N \in Nat /\ v \in 1..N /\ k \in Nat
  BY MigratorAssumption DEF Versions
<1>2. v > k /\ (v = 1 \/ v - 1 \in 1..k)
  BY <1>1
<1> QED BY <1>1, <1>2

\* If no live call let its lease run out, at most one call is live.
LEMMA OneLives ==
  ASSUME IInv, ~stalled, NEW m \in Calls, NEW n \in Calls, Live(m), Live(n)
  PROVE  m = n
BY DEF IInv, Leased, Holds

-----------------------------------------------------------------------------
(* Steps that leave the tables and what was read alone *)

LEMMA QuietStep ==
  ASSUME SInv, IInv', NEW m \in Calls, NEW to, pc' = [pc EXCEPT ![m] = to],
         UNCHANGED <<tables, locals, observed>>,
         \A n \in Calls : Holds(n)' => Holds(n) \/ (n = m /\ to = "loadApplied"),
         to \in {"loadIntents", "validate"} => pc[m] = to,
         to = "intent" => pc[m] = to \/ Holds(m),
         Earned(m, to), ~stalled => Fresh(m, to),
         ~stalled /\ unmanaged = {} => to \notin Adoption
  PROVE  SInv'
<1>1. /\ history' = history /\ intents' = intents /\ objects' = objects
      /\ executed' = executed /\ applied' = applied /\ pending' = pending
      /\ version' = version /\ unmanaged' = unmanaged /\ stalled' = stalled
  BY DEF tables, locals, observed
<1>2. pc'[m] = to /\ \A n \in Calls \ {m} : pc'[n] = pc[n]
  BY DEF SInv, IInv, TypeOK
<1>3. Progress'
  BY <1>1 DEF SInv, Progress
<1>4. Seen'
  <2> SUFFICES ASSUME NEW n \in Calls, Holds(n)', pc'[n] \in {"loadIntents", "validate"}
               PROVE  /\ \A v \in intents : 1..(v - 1) \subseteq applied[n]
                      /\ \A q \in Calls : pc'[q] = "intent" =>
                           1..(version[q] - 1) \subseteq applied[n]
                      /\ pc'[n] = "validate" =>
                           \A v \in pending[n] : 1..(v - 1) \subseteq applied[n]
    BY <1>1 DEF Seen
  <2>1. Holds(n) /\ pc[n] = pc'[n]
    BY <1>2
  <2>2. \A q \in Calls : pc'[q] = "intent" => pc[q] = "intent"
    BY <1>2, <2>1 DEF Holds
  <2> QED BY <2>1, <2>2 DEF SInv, Seen
<1>5. Placed'
  BY <1>1, <1>2 DEF SInv, Placed, Earned, Fresh, SchemaValid
<1>6. SchemaBuilt'
  BY <1>1, <1>2 DEF SInv, SchemaBuilt, Built
<1> QED BY <1>3, <1>4, <1>5, <1>6 DEF SInv

\* A renewal.
LEMMA RenewQuietly ==
  ASSUME SInv, IInv', NEW m \in Calls, NEW to, Renew(m, to),
         UNCHANGED <<tables, locals, observed>>,
         to \notin {"loadIntents", "validate"},
         Earned(m, to), ~stalled => Fresh(m, to),
         ~stalled /\ unmanaged = {} => to \notin Adoption
  PROVE  SInv'
<1>1. \A n \in Calls : Holds(n)' => Holds(n)
  BY DEF Renew, Holds, SInv, IInv, TypeOK
<1>2. CASE Holds(m)
  <2>1. pc' = [pc EXCEPT ![m] = to]
    BY <1>2 DEF Renew, Go
  <2> QED BY <1>1, <1>2, <2>1, QuietStep
<1>3. CASE ~Holds(m)
  <2>1. pc' = [pc EXCEPT ![m] = "release"]
    BY <1>3 DEF Renew, Go
  <2>2. Earned(m, "release") /\ Fresh(m, "release") /\ "release" \notin Adoption
    BY DEF Earned, Fresh, InLoop, Adoption
  <2> QED BY <1>1, <2>1, <2>2, QuietStep
<1> QED BY <1>2, <1>3

-----------------------------------------------------------------------------
(* Steps that write *)

\* Whatever the step of one call writes, what the others have seen to stands, and
\* if leases are kept there are no others.
LEMMA OthersStand ==
  ASSUME SInv, IInv', NEW m \in Calls, Live(m), NEW n \in Calls, n # m,
         pc'[n] = pc[n], applied'[n] = applied[n], version'[n] = version[n],
         history \subseteq history', executed \subseteq executed', stalled' = stalled,
         SchemaValid => SchemaValid'
  PROVE  Earned(n, pc[n])' /\ (~stalled' => Fresh(n, pc[n])')
<1>1. Earned(n, pc[n]) /\ (~stalled => Fresh(n, pc[n]))
  BY DEF SInv, Placed
<1>2. history' \subseteq Versions
  BY DEF IInv, TypeOK
<1>3. Earned(n, pc[n])'
  BY <1>1, <1>2 DEF Earned
<1>4. ~stalled => ~Live(n)
  BY OneLives DEF SInv
<1>5. ~stalled => Fresh(n, pc[n])'
  BY <1>4 DEF Live, Over, Fresh, InLoop
<1> QED BY <1>3, <1>5

\* A step of a live call that is not one of those above.
LEMMA WriteStep ==
  ASSUME SInv, IInv', NEW m \in Calls, Live(m), lock' = lock, UNCHANGED observed,
         \A n \in Calls \ {m} : /\ pc'[n] = pc[n] /\ applied'[n] = applied[n]
                                /\ pending'[n] = pending[n] /\ version'[n] = version[n],
         history \subseteq history', executed \subseteq executed',
         SchemaValid => SchemaValid',
         Progress',
         \* every intent was there, or m had come to begin it
         \A v \in intents' : v \in intents \/ (pc[m] = "intent" /\ v = version[m]),
         pc'[m] # "intent",
         Holds(m) /\ pc'[m] \in {"loadIntents", "validate"} =>
           /\ \A v \in intents' : 1..(v - 1) \subseteq applied'[m]
           /\ \A n \in Calls : pc'[n] = "intent" => 1..(version'[n] - 1) \subseteq applied'[m],
         Holds(m) /\ pc'[m] = "validate" =>
           \A v \in pending'[m] : 1..(v - 1) \subseteq applied'[m],
         Earned(m, pc[m])', ~stalled => Fresh(m, pc[m])',
         ~stalled /\ unmanaged = {} =>
           history' \subseteq executed' /\ objects' = Built(executed') /\ pc'[m] \notin Adoption
  PROVE  SInv'
<1>1. stalled' = stalled /\ unmanaged' = unmanaged
  BY DEF observed
<1>2. Seen'
  <2> SUFFICES ASSUME NEW n \in Calls, Holds(n), pc'[n] \in {"loadIntents", "validate"}
               PROVE  /\ \A v \in intents' : 1..(v - 1) \subseteq applied'[n]
                      /\ \A q \in Calls : pc'[q] = "intent" =>
                           1..(version'[q] - 1) \subseteq applied'[n]
                      /\ pc'[n] = "validate" =>
                           \A v \in pending'[n] : 1..(v - 1) \subseteq applied'[n]
    BY DEF Seen, Holds
  <2>1. CASE n = m
    BY <2>1
  <2>2. CASE n # m
    <3>1. /\ pc[n] \in {"loadIntents", "validate"} /\ pc[n] = pc'[n]
          /\ applied'[n] = applied[n] /\ pending'[n] = pending[n]
      BY <2>2
    <3>2. \A v \in intents' : 1..(v - 1) \subseteq applied[n]
      BY <3>1 DEF SInv, Seen
    <3>3. \A q \in Calls : pc'[q] = "intent" => pc[q] = "intent" /\ version'[q] = version[q]
      OBVIOUS
    <3> QED BY <3>1, <3>2, <3>3 DEF SInv, Seen
  <2> QED BY <2>1, <2>2
<1>3. Placed'
  <2> SUFFICES ASSUME NEW n \in Calls
               PROVE  Earned(n, pc[n])' /\ (~stalled' => Fresh(n, pc[n])')
    BY DEF Placed
  <2>1. CASE n = m
    BY <1>1, <2>1
  <2>2. CASE n # m
    BY <1>1, <2>2, OthersStand
  <2> QED BY <2>1, <2>2
<1>4. SchemaBuilt'
  <2> SUFFICES ASSUME ~stalled, unmanaged = {}
               PROVE  /\ history' \subseteq executed' /\ objects' = Built(executed)'
                      /\ \A n \in Calls : pc'[n] \notin Adoption
    BY <1>1 DEF SchemaBuilt
  <2>1. \A n \in Calls : pc[n] \notin Adoption
    BY DEF SInv, SchemaBuilt
  <2> QED BY <2>1 DEF Built
<1> QED BY <1>2, <1>3, <1>4 DEF SInv

-----------------------------------------------------------------------------
(* The second invariant is inductive *)

LEMMA TickSees == SInv /\ IInv' /\ Tick => SInv'
<1> SUFFICES ASSUME SInv, IInv', Tick PROVE SInv'
  OBVIOUS
<1>1. /\ lock' = lock /\ history' = history /\ intents' = intents
      /\ objects' = objects /\ executed' = executed /\ pc' = pc
      /\ applied' = applied /\ pending' = pending /\ version' = version
      /\ unmanaged' = unmanaged /\ (stalled => stalled')
  BY DEF Tick, tables, locals
<1>2. Progress'
  BY <1>1 DEF SInv, Progress
<1>3. Seen'
  BY <1>1 DEF SInv, Seen, Holds
<1>4. Placed'
  BY <1>1 DEF SInv, Placed, Earned, Fresh, SchemaValid
<1>5. SchemaBuilt'
  BY <1>1 DEF SInv, SchemaBuilt, Built
<1> QED BY <1>2, <1>3, <1>4, <1>5 DEF SInv

\* The steps that only take, renew or give up the lease, or decide.
LEMMA QuietSteps ==
  ASSUME SInv, IInv', NEW m \in Calls, UNCHANGED observed,
         \/ Lease(m) \/ Heartbeat(m) \/ Release(m) \/ Finish(m) \/ Validate(m) \/ Adopt(m)
         \/ RenewAdopt(m) \/ RenewFirst(m) \/ RenewAgain(m) \/ ValidateSchema(m)
  PROVE  SInv'
<1>0. /\ UNCHANGED <<tables, locals>> /\ Nobody \notin Calls
      /\ Earned(m, pc[m]) /\ (~stalled => Fresh(m, pc[m]))
      /\ ~stalled /\ unmanaged = {} => pc[m] \notin Adoption
      /\ pc = [pc EXCEPT ![m] = pc[m]]
  BY MigratorAssumption DEF Lease, Heartbeat, Release, Finish, Validate, Adopt, RenewAdopt,
     RenewFirst, RenewAgain, ValidateSchema, SInv, Placed, SchemaBuilt, IInv, TypeOK
<1>1. CASE Lease(m)
  <2>1. CASE Available
    <3>1. /\ pc' = [pc EXCEPT ![m] = "loadApplied"]
          /\ \A n \in Calls : Holds(n)' => n = m
      BY <1>1, <2>1 DEF Lease, Go, Holds
    <3>2. Earned(m, "loadApplied") /\ Fresh(m, "loadApplied") /\ "loadApplied" \notin Adoption
      BY DEF Earned, Fresh, InLoop, Adoption
    <3> QED BY <1>0, <3>1, <3>2, QuietStep
  <2>2. CASE ~Available
    <3>1. pc' = [pc EXCEPT ![m] = "failed"] /\ lock' = lock
      BY <1>1, <2>2 DEF Lease, Go
    <3>2. Earned(m, "failed") /\ Fresh(m, "failed") /\ "failed" \notin Adoption
      BY DEF Earned, Fresh, InLoop, Adoption
    <3> QED BY <1>0, <3>1, <3>2, QuietStep DEF Holds
  <2> QED BY <2>1, <2>2
<1>2. CASE Heartbeat(m)
  <2>1. pc' = [pc EXCEPT ![m] = pc[m]] /\ \A n \in Calls : Holds(n)' => Holds(n)
    BY <1>0, <1>2 DEF Heartbeat, Holds, SInv, IInv, TypeOK
  <2> QED BY <1>0, <2>1, QuietStep
<1>3. CASE Release(m)
  <2>1. /\ pc' = [pc EXCEPT ![m] = "failed"] /\ \A n \in Calls : Holds(n)' => Holds(n)
    BY <1>0, <1>3 DEF Release, Unlock, Free, Go, Holds
  <2>2. Earned(m, "failed") /\ Fresh(m, "failed") /\ "failed" \notin Adoption
    BY DEF Earned, Fresh, InLoop, Adoption
  <2> QED BY <1>0, <2>1, <2>2, QuietStep
<1>4. CASE Finish(m)
  <2>1. PICK to \in {"failed", "done"} : pc' = [pc EXCEPT ![m] = to]
    BY <1>4 DEF Finish, Go
  <2>2. pc[m] = "finish" /\ \A n \in Calls : Holds(n)' => Holds(n)
    BY <1>0, <1>4 DEF Finish, Unlock, Free, Holds
  <2>3. Earned(m, to) /\ Fresh(m, to) /\ to \notin Adoption
    BY <1>0, <2>2 DEF Earned, Fresh, InLoop, Adoption
  <2> QED BY <1>0, <2>1, <2>2, <2>3, QuietStep
<1>5. CASE Validate(m)
  <2>1. PICK to \in {"release", "renew", "adopt"} :
          /\ pc' = [pc EXCEPT ![m] = to]
          /\ to = "adopt" => applied[m] = {} /\ pending[m] = {} /\ objects # {}
    BY <1>5 DEF Validate, Go
  <2>2. pc[m] = "validate" /\ lock' = lock
    BY <1>5 DEF Validate
  <2>3. Earned(m, to) /\ (~stalled => Fresh(m, to))
    BY <1>0, <2>2 DEF Earned, Fresh, InLoop
  \* Under kept leases nothing was executed that neither reading tells of.
  <2>4. ASSUME ~stalled, unmanaged = {}
        PROVE  to # "adopt"
    <3>1. history \subseteq applied[m] /\ intents \subseteq pending[m]
      BY <1>0, <2>2, <2>4 DEF Fresh
    <3>2. executed \subseteq history \cup intents /\ objects = Built(executed)
      BY <2>4 DEF SInv, IInv, CrashGapCovered, SchemaBuilt
    <3>3. Built({}) = {}
      BY DEF Built
    <3>4. to = "adopt" => executed = {}
      BY <2>1, <3>1, <3>2
    <3> QED BY <2>1, <3>2, <3>3, <3>4
  <2> QED BY <1>0, <2>1, <2>2, <2>3, <2>4, QuietStep DEF Holds, Adoption
<1>6. CASE Adopt(m)
  <2>1. PICK to \in {"release", "renewAdopt"} :
          pc' = [pc EXCEPT ![m] = to] /\ (to = "renewAdopt" => SchemaValid)
    BY <1>6 DEF Adopt, Go
  <2>2. pc[m] = "adopt" /\ lock' = lock
    BY <1>6 DEF Adopt
  <2>3. Earned(m, to) /\ Fresh(m, to)
    BY <2>1 DEF Earned, Fresh, InLoop
  <2> QED BY <1>0, <2>1, <2>2, <2>3, QuietStep DEF Holds, Adoption
<1>7. CASE RenewAdopt(m)
  <2>1. pc[m] = "renewAdopt" /\ Renew(m, "recordAdopt")
    BY <1>7 DEF RenewAdopt
  <2>2. Earned(m, "recordAdopt") /\ Fresh(m, "recordAdopt")
    BY <1>0, <2>1 DEF Earned, Fresh, InLoop
  <2> QED BY <1>0, <2>1, <2>2, RenewQuietly DEF Adoption
<1>8. CASE RenewFirst(m)
  <2>1. PICK to \in {"execute", "intent"} : Renew(m, to)
    BY <1>8 DEF RenewFirst
  <2>2. pc[m] = "renew" /\ version[m] \notin applied[m]
    BY <1>8 DEF RenewFirst, Settled
  <2>3. Earned(m, to) /\ (~stalled => Fresh(m, to))
    BY <1>0, <2>2 DEF Earned, Fresh, InLoop
  <2> QED BY <1>0, <2>1, <2>3, RenewQuietly DEF Adoption
<1>9. CASE RenewAgain(m)
  <2>1. pc[m] = "renewAgain" /\ Renew(m, "record")
    BY <1>9 DEF RenewAgain
  <2>2. Earned(m, "record") /\ (~stalled => Fresh(m, "record"))
    BY <1>0, <2>1 DEF Earned, Fresh, InLoop
  <2> QED BY <1>0, <2>1, <2>2, RenewQuietly DEF Adoption
<1>10. CASE ValidateSchema(m)
  <2>1. PICK to \in {"finish", "release"} :
          pc' = [pc EXCEPT ![m] = to] /\ (to = "finish" => SchemaValid)
    BY <1>10 DEF ValidateSchema, Go
  <2>2. pc[m] = "renew" /\ version[m] = N + 1 /\ lock' = lock
    BY <1>10 DEF ValidateSchema
  <2>3. history = Versions
    <3>1. 1..(version[m] - 1) \subseteq history /\ history \subseteq 1..N
      BY <2>2 DEF SInv, IInv, Reached, TypeOK, InLoop, Versions
    <3>2. version[m] - 1 = N
      BY <2>2, MigratorAssumption
    <3> QED BY <3>1, <3>2 DEF Versions
  <2>4. Earned(m, to) /\ Fresh(m, to)
    BY <2>1, <2>3 DEF Earned, Fresh, InLoop
  <2> QED BY <1>0, <2>1, <2>2, <2>4, QuietStep DEF Holds, Adoption
<1> QED BY <1>1, <1>2, <1>3, <1>4, <1>5, <1>6, <1>7, <1>8, <1>9, <1>10

\* Reading the history and the intents, and the loop's step over what is done.
LEMMA ReadSteps ==
  ASSUME SInv, IInv', NEW m \in Calls, UNCHANGED observed,
         LoadApplied(m) \/ LoadIntents(m) \/ ClearStale(m) \/ Skip(m)
  PROVE  SInv'
<1>0. /\ pc \in [Calls -> Over \cup InLoop \cup Adoption \cup
                   {"loadApplied", "loadIntents", "validate", "release", "finish"}]
      /\ applied \in [Calls -> SUBSET Versions] /\ pending \in [Calls -> SUBSET Versions]
      /\ version \in [Calls -> 1..(N + 1)]
      /\ Earned(m, pc[m]) /\ (~stalled => Fresh(m, pc[m]))
      /\ ~stalled /\ unmanaged = {} =>
           history \subseteq executed /\ objects = Built(executed) /\ pc[m] \notin Adoption
      /\ Progress
  BY DEF SInv, IInv, TypeOK, Placed, SchemaBuilt
<1>1. CASE LoadApplied(m)
  <2>1. /\ pc[m] = "loadApplied" /\ Live(m)
        /\ pc' = [pc EXCEPT ![m] = "loadIntents"]
        /\ applied' = [applied EXCEPT ![m] = history]
        /\ UNCHANGED <<lock, history, intents, objects, executed, pending, version>>
    BY <1>1 DEF LoadApplied, Go, Live, Over, tables
  <2>2. Progress'
    BY <1>0, <2>1 DEF Progress
  <2>3. /\ \A v \in intents : 1..(v - 1) \subseteq history
        /\ \A n \in Calls : pc'[n] = "intent" => 1..(version[n] - 1) \subseteq history
    BY <1>0, <2>1 DEF Progress, SInv, IInv, Reached, InLoop
  <2>4. Earned(m, pc[m])' /\ Fresh(m, pc[m])'
    BY <1>0, <2>1 DEF Earned, Fresh, InLoop
  <2>5. SchemaValid => SchemaValid'
    BY <2>1 DEF SchemaValid
  <2> QED BY <1>0, <2>1, <2>2, <2>3, <2>4, <2>5, WriteStep DEF Adoption
<1>2. CASE LoadIntents(m)
  <2>1. /\ pc[m] = "loadIntents" /\ Live(m)
        /\ pc' = [pc EXCEPT ![m] = "validate"]
        /\ pending' = [pending EXCEPT ![m] = intents]
        /\ UNCHANGED <<lock, history, intents, objects, executed, applied, version>>
    BY <1>2 DEF LoadIntents, Go, Live, Over, tables
  <2>2. Progress'
    BY <1>0, <2>1 DEF Progress
  <2>3. Holds(m) =>
          /\ \A v \in intents : 1..(v - 1) \subseteq applied[m]
          /\ \A n \in Calls : pc'[n] = "intent" => 1..(version[n] - 1) \subseteq applied[m]
    BY <1>0, <2>1 DEF SInv, Seen
  <2>4. Earned(m, pc[m])' /\ (~stalled => Fresh(m, pc[m])')
    BY <1>0, <2>1 DEF Earned, Fresh, InLoop
  <2>5. SchemaValid => SchemaValid'
    BY <2>1 DEF SchemaValid
  <2> QED BY <1>0, <2>1, <2>2, <2>3, <2>4, <2>5, WriteStep DEF Adoption
<1>3. CASE ClearStale(m)
  <2>1. PICK v \in applied[m] \cap pending[m] :
          intents' = intents \ {v} /\ pending' = [pending EXCEPT ![m] = @ \ {v}]
    BY <1>3 DEF ClearStale, StaleIntents
  <2>2. /\ pc[m] = "validate" /\ Live(m) /\ pc' = pc
        /\ UNCHANGED <<lock, history, objects, executed, applied, version>>
    BY <1>3 DEF ClearStale, Live, Over
  <2>3. Progress'
    BY <1>0, <2>1, <2>2 DEF Progress
  <2>4. Holds(m) =>
          /\ \A w \in intents' : 1..(w - 1) \subseteq applied[m]
          /\ \A n \in Calls : pc[n] = "intent" => 1..(version[n] - 1) \subseteq applied[m]
          /\ \A w \in pending'[m] : 1..(w - 1) \subseteq applied[m]
    BY <1>0, <2>1, <2>2 DEF SInv, Seen
  <2>5. Earned(m, pc[m])' /\ (~stalled => Fresh(m, pc[m])')
    BY <1>0, <2>1, <2>2 DEF Earned, Fresh, InLoop
  <2>6. SchemaValid => SchemaValid'
    BY <2>2 DEF SchemaValid
  <2> QED BY <1>0, <2>1, <2>2, <2>3, <2>4, <2>5, <2>6, WriteStep
<1>4. CASE Skip(m)
  <2>1. /\ pc[m] = "renew" /\ version[m] \in applied[m] /\ Live(m) /\ pc' = pc
        /\ version' = [version EXCEPT ![m] = @ + 1]
        /\ UNCHANGED <<lock, history, intents, objects, executed, applied, pending>>
    BY <1>4 DEF Skip, Settled, Live, Over, tables
  <2>2. Progress'
    BY <1>0, <2>1 DEF Progress
  <2>3. version[m] \in Nat /\ version'[m] = version[m] + 1
    BY <1>0, <2>1
  <2>4. Earned(m, pc[m])' /\ (~stalled => Fresh(m, pc[m])')
    BY <1>0, <2>1, <2>3 DEF Earned, Fresh, InLoop
  <2>5. SchemaValid => SchemaValid'
    BY <2>1 DEF SchemaValid
  <2> QED BY <1>0, <2>1, <2>2, <2>4, <2>5, WriteStep
<1> QED BY <1>1, <1>2, <1>3, <1>4

\* A record comes after all the records before it.
LEMMA RecordProgress ==
  ASSUME SInv, NEW v \in Versions, v \notin history, 1..(v - 1) \subseteq history,
         history' = history \cup {v}, intents' = intents, applied' = applied
  PROVE  Progress'
<1>1. PICK k \in 0..N : history = 1..k
  BY DEF SInv, Progress
<1>2. k + 1 \in 0..N /\ history' = 1..(k + 1)
  BY <1>1, HistoryGrows
<1>3. \E j \in 0..N : history' = 1..j
  BY <1>2
<1> QED BY <1>3 DEF SInv, Progress

\* Under kept leases the call at the end of its reading is at the one migration
\* that is not recorded, and nothing later was executed.
LEMMA NextToRun ==
  ASSUME SInv, ~stalled, NEW m \in Calls, pc[m] = "execute"
  PROVE  \A w \in executed : w <= version[m]
<1>1. /\ version[m] \in Nat /\ version[m] \notin applied[m]
      /\ history \subseteq applied[m] \cup 1..(version[m] - 1)
      /\ 1..(version[m] - 1) \subseteq history
  BY DEF SInv, Placed, Earned, Fresh, InLoop, IInv, TypeOK, Reached
<1>2. version[m] \notin history /\ version[m] >= 1
  BY <1>1 DEF SInv, IInv, TypeOK
<1> SUFFICES ASSUME NEW w \in executed PROVE w <= version[m]
  OBVIOUS
<1>3. w \in 1..N /\ w \in Nat
  BY DEF SInv, IInv, TypeOK, Versions
<1>4. CASE w \in history
  <2>1. 1..w \subseteq history
    BY <1>4 DEF SInv, IInv, HistoryIsAPrefix
  <2> QED BY <1>1, <1>2, <1>3, <2>1
<1>5. CASE w \in intents
  <2>1. 1..(w - 1) \subseteq history
    BY <1>5 DEF SInv, Progress
  <2> QED BY <1>1, <1>2, <1>3, <2>1
<1> QED BY <1>4, <1>5 DEF SInv, IInv, CrashGapCovered

\* The statement of a migration takes effect.
LEMMA Takes ==
  ASSUME SInv, NEW m \in Calls, pc[m] = "execute", version[m] \in Versions,
         objects' = After(version[m]), executed' = executed \cup {version[m]}
  PROVE  /\ SchemaValid => SchemaValid'
         /\ ~stalled /\ unmanaged = {} => objects' = Built(executed')
<1>1. SchemaValid => SchemaValid'
  BY TargetStands DEF SchemaValid
<1>2. ASSUME ~stalled, unmanaged = {}
      PROVE  objects' = Built(executed')
  <2>1. objects = Built(executed) /\ executed \in SUBSET Versions
    BY <1>2 DEF SInv, SchemaBuilt, IInv, TypeOK
  <2> QED BY <1>2, <2>1, NextToRun, BuiltGrows
<1> QED BY <1>1, <1>2

LEMMA WriteSteps ==
  ASSUME SInv, IInv', NEW m \in Calls, UNCHANGED observed,
         RecordAdopt(m) \/ RecordApplied(m) \/ ClearIntent(m) \/ Execute(m) \/ Crash(m)
  PROVE  SInv'
<1>0. /\ pc \in [Calls -> Over \cup InLoop \cup Adoption \cup
                   {"loadApplied", "loadIntents", "validate", "release", "finish"}]
      /\ version \in [Calls -> 1..(N + 1)]
      /\ Earned(m, pc[m]) /\ (~stalled => Fresh(m, pc[m]))
      /\ ~stalled /\ unmanaged = {} =>
           history \subseteq executed /\ objects = Built(executed) /\ pc[m] \notin Adoption
      /\ Progress
  BY DEF SInv, IInv, TypeOK, Placed, SchemaBuilt
<1>1. CASE RecordAdopt(m)
  <2>1. /\ pc[m] = "recordAdopt" /\ Live(m) /\ version[m] \in Versions
        /\ 1..(version[m] - 1) \subseteq history
        /\ UNCHANGED <<lock, intents, objects, executed, applied, pending>>
    BY <1>1 DEF RecordAdopt, Live, Over, SInv, IInv, Reached, Adoption
  <2>2. SchemaValid => SchemaValid'
    BY <2>1 DEF SchemaValid
  <2>3. ~(~stalled /\ unmanaged = {})
    BY <1>0, <2>1 DEF Adoption
  <2>4. CASE version[m] \in history
    <3>1. UNCHANGED <<history, version>> /\ pc' = [pc EXCEPT ![m] = "release"]
      BY <1>1, <2>4 DEF RecordAdopt, Record, Go
    <3>2. Progress'
      BY <1>0, <2>1, <3>1 DEF Progress
    <3>3. Earned(m, pc[m])' /\ Fresh(m, pc[m])'
      BY <1>0, <3>1 DEF Earned, Fresh, InLoop
    <3> QED BY <1>0, <2>1, <2>2, <2>3, <3>1, <3>2, <3>3, WriteStep
  <2>5. CASE version[m] \notin history
    <3>1. history' = history \cup {version[m]}
      BY <1>1, <2>5 DEF RecordAdopt, Record
    <3>2. PICK to \in {"finish", "renewAdopt"} :
            /\ pc' = [pc EXCEPT ![m] = to]
            /\ to = "finish" => version[m] = N
      BY <1>1, <2>5 DEF RecordAdopt, Record, LastAdopted, Go
    <3>3. \A n \in Calls \ {m} : version'[n] = version[n]
      BY <1>0, <1>1 DEF RecordAdopt
    <3>4. Progress'
      BY <2>1, <2>5, <3>1, RecordProgress
    <3>5. SchemaValid'
      BY <1>0, <2>1, <2>2 DEF Earned
    <3>6. to = "finish" => history' = Versions
      <4>1. N \in Nat /\ history \subseteq 1..N
        BY MigratorAssumption DEF SInv, IInv, TypeOK, Versions
      <4>2. 1..(N - 1) \cup {N} = 1..N
        BY <4>1, MigratorAssumption
      <4> QED BY <2>1, <3>1, <3>2, <4>1, <4>2 DEF Versions
    <3>7. Earned(m, pc[m])' /\ Fresh(m, pc[m])'
      BY <1>0, <3>2, <3>5, <3>6 DEF Earned, Fresh, InLoop
    <3> QED BY <1>0, <2>1, <2>2, <2>3, <3>1, <3>2, <3>3, <3>4, <3>7, WriteStep
  <2> QED BY <2>4, <2>5
<1>2. CASE RecordApplied(m)
  <2>1. /\ pc[m] = "record" /\ Live(m) /\ version[m] \in Versions
        /\ version[m] \in executed
        /\ 1..(version[m] - 1) \subseteq history
        /\ UNCHANGED <<lock, intents, objects, executed, applied, pending, version>>
    BY <1>0, <1>2 DEF RecordApplied, Live, Over, SInv, IInv, Reached, InLoop, locals, Earned
  <2>2. SchemaValid => SchemaValid'
    BY <2>1 DEF SchemaValid
  <2>3. CASE version[m] \in history
    <3>1. history' = history /\ pc' = [pc EXCEPT ![m] = "release"]
      BY <1>2, <2>3 DEF RecordApplied, Record, Go
    <3>2. Progress'
      BY <1>0, <2>1, <3>1 DEF Progress
    <3>3. Earned(m, pc[m])' /\ Fresh(m, pc[m])'
      BY <1>0, <3>1 DEF Earned, Fresh, InLoop
    <3> QED BY <1>0, <2>1, <2>2, <3>1, <3>2, <3>3, WriteStep DEF Adoption
  <2>4. CASE version[m] \notin history
    <3>1. history' = history \cup {version[m]} /\ pc' = [pc EXCEPT ![m] = "clear"]
      BY <1>2, <2>4 DEF RecordApplied, Record, Go
    <3>2. Progress'
      BY <2>1, <2>4, <3>1, RecordProgress
    <3>3. Earned(m, pc[m])'
      BY <1>0, <3>1 DEF Earned
    <3>4. ~stalled => Fresh(m, pc[m])'
      <4>1. ~stalled => history \subseteq applied[m] \cup 1..(version[m] - 1)
        BY <1>0, <2>1 DEF Fresh, InLoop
      <4>2. version[m] \in Nat /\ version[m] >= 1
        BY <1>0
      <4>3. 1..(version[m] - 1) \cup {version[m]} = 1..version[m]
        BY <4>2
      <4> QED BY <1>0, <2>1, <3>1, <4>1, <4>3 DEF Fresh, InLoop
    <3> QED BY <1>0, <2>1, <2>2, <3>1, <3>2, <3>3, <3>4, WriteStep DEF Adoption
  <2> QED BY <2>3, <2>4
<1>3. CASE ClearIntent(m)
  <2>1. /\ pc[m] = "clear" /\ Live(m)
        /\ intents' = intents \ {version[m]}
        /\ version' = [version EXCEPT ![m] = @ + 1]
        /\ pc' = [pc EXCEPT ![m] = "renew"]
        /\ UNCHANGED <<lock, history, objects, executed, applied, pending>>
    BY <1>3 DEF ClearIntent, Go, Live, Over
  <2>2. Progress'
    BY <1>0, <2>1 DEF Progress
  <2>3. version[m] \in Nat /\ version'[m] - 1 = version[m]
    BY <1>0, <2>1
  <2>4. Earned(m, pc[m])' /\ (~stalled => Fresh(m, pc[m])')
    BY <1>0, <2>1, <2>3 DEF Earned, Fresh, InLoop
  <2>5. SchemaValid => SchemaValid'
    BY <2>1 DEF SchemaValid
  <2> QED BY <1>0, <2>1, <2>2, <2>4, <2>5, WriteStep DEF Adoption
<1>4. CASE Execute(m)
  <2>1. /\ pc[m] = "execute" /\ Live(m) /\ version[m] \in Versions
        /\ UNCHANGED <<lock, history, intents, applied, pending, version>>
    BY <1>4 DEF Execute, Live, Over, locals, SInv, IInv, Reached, InLoop
  <2>2. PICK to \in {"renewAgain", "release"} :
          /\ pc' = [pc EXCEPT ![m] = to]
          /\ \/ objects' = After(version[m]) /\ executed' = executed \cup {version[m]}
             \/ to = "release" /\ UNCHANGED <<objects, executed>>
    BY <1>4 DEF Execute, Go, WhenUncertain
  <2>3. Progress'
    BY <1>0, <2>1 DEF Progress
  <2>4. /\ executed \subseteq executed' /\ (SchemaValid => SchemaValid')
        /\ ~stalled /\ unmanaged = {} => objects' = Built(executed')
    BY <1>0, <2>1, <2>2, Takes DEF SchemaValid
  <2>5. Earned(m, pc[m])' /\ (~stalled => Fresh(m, pc[m])')
    BY <1>0, <2>1, <2>2 DEF Earned, Fresh, InLoop
  <2> QED BY <1>0, <2>1, <2>2, <2>3, <2>4, <2>5, WriteStep DEF Adoption
<1>5. CASE Crash(m)
  <2>1. /\ Live(m) /\ pc' = [pc EXCEPT ![m] = "crashed"]
        /\ UNCHANGED <<lock, history, intents, applied, pending, version>>
    BY <1>5 DEF Crash, Go, locals
  <2>2. \/ UNCHANGED <<objects, executed>>
        \/ /\ pc[m] = "execute" /\ version[m] \in Versions
           /\ objects' = After(version[m]) /\ executed' = executed \cup {version[m]}
    BY <1>5 DEF Crash, SInv, IInv, Reached, InLoop
  <2>3. Progress'
    BY <1>0, <2>1 DEF Progress
  <2>4. /\ executed \subseteq executed' /\ (SchemaValid => SchemaValid')
        /\ ~stalled /\ unmanaged = {} => objects' = Built(executed')
    BY <1>0, <2>2, Takes DEF SchemaValid
  <2>5. Earned(m, pc[m])' /\ Fresh(m, pc[m])'
    BY <1>0, <2>1 DEF Earned, Fresh, InLoop
  <2> QED BY <1>0, <2>1, <2>2, <2>3, <2>4, <2>5, WriteStep DEF Adoption
<1> QED BY <1>1, <1>2, <1>3, <1>4, <1>5

\* A call begins a migration: all before it are recorded, and whoever took its
\* lease in the meantime read them.
LEMMA IntentStep ==
  ASSUME SInv, IInv', NEW m \in Calls, UNCHANGED observed, StartIntent(m)
  PROVE  SInv'
<1>1. /\ pc[m] = "intent" /\ Live(m) /\ 1..(version[m] - 1) \subseteq history
      /\ intents' = intents \cup {version[m]}
      /\ UNCHANGED <<lock, history, objects, executed, applied, pending, version>>
  BY DEF StartIntent, locals, Live, Over, SInv, IInv, Reached, InLoop
<1>2. pc'[m] = "execute" /\ \A n \in Calls \ {m} : pc'[n] = pc[n]
  BY DEF StartIntent, Go, SInv, IInv, TypeOK
<1>3. Progress'
  BY <1>1 DEF SInv, Progress
<1>4. Earned(m, pc[m])' /\ (~stalled => Fresh(m, pc[m])')
  <2>1. Earned(m, "intent") /\ (~stalled => Fresh(m, "intent"))
    BY <1>1 DEF SInv, Placed
  <2> QED BY <1>1, <1>2, <2>1 DEF Earned, Fresh, InLoop
<1>5. SchemaValid => SchemaValid'
  BY <1>1 DEF SchemaValid
<1>6. \A n \in Calls : Holds(n) /\ pc'[n] \in {"loadIntents", "validate"} =>
        1..(version[m] - 1) \subseteq applied[n]
  BY <1>1, <1>2 DEF SInv, Seen
<1>7. ~stalled /\ unmanaged = {} =>
        history \subseteq executed /\ objects = Built(executed) /\ pc'[m] \notin Adoption
  BY <1>2 DEF SInv, SchemaBuilt, Adoption
<1> QED BY <1>1, <1>2, <1>3, <1>4, <1>5, <1>7, WriteStep

LEMMA SeenStep == SInv /\ [Next]_vars => SInv'
<1> SUFFICES ASSUME SInv, [Next]_vars PROVE SInv'
  OBVIOUS
<1>1. IInv'
  BY StepInv DEF SInv
<1>2. CASE UNCHANGED vars
  <2>1. UNCHANGED <<clock, lock, history, intents, objects, pc, applied, pending,
                    version, executed, unmanaged, stalled>>
    BY <1>2 DEF vars
  <2>2. Progress' /\ Seen' /\ SchemaBuilt'
    BY <2>1 DEF SInv, Progress, Seen, Holds, SchemaBuilt, Built
  <2>3. Placed'
    BY <2>1 DEF SInv, Placed, Earned, Fresh, SchemaValid
  <2> QED BY <1>1, <2>2, <2>3 DEF SInv
<1>3. ASSUME NEW m \in Calls, CallStep(m), UNCHANGED observed
      PROVE  SInv'
  BY <1>1, <1>3, QuietSteps, ReadSteps, WriteSteps, IntentStep DEF CallStep
<1> QED BY <1>1, <1>2, <1>3, TickSees DEF Next

LEMMA SeenAlways == Spec => []SInv
BY InitSeen, SeenStep, PTL DEF Spec

-----------------------------------------------------------------------------
(* Theorems *)

\* The migrator's variables hold values of their types.
THEOREM TypeCorrect == Spec => []TypeOK
BY Invariance, PTL DEF IInv

\* Whoever crashes, stalls, or takes over a lease, continuum_schema_migrations
\* is a contiguous prefix of the migrations.
THEOREM PrefixHistory == Spec => []HistoryIsAPrefix
BY Invariance, PTL DEF IInv

\* A statement that took effect is recorded or has its intent, so a later call
\* can tell that it may have run.
THEOREM GapCovered == Spec => []CrashGapCovered
BY Invariance, PTL DEF IInv

\* With heartbeats in time no two calls change the schema at once.
THEOREM MutualExclusion == Spec => []OneAtATime
<1>1. IInv => OneAtATime
  BY DEF IInv, Leased, OneAtATime, Holds, Live, Changing, Over
<1> QED BY <1>1, Invariance, PTL
\* The holder of the lease finds progress that _validate_progress accepts,
\* though callers it took the lease from go on writing until they renew: no
\* takeover is ever refused as drift.
THEOREM NoDriftSeen == Spec => []HolderSeesNoDrift
<1>1. ASSUME SInv, NEW m \in Calls, pc[m] = "validate", Holds(m), StaleIntents(m) = {}
      PROVE  ProgressValid(m)
  <2>1. PICK k \in 0..N : applied[m] = 1..k
    BY <1>1 DEF SInv, Progress
  <2>2. k \in Nat /\ N \in Nat
    BY MigratorAssumption
  <2>3. Cardinality(1..k) = k
    BY <2>2, FS_Interval
  <2>4. ASSUME NEW v \in pending[m]
        PROVE  v = k + 1
    <3>1. v \in 1..N /\ v \notin 1..k
      BY <1>1, <2>1, <2>4 DEF SInv, IInv, TypeOK, StaleIntents, Versions
    <3>2. 1..(v - 1) \subseteq 1..k
      BY <1>1, <2>1, <2>4 DEF SInv, Seen
    <3>3. v = 1 \/ v - 1 \in 1..(v - 1)
      BY <3>1, <2>2
    <3> QED BY <2>2, <3>1, <3>2, <3>3
  <2> QED BY <2>1, <2>3, <2>4 DEF ProgressValid
<1>2. SInv => HolderSeesNoDrift
  BY <1>1 DEF HolderSeesNoDrift
<1> QED BY <1>2, SeenAlways, PTL

\* migrate() reports success only over a complete history and a schema that
\* validates; and a complete history over an empty database, under leases that
\* were kept, means exactly the schema that the migrations describe, whatever
\* crashed or was retried.
THEOREM SchemaStaysCurrent == Spec => []SchemaIsCurrent
<1>1. SInv => SchemaIsCurrent
  <2>1. Built(Versions) = Target
    BY DEF Built, Target, Dropped
  <2>2. SInv /\ history \subseteq executed /\ history = Versions => executed = Versions
    BY DEF SInv, IInv, TypeOK
  <2> QED BY <2>1, <2>2 DEF SInv, Placed, Earned, SchemaBuilt, SchemaIsCurrent
<1> QED BY <1>1, SeenAlways, PTL
=============================================================================
