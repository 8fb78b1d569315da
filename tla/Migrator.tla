------------------------------ MODULE Migrator ------------------------------
(***************************************************************************)
(* The schema migrator: calls of migrate() compete for the migration       *)
(* lease; the holder replays what a predecessor left unfinished, executes  *)
(* the remaining schema changes and records each in the history.  Every    *)
(* statement is an autocommit transaction, hence one step; a call can be   *)
(* suspended or die between any two of them, and its lease then runs out   *)
(* and is taken over.                                                      *)
(***************************************************************************)
EXTENDS Integers, FiniteSets

CONSTANTS
  Calls,                  \* calls of migrate(), each with an owner_id of its own
  Nobody,
  N,                      \* migrations 1..N
  Drops,                  \* Drops[v]: the object that v drops, 0 if v creates one
  Adopting,               \* calls with --adopt-existing
  Schemas,                \* schemas without history a database may start with
  LeaseSeconds, MaxTime, MaxCrashes

Versions == 1..N

ASSUME MigratorAssumption ==
  /\ N \in Nat \ {0}
  /\ Drops \in [Versions -> 0..N]
  /\ \A v \in Versions : Drops[v] < v
  /\ Adopting \subseteq Calls
  /\ Nobody \notin Calls
  /\ Schemas \subseteq SUBSET Versions
  /\ LeaseSeconds \in Nat \ {0}
  /\ MaxTime \in Nat
  /\ MaxCrashes \in Nat

VARIABLES
  clock,
  lock,                   \* continuum_migration_lock: owner, expires
  history,                \* continuum_schema_migrations
  intents,                \* continuum_migration_intents
  objects,                \* the schema, an object per creating migration
  pc,
  applied, pending,       \* what a call read of history and intents
  version,                \* the migration its loop is at
  lost,                   \* its heartbeat failed
  executed,               \* statements that took effect (observed)
  unmanaged,              \* objects the database started with (observed)
  stalled,                \* a live call lost its lease to time (observed)
  crashes

tables == <<history, intents, objects, executed>>
locals == <<applied, pending, version>>
observed == <<unmanaged, stalled>>
vars == <<clock, lock, history, intents, objects, pc, applied, pending,
          version, lost, executed, unmanaged, stalled, crashes>>

-----------------------------------------------------------------------------
(* Data *)

Over == {"start", "done", "failed", "crashed"}
InLoop == {"renew", "intent", "execute", "renewAgain", "record", "clear"}
Adoption == {"adopt", "renewAdopt", "recordAdopt"}

\* Steps of a call that has just renewed its lease.
Changing == {"intent", "execute", "renewAgain", "record", "clear", "recordAdopt"}

Free == [owner |-> Nobody, expires |-> 0]
Holds(m) == lock.owner = m
Live(m) == pc[m] \notin Over

Go(m, step) == pc' = [pc EXCEPT ![m] = step]

\* What the migrations make of an empty schema.
Dropped == {Drops[v] : v \in Versions}
Target == {v \in Versions : Drops[v] = 0} \ Dropped

\* Objects after the statement of v; each one tolerates that it ran before.
After(v) == IF Drops[v] = 0 THEN objects \cup {v} ELSE objects \ {Drops[v]}

\* validate_schema looks for what must be there.
SchemaValid == Target \subseteq objects

-----------------------------------------------------------------------------
Init ==
  /\ clock = 0
  /\ lock = Free
  /\ history = {}
  /\ intents = {}
  /\ objects \in Schemas
  /\ unmanaged = objects
  /\ stalled = FALSE
  /\ pc = [m \in Calls |-> "start"]
  /\ applied = [m \in Calls |-> {}]
  /\ pending = [m \in Calls |-> {}]
  /\ version = [m \in Calls |-> 1]
  /\ lost = [m \in Calls |-> FALSE]
  /\ executed = {}
  /\ crashes = 0

\* A live call whose heartbeat comes too late has stalled.
Tick ==
  /\ clock < MaxTime
  /\ clock' = clock + 1
  /\ stalled' = (stalled \/ \E m \in Calls : Live(m) /\ Holds(m) /\ lock.expires <= clock + 1)
  /\ UNCHANGED <<lock, tables, pc, locals, lost, unmanaged, crashes>>

-----------------------------------------------------------------------------
(* The lease *)

\* Mutant: a lease is there for the taking.
AvailableAlways == TRUE

Available == lock.owner = Nobody \/ lock.expires <= clock

Lease(m) ==
  /\ pc[m] = "start"
  /\ IF Available
     THEN /\ lock' = [owner |-> m, expires |-> clock + LeaseSeconds]
          /\ Go(m, "loadApplied")
     ELSE /\ Go(m, "failed")
          /\ UNCHANGED lock
  /\ UNCHANGED <<clock, tables, locals, lost, crashes>>

\* _renew looks at the owner only, so an expired lease nobody took revives.
Renew(m, step) ==
  IF Holds(m)
  THEN /\ lock' = [lock EXCEPT !.expires = clock + LeaseSeconds]
       /\ Go(m, step)
  ELSE /\ Go(m, "release")
       /\ UNCHANGED lock

\* The heartbeat thread ends at its first failure; the call sees it at the end.
Heartbeat(m) ==
  /\ Live(m)
  /\ ~lost[m]
  /\ IF Holds(m)
     THEN /\ lock' = [lock EXCEPT !.expires = clock + LeaseSeconds]
          /\ UNCHANGED lost
     ELSE /\ lost' = [lost EXCEPT ![m] = TRUE]
          /\ UNCHANGED lock
  /\ UNCHANGED <<clock, tables, pc, locals, crashes>>

\* The finally clause: only the lease that is still its own is given up.
Unlock(m) == IF Holds(m) THEN Free ELSE lock

Release(m) ==
  /\ pc[m] = "release"
  /\ lock' = Unlock(m)
  /\ Go(m, "failed")
  /\ UNCHANGED <<clock, tables, locals, lost, crashes>>

Finish(m) ==
  /\ pc[m] = "finish"
  /\ lock' = Unlock(m)
  /\ Go(m, IF lost[m] THEN "failed" ELSE "done")
  /\ UNCHANGED <<clock, tables, locals, lost, crashes>>

-----------------------------------------------------------------------------
(* Reading the progress *)

LoadApplied(m) ==
  /\ pc[m] = "loadApplied"
  /\ applied' = [applied EXCEPT ![m] = history]
  /\ Go(m, "loadIntents")
  /\ UNCHANGED <<clock, lock, tables, pending, version, lost, crashes>>

LoadIntents(m) ==
  /\ pc[m] = "loadIntents"
  /\ pending' = [pending EXCEPT ![m] = intents]
  /\ Go(m, "validate")
  /\ UNCHANGED <<clock, lock, tables, applied, version, lost, crashes>>

\* Mutants: every intent is taken for stale; none is.
AllIntents(m) == pending[m]
NoIntents(m) == {}

\* Intents whose migration is recorded.
StaleIntents(m) == applied[m] \cap pending[m]

ClearStale(m) ==
  /\ pc[m] = "validate"
  /\ \E v \in StaleIntents(m) :
       /\ intents' = intents \ {v}
       /\ pending' = [pending EXCEPT ![m] = @ \ {v}]
  /\ UNCHANGED <<clock, lock, history, objects, executed, pc, applied, version,
                 lost, crashes>>

\* _validate_progress: a contiguous history, and the next version as the only
\* intent.
ProgressValid(m) ==
  /\ applied[m] = 1..Cardinality(applied[m])
  /\ pending[m] \subseteq {Cardinality(applied[m]) + 1}

\* Product tables without history and intent are adopted or refused.
Validate(m) ==
  /\ pc[m] = "validate"
  /\ StaleIntents(m) = {}
  /\ Go(m, IF ~ProgressValid(m) THEN "release"
           ELSE IF applied[m] # {} \/ pending[m] # {} \/ objects = {} THEN "renew"
           ELSE IF m \in Adopting THEN "adopt"
           ELSE "release")
  /\ UNCHANGED <<clock, lock, tables, locals, lost, crashes>>

-----------------------------------------------------------------------------
(* Adoption of an existing schema *)

Adopt(m) ==
  /\ pc[m] = "adopt"
  /\ Go(m, IF SchemaValid THEN "renewAdopt" ELSE "release")
  /\ UNCHANGED <<clock, lock, tables, locals, lost, crashes>>

RenewAdopt(m) ==
  /\ pc[m] = "renewAdopt"
  /\ Renew(m, "recordAdopt")
  /\ UNCHANGED <<clock, tables, locals, lost, crashes>>

\* _record: the version is the primary key of the history.
Record(m, step) ==
  IF version[m] \in history
  THEN /\ Go(m, "release")
       /\ UNCHANGED history
  ELSE /\ history' = history \cup {version[m]}
       /\ Go(m, step)

LastAdopted(m) == version[m] = N

RecordAdopt(m) ==
  /\ pc[m] = "recordAdopt"
  /\ Record(m, IF LastAdopted(m) THEN "finish" ELSE "renewAdopt")
  /\ version' = IF version[m] \in history \/ LastAdopted(m) THEN version
                ELSE [version EXCEPT ![m] = @ + 1]
  /\ UNCHANGED <<clock, lock, intents, objects, executed, applied, pending,
                 lost, crashes>>

-----------------------------------------------------------------------------
(* The loop over the migrations *)

\* Mutant: what was begun counts as done.
SettledOrBegun(m) == applied[m] \cup pending[m]

Settled(m) == applied[m]

Skip(m) ==
  /\ pc[m] = "renew"
  /\ version[m] \in Settled(m)
  /\ version' = [version EXCEPT ![m] = @ + 1]
  /\ UNCHANGED <<clock, lock, tables, pc, applied, pending, lost, crashes>>

RenewFirst(m) ==
  /\ pc[m] = "renew"
  /\ version[m] \in Versions \ Settled(m)
  /\ Renew(m, IF version[m] \in pending[m] THEN "execute" ELSE "intent")
  /\ UNCHANGED <<clock, tables, locals, lost, crashes>>

StartIntent(m) ==
  /\ pc[m] = "intent"
  /\ intents' = intents \cup {version[m]}
  /\ Go(m, "execute")
  /\ UNCHANGED <<clock, lock, history, objects, executed, locals, lost, crashes>>

\* Mutant: an error that leaves the outcome open is taken for success.
AfterUncertain == "renewAgain"

WhenUncertain == "release"

\* The statement takes effect; or it fails with an error that leaves open
\* whether it did (XXA00).  A retry after 40001 starts over.
Execute(m) ==
  /\ pc[m] = "execute"
  /\ \/ /\ objects' = After(version[m])
        /\ executed' = executed \cup {version[m]}
        /\ Go(m, "renewAgain") \/ Go(m, WhenUncertain)
     \/ /\ Go(m, WhenUncertain)
        /\ UNCHANGED <<objects, executed>>
  /\ UNCHANGED <<clock, lock, history, intents, locals, lost, crashes>>

RenewAgain(m) ==
  /\ pc[m] = "renewAgain"
  /\ Renew(m, "record")
  /\ UNCHANGED <<clock, tables, locals, lost, crashes>>

RecordApplied(m) ==
  /\ pc[m] = "record"
  /\ Record(m, "clear")
  /\ UNCHANGED <<clock, lock, intents, objects, executed, locals, lost, crashes>>

ClearIntent(m) ==
  /\ pc[m] = "clear"
  /\ intents' = intents \ {version[m]}
  /\ version' = [version EXCEPT ![m] = @ + 1]
  /\ Go(m, "renew")
  /\ UNCHANGED <<clock, lock, history, objects, executed, applied, pending,
                 lost, crashes>>

ValidateSchema(m) ==
  /\ pc[m] = "renew"
  /\ version[m] = N + 1
  /\ Go(m, IF SchemaValid THEN "finish" ELSE "release")
  /\ UNCHANGED <<clock, lock, tables, locals, lost, crashes>>

-----------------------------------------------------------------------------
\* The process dies; a statement it had sent may still take effect.
Crash(m) ==
  /\ Live(m)
  /\ crashes < MaxCrashes
  /\ crashes' = crashes + 1
  /\ Go(m, "crashed")
  /\ \/ UNCHANGED <<objects, executed>>
     \/ /\ pc[m] = "execute"
        /\ objects' = After(version[m])
        /\ executed' = executed \cup {version[m]}
  /\ UNCHANGED <<clock, lock, history, intents, locals, lost>>

CallStep(m) ==
  \/ Lease(m) \/ Heartbeat(m) \/ Release(m) \/ Finish(m)
  \/ LoadApplied(m) \/ LoadIntents(m) \/ ClearStale(m) \/ Validate(m)
  \/ Adopt(m) \/ RenewAdopt(m) \/ RecordAdopt(m)
  \/ Skip(m) \/ RenewFirst(m) \/ StartIntent(m) \/ Execute(m)
  \/ RenewAgain(m) \/ RecordApplied(m) \/ ClearIntent(m) \/ ValidateSchema(m)
  \/ Crash(m)

Next ==
  \/ Tick
  \/ (\E m \in Calls : CallStep(m)) /\ UNCHANGED observed

Spec == Init /\ [][Next]_vars

-----------------------------------------------------------------------------
(* Properties *)

TypeOK ==
  /\ clock \in 0..MaxTime
  /\ lock \in [owner : Calls \cup {Nobody}, expires : Nat]
  /\ history \subseteq Versions
  /\ intents \subseteq Versions
  /\ objects \subseteq Versions
  /\ executed \subseteq Versions
  /\ pc \in [Calls -> Over \cup InLoop \cup Adoption \cup
                      {"loadApplied", "loadIntents", "validate", "release", "finish"}]
  /\ applied \in [Calls -> SUBSET Versions]
  /\ pending \in [Calls -> SUBSET Versions]
  /\ version \in [Calls -> 1..(N + 1)]
  /\ lost \in [Calls -> BOOLEAN]
  /\ unmanaged \in Schemas
  /\ stalled \in BOOLEAN
  /\ crashes \in 0..MaxCrashes

\* The history is a contiguous prefix, whoever lost and took over the lease.
HistoryIsAPrefix ==
  \A v \in history : 1..v \subseteq history

\* "A durable pre-DDL intent, so a process stopped between DDL success and
\* history recording can safely resume": a statement that took effect is
\* recorded or has its intent.
CrashGapCovered == executed \subseteq history \cup intents

\* Whoever still holds the lease finds progress that _validate_progress
\* accepts, though calls that lost it go on writing until their next renewal.
HolderSeesNoDrift ==
  \A m \in Calls :
    pc[m] = "validate" /\ Holds(m) /\ StaleIntents(m) = {} => ProgressValid(m)

\* As long as heartbeats come in time, one call at a time changes the schema
\* and its history.
OneAtATime ==
  ~stalled => \A m, n \in Calls :
    pc[m] \in Changing /\ pc[n] \in Changing => m = n

\* A call that reports success leaves a complete history and all it expects of
\* the schema, and then a complete history means the schema the migrations
\* describe: nothing missing, and nothing back that a later migration dropped.
SchemaIsCurrent ==
  /\ \A m \in Calls :
       pc[m] \in {"finish", "done"} => history = Versions /\ SchemaValid
  /\ ~stalled /\ history = Versions /\ unmanaged = {} => objects = Target
=============================================================================
