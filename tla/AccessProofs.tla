---------------------------- MODULE AccessProofs ----------------------------
(***************************************************************************)
(* Theorems about who is served what: the bindings with their audit, the   *)
(* cutover of the logins, and the server and the judge endpoint above      *)
(* them, for every number of callers, scopes, memories and requests.       *)
(***************************************************************************)
EXTENDS ScopedAccess, SequenceTheorems, TLAPS

-----------------------------------------------------------------------------
(* Bindings and their audit *)

AuditEntry == [scope : Scopes, version : 1..MaxVersion, event : Events]
BindingRow == [scope : Scopes \cup {Nowhere}, version : 0..MaxVersion, status : Statuses]

BindingsOK ==
  /\ binding \in [Callers -> BindingRow]
  /\ bindingAudit \in [Callers -> Seq(AuditEntry)]

\* A caller without a version was never bound; any other is bound or disabled.
Bound ==
  \A c \in Callers :
    /\ binding[c].version = 0 => binding[c] = NoBinding
    /\ binding[c].version > 0 => /\ binding[c].scope \in Scopes
                                 /\ binding[c].status \in {"active", "disabled"}

BInv == BindingsOK /\ Bound /\ AuditIsTheHistory

\* No step rewrites what was audited.
AuditGrows ==
  \A c \in Callers :
    /\ Len(bindingAudit[c]) <= Len(bindingAudit'[c])
    /\ \A k \in 1..Len(bindingAudit[c]) : bindingAudit'[c][k] = bindingAudit[c][k]

\* What the audit of one caller says.
History(log, row) ==
  /\ Len(log) = row.version
  /\ \A k \in 1..Len(log) :
       /\ log[k].version = k
       /\ log[k].event = "bound" <=> k = 1
       /\ k > 1 => \/ log[k].scope # log[k - 1].scope
                   \/ (log[k].event = "disabled") # (log[k - 1].event = "disabled")
  /\ Len(log) > 0 => /\ log[Len(log)].scope = row.scope
                     /\ log[Len(log)].event = "disabled" <=> row.status = "disabled"

LEMMA HistoryFacts == AuditIsTheHistory <=> \A c \in Callers : History(bindingAudit[c], binding[c])
BY DEF AuditIsTheHistory, History

LEMMA HistoryAppended ==
  ASSUME NEW log \in Seq(AuditEntry), NEW row \in BindingRow, NEW e \in AuditEntry,
         NEW next \in BindingRow, History(log, row),
         e.version = row.version + 1, next.version = row.version + 1,
         e.scope = next.scope, e.event = "disabled" <=> next.status = "disabled",
         e.event = "bound" <=> row.version = 0,
         row.version > 0 => \/ row.scope # e.scope
                            \/ (e.event = "disabled") # (row.status = "disabled")
  PROVE  /\ Append(log, e) \in Seq(AuditEntry)
         /\ History(Append(log, e), next)
         /\ Len(log) <= Len(Append(log, e))
         /\ \A k \in 1..Len(log) : Append(log, e)[k] = log[k]
<1> DEFINE l == Append(log, e)
           n == Len(log)
<1>1. /\ n \in Nat /\ l \in Seq(AuditEntry) /\ Len(l) = n + 1
      /\ \A k \in 1..n : l[k] = log[k]
      /\ l[n + 1] = e
  BY AppendProperties, LenProperties
<1>2. n = row.version
  BY DEF History
<1>3. ASSUME NEW k \in 1..Len(l)
      PROVE  /\ l[k].version = k
             /\ l[k].event = "bound" <=> k = 1
             /\ k > 1 => \/ l[k].scope # l[k - 1].scope
                         \/ (l[k].event = "disabled") # (l[k - 1].event = "disabled")
  <2>1. CASE k \in 1..n
    <3>1. k > 1 => k - 1 \in 1..n
      BY <1>1, <2>1
    <3>2. l[k] = log[k] /\ (k > 1 => l[k - 1] = log[k - 1])
      BY <1>1, <2>1, <3>1
    <3> HIDE DEF l
    <3> QED BY <2>1, <3>2 DEF History
  <2>2. CASE k = n + 1
    <3>1. l[k] = e /\ k - 1 = n
      BY <1>1, <2>2
    <3>2. ASSUME n > 0 PROVE l[n] = log[n] /\ n \in 1..n
      BY <1>1, <3>2
    <3> HIDE DEF l
    <3>3. n > 0 => /\ log[n].scope = row.scope
                   /\ log[n].event = "disabled" <=> row.status = "disabled"
      BY DEF History
    <3>4. l[k].version = k /\ (l[k].event = "bound" <=> k = 1)
      BY <1>1, <1>2, <2>2, <3>1
    <3>5. ASSUME k > 1
          PROVE  \/ l[k].scope # l[k - 1].scope
                 \/ (l[k].event = "disabled") # (l[k - 1].event = "disabled")
      <4>1. n > 0 /\ row.version > 0
        BY <1>1, <1>2, <2>2, <3>5
      <4>2. l[k - 1] = log[n] /\ l[k] = e
        BY <3>1, <3>2, <4>1
      <4>3. CASE row.scope # e.scope
        BY <3>3, <4>1, <4>2, <4>3
      <4>4. CASE (e.event = "disabled") # (row.status = "disabled")
        BY <3>3, <4>1, <4>2, <4>4
      <4> QED BY <4>1, <4>3, <4>4
    <3> QED BY <3>4, <3>5
  <2> QED BY <1>1, <2>1, <2>2
<1>4. Len(l) = next.version
  BY <1>1, <1>2
<1>5. l[Len(l)].scope = next.scope /\ (l[Len(l)].event = "disabled" <=> next.status = "disabled")
  BY <1>1
<1> HIDE DEF l
<1>6. History(l, next)
  BY <1>3, <1>4, <1>5 DEF History
<1> QED BY <1>1, <1>6 DEF l

LEMMA WriteStep ==
  ASSUME BInv, NEW c \in Callers, NEW scope \in Scopes,
         NEW status \in {"active", "disabled"}, NEW event \in Events,
         binding[c].version < MaxVersion,
         event = "disabled" <=> status = "disabled",
         event = "bound" <=> binding[c].version = 0,
         binding[c].version > 0 => binding[c].scope # scope \/ binding[c].status # status,
         Write(c, scope, status, event)
  PROVE  BInv' /\ AuditGrows
<1> DEFINE version == binding[c].version + 1
           r == [scope |-> scope, version |-> version, status |-> status]
           e == Entry(scope, version, event)
<1>1. /\ binding' = [binding EXCEPT ![c] = r]
      /\ bindingAudit' = [bindingAudit EXCEPT ![c] = Append(@, e)]
  BY Zenon DEF Write
<1>2. binding[c] \in BindingRow /\ bindingAudit[c] \in Seq(AuditEntry) /\ History(bindingAudit[c], binding[c])
  BY HistoryFacts DEF BInv, BindingsOK
<1>3. version \in 1..MaxVersion /\ version = binding[c].version + 1
  BY <1>2, TenantAssumption DEF BindingRow
<1>4. /\ r \in BindingRow /\ r.version = version /\ r.scope = scope /\ r.status = status
      /\ e \in AuditEntry /\ e.version = version /\ e.scope = scope /\ e.event = event
  <2> HIDE DEF version
  <2> QED BY <1>3 DEF BindingRow, AuditEntry, Entry, Statuses
<1>5. binding[c].version > 0 => binding[c].status \in {"active", "disabled"}
  BY DEF BInv, Bound
<1>6. binding[c].version > 0 => \/ binding[c].scope # e.scope
                                \/ (e.event = "disabled") # (binding[c].status = "disabled")
  <2> HIDE DEF version, e
  <2>1. CASE status = "disabled"
    BY <1>4, <1>5, <2>1
  <2>2. CASE status = "active"
    BY <1>4, <1>5, <2>2
  <2> QED BY <2>1, <2>2
<1> HIDE DEF version, r, e
<1>7. /\ Append(bindingAudit[c], e) \in Seq(AuditEntry)
      /\ History(Append(bindingAudit[c], e), r)
      /\ Len(bindingAudit[c]) <= Len(Append(bindingAudit[c], e))
      /\ \A k \in 1..Len(bindingAudit[c]) : Append(bindingAudit[c], e)[k] = bindingAudit[c][k]
  BY <1>2, <1>3, <1>4, <1>6, HistoryAppended
<1>8. \A d \in Callers : /\ binding'[d] = IF d = c THEN r ELSE binding[d]
                         /\ bindingAudit'[d] = IF d = c THEN Append(bindingAudit[c], e)
                                               ELSE bindingAudit[d]
  BY <1>1 DEF BInv, BindingsOK
<1>9. BindingsOK'
  BY <1>1, <1>4, <1>7 DEF BInv, BindingsOK
<1>10. Bound'
  BY <1>3, <1>4, <1>8 DEF BInv, Bound
<1>11. AuditIsTheHistory'
  <2>1. \A d \in Callers : History(bindingAudit'[d], binding'[d])
    BY <1>7, <1>8, HistoryFacts DEF BInv
  <2> QED BY <2>1 DEF AuditIsTheHistory, History
<1>12. AuditGrows
  <2>1. \A d \in Callers : Len(bindingAudit[d]) \in Nat
    BY LenProperties DEF BInv, BindingsOK
  <2>2. ASSUME NEW d \in Callers
        PROVE  /\ Len(bindingAudit[d]) <= Len(bindingAudit'[d])
               /\ \A k \in 1..Len(bindingAudit[d]) : bindingAudit'[d][k] = bindingAudit[d][k]
    <3>1. CASE d = c
      BY <1>7, <1>8, <3>1
    <3>2. CASE d # c
      <4>1. bindingAudit'[d] = bindingAudit[d]
        BY <1>8, <3>2
      <4> QED BY <2>1, <4>1
    <3> QED BY <3>1, <3>2
  <2> QED BY <2>2 DEF AuditGrows
<1> QED BY <1>9, <1>10, <1>11, <1>12 DEF BInv

LEMMA BindingsKept ==
  ASSUME BInv, UNCHANGED <<binding, bindingAudit>>
  PROVE  BInv' /\ AuditGrows
<1>1. \A d \in Callers : Len(bindingAudit[d]) \in Nat
  BY LenProperties DEF BInv, BindingsOK
<1> QED BY <1>1 DEF BInv, BindingsOK, Bound, AuditIsTheHistory, AuditGrows

LEMMA BindStep ==
  ASSUME BInv, NEW c \in Callers, NEW scope \in Scopes, BindCallerScope(c, scope)
  PROVE  BInv' /\ AuditGrows
<1> DEFINE event == IF binding[c] = NoBinding THEN "bound" ELSE "rebound"
<1>1. CASE binding[c].status = "active" /\ binding[c].scope = scope
  BY <1>1, BindingsKept DEF BindCallerScope
<1>2. CASE ~(binding[c].status = "active" /\ binding[c].scope = scope)
  <2>1. Write(c, scope, "active", event) /\ binding[c].version < MaxVersion
    BY <1>2 DEF BindCallerScope
  <2>2. event = "bound" <=> binding[c].version = 0
    BY DEF BInv, Bound, NoBinding
  <2>3. event \in Events /\ event # "disabled"
    BY DEF Events
  <2> HIDE DEF event
  <2> QED BY <1>2, <2>1, <2>2, <2>3, WriteStep
<1> QED BY <1>1, <1>2

LEMMA DisableStep ==
  ASSUME BInv, NEW c \in Callers, DisableCaller(c)
  PROVE  BInv' /\ AuditGrows
<1>1. binding[c].version > 0 /\ binding[c].scope \in Scopes
  <2>1. binding[c] # NoBinding /\ binding[c].version \in Nat
    BY DEF DisableCaller, NoBinding, BInv, BindingsOK, BindingRow
  <2> QED BY <2>1 DEF BInv, Bound
<1>2. Write(c, binding[c].scope, "disabled", "disabled")
      /\ binding[c].version < MaxVersion /\ binding[c].status = "active"
  BY DEF DisableCaller
<1> QED BY <1>1, <1>2, WriteStep DEF Events

-----------------------------------------------------------------------------
(* Logins and the cutover *)

Phases == {"idle", "scope", "control", "revoke", "bind", "verify", "put"}
Passwords == 0..MaxPassword
Cutovers == [phase : Phases, payload : Payloads, version : 0..MaxVersion]

LoginsOK ==
  /\ login \in [Scopes \cup {Control} -> Passwords]
  /\ mayCreate \in BOOLEAN
  /\ secret \in Payloads /\ secret.scope \in Scopes
  /\ cutover \in Cutovers

\* A cutover starts from the published secret, never gives a published login a
\* new password, and what it is about to publish opens.
CutoverAgrees ==
  LET p == cutover.payload IN
  /\ ~At("idle") => p.scope \in Scopes
  /\ At("scope") => p = secret
  /\ At("control") => p.control = secret.control
  /\ At("revoke") => p.control # 0
  /\ cutover.phase \in {"control", "revoke", "bind", "verify", "put"} => p.main.user = p.scope
  /\ cutover.phase \in {"verify", "put"} => p.urls[p.scope] = p.main.password
  /\ At("put") => /\ login[p.scope] = p.main.password
                  /\ login[Control] = p.control

CInv == LoginsOK /\ CutoverAgrees /\ PublishedSecretWorks

\* The payloads and the states a cutover goes through.
WithMain(p, s, n) == [p EXCEPT !.main = [user |-> s, password |-> n]]
WithControl(p, n) == [p EXCEPT !.control = n]
WithUrl(p, s, n) == [p EXCEPT !.urls = [p.urls EXCEPT ![s] = n]]
WithScope(p, s) == [p EXCEPT !.scope = s]

LEMMA PayloadUpdates ==
  ASSUME NEW p \in Payloads, NEW n \in Passwords, NEW s \in Scopes
  PROVE  /\ WithMain(p, s, n) \in Payloads
         /\ WithMain(p, s, n).scope = p.scope
         /\ WithMain(p, s, n).control = p.control
         /\ WithMain(p, s, n).main.user = s
         /\ WithControl(p, n) \in Payloads
         /\ WithControl(p, n).scope = p.scope
         /\ WithControl(p, n).main = p.main
         /\ WithControl(p, n).control = n
         /\ WithUrl(p, s, n) \in Payloads
         /\ WithUrl(p, s, n).scope = p.scope
         /\ WithUrl(p, s, n).main = p.main
         /\ WithUrl(p, s, n).control = p.control
         /\ WithUrl(p, s, n).urls[s] = n
         /\ WithScope(p, s) \in Payloads
         /\ WithScope(p, s).scope = s
         /\ WithScope(p, s).main = p.main
         /\ WithScope(p, s).control = p.control
         /\ WithScope(p, s).urls = p.urls
BY DEF Payloads, Passwords, WithMain, WithControl, WithUrl, WithScope

Moved(c, phase) == [c EXCEPT !.phase = phase]
MovedWith(c, phase, p) == [c EXCEPT !.phase = phase, !.payload = p]
MovedBound(c, phase, v, p) == [c EXCEPT !.phase = phase, !.version = v, !.payload = p]

\* The cutover is in a phase, with a payload.
In(c, phase, p) == c \in Cutovers /\ c.phase = phase /\ c.payload = p

LEMMA CutoverUpdates ==
  ASSUME NEW c \in Cutovers, NEW phase \in Phases, NEW p \in Payloads, NEW v \in 0..MaxVersion
  PROVE  /\ In(Moved(c, phase), phase, c.payload)
         /\ In(MovedWith(c, phase, p), phase, p)
         /\ In(MovedBound(c, phase, v, p), phase, p)
BY DEF Cutovers, In, Moved, MovedWith, MovedBound

LEMMA StepFacts ==
  ASSUME NEW phase \in Phases, cutover \in Cutovers, Step(phase)
  PROVE  In(cutover', phase, cutover.payload)
BY DEF Cutovers, In, Step

LEMMA IdleFacts ==
  Idle \in Cutovers /\ Idle.phase = "idle" /\ NoPayload \in Payloads
BY TenantAssumption DEF Idle, NoPayload, NoLogin, Cutovers, Phases, Payloads

LEMMA InitCInv == TenantInit => BInv /\ CInv
<1> SUFFICES ASSUME TenantInit PROVE BInv /\ CInv
  OBVIOUS
<1>1. BInv
  <2>1. BindingsOK
    BY TenantAssumption, EmptySeq
       DEF TenantInit, BindingsOK, BindingRow, NoBinding, Statuses
  <2>2. \A c \in Callers : bindingAudit[c] = <<>> /\ binding[c] = NoBinding /\ Len(bindingAudit[c]) = 0
    BY EmptySeq DEF TenantInit
  <2>3. Bound /\ \A c \in Callers : History(bindingAudit[c], binding[c])
    BY <2>2 DEF Bound, History, NoBinding
  <2> QED BY <2>1, <2>3, HistoryFacts DEF BInv
<1>2. CInv
  <2>1. /\ secret = [NoPayload EXCEPT !.scope = FirstScope]
        /\ cutover = Idle /\ mayCreate = TRUE
        /\ login = [u \in Scopes \cup {Control} |-> 0]
    BY DEF TenantInit
  <2>2. /\ secret \in Payloads /\ secret.scope = FirstScope
        /\ secret.main = NoPayload.main /\ secret.control = NoPayload.control
    <3>1. 0 \in Passwords
      BY TenantAssumption DEF Passwords
    <3>2. secret = WithScope(NoPayload, FirstScope)
      BY <2>1, Zenon DEF WithScope
    <3> QED BY <3>1, <3>2, PayloadUpdates, IdleFacts, TenantAssumption
  <2>3. secret.main.user = Legacy /\ secret.control = 0
    BY <2>2 DEF NoPayload, NoLogin
  <2>4. LoginsOK
    BY <2>1, <2>2, IdleFacts, TenantAssumption DEF LoginsOK, Passwords
  <2>5. CutoverAgrees
    BY <2>1, IdleFacts DEF CutoverAgrees, At
  <2>6. PublishedSecretWorks
    BY <2>3, TenantAssumption DEF PublishedSecretWorks
  <2> QED BY <2>4, <2>5, <2>6 DEF CInv
<1> QED BY <1>1, <1>2

\* A step that only changes the phase, without logins or the secret.
LEMMA IdleStep ==
  ASSUME CInv, UNCHANGED <<login, secret>>, mayCreate' \in BOOLEAN, cutover' = Idle
  PROVE  CInv'
BY IdleFacts DEF CInv, LoginsOK, CutoverAgrees, At, PublishedSecretWorks

LEMMA NewPasswordFacts ==
  ASSUME CInv, NEW u \in Scopes \cup {Control}, NEW n \in 1..MaxPassword, NewPassword(u, n)
  PROVE  /\ login' \in [Scopes \cup {Control} -> Passwords] /\ n \in Passwords /\ n # 0
         /\ login'[u] = n
         /\ \A v \in Scopes \cup {Control} : v # u => login'[v] = login[v]
BY TenantAssumption DEF NewPassword, CInv, LoginsOK, Passwords

LEMMA ProvisionStep ==
  ASSUME CInv, ProvisionScopeRole \/ ProvisionControlPlane
  PROVE  CInv'
<1> USE DEF CInv, LoginsOK
<1> DEFINE p == cutover.payload
<1>1. p \in Payloads /\ UNCHANGED <<mayCreate, secret>>
  BY DEF Cutovers, ProvisionScopeRole, ProvisionControlPlane
<1>2. CASE ProvisionScopeRole
  <2>1. At("scope") /\ p = secret /\ p.scope \in Scopes
    BY <1>2 DEF ProvisionScopeRole, CutoverAgrees, At
  <2>2. CASE Reused /\ Step("control") /\ UNCHANGED login
    <3>1. In(cutover', "control", p)
      BY <2>2, StepFacts DEF Phases
    <3>2. p.main.user = p.scope
      BY <2>2 DEF Reused
    <3> QED BY <1>1, <2>1, <2>2, <3>1, <3>2 DEF In, CutoverAgrees, At, PublishedSecretWorks
  <2>3. CASE /\ ~Reused
             /\ \E n \in 1..MaxPassword :
                  /\ NewPassword(cutover.payload.scope, n)
                  /\ cutover' = [cutover EXCEPT !.phase = "control", !.payload.main =
                                   [user |-> cutover.payload.scope, password |-> n]]
    <3>1. PICK n \in 1..MaxPassword :
                  /\ NewPassword(p.scope, n)
                  /\ cutover' = [cutover EXCEPT !.phase = "control", !.payload.main =
                                   [user |-> p.scope, password |-> n]]
      BY <2>3
    <3> DEFINE q == WithMain(p, p.scope, n)
    <3>2. cutover' = MovedWith(cutover, "control", q)
      BY <3>1, Zenon DEF WithMain, MovedWith
    <3>3. /\ login' \in [Scopes \cup {Control} -> Passwords] /\ n \in Passwords
          /\ \A v \in Scopes \cup {Control} : v # p.scope => login'[v] = login[v]
      BY <2>1, <3>1, NewPasswordFacts
    <3>4. /\ q \in Payloads /\ q.scope = p.scope /\ q.control = p.control /\ q.main.user = p.scope
      BY <1>1, <2>1, <3>3, PayloadUpdates
    <3> HIDE DEF q
    <3>5. In(cutover', "control", q)
      <4>1. 0 \in 0..MaxVersion /\ "control" \in Phases
        BY TenantAssumption DEF Phases
      <4> QED BY <3>2, <3>4, <4>1, CutoverUpdates
    <3>6. secret.main.user # p.scope /\ Control # p.scope
      BY <2>1, <2>3, TenantAssumption DEF Reused
    <3>7. PublishedSecretWorks'
      BY <1>1, <3>3, <3>6 DEF PublishedSecretWorks
    <3>8. CutoverAgrees'
      BY <1>1, <2>1, <3>4, <3>5 DEF In, CutoverAgrees, At
    <3> QED BY <1>1, <3>3, <3>5, <3>7, <3>8 DEF In
  <2> QED BY <1>2, <2>2, <2>3 DEF ProvisionScopeRole
<1>3. CASE ProvisionControlPlane
  <2>1. /\ At("control") /\ p.scope \in Scopes
        /\ p.control = secret.control /\ p.main.user = p.scope
    BY <1>3 DEF ProvisionControlPlane, CutoverAgrees, At
  <2>2. CASE ControlReused /\ Step("bind") /\ UNCHANGED login
    <3>1. In(cutover', "bind", p)
      BY <2>2, StepFacts DEF Phases
    <3> QED BY <1>1, <2>1, <2>2, <3>1 DEF In, CutoverAgrees, At, PublishedSecretWorks
  <2>3. CASE /\ ~ControlReused
             /\ \E n \in 1..MaxPassword :
                  /\ NewPassword(Control, n)
                  /\ cutover' = [cutover EXCEPT !.phase = "revoke", !.payload.control = n]
    <3>1. PICK n \in 1..MaxPassword :
                  /\ NewPassword(Control, n)
                  /\ cutover' = [cutover EXCEPT !.phase = "revoke", !.payload.control = n]
      BY <2>3
    <3> DEFINE q == WithControl(p, n)
    <3>2. cutover' = MovedWith(cutover, "revoke", q)
      BY <3>1, Zenon DEF WithControl, MovedWith
    <3>3. /\ login' \in [Scopes \cup {Control} -> Passwords] /\ n \in Passwords /\ n # 0
          /\ \A v \in Scopes \cup {Control} : v # Control => login'[v] = login[v]
      BY <3>1, NewPasswordFacts
    <3>4. q \in Payloads /\ q.scope = p.scope /\ q.main = p.main /\ q.control = n
      BY <1>1, <2>1, <3>3, PayloadUpdates
    <3> HIDE DEF q
    <3>5. In(cutover', "revoke", q)
      <4>1. 0 \in 0..MaxVersion /\ "revoke" \in Phases
        BY TenantAssumption DEF Phases
      <4> QED BY <3>2, <3>4, <4>1, CutoverUpdates
    <3>6. secret.control = 0 /\ Control \notin Scopes
      BY <2>1, <2>3, TenantAssumption DEF ControlReused
    <3>7. PublishedSecretWorks'
      BY <1>1, <3>3, <3>6 DEF PublishedSecretWorks
    <3>8. CutoverAgrees'
      BY <1>1, <2>1, <3>3, <3>4, <3>5 DEF In, CutoverAgrees, At
    <3> QED BY <1>1, <3>3, <3>5, <3>7, <3>8 DEF In
  <2> QED BY <1>3, <2>2, <2>3 DEF ProvisionControlPlane
<1> QED BY <1>2, <1>3

LEMMA RevokeStep ==
  ASSUME CInv, RevokeBootstrapOptions \/ RevokeAfterFailure
  PROVE  CInv'
<1> USE DEF CInv, LoginsOK
<1>1. CASE RevokeAfterFailure
  BY <1>1, IdleStep DEF RevokeAfterFailure
<1>2. CASE RevokeBootstrapOptions
  <2>1. In(cutover', "bind", cutover.payload)
    BY <1>2, StepFacts DEF RevokeBootstrapOptions, Phases
  <2>2. UNCHANGED <<login, secret>> /\ mayCreate' = FALSE /\ cutover.phase = "revoke"
    BY <1>2 DEF RevokeBootstrapOptions, At
  <2> QED BY <2>1, <2>2 DEF In, CutoverAgrees, At, PublishedSecretWorks
<1> QED BY <1>1, <1>2

LEMMA BindScopeStep ==
  ASSUME BInv, CInv, BindScope
  PROVE  BInv' /\ AuditGrows /\ CInv'
<1> USE DEF CInv, LoginsOK
<1> DEFINE p == cutover.payload
           q == WithUrl(p, p.scope, p.main.password)
<1>1. /\ UNCHANGED <<login, mayCreate, secret>> /\ p \in Payloads
      /\ p.scope \in Scopes /\ p.main.user = p.scope /\ p.main.password \in Passwords
  BY DEF BindScope, CutoverAgrees, At, Cutovers, Payloads, Passwords
<1>2. BInv' /\ AuditGrows
  BY <1>1, BindStep, TenantAssumption DEF BindScope
<1>3. binding'[Caller].version \in 0..MaxVersion
  BY <1>2, TenantAssumption DEF BInv, BindingsOK, BindingRow
<1>4. cutover' = MovedBound(cutover, "verify", binding'[Caller].version, q)
  BY Zenon DEF BindScope, WithUrl, MovedBound
<1>5. /\ q \in Payloads /\ q.scope = p.scope /\ q.main = p.main
      /\ q.control = p.control /\ q.urls[p.scope] = p.main.password
  <2> DEFINE s == p.scope
             n == p.main.password
  <2>1. p \in Payloads /\ s \in Scopes /\ n \in Passwords /\ q = WithUrl(p, s, n)
    BY <1>1
  <2> HIDE DEF p, q, s, n
  <2>2. /\ q \in Payloads /\ q.scope = p.scope /\ q.main = p.main
        /\ q.control = p.control /\ q.urls[s] = n
    BY <2>1, PayloadUpdates
  <2> QED BY <2>2 DEF p, s, n
<1> HIDE DEF q
<1>6. In(cutover', "verify", q)
  <2>1. "verify" \in Phases
    BY DEF Phases
  <2> QED BY <1>3, <1>4, <1>5, <2>1, CutoverUpdates
<1>7. CInv'
  BY <1>1, <1>5, <1>6 DEF In, CutoverAgrees, At, PublishedSecretWorks
<1> QED BY <1>2, <1>7

LEMMA PublishStep ==
  ASSUME CInv, Verify \/ PutSecret
  PROVE  CInv'
<1> USE DEF CInv, LoginsOK
<1> DEFINE p == cutover.payload
<1>1. p \in Payloads /\ UNCHANGED <<login, mayCreate>>
  BY DEF Cutovers, Verify, PutSecret
<1>2. CASE Verify
  <2>1. In(cutover', "put", p)
    BY <1>2, StepFacts DEF Verify, Phases
  <2>2. login[p.main.user] = p.main.password /\ login[Control] = p.control /\ UNCHANGED secret
    BY <1>2 DEF Verify, Verified
  <2>3. p.main.user = p.scope /\ p.urls[p.scope] = p.main.password /\ p.scope \in Scopes
    BY <1>2 DEF Verify, CutoverAgrees, At
  <2> QED BY <1>1, <2>1, <2>2, <2>3 DEF In, CutoverAgrees, At, PublishedSecretWorks
<1>3. CASE PutSecret
  <2>1. /\ p.main.user = p.scope /\ p.urls[p.scope] = p.main.password /\ p.scope \in Scopes
        /\ login[p.scope] = p.main.password /\ login[Control] = p.control
    BY <1>3 DEF PutSecret, CutoverAgrees, At
  <2>2. secret' = p /\ cutover' = Idle
    BY <1>3 DEF PutSecret
  <2> QED BY <1>1, <2>1, <2>2, IdleFacts DEF In, CutoverAgrees, At, PublishedSecretWorks
<1> QED BY <1>2, <1>3

LEMMA OperatorStep ==
  ASSUME CInv, LendOptions \/ TakeOptionsBack \/ ReadSecret \/ \E s \in Scopes : RegisterScope(s)
  PROVE  CInv'
<1> USE DEF CInv, LoginsOK
<1>1. CASE LendOptions \/ TakeOptionsBack
  <2>1. UNCHANGED <<login, secret, cutover>> /\ mayCreate' \in BOOLEAN
    BY <1>1 DEF LendOptions, TakeOptionsBack
  <2> QED BY <2>1 DEF In, CutoverAgrees, At, PublishedSecretWorks
<1>2. CASE ReadSecret
  <2>1. In(cutover', "scope", secret)
    <3>1. cutover' = MovedWith(Idle, "scope", secret)
      BY <1>2, Zenon DEF ReadSecret, MovedWith
    <3>2. 0 \in 0..MaxVersion /\ "scope" \in Phases
      BY TenantAssumption DEF Phases
    <3> QED BY <3>1, <3>2, IdleFacts, CutoverUpdates
  <2> QED BY <1>2, <2>1 DEF ReadSecret, In, CutoverAgrees, At, PublishedSecretWorks
<1>3. ASSUME NEW s \in Scopes, RegisterScope(s) PROVE CInv'
  <2>1. /\ secret' \in Payloads /\ secret'.scope = s /\ secret'.main = secret.main
        /\ secret'.control = secret.control /\ secret'.urls = secret.urls
    <3>1. 0 \in Passwords
      BY TenantAssumption DEF Passwords
    <3>2. secret' = WithScope(secret, s)
      BY <1>3, Zenon DEF RegisterScope, WithScope
    <3> QED BY <3>1, <3>2, PayloadUpdates
  <2>2. UNCHANGED <<login, mayCreate, cutover>> /\ cutover.phase = "idle"
    BY <1>3 DEF RegisterScope, At
  <2> QED BY <2>1, <2>2 DEF In, CutoverAgrees, At, PublishedSecretWorks
<1> QED BY <1>1, <1>2, <1>3

LEMMA TenantStep ==
  ASSUME BInv, CInv, TenantNext
  PROVE  BInv' /\ AuditGrows /\ CInv'
<1>1. CASE \E c \in Callers, s \in Scopes : Operate(c, s)
  <2>1. PICK c \in Callers, s \in Scopes : Operate(c, s)
    BY <1>1
  <2>2. BInv' /\ AuditGrows
    BY <2>1, BindStep, DisableStep DEF Operate
  <2>3. UNCHANGED <<login, mayCreate, secret, cutover>>
    BY <2>1 DEF Operate
  <2> QED BY <2>2, <2>3 DEF CInv, LoginsOK, CutoverAgrees, At, PublishedSecretWorks
<1>2. CASE BindScope
  BY <1>2, BindScopeStep
<1>3. CASE \/ ReadSecret \/ ProvisionScopeRole \/ ProvisionControlPlane
           \/ RevokeBootstrapOptions \/ Verify \/ PutSecret \/ CutoverRefused
           \/ CutoverFails \/ RevokeAfterFailure \/ LendOptions \/ TakeOptionsBack
           \/ \E s \in Scopes : RegisterScope(s)
  <2>1. UNCHANGED <<binding, bindingAudit>>
    BY <1>3 DEF ReadSecret, ProvisionScopeRole, ProvisionControlPlane, RevokeBootstrapOptions,
                Verify, PutSecret, CutoverRefused, CutoverFails, RevokeAfterFailure,
                LendOptions, TakeOptionsBack, RegisterScope
  <2>2. CutoverRefused \/ CutoverFails => CInv'
    BY IdleStep DEF CutoverRefused, CutoverFails, CInv, LoginsOK
  <2> QED BY <1>3, <2>1, <2>2, BindingsKept, ProvisionStep, RevokeStep, PublishStep, OperatorStep
<1> QED BY <1>1, <1>2, <1>3 DEF TenantNext, CutoverStep

LEMMA TenantInvariance == TenantSpec => [](BInv /\ CInv)
<1>1. BInv /\ CInv /\ [TenantNext]_tenantVars => (BInv /\ CInv)'
  <2>1. BInv /\ CInv /\ UNCHANGED tenantVars => (BInv /\ CInv)'
    BY BindingsKept DEF tenantVars, CInv, LoginsOK, CutoverAgrees, At, PublishedSecretWorks
  <2> QED BY <2>1, TenantStep
<1> QED BY <1>1, InitCInv, PTL DEF TenantSpec

-----------------------------------------------------------------------------
(* The server and the judge endpoint *)

SearchRow == [scope : Scopes, returned : SUBSET Memories, accepted : SUBSET Memories]
RequestRow == [phase : {"idle", "bound", "searched", "fetched"}, caller : Callers,
               identity : BindingRow, since : 0..MaxVersion, ids : SUBSET Memories, row : Nat]
StoryRow == [scope : Scopes \cup {Nowhere}, version : 0..MaxVersion,
             selected : SUBSET Memories, search : Nat, row : Nat, begun : Nat, readAt : Nat]
JudgeState == [phase : {"idle", "fetch", "receipts"}, now : Nat, story : StoryRow,
               cached : StoryRow, cachedAt : Nat, shown : StoryRow, shownAt : Nat,
               fromCache : BOOLEAN]

MemoriesOK ==
  /\ clock \in 0..MaxTime
  /\ accepted \subseteq Memories /\ indexed \subseteq accepted
  /\ retrievals \in Seq(SearchRow) /\ Len(retrievals) <= MaxSearches

\* The audit has this version of the caller's binding, to this scope, active.
Audited(c, scope, version) ==
  /\ version \in 1..Len(bindingAudit[c])
  /\ bindingAudit[c][version].scope = scope
  /\ bindingAudit[c][version].event # "disabled"

ServerOK ==
  /\ server \in [up : BOOLEAN, urls : [Scopes -> Passwords], identity : BindingRow]
  /\ server.up => Audited(Caller, server.identity.scope, server.identity.version)

\* A request keeps the audited version it was bound to, and holds memories of
\* that scope only.
Served(r) ==
  r.phase # "idle" =>
    /\ r.since = r.identity.version
    /\ Audited(r.caller, r.identity.scope, r.identity.version)
    /\ r.ids \subseteq Fetchable(r.identity.scope)

RequestsOK ==
  /\ request \in [Requests -> RequestRow]
  /\ \A q \in Requests : Served(request[q])

\* A story is begun by a search of its scope that found the story memory, as a
\* caller who was bound there; it is finished by the receipts of that scope.
Begun(s) ==
  /\ s.begun <= clock
  /\ Audited(Caller, s.scope, s.version)
  /\ s.search \in 1..Len(retrievals)
  /\ retrievals[s.search].scope = s.scope
  /\ Story \in indexed /\ ScopeOf[Story] = s.scope

Finished(s) ==
  /\ Begun(s)
  /\ s.selected = {Story} /\ receipts = CompleteReceipts
  /\ s.row \in 1..Len(retrievals) /\ s.row >= s.search
  /\ retrievals[s.row].scope = s.scope
  /\ s.begun <= s.readAt

\* What the cache is dated by is when the cached story was begun.
JudgeOK ==
  /\ judge \in JudgeState
  /\ judge.phase # "idle" => Begun(judge.story) /\ judge.now = judge.story.begun
  /\ judge.phase = "receipts" => judge.story.selected = {Story}
  /\ judge.cached # NoStory => Finished(judge.cached) /\ judge.cachedAt = judge.cached.begun
  /\ judge.shown # NoStory =>
       /\ Finished(judge.shown)
       /\ judge.fromCache => judge.shownAt - judge.shown.begun < TTL

TenantInv == BInv /\ CInv
AInv == TenantInv /\ MemoriesOK /\ ServerOK /\ RequestsOK /\ JudgeOK

LEMMA RetrievalAppended ==
  ASSUME retrievals \in Seq(SearchRow), NEW e \in SearchRow, retrievals' = Append(retrievals, e)
  PROVE  /\ retrievals' \in Seq(SearchRow) /\ Len(retrievals) \in Nat
         /\ Len(retrievals') = Len(retrievals) + 1
         /\ retrievals'[Len(retrievals) + 1] = e
         /\ \A k \in 1..Len(retrievals) : retrievals'[k] = retrievals[k]
BY AppendProperties, LenProperties

\* Nothing that a story or a request rests on is taken back.
Grows ==
  /\ AuditGrows
  /\ clock <= clock'
  /\ accepted \subseteq accepted' /\ indexed \subseteq indexed'
  /\ Len(retrievals) <= Len(retrievals')
  /\ \A k \in 1..Len(retrievals) : retrievals'[k] = retrievals[k]
  /\ receipts = CompleteReceipts => receipts' = receipts

LEMMA AuditedKept ==
  ASSUME TenantInv, TenantInv', AuditGrows, NEW c \in Callers, NEW scope, NEW version
  PROVE  Audited(c, scope, version) => Audited(c, scope, version)'
<1>1. Len(bindingAudit[c]) \in Nat /\ Len(bindingAudit'[c]) \in Nat
  BY LenProperties DEF TenantInv, BInv, BindingsOK
<1> QED BY <1>1 DEF AuditGrows, Audited

LEMMA StoryKept ==
  ASSUME TenantInv, TenantInv', MemoriesOK, MemoriesOK', Grows, NEW s \in StoryRow
  PROVE  /\ Begun(s) => Begun(s)'
         /\ Finished(s) => Finished(s)'
<1>1. Len(retrievals) \in Nat /\ Len(retrievals') \in Nat /\ clock \in Nat /\ clock' \in Nat
  BY LenProperties, AccessAssumption DEF MemoriesOK
<1>2. s.begun \in Nat /\ s.search \in Nat /\ s.row \in Nat
  BY DEF StoryRow
<1>3. Audited(Caller, s.scope, s.version) => Audited(Caller, s.scope, s.version)'
  BY AuditedKept, TenantAssumption DEF Grows
<1>4. Begun(s) => Begun(s)'
  BY <1>1, <1>2, <1>3 DEF Begun, Grows
<1>5. Finished(s) => Finished(s)'
  BY <1>1, <1>2, <1>4 DEF Finished, Grows
<1> QED BY <1>4, <1>5

\* What a component does not touch stays in order while the rest grows.
LEMMA Kept ==
  ASSUME AInv, TenantInv', MemoriesOK', Grows
  PROVE  /\ UNCHANGED server => ServerOK'
         /\ UNCHANGED request => RequestsOK'
         /\ UNCHANGED judge => JudgeOK'
<1> USE DEF AInv
<1>1. ASSUME UNCHANGED server PROVE ServerOK'
  <2>1. Audited(Caller, server.identity.scope, server.identity.version) =>
          Audited(Caller, server.identity.scope, server.identity.version)'
    BY <1>1, AuditedKept, TenantAssumption DEF Grows, Audited
  <2> QED BY <1>1, <2>1 DEF ServerOK
<1>2. ASSUME UNCHANGED request PROVE RequestsOK'
  <2>1. ASSUME NEW q \in Requests PROVE Served(request[q])'
    <3>1. request[q] \in RequestRow /\ Served(request[q])
      BY DEF RequestsOK
    <3>2. request[q].phase # "idle" =>
            Audited(request[q].caller, request[q].identity.scope, request[q].identity.version)'
      BY <1>2, <3>1, AuditedKept DEF Served, RequestRow, Grows, Audited
    <3> QED BY <1>2, <3>1, <3>2 DEF Served, Fetchable, Grows
  <2> QED BY <1>2, <2>1 DEF RequestsOK
<1>3. ASSUME UNCHANGED judge PROVE JudgeOK'
  <2>1. judge.story \in StoryRow /\ judge.cached \in StoryRow /\ judge.shown \in StoryRow
    BY DEF JudgeOK, JudgeState
  <2>2. \A s \in StoryRow : (Begun(s) => Begun(s)') /\ (Finished(s) => Finished(s)')
    BY StoryKept
  <2>3. /\ Begun(judge.story) => Begun(judge.story)'
        /\ Finished(judge.cached) => Finished(judge.cached)'
        /\ Finished(judge.shown) => Finished(judge.shown)'
    BY <1>3, <2>1, <2>2 DEF Begun, Finished, Audited
  <2> QED BY <1>3, <2>3 DEF JudgeOK
<1> QED BY <1>1, <1>2, <1>3

LEMMA TenantKept ==
  ASSUME TenantInv, UNCHANGED tenantVars
  PROVE  TenantInv' /\ AuditGrows
BY BindingsKept
   DEF TenantInv, tenantVars, CInv, LoginsOK, CutoverAgrees, At, PublishedSecretWorks

LEMMA MemoriesKept ==
  ASSUME MemoriesOK, UNCHANGED <<accepted, indexed, retrievals, receipts>>, clock' = clock,
         AuditGrows
  PROVE  MemoriesOK' /\ Grows
<1>1. Len(retrievals) \in Nat /\ clock \in Nat
  BY LenProperties, AccessAssumption DEF MemoriesOK
<1> QED BY <1>1 DEF MemoriesOK, Grows

LEMMA MemoryStep ==
  ASSUME AInv, UNCHANGED <<tenantVars, retrievals, server, request, judge>>,
         \/ \E m \in Memories : Accept(m) \/ IndexMemory(m)
         \/ \E kind \in {"story", "poison"} :
              \/ SeedDraft(kind)
              \/ \E code \in {"ACCEPTED", "STALE_PARENT", "UNTRUSTED_SOURCE"} : SeedPromote(kind, code)
         \/ SeedClaim
         \/ AccessTick
  PROVE  AInv'
<1>1. TenantInv' /\ AuditGrows /\ (receipts = CompleteReceipts => receipts' = receipts)
  BY TenantKept DEF AInv, Accept, IndexMemory, SeedDraft, SeedPromote, SeedClaim, AccessTick,
                    CompleteReceipts
<1>2. MemoriesOK' /\ Grows
  <2>1. Len(retrievals) \in Nat /\ clock \in 0..MaxTime /\ MaxTime \in Nat
    BY LenProperties, AccessAssumption DEF AInv, MemoriesOK
  <2>2. ASSUME clock' = clock,
               \/ UNCHANGED <<accepted, indexed>>
               \/ \E m \in Memories : accepted' = accepted \cup {m} /\ UNCHANGED indexed
               \/ \E m \in accepted : indexed' = indexed \cup {m} /\ UNCHANGED accepted
        PROVE  MemoriesOK' /\ Grows
    BY <1>1, <2>1, <2>2 DEF AInv, MemoriesOK, Grows
  <2>3. ASSUME NEW m \in Memories, Accept(m) \/ IndexMemory(m)
        PROVE  MemoriesOK' /\ Grows
    BY <2>2, <2>3 DEF Accept, IndexMemory
  <2>4. ASSUME NEW kind \in {"story", "poison"},
               SeedDraft(kind) \/ \E code \in {"ACCEPTED", "STALE_PARENT", "UNTRUSTED_SOURCE"} :
                                    SeedPromote(kind, code)
        PROVE  MemoriesOK' /\ Grows
    BY <2>2, <2>4, AccessAssumption DEF SeedDraft, SeedPromote
  <2>5. CASE SeedClaim
    BY <2>2, <2>5 DEF SeedClaim
  <2>6. CASE AccessTick
    <3>1. clock' \in 0..MaxTime /\ clock <= clock' /\ UNCHANGED <<accepted, indexed>>
      BY <2>1, <2>6 DEF AccessTick
    <3> QED BY <1>1, <2>1, <3>1 DEF AInv, MemoriesOK, Grows
  <2> QED BY <2>3, <2>4, <2>5, <2>6
<1> QED BY <1>1, <1>2, Kept DEF AInv

\* Whoever resolves to a scope was audited there, and not disabled since.
LEMMA ResolvedIsAudited ==
  ASSUME BInv, NEW c \in Callers, Resolve(c) # NoBinding
  PROVE  /\ Resolve(c) \in BindingRow /\ Resolve(c).version = binding[c].version
         /\ Audited(c, Resolve(c).scope, Resolve(c).version)
<1>1. binding[c].status = "active" /\ Resolve(c) = binding[c]
  BY DEF Resolve
<1>2. binding[c] \in BindingRow /\ binding[c].version > 0
  <2>1. binding[c] \in BindingRow /\ binding[c].version \in Nat
    BY DEF BInv, BindingsOK, BindingRow
  <2> QED BY <1>1, <2>1 DEF BInv, Bound, NoBinding
<1>3. History(bindingAudit[c], binding[c])
  BY HistoryFacts DEF BInv
<1>4. Len(bindingAudit[c]) = binding[c].version /\ binding[c].version \in Nat
  BY <1>2, <1>3 DEF History, BindingRow
<1> QED BY <1>1, <1>2, <1>3, <1>4 DEF History, Audited

LEMMA NothingFacts ==
  /\ NoBinding \in BindingRow
  /\ NoRequest \in RequestRow /\ NoRequest.phase = "idle" /\ NoRequest.ids = {}
  /\ NoStory \in StoryRow
  /\ NoJudge \in JudgeState /\ NoJudge.phase = "idle"
  /\ NoJudge.cached = NoStory /\ NoJudge.shown = NoStory
  /\ Down \in [up : BOOLEAN, urls : [Scopes -> Passwords], identity : BindingRow] /\ ~Down.up
<1>1. NoBinding \in BindingRow
  BY TenantAssumption DEF NoBinding, BindingRow, Statuses
<1>2. NoStory \in StoryRow
  BY TenantAssumption DEF NoStory, StoryRow
<1> USE <1>1, <1>2
<1>3. NoRequest \in RequestRow /\ NoRequest.phase = "idle" /\ NoRequest.ids = {}
  BY TenantAssumption DEF NoRequest, RequestRow
<1>4. /\ NoJudge \in JudgeState /\ NoJudge.phase = "idle"
      /\ NoJudge.cached = NoStory /\ NoJudge.shown = NoStory
  BY DEF NoJudge, JudgeState
<1>5. Down \in [up : BOOLEAN, urls : [Scopes -> Passwords], identity : BindingRow] /\ ~Down.up
  BY TenantAssumption DEF Down, Passwords
<1> QED BY <1>3, <1>4, <1>5

LEMMA RestartStep ==
  ASSUME AInv, Restart
  PROVE  AInv'
<1>1. TenantInv' /\ AuditGrows /\ MemoriesOK' /\ Grows
  BY TenantKept, MemoriesKept DEF AInv, Restart
<1>2. UNCHANGED <<binding, bindingAudit>>
  BY DEF Restart, tenantVars
<1>3. ServerOK'
  <2>1. CASE CanStart
    <3>1. Resolve(Caller) # NoBinding /\ BInv
      BY <2>1 DEF CanStart, AInv, TenantInv
    <3>2. Resolve(Caller) \in BindingRow /\ Audited(Caller, Resolve(Caller).scope, Resolve(Caller).version)
      BY <3>1, ResolvedIsAudited, TenantAssumption
    <3>3. secret.urls \in [Scopes -> Passwords]
      BY DEF AInv, TenantInv, CInv, LoginsOK, Payloads, Passwords
    <3>4. server' = [up |-> TRUE, urls |-> secret.urls, identity |-> Resolve(Caller)]
      BY <2>1 DEF Restart
    <3> QED BY <1>2, <3>2, <3>3, <3>4 DEF ServerOK, Audited
  <2>2. CASE ~CanStart
    BY <2>2, NothingFacts DEF Restart, ServerOK
  <2> QED BY <2>1, <2>2
<1>4. RequestsOK'
  BY NothingFacts DEF Restart, RequestsOK, Served
<1>5. JudgeOK'
  BY NothingFacts DEF Restart, JudgeOK
<1> QED BY <1>1, <1>3, <1>4, <1>5 DEF AInv

-----------------------------------------------------------------------------
(* Requests *)

BoundTo(c, identity, since) ==
  [NoRequest EXCEPT !.phase = "bound", !.caller = c, !.identity = identity, !.since = since]
SearchedFor(r, ids, row) == [r EXCEPT !.phase = "searched", !.ids = ids, !.row = row]
FetchedFor(r, ids) == [r EXCEPT !.phase = "fetched", !.ids = ids]

LEMMA BoundToFacts ==
  ASSUME NEW c \in Callers, NEW identity \in BindingRow, NEW since \in 0..MaxVersion
  PROVE  \E r \in RequestRow :
           /\ r = BoundTo(c, identity, since) /\ r.caller = c /\ r.identity = identity
           /\ r.since = since /\ r.ids = {}
<1> DEFINE r == BoundTo(c, identity, since)
<1>1. NoRequest \in RequestRow /\ NoRequest.ids = {}
  BY NothingFacts
<1>2. /\ r \in RequestRow /\ r.caller = c /\ r.identity = identity
      /\ r.since = since /\ r.ids = {}
  BY <1>1 DEF RequestRow, BoundTo
<1> HIDE DEF r
<1> QED BY <1>2 DEF r

LEMMA FoundFacts ==
  ASSUME NEW d \in RequestRow, NEW ids \in SUBSET Memories, NEW row \in Nat,
         NEW r, r = SearchedFor(d, ids, row) \/ r = FetchedFor(d, ids)
  PROVE  /\ r \in RequestRow /\ r.caller = d.caller /\ r.identity = d.identity
         /\ r.since = d.since /\ r.ids = ids
BY DEF RequestRow, SearchedFor, FetchedFor

\* One request changes, to one that is served well.
LEMMA RequestStep ==
  ASSUME AInv, TenantInv', MemoriesOK', Grows, UNCHANGED <<server, judge>>,
         NEW q \in Requests, NEW r \in RequestRow, request' = [request EXCEPT ![q] = r],
         Served(r)'
  PROVE  AInv'
<1>1. ServerOK' /\ JudgeOK'
  BY Kept
<1>2. request' \in [Requests -> RequestRow]
  BY DEF AInv, RequestsOK
<1>3. ASSUME NEW p \in Requests PROVE Served(request[p])'
  <2>1. CASE p = q
    <3>1. request'[p] = r
      BY <2>1 DEF AInv, RequestsOK
    <3> QED BY <3>1 DEF Served, Audited, Fetchable
  <2>2. CASE p # q
    <3>1. PICK d \in RequestRow : d = request[p] /\ d = request'[p] /\ Served(d)
      BY <2>2 DEF AInv, RequestsOK
    <3>2. d.caller \in Callers
      BY DEF RequestRow
    <3>3. Audited(d.caller, d.identity.scope, d.identity.version)
            => Audited(d.caller, d.identity.scope, d.identity.version)'
      BY <3>2, AuditedKept DEF AInv, Grows
    <3>4. Served(d)'
      BY <3>1, <3>3 DEF Served, Fetchable, Grows
    <3> QED BY <3>1, <3>4 DEF Served, Audited, Fetchable
  <2> QED BY <2>1, <2>2
<1>4. RequestsOK'
  BY <1>2, <1>3 DEF RequestsOK
<1> QED BY <1>1, <1>4 DEF AInv

\* A search only adds its own row to the audit of retrievals.
LEMMA SearchedFacts ==
  ASSUME AInv, TenantInv', UNCHANGED <<tenantVars, clock, accepted, indexed, receipts>>,
         NEW scope, NEW E \in SUBSET indexed, NEW H \in SUBSET E, Searched(scope, E, H)
  PROVE  /\ MemoriesOK' /\ Grows
         /\ scope \in Scopes /\ H \subseteq Visible(scope)
         /\ Len(retrievals) \in Nat /\ Len(retrievals') = Len(retrievals) + 1
         /\ retrievals'[Len(retrievals) + 1].scope = scope
<1> DEFINE e == [scope |-> scope, returned |-> E, accepted |-> H]
<1>1. scope \in Scopes /\ H \subseteq Visible(scope) /\ retrievals' = Append(retrievals, e)
  BY DEF Searched, HasStore
<1>2. E \subseteq Memories /\ H \subseteq Memories
  BY DEF AInv, MemoriesOK
<1>3. e \in SearchRow /\ e.scope = scope
  BY <1>1, <1>2 DEF SearchRow
<1>4. AuditGrows
  BY TenantKept DEF AInv
<1> HIDE DEF e
<1>5. /\ retrievals' \in Seq(SearchRow) /\ Len(retrievals) \in Nat
      /\ Len(retrievals') = Len(retrievals) + 1
      /\ retrievals'[Len(retrievals) + 1] = e
      /\ \A k \in 1..Len(retrievals) : retrievals'[k] = retrievals[k]
  BY <1>1, <1>3, RetrievalAppended DEF AInv, MemoriesOK
<1>6. Len(retrievals') <= MaxSearches /\ clock \in Nat
  BY <1>5, AccessAssumption DEF Searched, AInv, MemoriesOK
<1> QED BY <1>1, <1>3, <1>4, <1>5, <1>6 DEF AInv, MemoriesOK, Grows

LEMMA RequestSteps ==
  ASSUME AInv, NEW q \in Requests,
         \/ \E c \in Callers : Authenticate(q, c)
         \/ \E E \in SUBSET indexed : \E H \in SUBSET E : Search(q, E, H)
         \/ \E m \in Memories : Fetch(q, m)
         \/ Close(q)
  PROVE  AInv'
<1>1. /\ UNCHANGED <<tenantVars, clock, accepted, indexed, receipts, server, judge>>
      /\ UNCHANGED <<binding, bindingAudit>>
  BY DEF Authenticate, Search, Fetch, Close, tenantVars
<1>2. TenantInv' /\ AuditGrows
  BY <1>1, TenantKept DEF AInv
<1>3. PICK d \in RequestRow : d = request[q] /\ Served(d)
  BY DEF AInv, RequestsOK
<1>4. UNCHANGED retrievals => MemoriesOK' /\ Grows
  BY <1>1, <1>2, MemoriesKept DEF AInv
<1>5. ASSUME NEW c \in Callers, Authenticate(q, c) PROVE AInv'
  <2>1. PICK i \in BindingRow :
          i = Resolve(c) /\ i.version = binding[c].version /\ Audited(c, i.scope, i.version)
    BY <1>5, ResolvedIsAudited DEF Authenticate, IdentityFor, AInv, TenantInv
  <2>2. i.version \in 0..MaxVersion
    BY DEF BindingRow
  <2>3. PICK r \in RequestRow :
          /\ r = BoundTo(c, i, i.version) /\ r.caller = c /\ r.identity = i
          /\ r.since = i.version /\ r.ids = {}
    BY <2>2, BoundToFacts
  <2>4. request' = [request EXCEPT ![q] = BoundTo(c, Resolve(c), binding[c].version)]
        /\ UNCHANGED retrievals
    BY <1>5, Zenon DEF Authenticate, IdentityFor, BoundTo
  <2>5. request' = [request EXCEPT ![q] = r]
    BY <2>1, <2>3, <2>4
  <2>6. Served(r)'
    BY <1>1, <2>1, <2>3 DEF Served, Audited
  <2> QED BY <1>1, <1>2, <1>4, <2>4, <2>5, <2>6, RequestStep
<1>6. ASSUME NEW E \in SUBSET indexed, NEW H \in SUBSET E, Search(q, E, H) PROVE AInv'
  <2>1. Searched(d.identity.scope, E, H) /\ d.phase = "bound"
    BY <1>3, <1>6 DEF Search
  <2>2. /\ MemoriesOK' /\ Grows
        /\ H \subseteq Visible(d.identity.scope) /\ Len(retrievals) \in Nat
    BY <1>1, <1>2, <2>1, SearchedFacts
  <2>3. PICK n \in Nat : n = Len(retrievals) + 1
    BY <2>2
  <2>4. H \subseteq Fetchable(d.identity.scope)
    BY <2>2 DEF Visible, Fetchable, AInv, MemoriesOK
  <2>5. PICK ids \in SUBSET Memories : ids = H
    BY DEF AInv, MemoriesOK
  <2>6. PICK r : r = SearchedFor(d, ids, n)
    OBVIOUS
  <2>7. /\ r \in RequestRow /\ r.caller = d.caller /\ r.identity = d.identity
         /\ r.since = d.since /\ r.ids = ids
    BY <2>6, FoundFacts
  <2>8. request' = [request EXCEPT ![q] = SearchedFor(request[q], H, Len(retrievals) + 1)]
    BY <1>6, Zenon DEF Search, SearchedFor
  <2>9. request' = [request EXCEPT ![q] = r]
    BY <1>3, <2>3, <2>5, <2>6, <2>8
  <2>10. Served(r)'
    BY <1>1, <1>3, <2>1, <2>4, <2>5, <2>7 DEF Served, Audited, Fetchable
  <2> QED BY <1>1, <1>2, <2>2, <2>9, <2>10, <2>7, RequestStep
<1>7. ASSUME NEW m \in Memories, Fetch(q, m) PROVE AInv'
  <2>1. m \in Fetchable(d.identity.scope) /\ d.phase = "bound" /\ UNCHANGED retrievals
    BY <1>3, <1>7 DEF Fetch
  <2>2. PICK ids \in SUBSET Memories : ids = {m}
    OBVIOUS
  <2>3. PICK r : r = FetchedFor(d, ids)
    OBVIOUS
  <2>4. /\ r \in RequestRow /\ r.caller = d.caller /\ r.identity = d.identity
        /\ r.since = d.since /\ r.ids = ids
    BY <2>3, FoundFacts
  <2>5. request' = [request EXCEPT ![q] = FetchedFor(request[q], {m})]
    BY <1>7, Zenon DEF Fetch, FetchedFor
  <2>6. request' = [request EXCEPT ![q] = r]
    BY <1>3, <2>2, <2>3, <2>5
  <2>7. Served(r)'
    BY <1>1, <1>3, <2>1, <2>2, <2>4 DEF Served, Audited, Fetchable
  <2> QED BY <1>1, <1>2, <1>4, <2>1, <2>6, <2>7, <2>4, RequestStep
<1>8. CASE Close(q)
  <2>1. request' = [request EXCEPT ![q] = NoRequest] /\ UNCHANGED retrievals
    BY <1>8 DEF Close
  <2>2. NoRequest \in RequestRow /\ Served(NoRequest)'
    BY NothingFacts DEF Served
  <2> QED BY <1>1, <1>2, <1>4, <2>1, <2>2, RequestStep
<1> QED BY <1>5, <1>6, <1>7, <1>8

-----------------------------------------------------------------------------
(* The judge endpoint *)

BegunStory(scope, version, now, search) ==
  [NoStory EXCEPT !.scope = scope, !.version = version, !.begun = now, !.search = search]
SelectedStory(s) == [s EXCEPT !.selected = {Story}]
FinishedStory(s, row, now) == [s EXCEPT !.row = row, !.readAt = now]

LEMMA BegunFacts ==
  ASSUME NEW scope \in Scopes, NEW version \in 0..MaxVersion, NEW now \in Nat, NEW n \in Nat,
         NEW t, t = BegunStory(scope, version, now, n)
  PROVE  /\ t \in StoryRow
         /\ t.scope = scope /\ t.version = version /\ t.begun = now /\ t.search = n
<1>1. NoStory \in StoryRow
  BY NothingFacts
<1> QED BY <1>1 DEF StoryRow, BegunStory

\* What a story under way keeps.
Continues(t, s) ==
  t.scope = s.scope /\ t.version = s.version /\ t.begun = s.begun /\ t.search = s.search

LEMMA SelectedFacts ==
  ASSUME NEW s \in StoryRow, NEW t, t = SelectedStory(s)
  PROVE  t \in StoryRow /\ t.selected = {Story} /\ Continues(t, s)
BY AccessAssumption DEF StoryRow, SelectedStory, Continues

LEMMA FinishedFacts ==
  ASSUME NEW s \in StoryRow, NEW n \in Nat, NEW now \in Nat, NEW t, t = FinishedStory(s, n, now)
  PROVE  /\ t \in StoryRow /\ t.selected = s.selected
         /\ t.row = n /\ t.readAt = now /\ Continues(t, s)
BY AccessAssumption DEF StoryRow, FinishedStory, Continues

\* The states of the endpoint with a story under way, and after it.
WithStory(j, phase, now, s) == [j EXCEPT !.phase = phase, !.now = now, !.story = s]
ShowingCached(j, s, now) ==
  [j EXCEPT !.phase = "idle", !.story = NoStory, !.shown = s, !.shownAt = now, !.fromCache = TRUE]
ShowingNew(j, s, now, at) ==
  [[j EXCEPT !.phase = "idle", !.story = NoStory, !.shown = s, !.shownAt = now, !.fromCache = FALSE]
     EXCEPT !.cached = s, !.cachedAt = at]

LEMMA ShowingCachedFacts ==
  ASSUME NEW j \in JudgeState, NEW now \in Nat, NEW s \in StoryRow,
         NEW k, k = ShowingCached(j, s, now)
  PROVE  /\ k \in JudgeState /\ k.phase = "idle"
         /\ k.cached = j.cached /\ k.cachedAt = j.cachedAt
         /\ k.shown = s /\ k.shownAt = now
BY NothingFacts DEF JudgeState, ShowingCached

LEMMA ShowingNewFacts ==
  ASSUME NEW j \in JudgeState, NEW now \in Nat, NEW s \in StoryRow, NEW at \in Nat,
         NEW k, k = ShowingNew(j, s, now, at)
  PROVE  /\ k \in JudgeState /\ k.phase = "idle"
         /\ k.cached = s /\ k.cachedAt = at /\ k.shown = s /\ ~k.fromCache
BY NothingFacts DEF JudgeState, ShowingNew

\* A story goes on, or is given up; what was shown and cached stays.
LEMMA UnderWayStep ==
  ASSUME AInv, TenantInv', MemoriesOK', Grows, UNCHANGED <<server, request>>,
         NEW phase \in {"idle", "fetch", "receipts"}, NEW now \in Nat, NEW s \in StoryRow,
         judge' = WithStory(judge, phase, now, s),
         phase # "idle" => Begun(s)' /\ now = s.begun,
         phase = "receipts" => s.selected = {Story}
  PROVE  AInv'
<1>1. ServerOK' /\ RequestsOK'
  BY Kept
<1>2. PICK j \in JudgeState : j = judge
  BY DEF AInv, JudgeOK
<1>3. PICK k : k = judge'
  OBVIOUS
<1>4. /\ k \in JudgeState /\ k.phase = phase /\ k.now = now /\ k.story = s
      /\ k.cached = j.cached /\ k.cachedAt = j.cachedAt
      /\ k.shown = j.shown /\ k.shownAt = j.shownAt /\ k.fromCache = j.fromCache
  <2>1. k = WithStory(j, phase, now, s)
    BY <1>2, <1>3
  <2>2. k = [j EXCEPT !.phase = phase, !.now = now, !.story = s]
    BY <2>1 DEF WithStory
  <2> QED BY <2>2 DEF JudgeState
<1>5. j.cached \in StoryRow /\ j.shown \in StoryRow
  BY DEF JudgeState
<1>6. /\ j.cached # NoStory => Finished(j.cached)'
      /\ j.shown # NoStory => Finished(j.shown)'
  BY <1>2, <1>5, StoryKept DEF AInv, JudgeOK
<1>7. /\ j.cached # NoStory => j.cachedAt = j.cached.begun
      /\ j.shown # NoStory => (j.fromCache => j.shownAt - j.shown.begun < TTL)
  BY <1>2 DEF AInv, JudgeOK
<1>8. JudgeOK'
  <2>1. k.phase # "idle" => Begun(k.story)' /\ k.now = k.story.begun
    BY <1>4 DEF Begun, Audited
  <2>2. k.phase = "receipts" => k.story.selected = {Story}
    BY <1>4
  <2>3. k.cached # NoStory => Finished(k.cached)' /\ k.cachedAt = k.cached.begun
    BY <1>4, <1>6, <1>7 DEF Finished, Begun, Audited
  <2>4. k.shown # NoStory => Finished(k.shown)' /\ (k.fromCache => k.shownAt - k.shown.begun < TTL)
    BY <1>4, <1>6, <1>7 DEF Finished, Begun, Audited
  <2> QED BY <1>3, <1>4, <2>1, <2>2, <2>3, <2>4 DEF JudgeOK, Begun, Finished, Audited
<1> QED BY <1>1, <1>8 DEF AInv

\* A story is shown: the cached one, or a new one that becomes the cached one.
LEMMA ShownStep ==
  ASSUME AInv, TenantInv', MemoriesOK', Grows, UNCHANGED <<server, request>>,
         NEW s \in StoryRow, s # NoStory => Finished(s)', NEW now \in Nat,
         \/ /\ s = judge.cached /\ now - s.begun < TTL
            /\ judge' = ShowingCached(judge, s, now)
         \/ judge' = ShowingNew(judge, s, now, s.begun)
  PROVE  AInv'
<1>1. ServerOK' /\ RequestsOK'
  BY Kept
<1>2. PICK j \in JudgeState : j = judge
  BY DEF AInv, JudgeOK
<1>3. PICK k : k = judge'
  OBVIOUS
<1>4. s.begun \in Nat /\ NoStory \in StoryRow
  BY NothingFacts DEF StoryRow
<1>5. /\ k \in JudgeState /\ k.phase = "idle" /\ k.cached = s /\ k.shown = s
      /\ k.shown # NoStory => k.cachedAt = s.begun
      /\ k.fromCache => k.shownAt - s.begun < TTL
  <2>2. CASE s = judge.cached /\ now - s.begun < TTL /\ judge' = ShowingCached(judge, s, now)
    <3>1. k = ShowingCached(j, s, now)
      BY <1>2, <1>3, <2>2
    <3>2. /\ k \in JudgeState /\ k.phase = "idle" /\ k.cached = j.cached /\ k.cachedAt = j.cachedAt
          /\ k.shown = s /\ k.shownAt = now
      BY <3>1, ShowingCachedFacts
    <3> QED BY <1>2, <2>2, <3>2 DEF AInv, JudgeOK
  <2>3. CASE judge' = ShowingNew(judge, s, now, s.begun)
    <3>1. k = ShowingNew(j, s, now, s.begun)
      BY <1>2, <1>3, <2>3
    <3>2. PICK at \in Nat : at = s.begun
      BY <1>4
    <3>3. /\ k \in JudgeState /\ k.phase = "idle" /\ k.cached = s /\ k.cachedAt = at
          /\ k.shown = s /\ ~k.fromCache
      BY <3>1, <3>2, ShowingNewFacts
    <3> QED BY <3>2, <3>3
  <2> QED BY <2>2, <2>3
<1>6. JudgeOK'
  <2>1. k.cached # NoStory => Finished(k.cached)' /\ k.cachedAt = k.cached.begun
    BY <1>5 DEF Finished, Begun, Audited
  <2>2. k.shown # NoStory => Finished(k.shown)' /\ (k.fromCache => k.shownAt - k.shown.begun < TTL)
    BY <1>5 DEF Finished, Begun, Audited
  <2> QED BY <1>3, <1>5, <2>1, <2>2 DEF JudgeOK, Begun, Finished, Audited
<1> QED BY <1>1, <1>6 DEF AInv

LEMMA JudgeSteps ==
  ASSUME AInv,
         \/ \E E \in SUBSET indexed : \E H \in SUBSET E : JudgeSearch(E, H)
         \/ ShowCached \/ JudgeFetch \/ JudgeReceipts \/ JudgeFails
  PROVE  AInv'
<1>1. UNCHANGED <<tenantVars, clock, accepted, indexed, receipts, server, request>>
  BY DEF JudgeSearch, ShowCached, JudgeFetch, JudgeReceipts, JudgeFails
<1>2. TenantInv' /\ AuditGrows /\ UNCHANGED <<binding, bindingAudit>>
  BY <1>1, TenantKept DEF AInv, tenantVars
<1>3. UNCHANGED retrievals => MemoriesOK' /\ Grows
  BY <1>1, <1>2, MemoriesKept DEF AInv
<1>4. PICK j \in JudgeState : j = judge
  BY DEF AInv, JudgeOK
<1>5. PICK t \in Nat : t = clock
  BY AccessAssumption DEF AInv, MemoriesOK
<1>6. /\ j.story \in StoryRow /\ j.cached \in StoryRow /\ j.now \in Nat
      /\ j.story.begun \in Nat
  BY DEF JudgeState, StoryRow
<1>7. ASSUME NEW E \in SUBSET indexed, NEW H \in SUBSET E, JudgeSearch(E, H) PROVE AInv'
  <2>1. PICK i \in BindingRow : i = server.identity /\ Audited(Caller, i.scope, i.version)
    BY <1>7 DEF JudgeSearch, AInv, ServerOK
  <2>2. Searched(i.scope, E, H) /\ Story \in H
    BY <1>7, <2>1 DEF JudgeSearch
  <2>3. /\ MemoriesOK' /\ Grows
        /\ i.scope \in Scopes /\ H \subseteq Visible(i.scope)
        /\ Len(retrievals) \in Nat /\ Len(retrievals') = Len(retrievals) + 1
        /\ retrievals'[Len(retrievals) + 1].scope = i.scope
    BY <1>1, <1>2, <2>2, SearchedFacts
  <2>4. PICK n \in Nat : n = Len(retrievals) + 1
    BY <2>3
  <2>5. i.version \in 0..MaxVersion
    BY DEF BindingRow
  <2>6. PICK s : s = BegunStory(i.scope, i.version, t, n)
    OBVIOUS
  <2>10. s \in StoryRow /\ s.scope = i.scope /\ s.version = i.version /\ s.begun = t /\ s.search = n
    BY <2>3, <2>5, <2>6, BegunFacts
  <2>7. judge' = WithStory(judge, "fetch", clock,
                   BegunStory(server.identity.scope, server.identity.version, clock, Len(retrievals) + 1))
    BY <1>7, Zenon DEF JudgeSearch, WithStory, BegunStory
  <2>8. judge' = WithStory(judge, "fetch", t, s)
    BY <1>5, <2>1, <2>4, <2>6, <2>7
  <2>9. Begun(s)'
    BY <1>1, <1>2, <1>5, <2>1, <2>2, <2>3, <2>4, <2>10 DEF Begun, Audited, Visible
  <2> QED BY <1>1, <1>2, <2>3, <2>8, <2>9, <2>10, UnderWayStep
<1>8. CASE ShowCached
  <2>1. UNCHANGED retrievals /\ j.cached # NoStory /\ t - j.cachedAt < TTL
    BY <1>4, <1>5, <1>8 DEF ShowCached, CacheIsFresh
  <2>2. judge' = ShowingCached(judge, judge.cached, clock)
    BY <1>8, Zenon DEF ShowCached, Show, ShowingCached
  <2>3. judge' = ShowingCached(judge, j.cached, t)
    BY <1>4, <1>5, <2>2
  <2>4. Finished(j.cached) /\ j.cachedAt = j.cached.begun
    BY <1>4, <2>1 DEF AInv, JudgeOK
  <2>5. Finished(j.cached)'
    BY <1>2, <1>3, <1>6, <2>1, <2>4, StoryKept DEF AInv
  <2> QED BY <1>1, <1>2, <1>3, <1>4, <1>6, <2>1, <2>3, <2>4, <2>5, ShownStep
<1>9. CASE JudgeFetch
  <2>1. UNCHANGED retrievals /\ j.phase = "fetch"
    BY <1>4, <1>9 DEF JudgeFetch
  <2>2. PICK s : s = SelectedStory(j.story)
    OBVIOUS
  <2>8. s \in StoryRow /\ s.selected = {Story} /\ Continues(s, j.story)
    BY <1>6, <2>2, SelectedFacts
  <2>3. judge' = [judge EXCEPT !.phase = "receipts", !.story = SelectedStory(judge.story)]
    BY <1>9, Zenon DEF JudgeFetch, SelectedStory
  <2>4. judge' = WithStory(judge, "receipts", j.now, s)
    BY <1>4, <2>2, <2>3 DEF JudgeState, WithStory
  <2>5. Begun(j.story) /\ j.now = j.story.begun
    BY <1>4, <2>1 DEF AInv, JudgeOK
  <2>6. Begun(j.story)'
    BY <1>2, <1>3, <1>6, <2>1, <2>5, StoryKept DEF AInv
  <2>7. Begun(s)'
    BY <2>6, <2>8 DEF Begun, Audited, Continues
  <2> QED BY <1>1, <1>2, <1>3, <1>6, <2>1, <2>4, <2>5, <2>7, <2>8, UnderWayStep DEF Continues
<1>10. CASE JudgeReceipts
  <2>1. UNCHANGED retrievals /\ j.phase = "receipts" /\ receipts = CompleteReceipts
    BY <1>4, <1>10 DEF JudgeReceipts
  <2>2. /\ Begun(j.story) /\ j.now = j.story.begun /\ j.story.selected = {Story}
    BY <1>4, <2>1 DEF AInv, JudgeOK
  <2>3. PICK n \in LastOf(judge.story.scope) :
          judge' = ShowingNew(judge, FinishedStory(judge.story, n, clock), clock, judge.now)
    <3>1. PICK n \in LastOf(judge.story.scope) :
            LET story == [judge.story EXCEPT !.row = n, !.readAt = clock]
            IN judge' = [Show(story, FALSE) EXCEPT !.cached = story, !.cachedAt = CacheDate]
      BY <1>10 DEF JudgeReceipts
    <3> QED BY <3>1, Zenon DEF Show, CacheDate, ShowingNew, FinishedStory
  <2>4. /\ n \in 1..Len(retrievals) /\ n \in Nat /\ retrievals[n].scope = j.story.scope
        /\ n >= j.story.search
    <3>1. Len(retrievals) \in Nat /\ DOMAIN retrievals = 1..Len(retrievals)
      BY LenProperties DEF AInv, MemoriesOK
    <3>2. /\ n \in 1..Len(retrievals) /\ retrievals[n].scope = j.story.scope
          /\ \A k \in n + 1..Len(retrievals) : retrievals[k].scope # j.story.scope
      BY <1>4, <2>3, <3>1 DEF LastOf
    <3>3. j.story.search \in 1..Len(retrievals) /\ retrievals[j.story.search].scope = j.story.scope
      BY <2>2 DEF Begun
    <3> QED BY <3>1, <3>2, <3>3
  <2>5. PICK s : s = FinishedStory(j.story, n, t)
    OBVIOUS
  <2>9. /\ s \in StoryRow /\ s.selected = j.story.selected
        /\ s.row = n /\ s.readAt = t /\ Continues(s, j.story)
    <3>1. PICK r \in StoryRow : r = j.story
      BY <1>6
    <3>2. n \in Nat /\ s = FinishedStory(r, n, t)
      BY <2>4, <2>5, <3>1
    <3>3. /\ s \in StoryRow /\ s.selected = r.selected
          /\ s.row = n /\ s.readAt = t /\ Continues(s, r)
      BY <3>2, FinishedFacts
    <3> QED BY <3>1, <3>3
  <2>6. Finished(s)
    BY <1>5, <2>1, <2>2, <2>4, <2>9 DEF Finished, Begun, Audited, Continues
  <2>7. Finished(s)'
    BY <1>2, <1>3, <2>1, <2>6, <2>9, StoryKept DEF AInv
  <2>8. judge' = ShowingNew(judge, s, t, s.begun)
    BY <1>4, <1>5, <2>2, <2>3, <2>5, <2>9 DEF Continues
  <2> QED BY <1>1, <1>2, <1>3, <2>1, <2>7, <2>8, <2>9, ShownStep
<1>11. CASE JudgeFails
  <2>1. UNCHANGED retrievals /\ judge' = [judge EXCEPT !.phase = "idle", !.story = NoStory]
    BY <1>11 DEF JudgeFails
  <2>2. judge' = WithStory(judge, "idle", j.now, NoStory)
    BY <1>4, <2>1 DEF JudgeState, WithStory
  <2> QED BY <1>1, <1>2, <1>3, <1>6, <2>1, <2>2, NothingFacts, UnderWayStep
<1> QED BY <1>7, <1>8, <1>9, <1>10, <1>11

-----------------------------------------------------------------------------
(* The theorems *)

LEMMA InitAInv == AccessInit => AInv
<1> SUFFICES ASSUME AccessInit PROVE AInv
  OBVIOUS
<1>1. TenantInv
  BY InitCInv DEF AccessInit, TenantInv
<1>2. MemoriesOK
  <2>1. retrievals \in Seq(SearchRow) /\ Len(retrievals) = 0
    BY EmptySeq DEF AccessInit
  <2> QED BY <2>1, AccessAssumption DEF AccessInit, MemoriesOK
<1>3. ServerOK /\ RequestsOK /\ JudgeOK
  BY NothingFacts DEF AccessInit, ServerOK, RequestsOK, Served, JudgeOK
<1> QED BY <1>1, <1>2, <1>3 DEF AInv

LEMMA AccessStep ==
  ASSUME AInv, [AccessNext]_vars
  PROVE  AInv'
<1>1. ASSUME UNCHANGED accessVars, TenantInv', AuditGrows PROVE AInv'
  <2>1. UNCHANGED <<clock, accepted, indexed, retrievals, receipts, server, request, judge>>
    BY <1>1 DEF accessVars
  <2>2. MemoriesOK' /\ Grows
    BY <1>1, <2>1, MemoriesKept DEF AInv
  <2> QED BY <1>1, <2>1, <2>2, Kept DEF AInv
<1>2. CASE TenantNext /\ UNCHANGED accessVars
  BY <1>1, <1>2, TenantStep DEF AInv, TenantInv
<1>3. CASE UNCHANGED vars
  BY <1>1, <1>3, TenantKept DEF AInv, vars
<1>4. CASE \/ \E m \in Memories : Accept(m) \/ IndexMemory(m)
           \/ \E kind \in {"story", "poison"} :
                \/ SeedDraft(kind)
                \/ \E code \in {"ACCEPTED", "STALE_PARENT", "UNTRUSTED_SOURCE"} : SeedPromote(kind, code)
           \/ SeedClaim
           \/ AccessTick
  <2>1. UNCHANGED <<tenantVars, retrievals, server, request, judge>>
    BY <1>4 DEF Accept, IndexMemory, SeedDraft, SeedPromote, SeedClaim, AccessTick
  <2> QED BY <1>4, <2>1, MemoryStep
<1>5. CASE Restart
  BY <1>5, RestartStep
<1>6. ASSUME NEW q \in Requests,
             \/ \E c \in Callers : Authenticate(q, c)
             \/ \E E \in SUBSET indexed : \E H \in SUBSET E : Search(q, E, H)
             \/ \E m \in Memories : Fetch(q, m)
             \/ Close(q)
      PROVE  AInv'
  BY <1>6, RequestSteps
<1>7. CASE \/ \E E \in SUBSET indexed : \E H \in SUBSET E : JudgeSearch(E, H)
           \/ ShowCached \/ JudgeFetch \/ JudgeReceipts \/ JudgeFails
  BY <1>7, JudgeSteps
<1> QED BY <1>2, <1>3, <1>4, <1>5, <1>6, <1>7 DEF AccessNext

\* The inductive invariant of the server over the tenant control plane.
THEOREM AccessInvariance == AccessSpec => []AInv
<1>1. AInv /\ [AccessNext]_vars => AInv'
  BY AccessStep
<1> QED BY <1>1, InitAInv, PTL DEF AccessSpec

\* The bindings, the logins, the secret and the cutover keep their types.
THEOREM TenantTypeInvariance == TenantSpec => []TenantTypeOK
<1>1. BInv /\ CInv => TenantTypeOK
  <2> SUFFICES ASSUME BInv, CInv PROVE TenantTypeOK
    OBVIOUS
  <2>1. \A c \in Callers : \A n \in DOMAIN bindingAudit[c] : bindingAudit[c][n] \in AuditEntry
    BY ElementOfSeq, LenProperties DEF BInv, BindingsOK
  <2> QED BY <2>1 DEF BInv, BindingsOK, AuditEntry, BindingRow, CInv, LoginsOK,
                      Cutovers, Phases, Passwords, TenantTypeOK
<1> QED BY <1>1, TenantInvariance, PTL

\* The audit of a caller is the history of its binding, whoever binds it,
\* disables it or deploys, in whatever order: bind_caller_scope and
\* disable_caller write one entry with every version of the row.
THEOREM AuditIsHistory == TenantSpec => []AuditIsTheHistory
<1>1. BInv /\ CInv => AuditIsTheHistory
  BY DEF BInv
<1> QED BY <1>1, TenantInvariance, PTL

\* Nothing takes an audit entry back or rewrites it.
THEOREM AuditIsAppendOnly == TenantSpec => [][AuditGrows]_tenantVars
<1>1. BInv /\ CInv /\ [TenantNext]_tenantVars => [AuditGrows]_tenantVars
  BY TenantStep
<1> QED BY <1>1, TenantInvariance, PTL DEF TenantSpec

\* What cutover_scope_identity published opens, wherever a later cutover failed
\* or died, and whichever scope it was for.
THEOREM PublishedSecretOpens == TenantSpec => []PublishedSecretWorks
<1>1. BInv /\ CInv => PublishedSecretWorks
  BY DEF CInv
<1> QED BY <1>1, TenantInvariance, PTL

\* The server keeps the types of its state, and the bounds on searches.
THEOREM AccessTypeInvariance == AccessSpec => []AccessTypeOK
<1>1. AInv => AccessTypeOK
  <2> SUFFICES ASSUME AInv PROVE AccessTypeOK
    OBVIOUS
  <2>1. \A q \in Requests : request[q].phase \in {"idle", "bound", "searched", "fetched"}
    BY DEF AInv, RequestsOK, RequestRow
  <2>2. judge.phase \in {"idle", "fetch", "receipts"}
    BY DEF AInv, JudgeOK, JudgeState
  <2>3. accepted \subseteq Memories /\ indexed \subseteq accepted
    BY DEF AInv, MemoriesOK
  <2> QED BY <2>1, <2>2, <2>3 DEF AInv, MemoriesOK, ServerOK, Passwords, AccessTypeOK
<1> QED BY <1>1, AccessInvariance, PTL

\* A request of the MCP server is served as the audited, active binding its
\* caller had when it was authenticated, whatever happens to the binding later.
THEOREM RequestsAreServedAsBound == AccessSpec => []ServedAsBound
<1>1. AInv => ServedAsBound
  <2> SUFFICES ASSUME AInv, NEW q \in Requests, request[q].phase # "idle"
               PROVE  /\ request[q].identity.version \in DOMAIN bindingAudit[request[q].caller]
                      /\ request[q].identity.version >= request[q].since
                      /\ LET e == bindingAudit[request[q].caller][request[q].identity.version] IN
                           e.event # "disabled" /\ e.scope = request[q].identity.scope
                      /\ \A m \in request[q].ids : m \in accepted /\ ScopeOf[m] = request[q].identity.scope
    BY DEF ServedAsBound
  <2>1. PICK r \in RequestRow : r = request[q] /\ Served(r)
    BY DEF AInv, RequestsOK
  <2>2. /\ r.since = r.identity.version
        /\ Audited(r.caller, r.identity.scope, r.identity.version)
        /\ r.ids \subseteq Fetchable(r.identity.scope)
    BY <2>1 DEF Served
  <2>3. r.caller \in Callers /\ r.identity.version \in Nat
    BY TenantAssumption DEF RequestRow, BindingRow
  <2>4. DOMAIN bindingAudit[r.caller] = 1..Len(bindingAudit[r.caller])
    BY <2>3, LenProperties DEF AInv, TenantInv, BInv, BindingsOK
  <2> QED BY <2>1, <2>2, <2>3, <2>4 DEF Audited, Fetchable
<1> QED BY <1>1, AccessInvariance, PTL

\* A judge story, new or cached, could be told again from durable rows of the
\* one scope of the identity it was read as, with complete receipts; and a cached
\* one shows nothing that is TTL old.
THEOREM StoriesAreBacked == AccessSpec => []StoryIsBacked
<1>1. AInv => StoryIsBacked
  <2> SUFFICES ASSUME AInv, judge.shown # NoStory
               PROVE  /\ judge.shown.selected # {}
                      /\ judge.shown.selected \subseteq Visible(judge.shown.scope)
                      /\ receipts = CompleteReceipts
                      /\ retrievals[judge.shown.row].scope = judge.shown.scope
                      /\ judge.shown.row >= judge.shown.search
                      /\ judge.shown.version <= Len(bindingAudit[Caller])
                      /\ bindingAudit[Caller][judge.shown.version].scope = judge.shown.scope
                      /\ judge.fromCache => /\ judge.shownAt - judge.shown.begun < TTL
                                            /\ judge.shown.begun <= judge.shown.readAt
    BY DEF StoryIsBacked
  <2>1. PICK s : s = judge.shown
    OBVIOUS
  <2>2. Finished(s) /\ (judge.fromCache => judge.shownAt - s.begun < TTL)
    BY <2>1 DEF AInv, JudgeOK
  <2>3. s.selected \subseteq Visible(s.scope)
    BY <2>2 DEF Finished, Begun, Visible
  <2> QED BY <2>1, <2>2, <2>3 DEF Finished, Begun, Audited
<1> QED BY <1>1, AccessInvariance, PTL

\* The server and the judge endpoint only read the control plane: whatever they
\* do, the bindings, the logins and the secret take the steps of TenantControl,
\* so the theorems about those hold below the server as well.
THEOREM ServerOnlyReadsBindings == AccessSpec => TenantSpec
<1>1. AccessInit => TenantInit
  BY DEF AccessInit
<1>2. [AccessNext]_vars => [TenantNext]_tenantVars
  <2> SUFFICES ASSUME [AccessNext]_vars PROVE TenantNext \/ UNCHANGED tenantVars
    OBVIOUS
  <2> QED BY DEF AccessNext, vars, Accept, IndexMemory, SeedDraft, SeedPromote, SeedClaim, Restart,
                 Authenticate, Search, Fetch, Close, JudgeSearch, ShowCached, JudgeFetch,
                 JudgeReceipts, JudgeFails, AccessTick
<1> QED BY <1>1, <1>2, PTL DEF AccessSpec, TenantSpec
=============================================================================
