---------------------------- MODULE TenantControl ----------------------------
(***************************************************************************)
(* Who may read which scope: the versioned bindings of callers to scopes   *)
(* with their append-only audit, the SQL logins of the scopes and of the   *)
(* control plane, and the cutover that creates a login, binds the caller   *)
(* and publishes the runtime secret the MCP server starts from.            *)
(*                                                                         *)
(* A scope (tenant and incident) and its SQL role are one thing, as        *)
(* scope_role_name is a digest of it.  A password is a number, 0 is none;  *)
(* the last one given to a login is the one that opens it.  One cutover  *)
(* runs at a time (the concurrency group of its workflow); it may fail or  *)
(* die between any two of its steps.                                       *)
(***************************************************************************)
EXTENDS Naturals, Sequences, FiniteSets

CONSTANTS
  Callers, Scopes,
  Caller,                 \* the one caller registered in the runtime secret
  FirstScope,             \* its scope when the secret was made
  Control, Legacy,        \* continuum_control_plane; the login before any cutover
  Nowhere,                \* no scope
  MaxVersion, MaxPassword

ASSUME TenantAssumption ==
  /\ Caller \in Callers
  /\ FirstScope \in Scopes
  /\ Control \notin Scopes /\ Legacy \notin Scopes /\ Control # Legacy
  /\ Nowhere \notin Scopes
  /\ MaxVersion \in Nat \ {0} /\ MaxPassword \in Nat

VARIABLES
  binding,                \* tenant_scope_bindings
  bindingAudit,           \* tenant_scope_binding_audit, a sequence per caller
  login,                  \* the current password of each SQL login
  mayCreate,              \* CREATEROLE and CREATELOGIN of the migrator
  secret,                 \* the runtime secret as published
  cutover                 \* the local state of cutover_scope_identity.main

tenantVars == <<binding, bindingAudit, login, mayCreate, secret, cutover>>

-----------------------------------------------------------------------------
(* Data *)

NoBinding == [scope |-> Nowhere, version |-> 0, status |-> "absent"]
Entry(scope, version, event) == [scope |-> scope, version |-> version, event |-> event]

NoLogin == [user |-> Legacy, password |-> 0]
NoPayload == [scope |-> Nowhere, main |-> NoLogin, urls |-> [s \in Scopes |-> 0],
              control |-> 0]
Idle == [phase |-> "idle", payload |-> NoPayload, version |-> 0]

TenantInit ==
  /\ binding = [c \in Callers |-> NoBinding]
  /\ bindingAudit = [c \in Callers |-> <<>>]
  /\ login = [u \in Scopes \cup {Control} |-> 0]
  /\ mayCreate = TRUE
  /\ secret = [NoPayload EXCEPT !.scope = FirstScope]
  /\ cutover = Idle

\* Resolve: the active binding of a caller, or NoBinding for a refusal.
Resolve(c) == IF binding[c].status = "active" THEN binding[c] ELSE NoBinding

-----------------------------------------------------------------------------
(* Bindings *)

\* Mutant: a change that is not audited.
WriteUnaudited(c, scope, status, event) ==
  LET version == binding[c].version + 1 IN
  /\ binding' = [binding EXCEPT ![c] = [scope |-> scope, version |-> version, status |-> status]]
  /\ bindingAudit' = IF event = "disabled" THEN bindingAudit
                     ELSE [bindingAudit EXCEPT ![c] = Append(@, Entry(scope, version, event))]

\* The row and its audit entry are written together, under the row's lock.
Write(c, scope, status, event) ==
  LET version == binding[c].version + 1 IN
  /\ binding' = [binding EXCEPT ![c] = [scope |-> scope, version |-> version, status |-> status]]
  /\ bindingAudit' = [bindingAudit EXCEPT ![c] = Append(@, Entry(scope, version, event))]

\* bind_caller_scope: nothing changes when the caller is bound so already.
BindCallerScope(c, scope) ==
  IF binding[c].status = "active" /\ binding[c].scope = scope
  THEN UNCHANGED <<binding, bindingAudit>>
  ELSE /\ binding[c].version < MaxVersion
       /\ Write(c, scope, "active", IF binding[c] = NoBinding THEN "bound" ELSE "rebound")

\* disable_caller
DisableCaller(c) ==
  /\ binding[c].status = "active"
  /\ binding[c].version < MaxVersion
  /\ Write(c, binding[c].scope, "disabled", "disabled")

Operate(c, scope) ==
  /\ BindCallerScope(c, scope) \/ DisableCaller(c)
  /\ UNCHANGED <<login, mayCreate, secret, cutover>>

-----------------------------------------------------------------------------
(* The cutover *)

At(phase) == cutover.phase = phase
Step(phase) == cutover' = [cutover EXCEPT !.phase = phase]

\* A generated password is one that nobody has.
InUse ==
  LET Of(p) == {p.main.password, p.control} \cup {p.urls[s] : s \in Scopes}
  IN {0} \cup {login[u] : u \in DOMAIN login} \cup Of(secret) \cup Of(cutover.payload)

NewPassword(u, password) ==
  /\ mayCreate
  /\ password \in 1..MaxPassword \ InUse
  /\ \A n \in 1..password - 1 : n \in InUse
  /\ login' = [login EXCEPT ![u] = password]

ReadSecret ==
  /\ At("idle")
  /\ cutover' = [Idle EXCEPT !.phase = "scope", !.payload = secret]
  /\ UNCHANGED <<binding, bindingAudit, login, mayCreate, secret>>

\* Mutant: the login is recreated by every deployment.
ReusedNever == FALSE

\* identity_reused: the runtime URL uses the login of the caller's scope.
Reused == cutover.payload.main.user = cutover.payload.scope

\* provision_scope_role, unless the login is reused.
ProvisionScopeRole ==
  /\ At("scope")
  /\ \/ /\ Reused
        /\ Step("control")
        /\ UNCHANGED login
     \/ /\ ~Reused
        /\ \E n \in 1..MaxPassword :
             /\ NewPassword(cutover.payload.scope, n)
             /\ cutover' = [cutover EXCEPT !.phase = "control", !.payload.main =
                              [user |-> cutover.payload.scope, password |-> n]]
  /\ UNCHANGED <<binding, bindingAudit, mayCreate, secret>>

ControlReused == cutover.payload.control # 0

\* provision_control_plane_role up to its finally.
ProvisionControlPlane ==
  /\ At("control")
  /\ \/ /\ ControlReused
        /\ Step("bind")
        /\ UNCHANGED login
     \/ /\ ~ControlReused
        /\ \E n \in 1..MaxPassword :
             /\ NewPassword(Control, n)
             /\ cutover' = [cutover EXCEPT !.phase = "revoke", !.payload.control = n]
  /\ UNCHANGED <<binding, bindingAudit, mayCreate, secret>>

\* _revoke_bootstrap_role_options, in the finally ...
RevokeBootstrapOptions ==
  /\ At("revoke")
  /\ mayCreate' = FALSE
  /\ Step("bind")
  /\ UNCHANGED <<binding, bindingAudit, login, secret>>

\* ... which a failure of the provisioning reaches as well.
RevokeAfterFailure ==
  /\ At("revoke") \/ (At("control") /\ ~ControlReused)
  /\ mayCreate' = FALSE
  /\ cutover' = Idle
  /\ UNCHANGED <<binding, bindingAudit, login, secret>>

\* bind_caller_scope, and the URL of the scope's role in the payload.
BindScope ==
  LET scope == cutover.payload.scope IN
  /\ At("bind")
  /\ BindCallerScope(Caller, scope)
  /\ cutover' = [cutover EXCEPT !.phase = "verify", !.version = binding'[Caller].version,
                                !.payload.urls[scope] = cutover.payload.main.password]
  /\ UNCHANGED <<login, mayCreate, secret>>

\* verify_scope_role and verify_control_plane_role log in; the migrator must
\* not be able to create roles any more; the binding must resolve as written.
Verified ==
  LET p == cutover.payload IN
  /\ login[p.main.user] = p.main.password
  /\ login[Control] = p.control
  /\ ~mayCreate
  /\ Resolve(Caller) = [scope |-> p.scope, version |-> cutover.version, status |-> "active"]

Verify ==
  /\ At("verify")
  /\ Verified
  /\ Step("put")
  /\ UNCHANGED <<binding, bindingAudit, login, mayCreate, secret>>

PutSecret ==
  /\ At("put")
  /\ secret' = cutover.payload
  /\ cutover' = Idle
  /\ UNCHANGED <<binding, bindingAudit, login, mayCreate>>

\* Role creation is denied without the options; a check that fails raises.
CutoverRefused ==
  /\ \/ At("scope") /\ ~Reused /\ ~mayCreate
     \/ At("verify") /\ ~Verified
  /\ cutover' = Idle
  /\ UNCHANGED <<binding, bindingAudit, login, mayCreate, secret>>

\* Any other call of the cutover may raise, and its process may die.
CutoverFails ==
  /\ ~At("idle")
  /\ cutover' = Idle
  /\ UNCHANGED <<binding, bindingAudit, login, mayCreate, secret>>

CutoverStep ==
  \/ ReadSecret \/ ProvisionScopeRole \/ ProvisionControlPlane
  \/ RevokeBootstrapOptions \/ BindScope \/ Verify \/ PutSecret
  \/ CutoverRefused

-----------------------------------------------------------------------------
(* The operator, outside of the code: registers the caller for another      *)
(* scope, and lends or takes back the role-creation options.                *)

RegisterScope(scope) ==
  /\ At("idle")
  /\ secret.scope # scope
  /\ secret' = [secret EXCEPT !.scope = scope]
  /\ UNCHANGED <<binding, bindingAudit, login, mayCreate, cutover>>

LendOptions ==
  /\ ~mayCreate
  /\ mayCreate' = TRUE
  /\ UNCHANGED <<binding, bindingAudit, login, secret, cutover>>

TakeOptionsBack ==
  /\ mayCreate
  /\ mayCreate' = FALSE
  /\ UNCHANGED <<binding, bindingAudit, login, secret, cutover>>

TenantNext ==
  \/ \E c \in Callers, s \in Scopes : Operate(c, s)
  \/ CutoverStep
  \/ CutoverFails \/ RevokeAfterFailure
  \/ \E s \in Scopes : RegisterScope(s)
  \/ LendOptions
  \/ TakeOptionsBack

TenantSpec == TenantInit /\ [][TenantNext]_tenantVars

\* An operator who deploys again and again, lends the options before and takes
\* them back after, and moves the caller once; no deployment crashes.
DiligentNext ==
  \/ CutoverStep
  \/ \E s \in Scopes \ {FirstScope} : RegisterScope(s)
  \/ At("idle") /\ (LendOptions \/ TakeOptionsBack)

DiligentSpec ==
  /\ TenantInit
  /\ [][DiligentNext]_tenantVars
  /\ WF_tenantVars(CutoverStep)
  /\ SF_tenantVars(At("idle") /\ LendOptions)
  /\ SF_tenantVars(ReadSecret /\ mayCreate)

-----------------------------------------------------------------------------
(* Properties *)

Statuses == {"absent", "active", "disabled"}
Events == {"bound", "rebound", "disabled"}
Payloads == [scope : Scopes \cup {Nowhere}, main : [user : Scopes \cup {Legacy}, password : 0..MaxPassword],
             urls : [Scopes -> 0..MaxPassword], control : 0..MaxPassword]

TenantTypeOK ==
  /\ binding \in [Callers -> [scope : Scopes \cup {Nowhere}, version : 0..MaxVersion, status : Statuses]]
  /\ \A c \in Callers : \A n \in DOMAIN bindingAudit[c] :
       bindingAudit[c][n] \in [scope : Scopes, version : 1..MaxVersion, event : Events]
  /\ login \in [Scopes \cup {Control} -> 0..MaxPassword]
  /\ mayCreate \in BOOLEAN
  /\ secret \in Payloads
  /\ cutover \in [phase : {"idle", "scope", "control", "revoke", "bind", "verify", "put"},
                  payload : Payloads, version : 0..MaxVersion]

\* The audit is the history of the binding, whoever binds and disables in
\* whatever order: one entry per version, the last one is the row, and no entry
\* repeats what its predecessor says.
AuditIsTheHistory ==
  \A c \in Callers :
    LET log == bindingAudit[c]
        n == Len(log)
    IN /\ n = binding[c].version
       /\ \A k \in 1..n :
            /\ log[k].version = k
            /\ log[k].event = "bound" <=> k = 1
            /\ k > 1 => \/ log[k].scope # log[k - 1].scope
                        \/ (log[k].event = "disabled") # (log[k - 1].event = "disabled")
       /\ n > 0 => /\ log[n].scope = binding[c].scope
                   /\ log[n].event = "disabled" <=> binding[c].status = "disabled"

\* What is published opens: wherever a cutover failed or died, also one for
\* another scope, the scope login and the control-plane login in the published
\* secret have their current passwords, and the scope's store uses that login.
PublishedSecretWorks ==
  /\ secret.main.user \in Scopes =>
       /\ login[secret.main.user] = secret.main.password
       /\ secret.urls[secret.main.user] = secret.main.password
  /\ secret.control # 0 => login[Control] = secret.control

\* The runbook's "create or reuse": the login of the scope the caller is
\* registered for is published in the end.
ScopeIsPublished == []<>(secret.main.user = secret.scope)
=============================================================================
