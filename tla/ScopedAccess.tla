---------------------------- MODULE ScopedAccess ----------------------------
(***************************************************************************)
(* The MCP server over the tenant control plane: requests whose caller is  *)
(* resolved from the bindings when they are authenticated and served from  *)
(* the store of the caller's scope; searches that leave an audit row in    *)
(* the same transaction; and the public judge endpoint, which has an       *)
(* identity from start-up, composes its story in three transactions and    *)
(* keeps it for a while.                                                   *)
(*                                                                         *)
(* Only the mode with a control plane is modelled.  A store that was open  *)
(* stays so when its login's password changes, hence a call needs only a   *)
(* registered store; any call may fail instead.  Ranking is left out: a    *)
(* search returns any indexed memories of its scope.                       *)
(***************************************************************************)
EXTENDS TenantControl

CONSTANTS
  Memories, ScopeOf,      \* candidates for canonical memory and their scopes
  Story,                  \* the one that carries the judge story's key and title
  Requests,               \* request slots of the server
  TTL, MaxTime, MaxSearches

ASSUME AccessAssumption ==
  /\ ScopeOf \in [Memories -> Scopes]
  /\ Story \in Memories
  /\ TTL \in Nat \ {0} /\ MaxTime \in Nat /\ MaxSearches \in Nat

VARIABLES
  clock,
  accepted, indexed,      \* canonical memories, and those with an embedding
  retrievals,             \* retrieval_audit, in the order of created_at
  receipts,               \* what the seed left beside the story memory
  server,                 \* what the server has from its start-up
  request,                \* the requests under way
  judge                   \* the judge endpoint: its lock's holder and its cache

accessVars == <<clock, accepted, indexed, retrievals, receipts, server, request, judge>>
vars == <<tenantVars, accessVars>>

-----------------------------------------------------------------------------
(* Data *)

Down == [up |-> FALSE, urls |-> [s \in Scopes |-> 0], identity |-> NoBinding]
NoRequest == [phase |-> "idle", caller |-> Caller, identity |-> NoBinding,
              since |-> 0, ids |-> {}, row |-> 0]
NoStory == [scope |-> Nowhere, version |-> 0, selected |-> {}, search |-> 0,
            row |-> 0, begun |-> 0, readAt |-> 0]
NoJudge == [phase |-> "idle", now |-> 0, story |-> NoStory, cached |-> NoStory,
            cachedAt |-> 0, shown |-> NoStory, shownAt |-> 0, fromCache |-> FALSE]

AccessInit ==
  /\ TenantInit
  /\ clock = 0
  /\ accepted = {} /\ indexed = {}
  /\ retrievals = <<>>
  /\ receipts = [story |-> "absent", poison |-> "absent", claims |-> 0]
  /\ server = Down
  /\ request = [q \in Requests |-> NoRequest]
  /\ judge = NoJudge

HasStore(scope) == scope \in Scopes /\ server.urls[scope] # 0

\* What the scope's role sees with an embedding: the query's filter and the
\* row-level policy agree.
Visible(scope) == {m \in indexed : ScopeOf[m] = scope}

-----------------------------------------------------------------------------
(* Memory *)

\* promote_candidate of MemoryStore, for other memories than the story.
Accept(m) ==
  /\ m \notin accepted /\ m # Story
  /\ accepted' = accepted \cup {m}
  /\ UNCHANGED <<tenantVars, clock, indexed, retrievals, receipts, server, request, judge>>

\* index_memory: the payload it embeds outside of a transaction never changes.
IndexMemory(m) ==
  /\ m \in accepted
  /\ indexed' = indexed \cup {m}
  /\ UNCHANGED <<tenantVars, clock, accepted, retrievals, receipts, server, request, judge>>

\* seed_judge_story: draft and promotion are two transactions, and a draft that
\* was not promoted is never taken up again, as the next seed finds it.
SeedDraft(kind) ==
  /\ receipts[kind] = "absent"
  /\ kind = "poison" => Story \in indexed
  /\ receipts' = [receipts EXCEPT ![kind] = "drafted"]
  /\ UNCHANGED <<tenantVars, clock, accepted, indexed, retrievals, server, request, judge>>

\* STALE_PARENT when another writer moved the head meanwhile.
SeedPromote(kind, code) ==
  /\ receipts[kind] = "drafted"
  /\ code \in {"STALE_PARENT", IF kind = "story" THEN "ACCEPTED" ELSE "UNTRUSTED_SOURCE"}
  /\ receipts' = [receipts EXCEPT ![kind] = code]
  /\ accepted' = IF code = "ACCEPTED" THEN accepted \cup {Story} ELSE accepted
  /\ UNCHANGED <<tenantVars, clock, indexed, retrievals, server, request, judge>>

\* The two claims: one is CLAIMED, the other a DUPLICATE.
SeedClaim ==
  /\ receipts.poison = "UNTRUSTED_SOURCE"
  /\ receipts.claims = 0
  /\ receipts' = [receipts EXCEPT !.claims = 1]
  /\ UNCHANGED <<tenantVars, clock, accepted, indexed, retrievals, server, request, judge>>

-----------------------------------------------------------------------------
(* The server *)

\* _service_and_scope_resolver needs the control plane's login, an active binding
\* of the registered caller and a store for its role.
CanStart ==
  /\ secret.control # 0 /\ login[Control] = secret.control
  /\ Resolve(Caller) # NoBinding
  /\ secret.urls[Resolve(Caller).scope] # 0

\* A restart loads the published secret; what it cannot start from leaves the
\* server down.
Restart ==
  /\ server' = IF CanStart
               THEN [up |-> TRUE, urls |-> secret.urls, identity |-> Resolve(Caller)]
               ELSE Down
  /\ request' = [q \in Requests |-> NoRequest]
  /\ judge' = NoJudge
  /\ UNCHANGED <<tenantVars, clock, accepted, indexed, retrievals, receipts>>

\* Mutant: the identity of the registered caller is the one from start-up.
IdentityFromStart(c) == IF c = Caller THEN server.identity ELSE Resolve(c)

IdentityFor(c) == Resolve(c)

\* OIDCAuthMiddleware: the token names a caller, the control plane the scope.
Authenticate(q, c) ==
  /\ server.up
  /\ request[q].phase = "idle"
  /\ IdentityFor(c) # NoBinding
  /\ request' = [request EXCEPT ![q] = [NoRequest EXCEPT !.phase = "bound", !.caller = c,
                   !.identity = IdentityFor(c), !.since = binding[c].version]]
  /\ UNCHANGED <<tenantVars, clock, accepted, indexed, retrievals, receipts, server, judge>>

\* MemoryRetrievalStore.search: the rows read and their audit are one transaction.
Searched(scope, evaluated, hits) ==
  /\ HasStore(scope)
  /\ Len(retrievals) < MaxSearches
  /\ evaluated \subseteq Visible(scope)
  /\ hits \subseteq evaluated
  /\ retrievals' = Append(retrievals, [scope |-> scope, returned |-> evaluated, accepted |-> hits])

Search(q, evaluated, hits) ==
  /\ request[q].phase = "bound"
  /\ Searched(request[q].identity.scope, evaluated, hits)
  /\ request' = [request EXCEPT ![q].phase = "searched", ![q].ids = hits,
                                ![q].row = Len(retrievals) + 1]
  /\ UNCHANGED <<tenantVars, clock, accepted, indexed, receipts, server, judge>>

Fetchable(scope) == {m \in accepted : ScopeOf[m] = scope}

\* fetch_memory, of an id that any caller may have heard of.
Fetch(q, m) ==
  /\ request[q].phase = "bound"
  /\ HasStore(request[q].identity.scope)
  /\ m \in Fetchable(request[q].identity.scope)
  /\ request' = [request EXCEPT ![q].phase = "fetched", ![q].ids = {m}]
  /\ UNCHANGED <<tenantVars, clock, accepted, indexed, retrievals, receipts, server, judge>>

\* The answer is sent, or the call failed.
Close(q) ==
  /\ request[q].phase # "idle"
  /\ request' = [request EXCEPT ![q] = NoRequest]
  /\ UNCHANGED <<tenantVars, clock, accepted, indexed, retrievals, receipts, server, judge>>

-----------------------------------------------------------------------------
(* The judge endpoint: one caller at a time holds the lock *)

Show(story, fromCache) ==
  [judge EXCEPT !.phase = "idle", !.story = NoStory, !.shown = story,
                !.shownAt = clock, !.fromCache = fromCache]

CacheIsFresh == judge.cached # NoStory /\ clock - judge.cachedAt < TTL

ShowCached ==
  /\ server.up /\ judge.phase = "idle"
  /\ CacheIsFresh
  /\ judge' = Show(judge.cached, TRUE)
  /\ UNCHANGED <<tenantVars, clock, accepted, indexed, retrievals, receipts, server, request>>

\* JudgeStoryService.run: search as the identity from start-up ...
JudgeSearch(evaluated, hits) ==
  /\ server.up /\ judge.phase = "idle"
  /\ ~CacheIsFresh
  /\ Story \in hits
  /\ Searched(server.identity.scope, evaluated, hits)
  /\ judge' = [judge EXCEPT !.phase = "fetch", !.now = clock, !.story =
                 [NoStory EXCEPT !.scope = server.identity.scope,
                                 !.version = server.identity.version,
                                 !.begun = clock, !.search = Len(retrievals) + 1]]
  /\ UNCHANGED <<tenantVars, clock, accepted, indexed, receipts, server, request>>

\* ... fetch the selected memory ...
JudgeFetch ==
  /\ judge.phase = "fetch"
  /\ Story \in Fetchable(judge.story.scope)
  /\ judge' = [judge EXCEPT !.phase = "receipts", !.story.selected = {Story}]
  /\ UNCHANGED <<tenantVars, clock, accepted, indexed, retrievals, receipts, server, request>>

\* Mutant: the cache is dated when the story is ready.
CacheDateLate == clock

CacheDate == judge.now

LastOf(scope) == {n \in DOMAIN retrievals : retrievals[n].scope = scope
                                         /\ \A k \in n + 1..Len(retrievals) : retrievals[k].scope # scope}

\* The newest verdicts on the two candidates and the number of claims without
\* which no story is told.
CompleteReceipts == [story |-> "ACCEPTED", poison |-> "UNTRUSTED_SOURCE", claims |-> 1]

\* ... and read the receipts, in one transaction of the scope's role.
JudgeReceipts ==
  /\ judge.phase = "receipts"
  /\ receipts = CompleteReceipts
  /\ \E n \in LastOf(judge.story.scope) :
       LET story == [judge.story EXCEPT !.row = n, !.readAt = clock]
       IN judge' = [Show(story, FALSE) EXCEPT !.cached = story, !.cachedAt = CacheDate]
  /\ UNCHANGED <<tenantVars, clock, accepted, indexed, retrievals, receipts, server, request>>

\* Any call may raise: the lock is released and the cache stays as it was.
JudgeFails ==
  /\ judge.phase # "idle"
  /\ judge' = [judge EXCEPT !.phase = "idle", !.story = NoStory]
  /\ UNCHANGED <<tenantVars, clock, accepted, indexed, retrievals, receipts, server, request>>

AccessTick ==
  /\ clock < MaxTime
  /\ clock' = clock + 1
  /\ UNCHANGED <<tenantVars, accepted, indexed, retrievals, receipts, server, request, judge>>

-----------------------------------------------------------------------------
AccessNext ==
  \/ TenantNext /\ UNCHANGED accessVars
  \/ \E m \in Memories : Accept(m) \/ IndexMemory(m)
  \/ \E kind \in {"story", "poison"} :
       \/ SeedDraft(kind)
       \/ \E code \in {"ACCEPTED", "STALE_PARENT", "UNTRUSTED_SOURCE"} : SeedPromote(kind, code)
  \/ SeedClaim
  \/ Restart
  \/ \E q \in Requests :
       \/ \E c \in Callers : Authenticate(q, c)
       \/ \E E \in SUBSET indexed : \E H \in SUBSET E : Search(q, E, H)
       \/ \E m \in Memories : Fetch(q, m)
       \/ Close(q)
  \/ \E E \in SUBSET indexed : \E H \in SUBSET E : JudgeSearch(E, H)
  \/ ShowCached \/ JudgeFetch \/ JudgeReceipts \/ JudgeFails
  \/ AccessTick

AccessSpec == AccessInit /\ [][AccessNext]_vars

-----------------------------------------------------------------------------
(* Properties *)

AccessTypeOK ==
  /\ clock \in 0..MaxTime
  /\ indexed \subseteq accepted /\ accepted \subseteq Memories
  /\ Len(retrievals) <= MaxSearches
  /\ server.up \in BOOLEAN /\ server.urls \in [Scopes -> 0..MaxPassword]
  /\ \A q \in Requests : request[q].phase \in {"idle", "bound", "searched", "fetched"}
  /\ judge.phase \in {"idle", "fetch", "receipts"}

\* A request is served as the caller it was authenticated as was bound at that
\* time: its identity is an audited, active version of the binding, none older
\* than the request, and what it gets is canonical and of that scope, although
\* the caller may have been disabled or bound elsewhere since.
ServedAsBound ==
  \A q \in Requests :
    LET r == request[q] IN
    r.phase # "idle" =>
      /\ r.identity.version \in DOMAIN bindingAudit[r.caller]
      /\ r.identity.version >= r.since
      /\ LET e == bindingAudit[r.caller][r.identity.version] IN
           e.event # "disabled" /\ e.scope = r.identity.scope
      /\ \A m \in r.ids : m \in accepted /\ ScopeOf[m] = r.identity.scope

\* A story shown by the judge endpoint could be told again from durable rows:
\* the memory it selected is indexed and of its scope; the seed's verdicts and
\* its claim are complete; the audit row it names is of that scope and no older
\* than its own search, whoever searched meanwhile; and its identity is an
\* audited version of the caller's binding to that scope.  When it comes from
\* the cache none of what it shows was read TTL or more ago, although it took
\* three transactions to compose.
StoryIsBacked ==
  LET s == judge.shown IN
  s # NoStory =>
    /\ s.selected # {} /\ s.selected \subseteq Visible(s.scope)
    /\ receipts = CompleteReceipts
    /\ retrievals[s.row].scope = s.scope /\ s.row >= s.search
    /\ s.version <= Len(bindingAudit[Caller])
    /\ bindingAudit[Caller][s.version].scope = s.scope
    /\ judge.fromCache => judge.shownAt - s.begun < TTL /\ s.begun <= s.readAt
=============================================================================
