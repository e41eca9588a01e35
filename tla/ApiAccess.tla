----------------------------- MODULE ApiAccess -----------------------------
(***************************************************************************)
(* A request on its way through the server: one of the calls the clients   *)
(* make or the document promises, with a key and a project in its query,   *)
(* meets the router, the tenant scope (middleware/tenant-scope.ts), the    *)
(* validation of the route, the guard (middleware/auth.ts) and the         *)
(* handler's own checks (lib/project-scope.ts, lib/rbac.ts,                *)
(* lib/admin-auth.ts), each of which may end it.                           *)
(*                                                                         *)
(* The project is the key's own, another, or none the server knows, its    *)
(* name a UUID or, as a tenant's that is bound to nothing, no UUID at all; *)
(* a host may name it by tenant, which the lookup turns into the same if   *)
(* the tenant is bound.  The rate limits are RateLimits', the rows a       *)
(* handler reaches Tenancy's.                                              *)
(***************************************************************************)
EXTENDS ApiDocument, Naturals

Calls == SdkCalls \cup ToolCalls \cup ConsoleCalls \cup DocumentedCalls
NoRoute == [ApiRoute("", <<>>, {}, {}, {}, {}) EXCEPT !.access = "open"]
NoCall == ApiCall("", <<>>, {}, Empty, {})

\* The keys of the project "own", one per role, and the others there are.
ProjectKeys == {"admin", "member", "readonly"}
ApiKeys == ProjectKeys \cup {"instance", "unknown", "none"}

VARIABLES
    inquiry,   \* the call, the caller's key, the project and whether that is named by tenant
    stage,   \* what the request has passed
    params,  \* the parameters in its query
    route,   \* the route it is answered by
    scope,   \* the projects the handler works on: one, or "all"
    httpStatus \* of the answer, 0 before

accessVars == <<inquiry, stage, params, route, scope, httpStatus>>

AccessInit ==
    /\ inquiry = [call |-> NoCall, key |-> "none", project |-> "none", byTenant |-> FALSE]
    /\ stage = "client" /\ params = {} /\ route = NoRoute /\ scope = "none" /\ httpStatus = 0

-----------------------------------------------------------------------------
Aliases == {"tenant_id", "tenantId"}
ProjectParams == Either \cup Aliases

MovesTo(to) == stage' = to /\ UNCHANGED httpStatus
AnswersWith(code) == stage' = "answered" /\ httpStatus' = code

\* What a call may send it sends, but the project only if there is one.
Sends(call, project, byTenant) ==
    (call.asks \ ProjectParams)
        \cup (IF project = "none" THEN {} ELSE IF byTenant THEN {"tenantId"}
              ELSE call.asks \cap ProjectParams)

\* fetchWithAuth: a key stored in the console takes the place of the one a call passes.
KeySent(call, own) ==
    IF call.who = "console admin" /\ own = "none" THEN "instance" ELSE own
Key == KeySent(inquiry.call, inquiry.key)

\* The project asked for is the key's own or another, a UUID no project has, or a name
\* that is no UUID.
CallArrives ==
    /\ stage = "client"
    /\ \E call \in Calls, k \in ApiKeys, byTenant \in BOOLEAN,
          project \in {"none", "own", "other", "unbound", "slug"} :
         /\ call.asks \cap ProjectParams = {} => project = "none"
         /\ call.always \cap ProjectParams # {} => project # "none"
         /\ byTenant => project # "none"
         /\ inquiry' = [call |-> call, key |-> k, project |-> project, byTenant |-> byTenant]
         /\ params' = Sends(call, project, byTenant)
    /\ MovesTo("sent") /\ UNCHANGED <<route, scope>>

Fits(r, call) ==
    /\ r.method = call.method /\ Len(r.path) = Len(call.path)
    /\ \A i \in DOMAIN r.path : r.path[i] \in {call.path[i], ":"}

\* Of two routes that fit, the router takes the one whose path is fixed where they
\* first differ.
Goes(r, s) ==
    \E i \in DOMAIN r.path :
        /\ r.path[i] # ":" /\ s.path[i] = ":"
        /\ \A j \in 1..(i - 1) : r.path[j] = s.path[j]

Takes(r, call) == Fits(r, call) /\ \A s \in Routes \ {r} : Fits(s, call) => Goes(r, s)

RouteFound ==
    /\ stage = "sent"
    /\ \E r \in Routes : Takes(r, inquiry.call) /\ route' = r
    /\ MovesTo("routed") /\ UNCHANGED <<inquiry, params, scope>>

NoRouteFound ==
    /\ stage = "sent" /\ \A r \in Routes : ~Fits(r, inquiry.call)
    /\ AnswersWith(404) /\ UNCHANGED <<inquiry, params, route, scope>>

\* Defect: only the camel case spelling is filled in.
FilledCamel(query) ==
    IF query \cap ProjectParams = {} THEN query ELSE (query \ Aliases) \cup {"projectId"}
\* Both spellings of the project stand in the query, and no alias.  What the lookup of a
\* tenant does not find is filled in as it is.
Filled(query) ==
    IF query \cap ProjectParams = {} THEN query ELSE (query \ Aliases) \cup Either

TenantScope ==
    /\ stage = "routed"
    /\ params' = Filled(params)
    /\ MovesTo("scoped") /\ UNCHANGED <<inquiry, route, scope>>

\* Without what its schemas require a request is refused, and with a project that is
\* no UUID where they ask for one; what they do not declare the handler does not see.
Valid ==
    /\ route.must \subseteq params /\ route.needs \subseteq inquiry.call.body.sends
    /\ inquiry.project = "slug" => route.uuids \cap params \cap Either = {}
Validated ==
    /\ stage = "scoped" /\ Valid
    /\ params' = params \cap route.reads
    /\ MovesTo("valid") /\ UNCHANGED <<inquiry, route, scope>>
Invalid ==
    /\ stage = "scoped" /\ ~Valid
    /\ AnswersWith(400) /\ UNCHANGED <<inquiry, params, route, scope>>

PublicExact == {<<>>, <<"api", "health">>, <<"health">>, <<"metrics">>, <<"api", "openapi.json">>}
PublicPrefixes ==
    {<<"api", "status">>, <<"status">>, <<"embed">>, <<"api", "subscribers", "public">>,
     <<"api", "badges">>, <<"v1", "traces">>, <<"v1", "metrics">>, <<"v1", "logs">>,
     <<"ws", "logs">>, <<"api", "admin">>, <<"api", "tenant">>, <<"api", "auth">>, <<"login">>}
IsPublicPath(path) ==
    \/ path \in PublicExact
    \/ \E p \in PublicPrefixes : Len(p) <= Len(path) /\ SubSeq(path, 1, Len(p)) = p

Mutations == {"POST", "PUT", "DELETE", "PATCH"}
ReadOnly(call) == call.method \notin Mutations

\* What the guard answers, 0 if it lets the call by.
AuthGuard(call, k) ==
    CASE IsPublicPath(call.path) \/ k = "instance" -> 0
      [] k \notin ProjectKeys \cup {"instance"} /\ ~IsPublicPath(call.path) -> 401
      [] OTHER -> IF k = "readonly" /\ ~ReadOnly(call) THEN 403 ELSE 0
Guarded ==
    /\ stage = "valid"
    /\ LET code == AuthGuard(inquiry.call, Key) IN
       IF code = 0 THEN MovesTo("guarded") ELSE AnswersWith(code)
    /\ UNCHANGED <<inquiry, params, route, scope>>

\* requestedProjectIdFromQuery
Requested == IF params \cap Either = {} THEN "none" ELSE inquiry.project

\* resolveScope: the httpStatus's code and the projects in reach.
ResolveScope ==
    CASE Key = "instance" ->
           [code |-> 200, reach |-> IF Requested = "none" THEN "all" ELSE Requested]
      [] Key \notin ProjectKeys \cup {"instance"} -> [code |-> 401, reach |-> "none"]
      [] OTHER -> IF Requested \in {"none", "own"} THEN [code |-> 200, reach |-> "own"]
                  ELSE [code |-> 403, reach |-> "none"]

\* denyIfCannotDelete; checkAdminAccess or the instance key.
Denied ==
    \/ route.access = "delete" /\ Key = "readonly"
    \/ route.access = "manage" /\ Key \notin {"instance", "admin"}

\* The projects are UUIDs in every table: a query for another name fails.
Handled ==
    /\ stage = "guarded" /\ route.access \in {"project", "delete", "manage"}
    /\ IF ResolveScope.code # 200 THEN AnswersWith(ResolveScope.code) /\ UNCHANGED scope
       ELSE IF Denied THEN AnswersWith(403) /\ UNCHANGED scope
       ELSE IF ResolveScope.reach = "slug" THEN AnswersWith(500) /\ UNCHANGED scope
       ELSE AnswersWith(200) /\ scope' = ResolveScope.reach
    /\ UNCHANGED <<inquiry, params, route>>

\* requireAdminKey
HandledForInstance ==
    /\ stage = "guarded" /\ route.access = "instance"
    /\ AnswersWith(IF Key = "instance" THEN 200 ELSE 401)
    /\ UNCHANGED <<inquiry, params, route, scope>>

\* The others have no check of their own.
HandledUnscoped ==
    /\ stage = "guarded" /\ route.access \in {"open", "key"}
    /\ AnswersWith(200) /\ UNCHANGED <<inquiry, params, route, scope>>

AccessNext ==
    \/ CallArrives \/ RouteFound \/ NoRouteFound \/ TenantScope \/ Validated \/ Invalid
    \/ Guarded \/ Handled \/ HandledForInstance \/ HandledUnscoped

AccessSpec == AccessInit /\ [][AccessNext]_accessVars
-----------------------------------------------------------------------------
AccessTypeOK ==
    /\ stage \in {"client", "sent", "routed", "scoped", "valid", "guarded", "answered"}
    /\ httpStatus \in {0, 200, 400, 401, 403, 404, 500} /\ (stage = "answered" <=> httpStatus # 0)
    /\ inquiry.key \in ApiKeys /\ scope \in {"none", "own", "other", "unbound", "all"}
    /\ stage \notin {"client", "sent"} => route # NoRoute \/ httpStatus = 404
    /\ params \subseteq inquiry.call.asks \cup ProjectParams

\* Calls the server does not answer as their clients or the document expect.
KnownGaps ==
    \* client.ts sends no confirm, which the server requires, and reads data, not checks.
    {<<"sdk", "DELETE", <<"api", "logs">>>>,
     <<"sdk", "GET", <<"api", "monitors", ":", "checks">>>>,
    \* cli.ts reads other keys than the answers have.
     <<"cli", "GET", <<"api", "dashboard">>>>,
     <<"cli", "GET", <<"api", "issues">>>>,
     <<"cli", "GET", <<"api", "traces">>>>, <<"cli", "GET", <<"api", "logs">>>>,
     <<"cli", "GET", <<"api", "alerts">>>>,
     <<"cli", "GET", <<"api", "alerts", "history">>>>,
    \* mcp.ts asks for badges under another path and sends a type nothing reads.
     <<"mcp", "GET", <<"api", "badges", "uptime", ":", ":">>>>,
     <<"mcp", "GET", <<"api", "badges", "incidents", ":", ":">>>>,
     <<"mcp", "GET", <<"api", "search">>>>,
    \* lib/api.ts sends parameters under other names or to routes that know none, reads
    \* an ok nobody sends, and lets a stored key replace the instance key it is given.
     <<"console", "GET", <<"api", "traces">>>>,
     <<"console", "GET", <<"api", "alerts", "history">>>>,
     <<"console", "GET", <<"api", "infrastructure", "host", "history">>>>,
     <<"console", "POST", <<"api", "alerts", ":", "test">>>>,
     <<"console admin", "GET", <<"api", "admin", "storage">>>>,
     <<"console admin", "GET", <<"api", "admin", "retention">>>>,
     <<"console admin", "PUT", <<"api", "admin", "retention", ":">>>>,
    \* openapi.ts documents routes, parameters and bodies the server has otherwise.
     <<"document", "DELETE", <<"api", "logs">>>>, <<"document", "GET", <<"api", "comments">>>>,
     <<"document", "GET", <<"api", "badges", "uptime", ":", ":">>>>,
     <<"document", "GET", <<"api", "badges", "incidents", ":", ":">>>>,
     <<"document", "GET", <<"api", "traces", "stats">>>>, <<"document", "GET", <<"embed">>>>,
     <<"document", "POST", <<"api", "subscribers", "public">>>>,
     <<"document", "PUT", <<"api", "notifications", ":">>>>}

IsGap(call) == <<call.who, call.method, call.path>> \in KnownGaps

\* What the tables say of a call and the route that takes it: the call always sends what
\* the route requires, the route knows all it may send and gives all it wants; a handler
\* without a check of its own is told no project, and the paths the guard leaves open and
\* the checks of the handlers fit each other.
Suits(r, call) ==
    /\ r.needs \subseteq call.body.sends
    /\ call.body.sends \cup call.body.may \subseteq r.needs \cup r.takes
    /\ r.must \subseteq (call.asks \ ProjectParams)
                       \cup (IF call.always \cap ProjectParams = {} THEN {} ELSE Either)
    /\ call.asks \ ProjectParams \subseteq r.reads
    /\ call.asks \cap ProjectParams # {} =>
          r.reads \cap Either # {} /\ r.access \in {"project", "delete", "manage"}
    /\ call.wants \subseteq r.gives
    /\ r.access = "open" => IsPublicPath(call.path)
    /\ r.access = "key" => ~IsPublicPath(call.path)
    /\ r.access = "project" /\ IsPublicPath(call.path) => ReadOnly(call)
    /\ r.access = "delete" => ~ReadOnly(call) /\ ~IsPublicPath(call.path)
    /\ call.who # "console admin"

\* The tables fit together but for the calls in KnownGaps: TLC evaluates this.
ASSUME TablesFit ==
    \A call \in Calls : IsGap(call) \/
        /\ \E r \in Routes : Fits(r, call)
        /\ \A r \in Routes : Takes(r, call) => Suits(r, call)

\* The key the caller means.
Meant == IF inquiry.call.who = "console admin" THEN "instance" ELSE inquiry.key

\* What a key may do: the whole instance, or one project and that by its role.
Entitled(call, r, k, project) ==
    \/ r.access = "open"
    \/ k = "instance"
    \/ /\ k \in ProjectKeys /\ r.access # "instance" /\ project \in {"none", "own"}
       /\ k = "readonly" => ReadOnly(call)
       /\ r.access = "manage" => k = "admin"

\* A parameter counts for the handler, a project under either spelling.
Heard(p) == p \in params \/ (p \in ProjectParams /\ params \cap Either # {})

\* The projects the handler is meant to work on.
ScopeMeant ==
    IF route.access \in {"open", "key", "instance"} THEN "none"
    ELSE IF Meant # "instance" THEN "own"
    ELSE IF inquiry.project = "none" THEN "all" ELSE inquiry.project

\* The answer has what the call wanted, of what it asked for and of nothing else.
Served(call) ==
    /\ \A p \in Sends(call, inquiry.project, inquiry.byTenant) : Heard(p)
    /\ call.body.sends \cup call.body.may \subseteq route.needs \cup route.takes
    /\ call.wants \subseteq route.gives
    /\ scope = ScopeMeant

\* Whatever is called: an answer reaches past the key's own project only with the instance
\* key, a handler with a check of its own does without no key, and no role gets what is
\* kept from it (resolveScope, checkAdminAccess, denyIfCannotDelete, requireAdminKey).
OnlyInReach ==
    httpStatus = 200 =>
        /\ scope = "none" \/ Key = "instance" \/ (scope = "own" /\ Key \in ProjectKeys)
        /\ route.access \in {"project", "delete", "manage"} <=> scope # "none"
        /\ route.access = "manage" => Key \in {"instance", "admin"}
        /\ route.access = "delete" => Key # "readonly"
        /\ route.access = "instance" => Key = "instance"

\* Every call of the SDK, its command line, the MCP server, the agent and the web console,
\* and every request of the OpenAPI document, reaches the route it means and is
\* answered in full exactly if its key is entitled to it, however the caller spells
\* the project; and those that fall short of that reach nothing else.  A name that is
\* no UUID, such as a tenant's that is bound to nothing, is refused, or with the
\* instance key fails in the database.
ApiKept ==
    /\ OnlyInReach
    /\ httpStatus # 0 /\ ~IsGap(inquiry.call) =>
          IF inquiry.project = "slug"
          THEN httpStatus \in {400, 401, 403, 500} /\ (httpStatus = 500 => Meant = "instance")
          ELSE IF httpStatus # 404 /\ Entitled(inquiry.call, route, Meant, inquiry.project)
          THEN httpStatus = 200 /\ Served(inquiry.call)
          ELSE httpStatus \in {401, 403}
=============================================================================
