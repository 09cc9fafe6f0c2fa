------------------------------- MODULE Access -------------------------------
(***************************************************************************)
(* Who may do what: AuthConfig::from_env, the admin gate, ingest           *)
(* authentication on the two listeners and the tenant a call acts in.  A   *)
(* server is started with some environment and then answers one request    *)
(* after the other, while tenants are suspended.                           *)
(***************************************************************************)
EXTENDS Integers, FiniteSets

CONSTANTS Tenants,       \* tenant rows
          DefaultTenant, \* the seeded tenant
          AgentTenant    \* agent -> its tenant, from its agent row

Agents == DOMAIN AgentTenant

\* Tokens, agents and tenants are told apart by their values.
ASSUME AccessAssumption ==
    /\ DefaultTenant \in Tenants
    /\ \A a \in Agents : AgentTenant[a] \in Tenants
    /\ Agents \cap {"none", "malformed", "admin", "mcp", "merlin", "wrong", "unknown", "refused"} = {}
    /\ Tenants \cap {"none", "unknown", "refused"} = {}

VARIABLES env,      \* environment of the server process
          auth,     \* AuthConfig, or NoAuth before and when it refuses to start
          suspended,\* tenants whose status is not active
          answer    \* [req, ok, tenant, agent]: the request served, or NoAnswer

AccessVars == <<env, auth, suspended, answer>>

AgentRoutes == {"ingest", "heartbeat", "gaps"}
\* Routes of the admin listener that resolve no tenant; tenants stands for
\* those behind the gate (tenants, analyzers, openapi.json).
GlobalRoutes == {"health", "enroll", "tenants"}
Routes == {"merlin", "mcp", "admin"} \cup GlobalRoutes \cup AgentRoutes
MtlsRoutes == AgentRoutes \cup {"renew"}
\* The configured tokens are distinct strings.
Bearers == {"none", "malformed", "admin", "mcp", "merlin", "wrong"} \cup Agents
NoAuth == [started |-> FALSE]
NoAnswer == [ok |-> FALSE]
Environments == [loopback : BOOLEAN, admin : BOOLEAN, requireAdmin : BOOLEAN,
                 mcp : {"unset", "dev", "secret"}, merlin : BOOLEAN, legacyBearer : BOOLEAN,
                 denyDev : BOOLEAN, allowDev : BOOLEAN]
\* The payload names an agent of its own choice; a peer is a client certificate.
Requests == [route : Routes, listener : {"admin"}, bearer : Bearers, peer : {"none"},
             tenant : Tenants \cup {"none", "unknown"}, claims : Agents]
       \cup [route : MtlsRoutes, listener : {"mtls"}, bearer : {"none"},
             peer : Agents \cup {"unknown"}, tenant : Tenants \cup {"none"}, claims : Agents]

(***************************************************************************)
(* auth.rs                                                                 *)
(***************************************************************************)
from_env(e) ==
    LET requireAdmin == e.admin \/ e.requireAdmin \/ ~e.loopback
        mcp == IF e.mcp = "unset" THEN (IF e.loopback THEN "dev" ELSE "empty") ELSE e.mcp
    IN  IF \/ requireAdmin /\ ~e.admin
           \/ ~e.loopback /\ mcp \in {"empty", "dev"}
        THEN NoAuth
        ELSE [started |-> TRUE, admin |-> e.admin, require_admin |-> requireAdmin, mcp |-> mcp,
              merlin |-> e.merlin, legacy |-> e.legacyBearer,
              allow_dev_ingest |-> \/ e.allowDev
                                   \/ ~e.admin /\ e.loopback /\ ~e.denyDev /\ ~requireAdmin]

admin_matches(b) == auth.admin /\ b = "admin"
mcp_matches(b) == b = "mcp"
merlin_matches(b) == auth.merlin /\ b = "merlin"
check_merlin_ingest(b) == merlin_matches(b) \/ admin_matches(b)
check_admin(b) == auth.require_admin => admin_matches(b)

(***************************************************************************)
(* The gate before every route of the admin listener, and its handlers.    *)
(***************************************************************************)
\* Mutant: the agent routes are skipped by prefix, the fleet list with them.
Skipped_Prefix(r) == r \in {"health", "enroll", "admin"} \cup AgentRoutes
Skipped(r) == r \in {"health", "enroll"} \cup AgentRoutes

admin_gate(req) ==
    \/ ~auth.require_admin
    \/ Skipped(req.route)
    \/ req.route = "merlin" /\ merlin_matches(req.bearer)
    \/ check_admin(req.bearer)

\* resolve_active_tenant: the header, or the default tenant without one.
resolve_tenant(req) ==
    LET t == IF req.tenant = "none" THEN DefaultTenant ELSE req.tenant
    IN  IF t \in Tenants \ suspended THEN t ELSE "refused"

\* authenticate: bearer tokens of agents only count in legacy mode.
authenticate(req) == IF auth.legacy /\ req.bearer \in Agents THEN req.bearer ELSE "refused"
authenticate_cert(req) == IF req.peer \in Agents THEN req.peer ELSE "refused"

InTenant(req, t) ==
    IF t = "refused" THEN NoAnswer
    ELSE [req |-> req, ok |-> TRUE, tenant |-> t, agent |-> "none"]
InNoTenant(req) == [req |-> req, ok |-> TRUE, tenant |-> "none", agent |-> "none"]
\* apply_agent_identity overwrites what the payload says.
AsAgent(req, a) ==
    IF a = "refused" THEN NoAnswer
    ELSE [req |-> req, ok |-> TRUE, tenant |-> AgentTenant[a], agent |-> a]

ingest_auth(req) ==
    CASE admin_matches(req.bearer) -> InTenant(req, resolve_tenant(req))
      [] ~admin_matches(req.bearer) /\ req.bearer # "none" -> AsAgent(req, authenticate(req))
      [] OTHER -> IF auth.allow_dev_ingest THEN InTenant(req, resolve_tenant(req)) ELSE NoAnswer

\* A gap report without a bearer takes the dev path (corpusctl importers),
\* on every bind and without being allowed by allow_dev_ingest.
report_gaps(req) ==
    IF req.bearer = "none" THEN InTenant(req, resolve_tenant(req)) ELSE AsAgent(req, authenticate(req))

Handle(req) ==
    CASE req.listener = "mtls" -> AsAgent(req, authenticate_cert(req))
      [] req.listener = "admin" /\ ~admin_gate(req) -> NoAnswer
      [] OTHER ->
           CASE req.route \in GlobalRoutes -> InNoTenant(req)
             [] req.route = "ingest" -> ingest_auth(req)
             [] req.route = "heartbeat" -> AsAgent(req, authenticate(req))
             [] req.route = "gaps" -> report_gaps(req)
             [] req.route = "merlin" -> IF check_merlin_ingest(req.bearer)
                                        THEN InTenant(req, resolve_tenant(req)) ELSE NoAnswer
             [] req.route = "mcp" -> IF mcp_matches(req.bearer)
                                     THEN InTenant(req, resolve_tenant(req)) ELSE NoAnswer
             [] OTHER -> InTenant(req, resolve_tenant(req))

StartServer ==
    /\ ~auth.started
    /\ auth' = from_env(env)
    /\ auth'.started
    /\ UNCHANGED <<env, suspended, answer>>

Serve(req) ==
    /\ auth.started
    /\ answer = NoAnswer
    /\ answer' = Handle(req)
    /\ UNCHANGED <<env, auth, suspended>>

SetTenantStatus(t) ==
    /\ auth.started
    /\ suspended' = IF t \in suspended THEN suspended \ {t} ELSE suspended \cup {t}
    /\ answer' = NoAnswer
    /\ UNCHANGED <<env, auth>>
----------------------------------------------------------------------------
AccessInit ==
    /\ env \in Environments
    /\ auth = NoAuth
    /\ suspended = {}
    /\ answer = NoAnswer

AccessNext ==
    \/ StartServer
    \/ \E req \in Requests : Serve(req)
    \/ \E t \in Tenants : SetTenantStatus(t)
AccessSpec == AccessInit /\ [][AccessNext]_AccessVars
----------------------------------------------------------------------------
\* Every call that is served was entitled to be, and acts for whom it should.
\* A server that can be reached from outside serves its admin, bridge and MCP
\* routes only to a caller with the token for them, heartbeats and renewals
\* only to an agent, and ingest only to an agent or an admin unless the
\* operator has opted in, whatever combination of environment variables it
\* was started with.  Open to anybody are health, enrollment, and the gaps
\* route for a report without a bearer; the last is not what docs/deploy.md
\* ("the only unauthenticated agent bootstrap") and the threat model ("auth
\* is token/mTLS") lead one to expect.  A call with an agent's credential is
\* recorded under that agent and in its tenant, whatever tenant header and
\* agent the request carries; any other call, an open gap report too, is
\* recorded under no agent and acts in a tenant that is active.
CallsEntitled ==
    answer.ok =>
        LET r == answer.req
            a == IF r.listener = "mtls" THEN r.peer ELSE r.bearer
        IN  /\ ~env.loopback =>
                 /\ r.route \in {"admin", "tenants"} => r.bearer = "admin"
                 /\ r.route = "merlin" => r.bearer \in {"merlin", "admin"}
                 /\ r.route = "mcp" => r.bearer = "mcp"
                 /\ r.route \in {"heartbeat", "renew"} => a \in Agents
                 /\ r.route = "ingest" => a \in Agents \cup {"admin"} \/ (a = "none" /\ env.allowDev)
                 /\ r.route = "gaps" => a \in Agents \cup {"none"}
            /\ r.route \notin GlobalRoutes =>
                 IF a \in Agents /\ r.route \in MtlsRoutes
                 THEN answer.agent = a /\ answer.tenant = AgentTenant[a]
                 ELSE answer.agent = "none" /\ answer.tenant \in Tenants \ suspended
=============================================================================
