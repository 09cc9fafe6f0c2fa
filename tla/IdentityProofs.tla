--------------------------- MODULE IdentityProofs ---------------------------
(***************************************************************************)
(* Proofs for the modules that say who may act as whom: Access, for any     *)
(* tenants and agents, and Enrollment, for any devices, tokens and tenants  *)
(* and any number of agents, authorities and faults.                        *)
(***************************************************************************)
EXTENDS Access, Enrollment, SequenceTheorems, TLAPS

(***************************************************************************)
(* Access                                                                  *)
(***************************************************************************)
\* A server that has started runs with what from_env made of its environment.
AccessInv ==
    /\ env \in Environments
    /\ auth = NoAuth \/ auth = from_env(env)
    /\ CallsEntitled

\* What from_env guarantees of a configuration it accepts.
LEMMA Configured ==
    ASSUME NEW e \in Environments, from_env(e).started
    PROVE  /\ from_env(e).require_admin => from_env(e).admin
           /\ ~e.loopback => from_env(e).require_admin
           /\ ~e.loopback /\ from_env(e).allow_dev_ingest => e.allowDev
  BY DEF from_env, Environments, NoAuth

\* The answers the handlers build.
LEMMA Answers ==
    ASSUME NEW r, NEW t, NEW a
    PROVE  /\ InTenant(r, t).ok => /\ t # "refused"
                                   /\ InTenant(r, t).req = r /\ InTenant(r, t).tenant = t
                                   /\ InTenant(r, t).agent = "none"
           /\ AsAgent(r, a).ok => /\ a # "refused"
                                  /\ AsAgent(r, a).req = r /\ AsAgent(r, a).agent = a
                                  /\ AsAgent(r, a).tenant = AgentTenant[a]
           /\ ~NoAnswer.ok
  BY DEF InTenant, AsAgent, NoAnswer

\* A tenant that was resolved is active.
LEMMA Resolved ==
    ASSUME NEW r, resolve_tenant(r) # "refused"
    PROVE  resolve_tenant(r) \in Tenants \ suspended
  BY DEF resolve_tenant

\* What CallsEntitled asks of an answer to a request.
Entitled(r, ans) ==
    LET a == IF r.listener = "mtls" THEN r.peer ELSE r.bearer
    IN  /\ ~env.loopback =>
             /\ r.route \in {"admin", "tenants"} => r.bearer = "admin"
             /\ r.route = "merlin" => r.bearer \in {"merlin", "admin"}
             /\ r.route = "mcp" => r.bearer = "mcp"
             /\ r.route \in {"heartbeat", "renew"} => a \in Agents
             /\ r.route = "ingest" => a \in Agents \cup {"admin"} \/ (a = "none" /\ env.allowDev)
             /\ r.route = "gaps" => a \in Agents \cup {"none"}
        /\ r.route \notin GlobalRoutes =>
             IF a \in Agents /\ r.route \in MtlsRoutes
             THEN ans.agent = a /\ ans.tenant = AgentTenant[a]
             ELSE ans.agent = "none" /\ ans.tenant \in Tenants \ suspended

\* Every answer of the two listeners is entitled, route by route.
LEMMA HandleEntitled ==
    ASSUME env \in Environments, auth = from_env(env), auth.started,
           NEW r \in Requests, Handle(r).ok
    PROVE  Handle(r).req = r /\ Entitled(r, Handle(r))
<1>0. /\ auth.require_admin => auth.admin
      /\ ~env.loopback => auth.require_admin
      /\ ~env.loopback /\ auth.allow_dev_ingest => env.allowDev
  BY Configured
<1>1. CASE r.listener = "mtls"
  <2>1. Handle(r) = AsAgent(r, authenticate_cert(r)) /\ r.route \in MtlsRoutes
    BY <1>1 DEF Handle, Requests
  <2>2. r.peer \in Agents /\ authenticate_cert(r) = r.peer
    BY <2>1, Answers DEF authenticate_cert
  <2>3. r.route \notin {"admin", "merlin", "mcp"} \cup GlobalRoutes
    BY <2>1 DEF MtlsRoutes, AgentRoutes, GlobalRoutes
  <2> QED
    BY <1>1, <2>1, <2>2, <2>3, Answers DEF Entitled, GlobalRoutes
<1>2. CASE r.listener = "admin"
  <2>0. /\ r.route \in Routes /\ r.bearer \in Bearers /\ r.listener # "mtls"
        /\ admin_gate(r)
    BY <1>2, Answers DEF Handle, Requests
  <2>1. ASSUME r.bearer = "admin" \/ r.bearer \in {"none", "mcp", "merlin"} PROVE r.bearer \notin Agents
    BY <2>1, AccessAssumption
  <2>2. CASE r.route \in GlobalRoutes
    <3>1. Handle(r) = InNoTenant(r)
      BY <1>2, <2>0, <2>2 DEF Handle, GlobalRoutes
    <3>2. ~env.loopback /\ r.route = "tenants" => r.bearer = "admin"
      BY <1>0, <2>0 DEF admin_gate, Skipped, AgentRoutes, check_admin, admin_matches
    <3>3. r.route \notin {"admin", "merlin", "mcp", "heartbeat", "renew", "ingest", "gaps"}
      BY <2>2 DEF GlobalRoutes
    <3> QED
      BY <2>2, <3>1, <3>2, <3>3 DEF Entitled, InNoTenant
  <2>3. CASE r.route = "ingest"
    <3>0. Handle(r) = ingest_auth(r)
      BY <1>2, <2>0, <2>3 DEF Handle
    <3>1. CASE admin_matches(r.bearer)
      <4>1. Handle(r) = InTenant(r, resolve_tenant(r)) /\ r.bearer = "admin"
        BY <3>0, <3>1 DEF ingest_auth, admin_matches
      <4> QED
        BY <1>2, <2>0, <2>1, <2>3, <4>1, Answers, Resolved DEF Entitled, MtlsRoutes, AgentRoutes, GlobalRoutes
    <3>2. CASE ~admin_matches(r.bearer) /\ r.bearer # "none"
      <4>1. Handle(r) = AsAgent(r, authenticate(r))
        BY <3>0, <3>2 DEF ingest_auth
      <4>2. r.bearer \in Agents /\ authenticate(r) = r.bearer
        BY <4>1, Answers DEF authenticate
      <4> QED
        BY <1>2, <2>0, <2>3, <3>2, <4>1, <4>2, Answers DEF Entitled, MtlsRoutes, AgentRoutes, GlobalRoutes
    <3>3. CASE ~admin_matches(r.bearer) /\ r.bearer = "none"
      <4>1. /\ auth.allow_dev_ingest
            /\ Handle(r) = InTenant(r, resolve_tenant(r))
        BY <3>0, <3>3, Answers DEF ingest_auth
      <4> QED
        BY <1>0, <1>2, <2>0, <2>1, <2>3, <3>3, <4>1, Answers, Resolved DEF Entitled, MtlsRoutes, AgentRoutes, GlobalRoutes
    <3> QED
      BY <3>1, <3>2, <3>3
  <2>4. CASE r.route = "heartbeat"
    <3>1. Handle(r) = AsAgent(r, authenticate(r))
      BY <1>2, <2>0, <2>4 DEF Handle
    <3>2. r.bearer \in Agents /\ authenticate(r) = r.bearer
      BY <3>1, Answers DEF authenticate
    <3> QED
      BY <1>2, <2>0, <2>4, <3>1, <3>2, Answers DEF Entitled, MtlsRoutes, AgentRoutes, GlobalRoutes
  <2>5. CASE r.route = "gaps"
    <3>0. Handle(r) = report_gaps(r)
      BY <1>2, <2>0, <2>5 DEF Handle
    <3>1. CASE r.bearer = "none"
      BY <1>2, <2>0, <2>1, <2>5, <3>0, <3>1, Answers, Resolved DEF report_gaps, Entitled, MtlsRoutes, AgentRoutes, GlobalRoutes
    <3>2. CASE r.bearer # "none"
      <4>1. Handle(r) = AsAgent(r, authenticate(r))
        BY <3>0, <3>2 DEF report_gaps
      <4>2. r.bearer \in Agents /\ authenticate(r) = r.bearer
        BY <4>1, Answers DEF authenticate
      <4> QED
        BY <1>2, <2>0, <2>5, <4>1, <4>2, Answers DEF Entitled, MtlsRoutes, AgentRoutes, GlobalRoutes
    <3> QED
      BY <3>1, <3>2
  <2>6. CASE r.route = "merlin"
    <3>1. check_merlin_ingest(r.bearer) /\ Handle(r) = InTenant(r, resolve_tenant(r))
      BY <1>2, <2>0, <2>6, Answers DEF Handle
    <3>2. r.bearer \in {"merlin", "admin"}
      BY <3>1 DEF check_merlin_ingest, merlin_matches, admin_matches
    <3> QED
      BY <1>2, <2>0, <2>6, <3>1, <3>2, Answers, Resolved DEF Entitled, MtlsRoutes, AgentRoutes, GlobalRoutes
  <2>7. CASE r.route = "mcp"
    <3>1. mcp_matches(r.bearer) /\ Handle(r) = InTenant(r, resolve_tenant(r))
      BY <1>2, <2>0, <2>7, Answers DEF Handle
    <3> QED
      BY <1>2, <2>0, <2>7, <3>1, Answers, Resolved DEF Entitled, MtlsRoutes, AgentRoutes, GlobalRoutes, mcp_matches
  <2>8. CASE r.route = "admin"
    <3>1. Handle(r) = InTenant(r, resolve_tenant(r))
      BY <1>2, <2>0, <2>8 DEF Handle, GlobalRoutes
    <3>2. ~env.loopback => r.bearer = "admin"
      BY <1>0, <2>0, <2>8 DEF admin_gate, Skipped, AgentRoutes, check_admin, admin_matches
    <3> QED
      BY <1>2, <2>0, <2>8, <3>1, <3>2, Answers, Resolved DEF Entitled, MtlsRoutes, AgentRoutes, GlobalRoutes
  <2> QED
    BY <2>0, <2>2, <2>3, <2>4, <2>5, <2>6, <2>7, <2>8 DEF Routes, AgentRoutes, GlobalRoutes
<1> QED
  BY <1>1, <1>2 DEF Requests

\* Off loopback no request is served without the credential its route asks
\* for, but for the routes that are open (health, enroll, and gaps without a
\* bearer); none acts for another agent or in another tenant than its
\* credential says, and none without one in a suspended tenant, whatever the
\* environment AuthConfig::from_env read.
THEOREM AccessSafe == AccessSpec => []CallsEntitled
<1>1. AccessInit => AccessInv
  BY DEF AccessInit, AccessInv, CallsEntitled, NoAnswer
<1>2. AccessInv /\ [AccessNext]_AccessVars => AccessInv'
  <2> SUFFICES ASSUME AccessInv, [AccessNext]_AccessVars PROVE AccessInv'
    OBVIOUS
  <2>1. CASE StartServer
    BY <2>1 DEF AccessInv, StartServer, CallsEntitled, from_env, NoAuth
  <2>2. ASSUME NEW r \in Requests, Serve(r) PROVE AccessInv'
    <3>1. auth = from_env(env)
      BY <2>2 DEF AccessInv, Serve, NoAuth
    <3>2. Handle(r).ok => Handle(r).req = r /\ Entitled(r, Handle(r))
      BY <2>2, <3>1, HandleEntitled DEF AccessInv, Serve
    <3>3. CallsEntitled'
      BY <2>2, <3>2 DEF Serve, CallsEntitled, Entitled
    <3> QED
      BY <2>2, <3>1, <3>3 DEF AccessInv, Serve, from_env
  <2>3. ASSUME NEW t \in Tenants, SetTenantStatus(t) PROVE AccessInv'
    BY <2>3 DEF AccessInv, SetTenantStatus, CallsEntitled, NoAnswer, from_env
  <2>4. CASE UNCHANGED AccessVars
    BY <2>4 DEF AccessInv, AccessVars, CallsEntitled, from_env
  <2> QED
    BY <2>1, <2>2, <2>3, <2>4 DEF AccessNext
<1>3. AccessInv => CallsEntitled
  BY DEF AccessInv
<1> QED
  BY <1>1, <1>2, <1>3, PTL DEF AccessSpec

(***************************************************************************)
(* Enrollment                                                              *)
(***************************************************************************)
Pcs == {"down", "consume", "tenant", "insert", "by", "sign", "answer", "ready"}

RegRec == [status : [EnrollTenant -> {"active", "suspended"}],
           token : [EnrollToken -> [state : {"none", "fresh", "expired", "consumed"},
                                    tenant : EnrollTenant \cup {Unset}, by : Nat]],
           agent : Seq([tenant : EnrollTenant \cup {Unset}, token : EnrollToken])]
SrvRec == [pc : {"down", "create", "write", "up"}, gen : Nat, ca : [CaFileSet -> Int]]
DevRec == [token : EnrollToken, pc : Pcs, tenant : EnrollTenant \cup {Unset},
           agent : Nat, reply : Int]
EnrollTypeOK ==
    /\ reg \in RegRec
    /\ caFile \in [CaFileSet -> Int]
    /\ srv \in SrvRec
    /\ mint \in [EnrollToken -> EnrollTenant \cup {Unset}]
    /\ dev \in [Device -> DevRec]
    /\ ident \in [Device -> [agent : Nat, bearer : Nat, ca : Int, cert : Int]]

\* The token of a call between its consumption and the agent row is held by
\* that call alone; afterwards the row stands for it.
Holds(d) == dev[d].pc \in {"tenant", "insert"}
HasAgent(d) == dev[d].pc \in {"by", "sign", "answer"}
TokenInv ==
    /\ \A a \in DOMAIN reg.agent : reg.token[reg.agent[a].token].state = "consumed"
    /\ \A a, b \in DOMAIN reg.agent : reg.agent[a].token = reg.agent[b].token => a = b
    /\ \A a \in DOMAIN reg.agent : reg.agent[a].tenant = reg.token[reg.agent[a].token].tenant
    /\ \A k \in EnrollToken : reg.token[k].by # Unset =>
         reg.token[k].by \in DOMAIN reg.agent /\ reg.agent[reg.token[k].by].token = k
    /\ \A k \in EnrollToken : mint[k] # Unset => reg.token[k].state = "none"
    /\ \A d \in Device : Holds(d) =>
         /\ reg.token[dev[d].token].state = "consumed"
         /\ reg.token[dev[d].token].tenant = dev[d].tenant
         /\ \A a \in DOMAIN reg.agent : reg.agent[a].token # dev[d].token
    /\ \A d, e \in Device : Holds(d) /\ Holds(e) /\ dev[d].token = dev[e].token => d = e
    /\ \A d \in Device : HasAgent(d) =>
         dev[d].agent \in DOMAIN reg.agent /\ reg.agent[dev[d].agent].token = dev[d].token

\* The last file is there only when the other three are complete and of one
\* generation, so an authority that is used once is never written again.
CaInv ==
    /\ caFile["server-key.pem"] # 0 =>
         /\ caFile["ca.pem"] \notin {0, Torn}
         /\ caFile["ca-key.pem"] = caFile["ca.pem"] /\ caFile["server.pem"] = caFile["ca.pem"]
         /\ caFile["server-key.pem"] \in {caFile["ca.pem"], Torn}
    /\ srv.pc = "create" => caFile["server-key.pem"] = 0
    /\ srv.pc = "write" /\ caFile["server-key.pem"] # 0 =>
         caFile["ca.pem"] = srv.gen /\ caFile["server-key.pem"] = Torn
    /\ srv.pc \in {"create", "write"} => srv.gen # 0
    /\ Up => caFile["server-key.pem"] # 0 /\ srv.ca = caFile

\* Only a running server answers, and an identity is of its authority.
IdentInv ==
    \A d \in Device :
      /\ dev[d].pc \notin {"down", "ready"} => Up
      /\ dev[d].pc = "answer" => dev[d].reply = srv.ca["ca-key.pem"]
      /\ dev[d].pc = "ready" => ident[d].agent # Unset
      /\ ident[d].agent # Unset =>
           /\ ident[d].agent \in DOMAIN reg.agent
           /\ reg.agent[ident[d].agent].token = dev[d].token
           /\ caFile["server-key.pem"] # 0
           /\ ident[d].ca = caFile["ca.pem"] /\ ident[d].cert = caFile["ca.pem"]

EnrollInv == EnrollTypeOK /\ TokenInv /\ CaInv /\ IdentInv

\* The CA files, in the order they are written.
LEMMA CaFileFacts ==
    /\ DOMAIN CaFiles = 1..4 /\ Len(CaFiles) = 4
    /\ CaFiles[1] = "ca.pem" /\ CaFiles[2] = "ca-key.pem"
    /\ CaFiles[3] = "server.pem" /\ CaFiles[4] = "server-key.pem"
    /\ CaFileSet = {"ca.pem", "ca-key.pem", "server.pem", "server-key.pem"}
<1>1. DOMAIN CaFiles = 1..4 /\ Len(CaFiles) = 4
  BY DEF CaFiles
<1>2. /\ CaFiles[1] = "ca.pem" /\ CaFiles[2] = "ca-key.pem"
      /\ CaFiles[3] = "server.pem" /\ CaFiles[4] = "server-key.pem"
  BY DEF CaFiles
<1>3. 1..4 = {1, 2, 3, 4}
  OBVIOUS
<1> QED
  BY <1>1, <1>2, <1>3 DEF CaFileSet

LEMMA NoCallFields ==
    ASSUME EnrollTypeOK, NEW d \in Device
    PROVE  NoCall(d) \in DevRec /\ NoCall(d).pc = "down" /\ NoCall(d).token = dev[d].token
<1>1. PICK v \in DevRec, t \in EnrollTenant \cup {Unset}, n \in Nat, i \in Int :
         v = dev[d] /\ t = Unset /\ n = Unset /\ i = Unset
  <2>1. dev[d] \in DevRec
    BY DEF EnrollTypeOK
  <2>2. 0 \in Nat /\ 0 \in Int
    OBVIOUS
  <2> QED
    BY <2>1, <2>2, Zenon DEF Unset
<1>2. NoCall(d) = [v EXCEPT !.pc = "down", !.tenant = t, !.agent = n, !.reply = i]
  BY <1>1 DEF NoCall
<1> QED
  BY <1>1, <1>2 DEF DevRec, Pcs

\* A call that ends, and one that goes on to its next statement.
LEMMA CallEnds ==
    ASSUME EnrollTypeOK, NEW d \in Device, dev' = [dev EXCEPT ![d] = NoCall(d)]
    PROVE  /\ dev' \in [Device -> DevRec]
           /\ dev'[d].pc = "down" /\ dev'[d].token = dev[d].token
           /\ \A e \in Device \ {d} : dev'[e] = dev[e]
<1>1. NoCall(d) \in DevRec /\ NoCall(d).pc = "down" /\ NoCall(d).token = dev[d].token
  BY NoCallFields
<1> QED
  BY <1>1 DEF EnrollTypeOK

LEMMA CallGoes ==
    ASSUME EnrollTypeOK, NEW d \in Device, NEW pc \in Pcs, dev' = [dev EXCEPT ![d].pc = pc]
    PROVE  /\ dev' \in [Device -> DevRec]
           /\ dev'[d].pc = pc /\ dev'[d].token = dev[d].token /\ dev'[d].tenant = dev[d].tenant
           /\ dev'[d].agent = dev[d].agent /\ dev'[d].reply = dev[d].reply
           /\ \A e \in Device \ {d} : dev'[e] = dev[e]
  BY DEF EnrollTypeOK, DevRec, Pcs

LEMMA CallTakes ==
    ASSUME EnrollTypeOK, NEW d \in Device, NEW t \in EnrollTenant \cup {Unset},
           dev' = [dev EXCEPT ![d].pc = "tenant", ![d].tenant = t]
    PROVE  /\ dev' \in [Device -> DevRec]
           /\ dev'[d].pc = "tenant" /\ dev'[d].token = dev[d].token /\ dev'[d].tenant = t
           /\ \A e \in Device \ {d} : dev'[e] = dev[e]
<1> DEFINE v == [dev[d] EXCEPT !.pc = "tenant", !.tenant = t]
<1>1. dev[d] \in DevRec
  BY DEF EnrollTypeOK
<1>2. v \in DevRec /\ v.pc = "tenant" /\ v.token = dev[d].token /\ v.tenant = t
  BY <1>1 DEF DevRec, Pcs
<1>3. dev' = [e \in Device |-> IF e = d THEN v ELSE dev[e]]
  BY DEF EnrollTypeOK
<1> HIDE DEF v
<1> QED
  BY <1>2, <1>3 DEF EnrollTypeOK

LEMMA CallInserts ==
    ASSUME EnrollTypeOK, NEW d \in Device, NEW a \in Nat,
           dev' = [dev EXCEPT ![d].pc = "by", ![d].agent = a]
    PROVE  /\ dev' \in [Device -> DevRec]
           /\ dev'[d].pc = "by" /\ dev'[d].token = dev[d].token /\ dev'[d].agent = a
           /\ \A e \in Device \ {d} : dev'[e] = dev[e]
<1> DEFINE v == [dev[d] EXCEPT !.pc = "by", !.agent = a]
<1>1. dev[d] \in DevRec
  BY DEF EnrollTypeOK
<1>2. v \in DevRec /\ v.pc = "by" /\ v.token = dev[d].token /\ v.agent = a
  BY <1>1 DEF DevRec, Pcs
<1>3. dev' = [e \in Device |-> IF e = d THEN v ELSE dev[e]]
  BY DEF EnrollTypeOK
<1> HIDE DEF v
<1> QED
  BY <1>2, <1>3 DEF EnrollTypeOK

\* The agent rows, and what an UPDATE of a token row leaves alone.
LEMMA AgentRows ==
    ASSUME EnrollTypeOK
    PROVE  \A a \in DOMAIN reg.agent : reg.agent[a].token \in EnrollToken /\ a \in Nat /\ a # Unset
<1> DEFINE R == [tenant : EnrollTenant \cup {Unset}, token : EnrollToken]
<1>1. reg.agent \in Seq(R)
  BY DEF EnrollTypeOK, RegRec
<1>2. ASSUME NEW a \in DOMAIN reg.agent
      PROVE  reg.agent[a] \in R /\ a \in Nat /\ a # Unset
  <2> HIDE DEF R
  <2>1. a \in 1..Len(reg.agent) /\ Len(reg.agent) \in Nat
    BY <1>1, LenProperties
  <2> QED
    BY <1>1, <2>1, ElementOfSeq DEF Unset
<1> QED
  BY <1>2

LEMMA TokenRow ==
    ASSUME EnrollTypeOK, NEW k \in EnrollToken,
           NEW row \in [state : {"none", "fresh", "expired", "consumed"},
                        tenant : EnrollTenant \cup {Unset}, by : Nat],
           reg' = [reg EXCEPT !.token[k] = row]
    PROVE  /\ reg' \in RegRec /\ reg'.agent = reg.agent /\ reg'.token[k] = row
           /\ \A l \in EnrollToken \ {k} : reg'.token[l] = reg.token[l]
  BY DEF EnrollTypeOK, RegRec

\* A step that takes no token and inserts no row keeps what is known of them.
LEMMA TokenQuiet ==
    ASSUME TokenInv, reg' = reg,
           \A k \in EnrollToken : mint'[k] # Unset => mint[k] # Unset \/ reg.token[k].state = "none",
           \A d \in Device :
             /\ dev'[d].token = dev[d].token
             /\ dev'[d].pc \in {"tenant", "insert"} => Holds(d) /\ dev'[d].tenant = dev[d].tenant
             /\ dev'[d].pc \in {"by", "sign", "answer"} => HasAgent(d) /\ dev'[d].agent = dev[d].agent
    PROVE  TokenInv'
  BY DEF TokenInv, Holds, HasAgent

\* A step of a call that saves no identity, on a server that stays as it is.
LEMMA IdentQuiet ==
    ASSUME IdentInv, reg'.agent = reg.agent, caFile' = caFile, srv' = srv, ident' = ident,
           \A d \in Device :
             /\ dev'[d].token = dev[d].token
             /\ dev'[d].pc \notin {"down", "ready"} => Up
             /\ dev'[d].pc = "answer" => dev'[d].reply = srv.ca["ca-key.pem"]
             /\ dev'[d].pc = "ready" => ident[d].agent # Unset
    PROVE  IdentInv'
  BY DEF IdentInv, Up

LEMMA CaQuiet ==
    ASSUME CaInv, caFile' = caFile, srv' = srv
    PROVE  CaInv'
  BY DEF CaInv, Up

\* The starts of the server, the files it writes and its crashes.
LEMMA CaStep ==
    ASSUME EnrollTypeOK, CaInv, load_or_create_ca \/ CreateFile \/ write_0600 \/ ServerCrash
    PROVE  /\ caFile' \in [CaFileSet -> Int] /\ srv' \in SrvRec /\ CaInv'
           /\ caFile["server-key.pem"] # 0 =>
                caFile'["server-key.pem"] # 0 /\ caFile'["ca.pem"] = caFile["ca.pem"]
           /\ ~Up \/ ~Up'
<1> USE CaFileFacts DEF Up, Torn
<1>1. CASE load_or_create_ca
  <2>1. CASE CaComplete
    BY <1>1, <2>1 DEF load_or_create_ca, CaComplete, CaInv, EnrollTypeOK, SrvRec
  <2>2. CASE ~CaComplete
    <3>1. caFile["server-key.pem"] = 0
      BY <2>2 DEF CaComplete, CaInv
    <3>2. srv' = [srv EXCEPT !.pc = "create", !.gen = @ + 1] /\ srv \in SrvRec /\ srv.gen \in Nat
      BY <1>1, <2>2 DEF load_or_create_ca, EnrollTypeOK, SrvRec
    <3>3. srv' \in SrvRec
      <4>1. srv = [pc |-> srv.pc, gen |-> srv.gen, ca |-> srv.ca] /\ srv.ca \in [CaFileSet -> Int]
        BY <3>2 DEF SrvRec
      <4>2. srv' = [pc |-> "create", gen |-> srv.gen + 1, ca |-> srv.ca]
        BY <3>2, <4>1
      <4> QED
        BY <3>2, <4>1, <4>2 DEF SrvRec
    <3>4. srv'.pc = "create" /\ srv'.gen # 0
      BY <3>2 DEF SrvRec
    <3> QED
      BY <1>1, <3>1, <3>3, <3>4 DEF load_or_create_ca, CaInv, EnrollTypeOK
  <2> QED
    BY <2>1, <2>2
<1>2. CASE CreateFile
  <2>1. PICK i \in 1..4 : NextCaFile(i) /\ caFile' = [caFile EXCEPT ![CaFiles[i]] = -1]
    BY <1>2 DEF CreateFile
  <2>2. /\ srv.pc = "create" /\ caFile["server-key.pem"] = 0 /\ srv.gen \in Nat /\ srv.gen # 0
        /\ srv' \in SrvRec /\ srv'.pc = "write" /\ srv'.gen = srv.gen
    BY <1>2 DEF CreateFile, CaInv, EnrollTypeOK, SrvRec
  <2>3. caFile' \in [CaFileSet -> Int]
    BY <2>1 DEF EnrollTypeOK
  <2>4. CASE i = 4
    <3>1. /\ caFile["ca.pem"] = srv.gen /\ caFile["ca-key.pem"] = srv.gen
          /\ caFile["server.pem"] = srv.gen
      BY <2>1, <2>4 DEF NextCaFile
    <3>2. /\ caFile'["ca.pem"] = srv.gen /\ caFile'["ca-key.pem"] = srv.gen
          /\ caFile'["server.pem"] = srv.gen /\ caFile'["server-key.pem"] = -1
      BY <2>1, <2>4, <3>1 DEF EnrollTypeOK
    <3> QED
      BY <2>2, <2>3, <3>2 DEF CaInv
  <2>5. CASE i # 4
    <3>1. CaFiles[i] # "server-key.pem"
      BY <2>5
    <3>2. caFile'["server-key.pem"] = 0
      BY <2>1, <2>2, <3>1 DEF EnrollTypeOK
    <3> QED
      BY <2>2, <2>3, <3>2 DEF CaInv
  <2> QED
    BY <2>4, <2>5
<1>3. CASE write_0600
  <2>1. PICK i \in 1..4 :
               /\ NextCaFile(i)
               /\ caFile' = [caFile EXCEPT ![CaFiles[i]] = srv.gen]
               /\ srv' = IF i = 4 THEN [srv EXCEPT !.pc = "up", !.ca = caFile'] ELSE [srv EXCEPT !.pc = "create"]
    BY <1>3 DEF write_0600
  <2>2. srv.pc = "write" /\ srv.gen \in Nat /\ srv.gen # 0 /\ srv \in SrvRec
    BY <1>3 DEF write_0600, CaInv, EnrollTypeOK, SrvRec
  <2>3. caFile' \in [CaFileSet -> Int]
    BY <2>1, <2>2 DEF EnrollTypeOK
  <2>4. CASE i = 4
    <3>1. /\ caFile["ca.pem"] = srv.gen /\ caFile["ca-key.pem"] = srv.gen
          /\ caFile["server.pem"] = srv.gen
      BY <2>1, <2>4 DEF NextCaFile
    <3>2. /\ caFile'["ca.pem"] = srv.gen /\ caFile'["ca-key.pem"] = srv.gen
          /\ caFile'["server.pem"] = srv.gen /\ caFile'["server-key.pem"] = srv.gen
      BY <2>1, <2>4, <3>1 DEF EnrollTypeOK
    <3>3. srv' \in SrvRec /\ srv'.pc = "up" /\ srv'.ca = caFile'
      BY <2>1, <2>2, <2>3, <2>4 DEF SrvRec
    <3> QED
      BY <2>2, <2>3, <3>1, <3>2, <3>3 DEF CaInv
  <2>5. CASE i # 4
    <3>1. CaFiles[i] # "server-key.pem" /\ CaFiles[i] \in {"ca.pem", "ca-key.pem", "server.pem"}
      BY <2>5
    <3>2. caFile["server-key.pem"] = 0
      <4>1. caFile[CaFiles[i]] # srv.gen
        BY <2>1 DEF NextCaFile
      <4> QED
        BY <2>2, <3>1, <4>1 DEF CaInv
    <3>3. caFile'["server-key.pem"] = 0
      BY <2>1, <3>1, <3>2 DEF EnrollTypeOK
    <3>4. srv' \in SrvRec /\ srv'.pc = "create" /\ srv'.gen = srv.gen
      BY <2>1, <2>2, <2>5 DEF SrvRec
    <3> QED
      BY <2>2, <2>3, <3>2, <3>3, <3>4 DEF CaInv
  <2> QED
    BY <2>4, <2>5
<1>4. CASE ServerCrash
  <2>1. PICK v \in [CaFileSet -> Int] : v = NoCa
    <3>1. NoCa \in [CaFileSet -> Int]
      <4>1. PICK S : S = CaFileSet
        OBVIOUS
      <4>2. [f \in S |-> 0] \in [S -> Int]
        BY ONLY TRUE
      <4> QED
        BY <4>1, <4>2, Zenon DEF NoCa
    <3> QED
      BY <3>1
  <2>2. srv' = [srv EXCEPT !.pc = "down", !.ca = v] /\ srv \in SrvRec /\ caFile' = caFile
    BY <1>4, <2>1, Zenon DEF ServerCrash, EnrollTypeOK
  <2>3. srv' \in SrvRec /\ srv'.pc = "down"
    BY <2>2 DEF SrvRec
  <2> QED
    BY <2>2, <2>3 DEF CaInv, EnrollTypeOK
<1> QED
  BY <1>1, <1>2, <1>3, <1>4

LEMMA EnrollStep ==
    ASSUME EnrollInv, [EnrollmentNext]_EnrollmentVars
    PROVE  EnrollInv'
<1> USE DEF Unset
<1>0. EnrollTypeOK /\ TokenInv /\ CaInv /\ IdentInv
  BY DEF EnrollInv
<1>1. CASE load_or_create_ca \/ CreateFile \/ write_0600
  <2>1. CaInv' /\ EnrollTypeOK'
    BY <1>0, <1>1, CaStep DEF EnrollTypeOK, load_or_create_ca, CreateFile, write_0600
  <2>2. TokenInv'
    BY <1>0, <1>1, TokenQuiet DEF load_or_create_ca, CreateFile, write_0600, Holds, HasAgent
  <2>3. \A d \in Device : dev[d].pc \in {"down", "ready"}
    BY <1>0, <1>1 DEF IdentInv, Up, load_or_create_ca, CreateFile, write_0600
  <2>4. caFile["server-key.pem"] # 0 =>
         caFile'["server-key.pem"] # 0 /\ caFile'["ca.pem"] = caFile["ca.pem"]
    BY <1>0, <1>1, CaStep
  <2>5. IdentInv'
    BY <1>0, <1>1, <2>3, <2>4 DEF IdentInv, load_or_create_ca, CreateFile, write_0600
  <2> QED
    BY <2>1, <2>2, <2>5 DEF EnrollInv
<1>2. CASE ServerCrash
  <2>1. \A d \in Device : /\ dev'[d].token = dev[d].token
                          /\ dev'[d].pc \in {"down", "ready"}
                          /\ dev'[d].pc = "ready" => dev[d].pc = "ready"
                          /\ dev'[d] \in DevRec
    <3>1. \A d \in Device : dev[d] \in DevRec /\ (dev'[d] = dev[d] \/ dev'[d] = NoCall(d))
      BY <1>0, <1>2 DEF ServerCrash, EnrollTypeOK
    <3>2. \A d \in Device : dev'[d] = dev[d] => dev'[d].pc = "ready" \/ dev'[d] = NoCall(d)
      BY <1>2 DEF ServerCrash
    <3> QED
      BY <1>0, <3>1, <3>2, NoCallFields
  <2>2. dev' \in [Device -> DevRec]
    BY <1>2, <2>1 DEF ServerCrash
  <2>3. mint' \in [EnrollToken -> EnrollTenant \cup {Unset}]
    BY <1>2 DEF ServerCrash
  <2>4. CaInv' /\ EnrollTypeOK'
    BY <1>0, <1>2, <2>2, <2>3, CaStep DEF EnrollTypeOK, ServerCrash
  <2>5. TokenInv'
    BY <1>0, <1>2, <2>1, TokenQuiet DEF ServerCrash
  <2>6. IdentInv'
    BY <1>0, <1>2, <2>1 DEF IdentInv, ServerCrash
  <2> QED
    BY <2>4, <2>5, <2>6 DEF EnrollInv
<1>3. ASSUME NEW t \in EnrollTenant, SuspendTenant(t) PROVE EnrollInv'
  <2>1. reg' \in RegRec /\ reg'.token = reg.token /\ reg'.agent = reg.agent
    BY <1>0, <1>3 DEF SuspendTenant, EnrollTypeOK, RegRec
  <2>2. EnrollTypeOK' /\ CaInv'
    BY <1>0, <1>3, <2>1, CaQuiet DEF SuspendTenant, EnrollTypeOK
  <2>3. TokenInv'
    BY <1>0, <1>3, <2>1 DEF SuspendTenant, TokenInv, Holds, HasAgent
  <2>4. IdentInv'
    BY <1>0, <1>3, <2>1, IdentQuiet DEF SuspendTenant, IdentInv
  <2> QED
    BY <2>2, <2>3, <2>4 DEF EnrollInv
<1>4. ASSUME NEW k \in EnrollToken, NEW t \in EnrollTenant, ResolveForToken(k, t) PROVE EnrollInv'
  <2>1. EnrollTypeOK' /\ CaInv'
    BY <1>0, <1>4, CaQuiet DEF ResolveForToken, EnrollTypeOK
  <2>2. TokenInv'
    BY <1>0, <1>4, TokenQuiet DEF ResolveForToken, Holds, HasAgent, EnrollTypeOK
  <2>3. IdentInv'
    BY <1>0, <1>4, IdentQuiet DEF ResolveForToken, IdentInv
  <2> QED
    BY <2>1, <2>2, <2>3 DEF EnrollInv
<1>5. ASSUME NEW k \in EnrollToken, create_enrollment_token(k) PROVE EnrollInv'
  <2>1. /\ mint' \in [EnrollToken -> EnrollTenant \cup {Unset}]
        /\ mint'[k] = Unset /\ \A l \in EnrollToken \ {k} : mint'[l] = mint[l]
    BY <1>0, <1>5 DEF create_enrollment_token, EnrollTypeOK
  <2>2. mint[k] \in EnrollTenant \cup {Unset} /\ mint[k] # Unset /\ reg.token[k].state = "none"
    BY <1>0, <1>5 DEF create_enrollment_token, EnrollTypeOK, TokenInv
  <2>3. /\ reg' \in RegRec /\ reg'.agent = reg.agent
        /\ reg'.token[k].by = Unset
        /\ \A l \in EnrollToken \ {k} : reg'.token[l] = reg.token[l]
    BY <1>0, <1>5, <2>2 DEF create_enrollment_token, EnrollTypeOK, RegRec
  <2>4. EnrollTypeOK' /\ CaInv'
    BY <1>0, <1>5, <2>1, <2>3, CaQuiet DEF create_enrollment_token, EnrollTypeOK
  <2>5. \A a \in DOMAIN reg.agent : reg.agent[a].token \in EnrollToken \ {k}
    BY <1>0, <2>2, AgentRows DEF TokenInv
  <2>6. \A d \in Device : Holds(d) => dev[d].token # k
    BY <1>0, <2>2 DEF TokenInv
  <2>7. \A d \in Device : dev[d].token \in EnrollToken
    BY <1>0 DEF EnrollTypeOK, DevRec
  <2>8. TokenInv'
    BY <1>0, <1>5, <2>1, <2>3, <2>5, <2>6, <2>7 DEF create_enrollment_token, TokenInv, Holds, HasAgent
  <2>9. IdentInv'
    BY <1>0, <1>5, <2>3, IdentQuiet DEF create_enrollment_token, IdentInv
  <2> QED
    BY <2>4, <2>8, <2>9 DEF EnrollInv
<1>6. ASSUME NEW k \in EnrollToken, TokenExpires(k) PROVE EnrollInv'
  <2>1. reg' \in RegRec /\ reg'.agent = reg.agent
    BY <1>0, <1>6 DEF TokenExpires, EnrollTypeOK, RegRec
  <2>2. /\ reg'.token[k].state = "expired" /\ reg'.token[k].by = reg.token[k].by
        /\ \A l \in EnrollToken \ {k} : reg'.token[l] = reg.token[l]
    BY <1>0, <1>6 DEF TokenExpires, EnrollTypeOK, RegRec
  <2>3. EnrollTypeOK' /\ CaInv'
    BY <1>0, <1>6, <2>1, CaQuiet DEF TokenExpires, EnrollTypeOK
  <2>4. \A a \in DOMAIN reg.agent : reg.agent[a].token \in EnrollToken \ {k}
    BY <1>0, <1>6, AgentRows DEF TokenInv, TokenExpires
  <2>5. \A d \in Device : Holds(d) => dev[d].token # k
    BY <1>0, <1>6 DEF TokenInv, TokenExpires
  <2>6. \A d \in Device : dev[d].token \in EnrollToken
    BY <1>0 DEF EnrollTypeOK, DevRec
  <2>7. mint[k] = Unset
    BY <1>0, <1>6 DEF TokenInv, TokenExpires
  <2>8. TokenInv'
    BY <1>0, <1>6, <2>1, <2>2, <2>4, <2>5, <2>6, <2>7 DEF TokenExpires, TokenInv, Holds, HasAgent
  <2>9. IdentInv'
    BY <1>0, <1>6, <2>1, IdentQuiet DEF TokenExpires, IdentInv
  <2> QED
    BY <2>3, <2>8, <2>9 DEF EnrollInv
<1>7. ASSUME NEW d \in Device, ensure_identity(d) PROVE EnrollInv'
  <2>1. PICK pc \in {"ready", "consume"} :
               /\ dev' = [dev EXCEPT ![d].pc = pc]
               /\ pc = "ready" => ident[d].agent # Unset
               /\ pc = "consume" => Up
    BY <1>7 DEF ensure_identity
  <2>2. /\ dev' \in [Device -> DevRec]
        /\ dev'[d].pc = pc /\ dev'[d].token = dev[d].token
        /\ \A e \in Device \ {d} : dev'[e] = dev[e]
    BY <1>0, <2>1, CallGoes DEF Pcs
  <2>3. EnrollTypeOK' /\ CaInv'
    BY <1>0, <1>7, <2>1, <2>2, CaQuiet DEF ensure_identity, EnrollTypeOK
  <2>4. TokenInv'
    BY <1>0, <1>7, <2>1, <2>2, TokenQuiet DEF ensure_identity, Holds, HasAgent
  <2>5. IdentInv'
    BY <1>0, <1>7, <2>1, <2>2, IdentQuiet DEF ensure_identity, IdentInv
  <2> QED
    BY <2>3, <2>4, <2>5 DEF EnrollInv
<1>8. ASSUME NEW d \in Device, ConsumeToken(d) PROVE EnrollInv'
  <2> DEFINE k == dev[d].token
  <2>0. k \in EnrollToken /\ \A e \in Device : dev[e].token \in EnrollToken
    BY <1>0 DEF EnrollTypeOK, DevRec
  <2>1. CASE reg.token[k].state # "fresh"
    <3>1. /\ dev' \in [Device -> DevRec]
          /\ dev'[d].pc = "down" /\ dev'[d].token = dev[d].token
          /\ \A e \in Device \ {d} : dev'[e] = dev[e]
      BY <1>0, <1>8, <2>1, CallEnds DEF ConsumeToken
    <3>2. reg' = reg /\ UNCHANGED <<caFile, srv, mint, ident>>
      BY <1>8, <2>1 DEF ConsumeToken
    <3>3. EnrollTypeOK' /\ CaInv'
      BY <1>0, <3>1, <3>2, CaQuiet DEF EnrollTypeOK
    <3>4. TokenInv'
      BY <1>0, <3>1, <3>2, TokenQuiet DEF Holds, HasAgent
    <3>5. IdentInv'
      BY <1>0, <3>1, <3>2, IdentQuiet DEF IdentInv
    <3> QED
      BY <3>3, <3>4, <3>5 DEF EnrollInv
  <2>2. CASE reg.token[k].state = "fresh"
    <3>0. reg.token[k].tenant \in EnrollTenant \cup {Unset}
      BY <1>0, <2>0 DEF EnrollTypeOK, RegRec
    <3>1. /\ dev' \in [Device -> DevRec]
          /\ dev'[d].pc = "tenant" /\ dev'[d].token = k /\ dev'[d].tenant = reg.token[k].tenant
          /\ \A e \in Device \ {d} : dev'[e] = dev[e]
      BY <1>0, <1>8, <2>2, <3>0, CallTakes DEF ConsumeToken
    <3> DEFINE row == [reg.token[k] EXCEPT !.state = "consumed"]
    <3>row. /\ row \in [state : {"none", "fresh", "expired", "consumed"},
                        tenant : EnrollTenant \cup {Unset}, by : Nat]
            /\ row.state = "consumed" /\ row.tenant = reg.token[k].tenant /\ row.by = reg.token[k].by
      BY <1>0, <2>0 DEF EnrollTypeOK, RegRec
    <3>upd. reg' = [reg EXCEPT !.token[k] = row]
      BY <1>8, <2>2 DEF ConsumeToken
    <3>2. /\ reg' \in RegRec /\ reg'.agent = reg.agent /\ reg'.token[k] = row
          /\ \A l \in EnrollToken \ {k} : reg'.token[l] = reg.token[l]
      BY <1>0, <2>0, <3>row, <3>upd, TokenRow
    <3>3. /\ reg'.token[k].state = "consumed" /\ reg'.token[k].tenant = reg.token[k].tenant
          /\ reg'.token[k].by = reg.token[k].by
      BY <3>2, <3>row
    <3>4. EnrollTypeOK' /\ CaInv'
      BY <1>0, <1>8, <3>1, <3>2, CaQuiet DEF ConsumeToken, EnrollTypeOK
    <3>5. \A a \in DOMAIN reg.agent : reg.agent[a].token \in EnrollToken \ {k}
      BY <1>0, <2>2, AgentRows DEF TokenInv
    <3>6. \A e \in Device : Holds(e) => dev[e].token # k
      BY <1>0, <2>2 DEF TokenInv
    <3>7. mint' = mint /\ mint[k] = Unset
      BY <1>0, <1>8, <2>0, <2>2 DEF TokenInv, ConsumeToken
    <3>8. TokenInv'
      <4> HIDE DEF k, row
      <4>1. \A a \in DOMAIN reg'.agent : reg'.token[reg'.agent[a].token] = reg.token[reg.agent[a].token]
        BY <3>2, <3>5
      <4>2. \A l \in EnrollToken : reg'.token[l].by = reg.token[l].by
        BY <3>2, <3>3
      <4>3. \A l \in EnrollToken : mint'[l] # Unset => reg'.token[l].state = "none"
        BY <1>0, <3>2, <3>7 DEF TokenInv
      <4>4. \A e \in Device \ {d} : Holds(e) =>
              /\ dev'[e] = dev[e] /\ dev[e].token # k
              /\ reg'.token[dev[e].token] = reg.token[dev[e].token]
        BY <2>0, <3>1, <3>2, <3>6
      <4>5. \A e \in Device : dev'[e].pc \in {"by", "sign", "answer"} =>
              HasAgent(e) /\ dev'[e] = dev[e]
        BY <3>1 DEF HasAgent
      <4>6. \A e \in Device : dev'[e].pc \in {"tenant", "insert"} =>
              e = d \/ (Holds(e) /\ dev'[e] = dev[e])
        BY <3>1 DEF Holds
      <4>7. dev'[d].token = k /\ dev'[d].tenant = reg'.token[k].tenant /\ reg'.token[k].state = "consumed"
        BY <3>1, <3>3
      <4>8. \A a \in DOMAIN reg'.agent : reg'.agent[a].token # k
        BY <3>2, <3>5
      <4> QED
        BY <1>0, <3>2, <4>1, <4>2, <4>3, <4>4, <4>5, <4>6, <4>7, <4>8 DEF TokenInv, Holds, HasAgent
    <3>9. Up /\ UNCHANGED <<caFile, srv, ident>>
      BY <1>0, <1>8 DEF ConsumeToken, IdentInv
    <3>10. IdentInv'
      BY <1>0, <3>1, <3>2, <3>9, IdentQuiet DEF IdentInv
    <3> QED
      BY <3>4, <3>8, <3>10 DEF EnrollInv
  <2> QED
    BY <2>1, <2>2
<1>9. ASSUME NEW d \in Device, CheckTenant(d) PROVE EnrollInv'
  <2>1. CASE dev' = [dev EXCEPT ![d] = NoCall(d)]
    <3>1. /\ dev' \in [Device -> DevRec]
          /\ dev'[d].pc = "down" /\ dev'[d].token = dev[d].token
          /\ \A e \in Device \ {d} : dev'[e] = dev[e]
      BY <1>0, <2>1, CallEnds
    <3>2. EnrollTypeOK' /\ CaInv'
      BY <1>0, <1>9, <3>1, CaQuiet DEF CheckTenant, EnrollTypeOK
    <3>3. TokenInv'
      BY <1>0, <1>9, <3>1, TokenQuiet DEF CheckTenant, Holds, HasAgent
    <3>4. IdentInv'
      BY <1>0, <1>9, <3>1, IdentQuiet DEF CheckTenant, IdentInv
    <3> QED
      BY <3>2, <3>3, <3>4 DEF EnrollInv
  <2>2. CASE dev' = [dev EXCEPT ![d].pc = "insert"]
    <3>1. /\ dev' \in [Device -> DevRec]
          /\ dev'[d].pc = "insert" /\ dev'[d].token = dev[d].token /\ dev'[d].tenant = dev[d].tenant
          /\ \A e \in Device \ {d} : dev'[e] = dev[e]
      BY <1>0, <2>2, CallGoes DEF Pcs
    <3>2. EnrollTypeOK' /\ CaInv'
      BY <1>0, <1>9, <3>1, CaQuiet DEF CheckTenant, EnrollTypeOK
    <3>3. TokenInv'
      BY <1>0, <1>9, <3>1, TokenQuiet DEF CheckTenant, Holds, HasAgent
    <3>4. IdentInv'
      BY <1>0, <1>9, <3>1, IdentQuiet DEF CheckTenant, IdentInv
    <3> QED
      BY <3>2, <3>3, <3>4 DEF EnrollInv
  <2> QED
    BY <1>9, <2>1, <2>2 DEF CheckTenant
<1>10. ASSUME NEW d \in Device, InsertAgent(d) PROVE EnrollInv'
  <2> DEFINE a == Len(reg.agent) + 1
             row == [tenant |-> dev[d].tenant, token |-> dev[d].token]
  <2>1. /\ dev[d].token \in EnrollToken /\ dev[d].tenant \in EnrollTenant \cup {Unset}
        /\ reg.agent \in Seq([tenant : EnrollTenant \cup {Unset}, token : EnrollToken])
        /\ row \in [tenant : EnrollTenant \cup {Unset}, token : EnrollToken]
    BY <1>0 DEF EnrollTypeOK, DevRec, RegRec
  <2>2. reg'.agent = Append(reg.agent, row) /\ reg'.token = reg.token /\ reg'.status = reg.status
    BY <1>0, <1>10 DEF InsertAgent, EnrollTypeOK, RegRec
  <2>3. /\ reg'.agent \in Seq([tenant : EnrollTenant \cup {Unset}, token : EnrollToken])
        /\ DOMAIN reg'.agent = DOMAIN reg.agent \cup {a} /\ a \in Nat /\ a \notin DOMAIN reg.agent
        /\ reg'.agent[a] = row /\ \A b \in DOMAIN reg.agent : reg'.agent[b] = reg.agent[b]
    BY <2>1, <2>2, AppendProperties, LenProperties
  <2>4. reg' \in RegRec
    BY <1>0, <1>10, <2>3 DEF InsertAgent, EnrollTypeOK, RegRec
  <2>5. /\ dev' \in [Device -> DevRec]
        /\ dev'[d].pc = "by" /\ dev'[d].token = dev[d].token /\ dev'[d].agent = a
        /\ \A e \in Device \ {d} : dev'[e] = dev[e]
    BY <1>0, <1>10, <2>3, CallInserts DEF InsertAgent
  <2>6. EnrollTypeOK' /\ CaInv'
    BY <1>0, <1>10, <2>4, <2>5, CaQuiet DEF InsertAgent, EnrollTypeOK
  <2>7. /\ reg.token[dev[d].token].state = "consumed"
        /\ reg.token[dev[d].token].tenant = dev[d].tenant
        /\ \A b \in DOMAIN reg.agent : reg.agent[b].token # dev[d].token
        /\ \A e \in Device \ {d} : Holds(e) => dev[e].token # dev[d].token
    BY <1>0, <1>10 DEF InsertAgent, TokenInv, Holds
  <2>8. TokenInv'
    <3> HIDE DEF a, row
    <3>1. row.token = dev[d].token /\ row.tenant = dev[d].tenant
      BY DEF row
    <3>2. mint' = mint
      BY <1>10 DEF InsertAgent
    <3>3. /\ \A b \in DOMAIN reg'.agent : reg'.token[reg'.agent[b].token].state = "consumed"
          /\ \A b \in DOMAIN reg'.agent : reg'.agent[b].tenant = reg'.token[reg'.agent[b].token].tenant
      BY <1>0, <2>2, <2>3, <2>7, <3>1 DEF TokenInv
    <3>4. \A b, c \in DOMAIN reg'.agent : reg'.agent[b].token = reg'.agent[c].token => b = c
      BY <1>0, <2>3, <2>7, <3>1 DEF TokenInv
    <3>5. \A k \in EnrollToken : reg'.token[k].by # Unset =>
            reg'.token[k].by \in DOMAIN reg'.agent /\ reg'.agent[reg'.token[k].by].token = k
      BY <1>0, <2>2, <2>3 DEF TokenInv
    <3>6. \A e \in Device : dev'[e].pc \in {"tenant", "insert"} =>
             /\ e # d /\ Holds(e) /\ dev'[e] = dev[e]
             /\ \A b \in DOMAIN reg'.agent : reg'.agent[b].token # dev[e].token
      BY <1>0, <2>3, <2>5, <2>7, <3>1 DEF TokenInv, Holds
    <3>7. \A e \in Device : dev'[e].pc \in {"by", "sign", "answer"} =>
            dev'[e].agent \in DOMAIN reg'.agent /\ reg'.agent[dev'[e].agent].token = dev'[e].token
      BY <1>0, <2>3, <2>5, <3>1 DEF TokenInv, HasAgent
    <3> QED
      BY <1>0, <2>2, <3>2, <3>3, <3>4, <3>5, <3>6, <3>7 DEF TokenInv, Holds, HasAgent
  <2>9. IdentInv'
    BY <1>0, <1>10, <2>3, <2>5 DEF InsertAgent, IdentInv, Up
  <2> QED
    BY <2>6, <2>8, <2>9 DEF EnrollInv
<1>11. ASSUME NEW d \in Device, SetConsumedBy(d) PROVE EnrollInv'
  <2> DEFINE k == dev[d].token
  <2>1. /\ k \in EnrollToken /\ dev[d].agent \in Nat
        /\ dev[d].agent \in DOMAIN reg.agent /\ reg.agent[dev[d].agent].token = k
    BY <1>0, <1>11 DEF SetConsumedBy, EnrollTypeOK, DevRec, TokenInv, HasAgent
  <2> DEFINE row == [reg.token[k] EXCEPT !.by = dev[d].agent]
  <2>row. /\ row \in [state : {"none", "fresh", "expired", "consumed"},
                      tenant : EnrollTenant \cup {Unset}, by : Nat]
          /\ row.state = reg.token[k].state /\ row.tenant = reg.token[k].tenant /\ row.by = dev[d].agent
    BY <1>0, <2>1 DEF EnrollTypeOK, RegRec
  <2>upd. reg' = [reg EXCEPT !.token[k] = row]
    BY <1>11 DEF SetConsumedBy
  <2>2. /\ reg' \in RegRec /\ reg'.agent = reg.agent /\ reg'.token[k] = row
        /\ \A l \in EnrollToken \ {k} : reg'.token[l] = reg.token[l]
    BY <1>0, <2>1, <2>row, <2>upd, TokenRow
  <2>3. /\ reg'.token[k].state = reg.token[k].state /\ reg'.token[k].tenant = reg.token[k].tenant
        /\ reg'.token[k].by = dev[d].agent
        /\ \A l \in EnrollToken \ {k} : reg'.token[l] = reg.token[l]
    BY <2>2, <2>row
  <2>4. /\ dev' \in [Device -> DevRec]
        /\ dev'[d].pc = "sign" /\ dev'[d].token = k /\ dev'[d].agent = dev[d].agent
        /\ \A e \in Device \ {d} : dev'[e] = dev[e]
    BY <1>0, <1>11, CallGoes DEF SetConsumedBy, Pcs
  <2>5. EnrollTypeOK' /\ CaInv'
    BY <1>0, <1>11, <2>2, <2>4, CaQuiet DEF SetConsumedBy, EnrollTypeOK
  <2>6. /\ \A b \in DOMAIN reg.agent : reg.agent[b].token \in EnrollToken
        /\ \A e \in Device : dev[e].token \in EnrollToken
    BY <1>0, AgentRows DEF EnrollTypeOK, DevRec
  <2>7. /\ mint' = mint
        /\ \A l \in EnrollToken : /\ reg'.token[l].state = reg.token[l].state
                                  /\ reg'.token[l].tenant = reg.token[l].tenant
    BY <1>11, <2>3 DEF SetConsumedBy
  <2>8. TokenInv'
    <3> HIDE DEF k, row
    <3>1. \A l \in EnrollToken : reg'.token[l].by # Unset =>
            reg'.token[l].by \in DOMAIN reg'.agent /\ reg'.agent[reg'.token[l].by].token = l
      BY <1>0, <2>1, <2>2, <2>3 DEF TokenInv
    <3>2. \A e \in Device :
            /\ dev'[e].token = dev[e].token
            /\ dev'[e].pc \in {"tenant", "insert"} => Holds(e) /\ dev'[e].tenant = dev[e].tenant
            /\ dev'[e].pc \in {"by", "sign", "answer"} => HasAgent(e) /\ dev'[e].agent = dev[e].agent
      BY <1>11, <2>4 DEF SetConsumedBy, Holds, HasAgent, k
    <3> QED
      BY <1>0, <2>2, <2>6, <2>7, <3>1, <3>2 DEF TokenInv, Holds, HasAgent
  <2>9. IdentInv'
    BY <1>0, <1>11, <2>2, <2>4, IdentQuiet DEF SetConsumedBy, IdentInv
  <2> QED
    BY <2>5, <2>8, <2>9 DEF EnrollInv
<1>12. ASSUME NEW d \in Device, sign_client_cert(d) PROVE EnrollInv'
  <2>0. Up /\ srv.ca["ca.pem"] # Torn /\ srv.ca["ca-key.pem"] # Torn
    BY <1>0, <1>12 DEF sign_client_cert, IdentInv, CaInv
  <2>1. srv.ca["ca-key.pem"] \in Int
    BY <1>0, CaFileFacts DEF EnrollTypeOK, SrvRec
  <2>2. /\ dev' \in [Device -> DevRec]
        /\ dev'[d].pc = "answer" /\ dev'[d].token = dev[d].token /\ dev'[d].agent = dev[d].agent
        /\ dev'[d].reply = srv.ca["ca-key.pem"]
        /\ \A e \in Device \ {d} : dev'[e] = dev[e]
    BY <1>0, <1>12, <2>0, <2>1 DEF sign_client_cert, EnrollTypeOK, DevRec, Pcs
  <2>3. EnrollTypeOK' /\ CaInv'
    BY <1>0, <1>12, <2>2, CaQuiet DEF sign_client_cert, EnrollTypeOK
  <2>4. TokenInv'
    BY <1>0, <1>12, <2>2, TokenQuiet DEF sign_client_cert, Holds, HasAgent
  <2>5. IdentInv'
    BY <1>0, <1>12, <2>2, IdentQuiet DEF sign_client_cert, IdentInv
  <2> QED
    BY <2>3, <2>4, <2>5 DEF EnrollInv
<1>13. ASSUME NEW d \in Device, set_identity_many(d) PROVE EnrollInv'
  <2>1. /\ dev' \in [Device -> DevRec]
        /\ dev'[d].pc = "ready" /\ dev'[d].token = dev[d].token
        /\ \A e \in Device \ {d} : dev'[e] = dev[e]
    <3>1. PICK v : v = NoCall(d)
      OBVIOUS
    <3>2. v \in DevRec /\ v.token = dev[d].token
      BY <1>0, <3>1, NoCallFields
    <3>3. PICK w : w = [v EXCEPT !.pc = "ready"]
      OBVIOUS
    <3>4. w \in DevRec /\ w.pc = "ready" /\ w.token = dev[d].token
      BY <3>2, <3>3 DEF DevRec, Pcs
    <3>5. dev' = [dev EXCEPT ![d] = w]
      BY <1>13, <3>1, <3>3 DEF set_identity_many
    <3> QED
      BY <1>0, <3>4, <3>5 DEF EnrollTypeOK
  <2>2. /\ Up /\ srv.ca = caFile /\ caFile["server-key.pem"] # 0
        /\ caFile["ca-key.pem"] = caFile["ca.pem"]
        /\ dev[d].reply = caFile["ca-key.pem"]
    BY <1>0, <1>13, CaFileFacts DEF set_identity_many, IdentInv, CaInv
  <2>3. /\ dev[d].agent \in DOMAIN reg.agent /\ reg.agent[dev[d].agent].token = dev[d].token
        /\ dev[d].agent \in Nat /\ dev[d].agent # Unset
    BY <1>0, <1>13, LenProperties DEF set_identity_many, TokenInv, HasAgent, EnrollTypeOK, RegRec
  <2>4. /\ caFile["ca.pem"] \in Int
        /\ ident' = [ident EXCEPT ![d] = [agent |-> dev[d].agent, bearer |-> dev[d].agent,
                                          ca |-> caFile["ca.pem"], cert |-> caFile["ca.pem"]]]
    BY <1>0, <1>13, <2>2, CaFileFacts DEF set_identity_many, EnrollTypeOK
  <2>5. EnrollTypeOK' /\ CaInv'
    BY <1>0, <1>13, <2>1, <2>3, <2>4, CaQuiet DEF set_identity_many, EnrollTypeOK
  <2>6. TokenInv'
    BY <1>0, <1>13, <2>1, TokenQuiet DEF set_identity_many, Holds, HasAgent
  <2>7. /\ ident'[d].agent = dev[d].agent
        /\ ident'[d].ca = caFile["ca.pem"] /\ ident'[d].cert = caFile["ca.pem"]
        /\ \A e \in Device \ {d} : ident'[e] = ident[e]
    BY <1>0, <2>4 DEF EnrollTypeOK
  <2>8. IdentInv'
    BY <1>0, <1>13, <2>1, <2>2, <2>3, <2>7 DEF set_identity_many, IdentInv, Up
  <2> QED
    BY <2>5, <2>6, <2>8 DEF EnrollInv
<1>14. ASSUME NEW d \in Device, EnrollDropped(d) PROVE EnrollInv'
  <2>1. /\ dev' \in [Device -> DevRec]
        /\ dev'[d].pc = "down" /\ dev'[d].token = dev[d].token
        /\ \A e \in Device \ {d} : dev'[e] = dev[e]
    BY <1>0, <1>14, CallEnds DEF EnrollDropped
  <2>3. EnrollTypeOK' /\ CaInv'
    BY <1>0, <1>14, <2>1, CaQuiet DEF EnrollDropped, EnrollTypeOK
  <2>4. TokenInv'
    BY <1>0, <1>14, <2>1, TokenQuiet DEF EnrollDropped, Holds, HasAgent
  <2>5. IdentInv'
    BY <1>0, <1>14, <2>1, IdentQuiet DEF EnrollDropped, IdentInv
  <2> QED
    BY <2>3, <2>4, <2>5 DEF EnrollInv
<1>15. CASE UNCHANGED <<reg, caFile, srv, mint, dev, ident>>
  BY <1>0, <1>15 DEF EnrollInv, EnrollTypeOK, TokenInv, CaInv, IdentInv, Holds, HasAgent, Up
<1> QED
  BY <1>1, <1>2, <1>3, <1>4, <1>5, <1>6, <1>7, <1>8, <1>9, <1>10, <1>11, <1>12, <1>13, <1>14, <1>15
     DEF EnrollmentNext, EnrollmentVars, ClientCertExpires, ServerCertExpires

LEMMA EnrollInvariant == EnrollmentSpec => []EnrollInv
<1>1. EnrollmentInit => EnrollInv
  <2> SUFFICES ASSUME EnrollmentInit PROVE EnrollInv
    OBVIOUS
  <2>1. EnrollTypeOK
    BY DEF EnrollmentInit, EnrollTypeOK, RegRec, SrvRec, DevRec, Pcs, NoCa, NoIdentity, Unset
  <2>2. TokenInv /\ CaInv /\ IdentInv
    BY CaFileFacts DEF EnrollmentInit, TokenInv, CaInv, IdentInv, Holds, HasAgent, NoCa, NoIdentity, Unset, Up
  <2> QED
    BY <2>1, <2>2 DEF EnrollInv
<1>2. EnrollInv /\ [EnrollmentNext]_EnrollmentVars => EnrollInv'
  BY EnrollStep
<1> QED
  BY <1>1, <1>2, PTL DEF EnrollmentSpec

\* A one-time token admits one agent, in the tenant it was made for, for any
\* number of devices that call enroll with it at once, again or after a
\* crash: the UPDATE that takes the token is the only way to an agent row.
THEOREM EnrollmentSafe == EnrollmentSpec => []TokenAdmitsOne
<1>1. EnrollInv => TokenAdmitsOne
  BY AgentRows DEF EnrollInv, TokenInv, TokenAdmitsOne
<1> QED
  BY <1>1, EnrollInvariant, PTL

\* An agent that starts with a stored identity is known to the server and
\* holds a certificate and a root of its CA, however often the server died
\* before, in and between the writes of load_or_create_ca; and the two accept
\* each other, unless a certificate has expired or the server's key was torn.
THEOREM IdentitySafe == EnrollmentSpec => []IdentityUsable
<1>1. EnrollInv => IdentityUsable
  BY DEF EnrollInv, CaInv, IdentInv, IdentityUsable, Handshake, server_config, Up, Unset
<1> QED
  BY <1>1, EnrollInvariant, PTL
=============================================================================
