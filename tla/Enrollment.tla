----------------------------- MODULE Enrollment -----------------------------
(***************************************************************************)
(* How an agent gets its identity: the server's deployment CA (four files  *)
(* created and then filled one by one), one-time enrollment tokens, the    *)
(* enroll handler statement by statement, and the agent's ensure_identity. *)
(* Handlers are dropped, answers lost, server and agents restarted at any  *)
(* step; tenants are suspended, tokens and certificates expire meanwhile.  *)
(***************************************************************************)
EXTENDS Integers, FiniteSets, Sequences

CONSTANTS Device, EnrollToken, EnrollTenant,
          MaxAgents,       \* bound: agent rows ever inserted
          MaxCa,           \* bound: certificate authorities ever generated
          MaxEnrollFaults  \* bound: dropped handlers, lost answers, restarts

ASSUME EnrollmentAssumption ==
    /\ {MaxAgents, MaxCa} \subseteq Nat \ {0}
    /\ MaxEnrollFaults \in Nat

VARIABLES
    reg,     \* [status, token, agent]: tenant, enrollment_token and agent rows
    caFile,  \* CA file -> generation of its content, 0 when absent, or Torn
    srv,     \* [pc, gen, ca]: the server process and the CA it has in memory
    mint,    \* token -> tenant a create_enrollment_token call has resolved
    dev,     \* device -> [token, pc, tenant, agent, reply]: an enroll call
    ident,   \* device -> identity in its state database
    expired, \* certificates past their not_after
    efault   \* faults so far

EnrollmentVars == <<reg, caFile, srv, mint, dev, ident, expired, efault>>

Unset == 0
Torn == -1  \* created, and not or not wholly written
CaFiles == <<"ca.pem", "ca-key.pem", "server.pem", "server-key.pem">>
CaFileSet == {CaFiles[i] : i \in DOMAIN CaFiles}
NoCa == [f \in CaFileSet |-> 0]
NoCall(d) == [dev[d] EXCEPT !.pc = "down", !.tenant = Unset, !.agent = Unset, !.reply = Unset]
NoIdentity == [agent |-> Unset, bearer |-> Unset, ca |-> 0, cert |-> 0]
EnrollFault == efault < MaxEnrollFaults /\ efault' = efault + 1
Up == srv.pc = "up"

(***************************************************************************)
(* mtls::load_or_create_ca, at every start of the server.                  *)
(***************************************************************************)
\* Mutant: only the two CA files are looked for.
CaComplete_CaOnly == \A f \in {"ca.pem", "ca-key.pem"} : caFile[f] # 0
CaComplete == \A f \in CaFileSet : caFile[f] # 0

load_or_create_ca ==
    /\ srv.pc = "down"
    /\ IF CaComplete
       THEN srv' = [srv EXCEPT !.pc = "up", !.ca = caFile]
       ELSE /\ srv.gen < MaxCa
            /\ srv' = [srv EXCEPT !.pc = "create", !.gen = @ + 1]
    /\ UNCHANGED <<reg, caFile, mint, dev, ident, expired, efault>>

\* The files are written in order.
NextCaFile(i) ==
    caFile[CaFiles[i]] # srv.gen /\ \A j \in 1..(i - 1) : caFile[CaFiles[j]] = srv.gen

\* fs::write creates or truncates the file ...
CreateFile ==
    /\ srv.pc = "create"
    /\ \E i \in DOMAIN CaFiles :
         NextCaFile(i) /\ caFile' = [caFile EXCEPT ![CaFiles[i]] = Torn]
    /\ srv' = [srv EXCEPT !.pc = "write"]
    /\ UNCHANGED <<reg, mint, dev, ident, expired, efault>>

\* ... and then writes it; the CA is in use once all four are written.
write_0600 ==
    /\ srv.pc = "write"
    /\ \E i \in DOMAIN CaFiles :
         /\ NextCaFile(i)
         /\ caFile' = [caFile EXCEPT ![CaFiles[i]] = srv.gen]
         /\ srv' = IF i = Len(CaFiles) THEN [srv EXCEPT !.pc = "up", !.ca = caFile']
                   ELSE [srv EXCEPT !.pc = "create"]
    /\ UNCHANGED <<reg, mint, dev, ident, expired, efault>>

\* Or the disk is full: load_or_create_ca gives up and the server ends.
ServerCrash ==
    /\ srv.pc # "down"
    /\ EnrollFault
    /\ srv' = [srv EXCEPT !.pc = "down", !.ca = NoCa]
    /\ mint' = [k \in EnrollToken |-> Unset]
    /\ dev' = [d \in Device |-> IF dev[d].pc = "ready" THEN dev[d] ELSE NoCall(d)]
    /\ UNCHANGED <<reg, caFile, ident, expired>>

(***************************************************************************)
(* Operators: tenants are suspended by hand, tokens minted by corpusctl.   *)
(***************************************************************************)
SuspendTenant(t) ==
    /\ reg.status[t] = "active"
    /\ reg' = [reg EXCEPT !.status[t] = "suspended"]
    /\ UNCHANGED <<caFile, srv, mint, dev, ident, expired, efault>>

\* resolve_tenant, then the insert, in separate statements.
ResolveForToken(k, t) ==
    /\ Up /\ mint[k] = Unset /\ reg.token[k].state = "none"
    /\ reg.status[t] = "active"
    /\ mint' = [mint EXCEPT ![k] = t]
    /\ UNCHANGED <<reg, caFile, srv, dev, ident, expired, efault>>

create_enrollment_token(k) ==
    /\ Up /\ mint[k] # Unset
    /\ reg' = [reg EXCEPT !.token[k] = [state |-> "fresh", tenant |-> mint[k], by |-> Unset]]
    /\ mint' = [mint EXCEPT ![k] = Unset]
    /\ UNCHANGED <<caFile, srv, dev, ident, expired, efault>>

TokenExpires(k) ==
    /\ reg.token[k].state = "fresh"
    /\ reg' = [reg EXCEPT !.token[k].state = "expired"]
    /\ UNCHANGED <<caFile, srv, mint, dev, ident, expired, efault>>

(***************************************************************************)
(* ensure_identity on the agent, and the enroll handler it calls.          *)
(***************************************************************************)
ensure_identity(d) ==
    /\ dev[d].pc = "down"
    /\ IF ident[d].agent # Unset /\ ident[d].bearer # Unset
       THEN dev' = [dev EXCEPT ![d].pc = "ready"]
       ELSE Up /\ dev' = [dev EXCEPT ![d].pc = "consume"]
    /\ UNCHANGED <<reg, caFile, srv, mint, ident, expired, efault>>

\* One statement takes the token; a taken or expired one is refused.
\* Mutant: the token is looked up here and marked with consumed_by only.
ConsumeToken_Lookup(d) ==
    LET k == dev[d].token IN
    /\ dev[d].pc = "consume"
    /\ IF reg.token[k].state = "fresh"
       THEN dev' = [dev EXCEPT ![d].pc = "tenant", ![d].tenant = reg.token[k].tenant]
       ELSE dev' = [dev EXCEPT ![d] = NoCall(d)]
    /\ UNCHANGED <<reg, caFile, srv, mint, ident, expired, efault>>
ConsumeToken(d) ==
    LET k == dev[d].token IN
    /\ dev[d].pc = "consume"
    /\ IF reg.token[k].state = "fresh"
       THEN /\ reg' = [reg EXCEPT !.token[k].state = "consumed"]
            /\ dev' = [dev EXCEPT ![d].pc = "tenant", ![d].tenant = reg.token[k].tenant]
       ELSE dev' = [dev EXCEPT ![d] = NoCall(d)] /\ UNCHANGED reg
    /\ UNCHANGED <<caFile, srv, mint, ident, expired, efault>>

CheckTenant(d) ==
    /\ dev[d].pc = "tenant"
    /\ dev' = IF reg.status[dev[d].tenant] = "active"
              THEN [dev EXCEPT ![d].pc = "insert"] ELSE [dev EXCEPT ![d] = NoCall(d)]
    /\ UNCHANGED <<reg, caFile, srv, mint, ident, expired, efault>>

InsertAgent(d) ==
    LET a == Len(reg.agent) + 1 IN
    /\ dev[d].pc = "insert"
    /\ a <= MaxAgents
    /\ reg' = [reg EXCEPT !.agent = Append(@, [tenant |-> dev[d].tenant, token |-> dev[d].token])]
    /\ dev' = [dev EXCEPT ![d].pc = "by", ![d].agent = a]
    /\ UNCHANGED <<caFile, srv, mint, ident, expired, efault>>

SetConsumedBy(d) ==
    /\ dev[d].pc = "by"
    /\ reg' = [reg EXCEPT !.token[dev[d].token].by = dev[d].agent]
    /\ dev' = [dev EXCEPT ![d].pc = "sign"]
    /\ UNCHANGED <<caFile, srv, mint, ident, expired, efault>>

\* The certificate chains to the CA whose key signed it.  A key or root that
\* cannot be read ends the call, with the token taken.
sign_client_cert(d) ==
    /\ dev[d].pc = "sign"
    /\ dev' = IF Torn \in {srv.ca["ca.pem"], srv.ca["ca-key.pem"]} THEN [dev EXCEPT ![d] = NoCall(d)]
              ELSE [dev EXCEPT ![d].pc = "answer", ![d].reply = srv.ca["ca-key.pem"]]
    /\ UNCHANGED <<reg, caFile, srv, mint, ident, expired, efault>>

\* set_identity_many: all five values in one transaction.
set_identity_many(d) ==
    /\ dev[d].pc = "answer"
    /\ ident' = [ident EXCEPT ![d] = [agent |-> dev[d].agent, bearer |-> dev[d].agent,
                                      ca |-> srv.ca["ca.pem"], cert |-> dev[d].reply]]
    /\ dev' = [dev EXCEPT ![d] = [NoCall(d) EXCEPT !.pc = "ready"]]
    /\ UNCHANGED <<reg, caFile, srv, mint, expired, efault>>

\* The handler is dropped, its answer lost or the agent restarted.
EnrollDropped(d) ==
    /\ dev[d].pc # "down"
    /\ EnrollFault
    /\ dev' = [dev EXCEPT ![d] = NoCall(d)]
    /\ UNCHANGED <<reg, caFile, srv, mint, ident, expired>>
(***************************************************************************)
(* Certificates.  A client certificate is valid for 30 days, the server's  *)
(* for 365; load_or_create_ca keeps the latter whatever its age, and no    *)
(* code of the agent calls /agents/renew.                                  *)
(***************************************************************************)
ClientCertExpires(d) ==
    /\ ident[d].agent # Unset
    /\ expired' = expired \cup {<<"client", ident[d].agent>>}
    /\ UNCHANGED <<reg, caFile, srv, mint, dev, ident, efault>>

ServerCertExpires ==
    /\ caFile["server.pem"] \notin {0, Torn}
    /\ expired' = expired \cup {<<"server", caFile["server.pem"]>>}
    /\ UNCHANGED <<reg, caFile, srv, mint, dev, ident, efault>>

\* run_agent_listener: server_config fails on a file that cannot be parsed,
\* and then there is no agent listener until the server is started again.
server_config == Up /\ Torn \notin {srv.ca["ca.pem"], srv.ca["server.pem"], srv.ca["server-key.pem"]}

\* The two ends accept each other's certificates.
Handshake(d) ==
    /\ server_config
    /\ srv.ca["server.pem"] = ident[d].ca /\ srv.ca["server-key.pem"] = srv.ca["server.pem"]
    /\ ident[d].cert = srv.ca["ca.pem"]
    /\ <<"server", srv.ca["server.pem"]>> \notin expired
    /\ <<"client", ident[d].agent>> \notin expired
----------------------------------------------------------------------------
EnrollmentInit ==
    /\ reg = [status |-> [t \in EnrollTenant |-> "active"],
              token |-> [k \in EnrollToken |-> [state |-> "none", tenant |-> Unset, by |-> Unset]],
              agent |-> <<>>]
    /\ caFile = NoCa
    /\ srv = [pc |-> "down", gen |-> 0, ca |-> NoCa]
    /\ mint = [k \in EnrollToken |-> Unset]
    /\ \E cfg \in [Device -> EnrollToken] :
         dev = [d \in Device |-> [token |-> cfg[d], pc |-> "down", tenant |-> Unset,
                                  agent |-> Unset, reply |-> Unset]]
    /\ ident = [d \in Device |-> NoIdentity]
    /\ expired = {}
    /\ efault = 0

EnrollmentNext ==
    \/ load_or_create_ca \/ CreateFile \/ write_0600 \/ ServerCrash \/ ServerCertExpires
    \/ \E t \in EnrollTenant : SuspendTenant(t)
    \/ \E k \in EnrollToken, t \in EnrollTenant : ResolveForToken(k, t)
    \/ \E k \in EnrollToken : create_enrollment_token(k) \/ TokenExpires(k)
    \/ \E d \in Device : \/ ensure_identity(d) \/ ConsumeToken(d) \/ CheckTenant(d)
                         \/ InsertAgent(d) \/ SetConsumedBy(d) \/ sign_client_cert(d)
                         \/ set_identity_many(d) \/ EnrollDropped(d) \/ ClientCertExpires(d)

EnrollmentSpec == EnrollmentInit /\ [][EnrollmentNext]_EnrollmentVars
----------------------------------------------------------------------------
\* A one-time token admits one agent, however many devices hold it, retry
\* with it or call at once; the agent belongs to the tenant of the token.
TokenAdmitsOne ==
    /\ \A a, b \in DOMAIN reg.agent : reg.agent[a].token = reg.agent[b].token => a = b
    /\ \A a \in DOMAIN reg.agent :
         LET k == reg.token[reg.agent[a].token] IN
         reg.agent[a].tenant = k.tenant /\ k.by \in {Unset, a}

\* An agent that starts with the identity in its database can use it, over
\* restarts of both ends and a CA that was written only in part: the server
\* knows the agent, and the certificate and the pinned root belong to the CA
\* of the running server.  The two ends accept each other then, but for three
\* cases that no code repairs: either certificate has expired, or the start
\* that made the CA died in its last write.  The torn server-key.pem is found
\* by every later start and taken for complete, and no agent listener starts;
\* no other file of a CA in use is ever torn or of another generation.
IdentityUsable ==
    /\ Up => LET ca == srv.ca["ca.pem"] IN
             /\ ca \notin {0, Torn} /\ srv.ca["ca-key.pem"] = ca /\ srv.ca["server.pem"] = ca
             /\ srv.ca["server-key.pem"] \in {ca, Torn}
    /\ \A d \in Device : dev[d].pc = "ready" =>
         /\ ident[d].agent \in DOMAIN reg.agent
         /\ reg.agent[ident[d].agent].token = dev[d].token
         /\ Up => /\ ident[d].ca = srv.ca["ca.pem"] /\ ident[d].cert = srv.ca["ca.pem"]
                  /\ \/ Handshake(d)
                     \/ <<"client", ident[d].agent>> \in expired
                     \/ <<"server", srv.ca["server.pem"]>> \in expired
                     \/ srv.ca["server-key.pem"] = Torn
=============================================================================
