------------------------------- MODULE Ingest -------------------------------
(***************************************************************************)
(* The announce / stage / finalize protocol of corpus-core (ingest.rs) over *)
(* the filesystem content-addressed store (cas.rs).  Handlers run           *)
(* concurrently; each await or filesystem call of a handler is one step,    *)
(* and a handler may be dropped between any two of them (a client           *)
(* disconnect, or a server crash, which drops every handler).               *)
(* A database transaction is one step.  Requests the server rejects before  *)
(* it changes anything take no step.                                        *)
(***************************************************************************)
CONSTANTS
    Tenants,    \* tenant ids
    Uploads,    \* upload session ids (bounds the number of sessions)
    Requests,   \* handlers that can be in flight at once
    Bytes,      \* file contents
    Hashes,     \* SHA-256 digests
    Sizes,      \* values of size_bytes
    OccKeys,    \* occurrence identities (agent, boot, sequence)
    Announces,  \* the announce requests clients send
    Finalizes,  \* the finalize requests clients send
    sha256,     \* the digest of each content
    len,        \* the size of each content
    None        \* absent row, file or field

(***************************************************************************)
(* Types                                                                   *)
(***************************************************************************)
States   == {"open", "committed", "failed"}
Scopes   == {"endpoint", "intel"}
Outcomes == {"CAPTURED", "ALREADY_PRESENT", "HASH_MISMATCH"}
Keys     == Tenants \X Hashes
OccOpt   == OccKeys \cup {None}

\* A request may name a scope that is neither of the two (FinalizeRequest.scope
\* is a string); "other" stands for all of those.
ScopeInputs == Scopes \cup {"other"}

AnnounceInputs == [sha: Hashes, occ: OccOpt]
FinalizeInputs == [sha: Hashes, size: Sizes, scope: ScopeInputs, occ: OccOpt]

FinalizePcs == {"read", "size_discard", "mark_failed", "mismatch_tx",
                "mismatch_discard", "scope_discard", "exists", "remove",
                "rename", "commit_tx", "hooks"}

Idle == [pc |-> "idle"]
AnnounceReq == [pc: {"record", "open"}, tenant: Tenants, args: AnnounceInputs]
StageReq    == [pc: {"stage"}, tenant: Tenants, upload: Uploads, bytes: Bytes]
FinalizeReq == [pc: FinalizePcs, tenant: Tenants, upload: Uploads,
                args: FinalizeInputs, bytes: Bytes \cup {None}]

ASSUME IngestAssumption ==
    /\ sha256 \in [Bytes -> Hashes]
    /\ len \in [Bytes -> Sizes]
    /\ Announces \subseteq AnnounceInputs
    /\ Finalizes \subseteq FinalizeInputs
    /\ None \notin Tenants \cup Uploads \cup Bytes \cup Hashes \cup OccKeys
                    \cup ScopeInputs \cup States

VARIABLES
    state,      \* upload_session.state of each session, None before INSERT
    owner,      \* upload_session.tenant_id
    staging,    \* staging/{upload}: the staged content, None when no file
    objects,    \* objects/{tenant}/{sha256}: the stored content
    artifact,   \* artifact rows: the scope of each <<tenant, sha256>>
    ledger,     \* occurrence_event rows: the digest of each <<tenant, key>>
    attempts,   \* capture_attempt rows
    req,        \* the locals of each handler
    uploaded,   \* history: <<tenant, content>> pairs ever written to staging
    origin,     \* history: the session whose file was renamed to the object
    overlapped  \* history: sessions with two stage/finalize calls in flight

vars == <<state, owner, staging, objects, artifact, ledger, attempts, req,
          uploaded, origin, overlapped>>

database == <<state, owner, artifact, ledger, attempts>>
history  == <<uploaded, origin, overlapped>>

\* Only known scopes get past the checks of finalize.
AcceptedScope ==
    \A r \in Requests : req[r].pc \in {"exists", "remove", "rename", "commit_tx"} =>
                            req[r].args.scope \in Scopes

\* The types of the tables, files and handlers; a row never has a scope the
\* server does not know.
TypeOK ==
    /\ state \in [Uploads -> States \cup {None}]
    /\ owner \in [Uploads -> Tenants \cup {None}]
    /\ staging \in [Uploads -> Bytes \cup {None}]
    /\ objects \in [Keys -> Bytes \cup {None}]
    /\ artifact \in [Keys -> Scopes \cup {None}]
    /\ ledger \in [Tenants \X OccKeys -> Hashes \cup {None}]
    /\ attempts \subseteq [tenant: Tenants, outcome: Outcomes, sha: Hashes]
    /\ req \in [Requests -> {Idle} \cup AnnounceReq \cup StageReq \cup FinalizeReq]
    /\ uploaded \subseteq Tenants \X Bytes
    /\ origin \in [Keys -> Uploads \cup {None}]
    /\ overlapped \subseteq Uploads
    /\ AcceptedScope

Init ==
    /\ state = [u \in Uploads |-> None]
    /\ owner = [u \in Uploads |-> None]
    /\ staging = [u \in Uploads |-> None]
    /\ objects = [k \in Keys |-> None]
    /\ artifact = [k \in Keys |-> None]
    /\ ledger = [o \in Tenants \X OccKeys |-> None]
    /\ attempts = {}
    /\ req = [r \in Requests |-> Idle]
    /\ uploaded = {}
    /\ origin = [k \in Keys |-> None]
    /\ overlapped = {}

(***************************************************************************)
(* Helpers                                                                 *)
(***************************************************************************)
object_key(tenant, sha) == <<tenant, sha>>

\* A stage or finalize handler is past its session lookup and works on u.
Busy(r, u) == req[r].pc \in FinalizePcs \cup {"stage"} /\ req[r].upload = u

Overlap(u) == IF \E q \in Requests : Busy(q, u) THEN {u} ELSE {}

Goto(r, pc) == req' = [req EXCEPT ![r].pc = pc]
Return(r)   == req' = [req EXCEPT ![r] = Idle]

\* The session lookup of stage_upload and finalize: by id and tenant, open.
FindOpen_AnyTenant(tenant, u) == state[u] = "open"
FindOpen_AnyState(tenant, u) == owner[u] = tenant
FindOpen(tenant, u) == owner[u] = tenant /\ state[u] = "open"

\* ON CONFLICT (tenant, agent, boot, sequence) DO NOTHING.
insert_occurrence_Upsert(tenant, occ, sha) ==
    ledger' = IF occ = None THEN ledger
              ELSE [ledger EXCEPT ![<<tenant, occ>>] = sha]
insert_occurrence(tenant, occ, sha) ==
    ledger' = IF occ = None \/ ledger[<<tenant, occ>>] # None THEN ledger
              ELSE [ledger EXCEPT ![<<tenant, occ>>] = sha]

insert_capture_attempt(tenant, outcome, sha) ==
    attempts' = attempts \cup {[tenant |-> tenant, outcome |-> outcome, sha |-> sha]}

discard_staging(u) == staging' = [staging EXCEPT ![u] = None]

verify_upload(bytes, announced) == sha256[bytes] = announced

(***************************************************************************)
(* announce                                                                *)
(***************************************************************************)
\* The dedup SELECT decides which of the two writes follows.
AnnounceSelect_AnyTenant(r, tenant, a) ==
    /\ req[r] = Idle
    /\ req' = [req EXCEPT ![r] =
          [pc |-> IF \E t \in Tenants : artifact[object_key(t, a.sha)] # None
                  THEN "record" ELSE "open",
           tenant |-> tenant, args |-> a]]
    /\ UNCHANGED <<database, staging, objects, history>>
AnnounceSelect(r, tenant, a) ==
    /\ req[r] = Idle
    /\ req' = [req EXCEPT ![r] =
          [pc |-> IF artifact[object_key(tenant, a.sha)] # None THEN "record" ELSE "open",
           tenant |-> tenant, args |-> a]]
    /\ UNCHANGED <<database, staging, objects, history>>

\* Dedup hit: occurrence and capture attempt in one transaction.
AnnounceRecord(r) ==
    /\ req[r].pc = "record"
    /\ insert_occurrence(req[r].tenant, req[r].args.occ, req[r].args.sha)
    /\ insert_capture_attempt(req[r].tenant, "ALREADY_PRESENT", req[r].args.sha)
    /\ Return(r)
    /\ UNCHANGED <<state, owner, artifact, staging, objects, history>>

\* Otherwise a session with a fresh id is opened.
AnnounceOpen(r) ==
    /\ req[r].pc = "open"
    /\ \E u \in Uploads :
          /\ state[u] = None
          /\ state' = [state EXCEPT ![u] = "open"]
          /\ owner' = [owner EXCEPT ![u] = req[r].tenant]
    /\ Return(r)
    /\ UNCHANGED <<artifact, ledger, attempts, staging, objects, history>>

(***************************************************************************)
(* stage_upload                                                            *)
(***************************************************************************)
StageSelect(r, tenant, u, bytes) ==
    /\ req[r] = Idle
    /\ FindOpen(tenant, u)
    /\ req' = [req EXCEPT ![r] = [pc |-> "stage", tenant |-> tenant,
                                  upload |-> u, bytes |-> bytes]]
    /\ overlapped' = overlapped \cup Overlap(u)
    /\ UNCHANGED <<database, staging, objects, uploaded, origin>>

StageWrite(r) ==
    /\ req[r].pc = "stage"
    /\ staging' = [staging EXCEPT ![req[r].upload] = req[r].bytes]
    /\ uploaded' = uploaded \cup {<<req[r].tenant, req[r].bytes>>}
    /\ Return(r)
    /\ UNCHANGED <<database, objects, origin, overlapped>>

(***************************************************************************)
(* finalize                                                                *)
(***************************************************************************)
FinalizeSelect(r, tenant, u, f) ==
    /\ req[r] = Idle
    /\ FindOpen(tenant, u)
    /\ req' = [req EXCEPT ![r] =
          [pc |-> "read", tenant |-> tenant, upload |-> u,
           args |-> f, bytes |-> None]]
    /\ overlapped' = overlapped \cup Overlap(u)
    /\ UNCHANGED <<database, staging, objects, uploaded, origin>>

\* What the checks on the bytes read decide: size, then digest, then scope.
Verdict_NoDigest(f, bytes) ==
    IF len[bytes] # f.size THEN "size_discard"
    ELSE IF f.scope \notin Scopes THEN "scope_discard"
    ELSE "exists"
Verdict_NoScope(f, bytes) ==
    IF len[bytes] # f.size THEN "size_discard"
    ELSE IF ~verify_upload(bytes, f.sha) THEN "mismatch_tx"
    ELSE "exists"
Verdict(f, bytes) ==
    IF len[bytes] # f.size THEN "size_discard"
    ELSE IF ~verify_upload(bytes, f.sha) THEN "mismatch_tx"
    ELSE IF f.scope \notin Scopes THEN "scope_discard"
    ELSE "exists"

\* cas.read of the staged file; a missing file is an error and leaves the
\* session open.
FinalizeRead(r) ==
    /\ req[r].pc = "read"
    /\ LET bytes == staging[req[r].upload] IN
          \/ /\ bytes = None
             /\ Return(r)
          \/ /\ bytes # None
             /\ req' = [req EXCEPT ![r].pc = Verdict(req[r].args, bytes),
                                   ![r].bytes = bytes]
    /\ UNCHANGED <<database, staging, objects, history>>

SizeDiscard(r) ==
    /\ req[r].pc = "size_discard"
    /\ discard_staging(req[r].upload)
    /\ Goto(r, "mark_failed")
    /\ UNCHANGED <<database, objects, history>>

mark_session_failed(r) ==
    /\ req[r].pc = "mark_failed"
    /\ state' = [state EXCEPT ![req[r].upload] = "failed"]
    /\ Return(r)
    /\ UNCHANGED <<owner, artifact, ledger, attempts, staging, objects, history>>

\* Digest mismatch: the attempt against the announced digest and the failed
\* session in one transaction, then the staged file is removed.
MismatchTx(r) ==
    /\ req[r].pc = "mismatch_tx"
    /\ insert_capture_attempt(req[r].tenant, "HASH_MISMATCH", req[r].args.sha)
    /\ state' = [state EXCEPT ![req[r].upload] = "failed"]
    /\ Goto(r, "mismatch_discard")
    /\ UNCHANGED <<owner, artifact, ledger, staging, objects, history>>

\* The last step of the digest-mismatch and of the bad-scope paths.
RejectDiscard(r) ==
    /\ req[r].pc \in {"mismatch_discard", "scope_discard"}
    /\ discard_staging(req[r].upload)
    /\ Return(r)
    /\ UNCHANGED <<database, objects, history>>

\* FsCas::commit: dest.exists(), then remove the staged file or rename it.
CommitExists(r) ==
    /\ req[r].pc = "exists"
    /\ Goto(r, IF objects[object_key(req[r].tenant, req[r].args.sha)] # None
               THEN "remove" ELSE "rename")
    /\ UNCHANGED <<database, staging, objects, history>>

CommitRemove_Keep(r) ==
    /\ req[r].pc = "remove"
    /\ Goto(r, "commit_tx")
    /\ UNCHANGED <<database, staging, objects, history>>
CommitRemove(r) ==
    /\ req[r].pc = "remove"
    /\ discard_staging(req[r].upload)
    /\ Goto(r, "commit_tx")
    /\ UNCHANGED <<database, objects, history>>

\* The rename replaces an object another handler created after the exists
\* check; it fails, and the copy after it too, when the staged file is gone.
CommitRename_IgnoreError(r) ==
    /\ req[r].pc = "rename"
    /\ LET key == object_key(req[r].tenant, req[r].args.sha)
           u   == req[r].upload IN
          /\ objects' = IF staging[u] = None THEN objects
                        ELSE [objects EXCEPT ![key] = staging[u]]
          /\ origin' = IF staging[u] = None THEN origin ELSE [origin EXCEPT ![key] = u]
          /\ discard_staging(u)
          /\ Goto(r, "commit_tx")
    /\ UNCHANGED <<database, uploaded, overlapped>>
CommitRename(r) ==
    /\ req[r].pc = "rename"
    /\ LET key == object_key(req[r].tenant, req[r].args.sha)
           u   == req[r].upload IN
          \/ /\ staging[u] = None
             /\ Return(r)
             /\ UNCHANGED <<staging, objects, origin>>
          \/ /\ staging[u] # None
             /\ objects' = [objects EXCEPT ![key] = staging[u]]
             /\ origin' = [origin EXCEPT ![key] = u]
             /\ discard_staging(u)
             /\ Goto(r, "commit_tx")
    /\ UNCHANGED <<database, uploaded, overlapped>>

\* INSERT artifact ON CONFLICT DO NOTHING (the row that is there is adopted,
\* its scope included), occurrence, attempt, session committed.
FinalizeTx_Rescope(r) ==
    /\ req[r].pc = "commit_tx"
    /\ artifact' = [artifact EXCEPT ![object_key(req[r].tenant, req[r].args.sha)] = req[r].args.scope]
    /\ insert_occurrence(req[r].tenant, req[r].args.occ, req[r].args.sha)
    /\ insert_capture_attempt(req[r].tenant, "CAPTURED", req[r].args.sha)
    /\ state' = [state EXCEPT ![req[r].upload] = "committed"]
    /\ Goto(r, "hooks")
    /\ UNCHANGED <<owner, staging, objects, history>>
FinalizeTx(r) ==
    /\ req[r].pc = "commit_tx"
    /\ LET key == object_key(req[r].tenant, req[r].args.sha) IN
          artifact' = IF artifact[key] # None THEN artifact
                      ELSE [artifact EXCEPT ![key] = req[r].args.scope]
    /\ insert_occurrence(req[r].tenant, req[r].args.occ, req[r].args.sha)
    /\ insert_capture_attempt(req[r].tenant, "CAPTURED", req[r].args.sha)
    /\ state' = [state EXCEPT ![req[r].upload] = "committed"]
    /\ Goto(r, "hooks")
    /\ UNCHANGED <<owner, staging, objects, history>>

\* forward_scan and the similarity analysis write none of this module's
\* tables; module Hunts has what forward_scan does.
FinalizeHooks(r) ==
    /\ req[r].pc = "hooks"
    /\ Return(r)
    /\ UNCHANGED <<database, staging, objects, history>>

\* The handler's future is dropped: the client went away or the server
\* stopped.  What it has written stays.
Abort(r) ==
    /\ req[r] # Idle
    /\ Return(r)
    /\ UNCHANGED <<database, staging, objects, history>>

Next ==
    \E r \in Requests :
        \/ \E t \in Tenants, a \in Announces : AnnounceSelect(r, t, a)
        \/ AnnounceRecord(r)
        \/ AnnounceOpen(r)
        \/ \E t \in Tenants, u \in Uploads, b \in Bytes : StageSelect(r, t, u, b)
        \/ StageWrite(r)
        \/ \E t \in Tenants, u \in Uploads, f \in Finalizes : FinalizeSelect(r, t, u, f)
        \/ FinalizeRead(r)
        \/ SizeDiscard(r)
        \/ mark_session_failed(r)
        \/ MismatchTx(r)
        \/ RejectDiscard(r)
        \/ CommitExists(r)
        \/ CommitRemove(r)
        \/ CommitRename(r)
        \/ FinalizeTx(r)
        \/ FinalizeHooks(r)
        \/ Abort(r)

Spec == Init /\ [][Next]_vars

(***************************************************************************)
(* Properties                                                              *)
(***************************************************************************)
\* Every artifact row has its bytes in the store, whatever the clients do and
\* wherever a handler is dropped: finalize promotes the file before it inserts
\* the row, and nothing it races with takes the file away again.
StoredArtifacts == \A k \in Keys : artifact[k] # None => objects[k] # None

\* Evidence never points at an artifact its own tenant does not have: each
\* occurrence, and each CAPTURED or ALREADY_PRESENT attempt, was written by a
\* handler that found or created the row (announce's dedup answer may be used
\* long after its SELECT).
EvidenceBacked ==
    /\ \A t \in Tenants, o \in OccKeys :
          ledger[<<t, o>>] # None => artifact[object_key(t, ledger[<<t, o>>])] # None
    /\ \A a \in attempts : a.outcome # "HASH_MISMATCH" =>
          artifact[object_key(a.tenant, a.sha)] # None

\* An object in a tenant's namespace holds bytes that tenant uploaded
\* (docs/invariants.md 5): no sequence of stage and finalize calls moves one
\* tenant's staged file into another tenant's objects.
TenantIsolation ==
    \A t \in Tenants, h \in Hashes :
        objects[object_key(t, h)] # None => <<t, objects[object_key(t, h)]>> \in uploaded

\* docs/invariants.md 1 for clients that wait for each answer before the next
\* call on the session, as corpus-agent and corpusctl do: an object that came
\* from such a session hashes to its key, however many other sessions for the
\* same key are finalized, overwritten or dropped at the same time.
DisciplinedIntegrity ==
    \A k \in Keys : objects[k] # None /\ origin[k] \notin overlapped =>
                        sha256[objects[k]] = k[2]

\* docs/invariants.md 1 for every client: an object hashes to its key.
ObjectIntegrity == \A k \in Keys : objects[k] # None => sha256[objects[k]] = k[2]

\* A committed session has no staged file left (cas.rs: "Staging hygiene").
CommittedSwept ==
    \A u \in Uploads : state[u] = "committed" /\ u \notin overlapped => staging[u] = None

\* A session that reached committed or failed stays there, when no two calls
\* on it overlap: a second finalize or stage is refused, not applied.
TerminalSessions ==
    [][\A u \in Uploads : state[u] \in {"committed", "failed"} /\ u \notin overlapped'
          => state'[u] = state[u]]_vars

\* The store the rest of the system sees: see ContentStore.
Store == INSTANCE ContentStore WITH stored <- {k \in Keys : objects[k] # None}

\* The handlers implement ContentStore: rows appear once and only over stored
\* bytes, keep their scope, and occurrences are append-only.
ImplementsContentStore == Store!Spec
=============================================================================
