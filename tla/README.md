# A TLA+ verification of corpus

corpus keeps the executable files that a fleet of endpoints has seen, in a
content-addressed store with an evidence ledger, and lets analysts hunt over
that store with YARA rules after the fact. An agent on each endpoint captures
files and reports what it could not capture; a server stores, scans and relates
them.

This directory has the TLA+ modules of its core, the TLC models, and TLAPS
proofs. `PROJECT.json` maps every definition to the source lines it models and
lists the runs, the theorems, the hazards and the findings. Paths below are
relative to `src/`.

| module | what it is |
| --- | --- |
| `Ingest` | announce / stage / finalize over the store, concurrent handlers |
| `ContentStore` | the abstract store that `Ingest` implements |
| `Hunts` | retro-hunts, the hunt queue, forward scans, bundle activation |
| `VariantGroups` | similarity analysis, typed edges, variant groups, cleanup |
| `Neighborhood` | the bounded walk over similarity edges and its pages |
| `Scanner` | one scan: isolation tier, scanner process, time limit, output |
| `Capture` | the agent's capture pipeline against an unreliable network |
| `Sensors` | how the agent notices files: live sensors, baseline, reconciliation, restarts |
| `Reports` | heartbeat counters and the gap flusher, with the server's side |
| `Enrollment` | deployment CA, one-time tokens, the enroll handler, the agent's identity |
| `Access` | the server's authentication settings, the gate of each route, tenants |
| `Alerts` | opinions, triggers and the outbox |
| `Merlin` | segments of the Merlin bridge as overlapping transactions |
| `Detonation` | sending a sample to an external sandbox |
| `Bootstrap` | the imports of corpusctl, indicators and the exact-hash hunt |
| `IngestProofs`, `HuntsProofs`, `CaptureProofs` | theorems about `Ingest`, `Hunts` and `Capture`, for every value of the constants |
| `GroupsProofs` | about `VariantGroups` and `Neighborhood` |
| `AgentProofs` | about `Sensors` and `Reports` |
| `IdentityProofs` | about `Enrollment` and `Access` |
| `AlertProofs` | about `Alerts` and `Merlin` |
| `ScanProofs` | about `Scanner`, `Detonation` and `Bootstrap` |
| `MCIngest`, `MCHunts`, `MCCapture`, `MCAgent`, `MCServer` | the instances TLC checks |

Run one with `tlc -config MCIngest.cfg MCIngest`, and the proofs of a module with
`tlapm IngestProofs.tla`.

## 1. The system

### Server (crates/corpus-core, crates/corpus-server)

| component | state | operations | what is hard | what must hold |
| --- | --- | --- | --- | --- |
| Ingest (`ingest.rs`) | upload sessions, artifacts, occurrences, capture attempts (Postgres) | announce, stage_upload, finalize, mark_session_failed | handlers interleave at every await and can be dropped there | rows only over stored bytes, evidence only over rows, verified bytes, ended sessions stay ended |
| Content store (`cas.rs`) | staging files, objects | stage, read, commit, discard | the check and the rename are two steps; no transaction with the database | an object hashes to its key, tenants are apart, staging is swept |
| Hunts (`hunts.rs`) | hunt, hunt_job, scan_cache, hunt_match | create, enqueue, claim, execute, forward_scan | several statements per operation, without a transaction; runs overlap | a completed hunt misses nothing, no hunt is lost, every hunt ends |
| Continuous reanalysis (`continuous.rs`) | continuous_reanalysis records | on_bundle_activated, on_hash_indicators | races with commits, reuses open hunts | activation covers the retained corpus, indicators are looked up completely |
| Rule registry (`registry.rs`, `rules.rs`, `scan.rs`) | rule versions, bundles, the active flag | publish_bundle, create rules, scan | activation and forward scans | only compiled bundles are scanned with |
| Similarity (`similarity/`) | edges, variant groups, features | analyze, insert_edge, union_groups, cleanup, repair | read-then-write unions from concurrent analyses | groups are the connected components of the edges |
| Semantic matching (`semantic/`) | functions, index bands | extract, index, match | index rows are deleted and stored again | related artifacts are linked |
| Neighborhood (`similarity/neighborhood.rs`) | none | query | one query per node while edges come and go; three limits and a page cut the walk | an answer is complete or says it is not |
| Triggers (`triggers.rs`) | outbox rows | fire, deliver_pending | retries with backoff, giving up, lost answers, a webhook that never answers | a row is closed by a delivery or after its last attempt only |
| Agents (`agents.rs`, `mtls.rs`) | enrollment tokens, agents, gaps | enroll, heartbeat, record_gaps | one-time token and agent row are separate statements | one agent per token, an identity that can be used, gaps kept until stored |
| Opinions (`opinions.rs`) | opinion rows | set_opinion | two transactions supersede the same row, on the clocks of two servers | the current opinion is the last one |
| Merlin (`merlin.rs`) | segments, observations | ingest_segment | replays and overlapping batches | counts and receipts match what is stored |
| Detonation (`detonate.rs`) | analysis runs, findings, audit | detonate | external service, polling, several statements | audit before egress, a run accounts for its report |
| Scanner (`sandbox.rs`, `corpus-scanner`) | none | one scan per process | timeouts, crashes of the scanner, missing tools | a failed scan is never taken for a clean one |
| Tenants, auth (`tenant.rs`, `auth.rs`) | tenants, tokens in the environment | per request checks | combinations of settings, routes and listeners | every call is entitled, and acts for its own agent and tenant |
| HTTP API (`corpus-server/src/main.rs`) | none | handlers, the hunt worker loop | a disconnect drops a handler | |
| Intel and OCI (`intel.rs`, `oci.rs`, `detect.rs`, `classify.rs`) | indicators, detections | upsert_indicators, hash_hunt, layer walks | runs beside imports and captures | what hosts hold is found |
| Analytics (`analyst.rs`, `report.rs`, `investigate.rs`, `metrics.rs`) | none of their own | queries | | |

### Agent (crates/corpus-agent)

| component | state | operations | what is hard | what must hold |
| --- | --- | --- | --- | --- |
| Capture pipeline (`capture.rs`, `stable_read.rs`) | tasks, spool files | worker_loop, process_candidate, retry_or_fail | crashes anywhere, lost answers, leases that run out | evidence before completion, a record for every gap, every candidate ends |
| State database (`state.rs`) | candidates, leases, sequence, gaps, counters, seen files, cursors | enqueue, lease, transition, ... | shared by all tasks | one active candidate per path |
| Gap flusher, heartbeat (`main.rs`, `heartbeat.rs`) | pending gaps, counters | flush, send_once | read, send, delete around an await | nothing is deleted that was not sent |
| Sensors and baseline (`sensors/`, `baseline.rs`) | seen files, baseline checkpoints, journal cursors | reconcile_scan, run_baseline, check_downtime_changes | changes while a candidate is active, restarts | a changed file is enqueued in the end |
| Spool encryption (`spool_crypto.rs`, `win32_dpapi.rs`) | key | seal, open | | a damaged file is not decrypted |

The command line client (`crates/corpusctl`) calls the HTTP API; its imports make one call after the other
and keep counts of what became of each file.

### How they interact

Sensors enqueue candidates in the agent's database. The worker loop leases them;
a task reads the file into the spool and calls announce, upload and finalize on
the server. finalize moves the bytes from staging into the store, inserts the
artifact, and then calls forward_scan for the active bundles and the similarity
analysis. Publishing a bundle activates it and enqueues a retro-hunt, which a
worker claims from the queue. Hunts and forward scans share the scan cache.
Matches and opinions fire triggers into an outbox. The agent's gaps and counters
reach the server through the gap flusher and the heartbeat, with the identity it
got when it enrolled.

## 2. The modules

### Ingest

State: the tables `upload_session` (`state`, `owner`), `artifact`,
`occurrence_event` (`ledger`) and `capture_attempt` (`attempts`), the files
`staging/{upload}` and `objects/{tenant}/{sha256}`, and `req`, the locals of each
handler in flight. A handler's `pc` names the statement it is at. One action is
one statement, transaction or file operation of `announce`, `stage_upload` or
`finalize`; `Abort` drops a handler between any two of them, which is what axum
does when the client goes away and what a server crash does to all handlers.
Requests that are refused before anything changes take no step.

Contents, digests and sizes are uninterpreted: `sha256` and `len` are functions
from contents, so a collision-free hash is not even assumed. The scope in a
finalize request is an input that may be unknown ("other"); the occurrence part
of a request is one key (agent, boot, sequence) or None.

Three history variables make the properties sayable and guard nothing:
`uploaded` (who ever wrote which bytes), `origin` (the session an object came
from) and `overlapped` (sessions on which two stage or finalize calls were in
flight at the same time).

`ContentStore` is what the rest of the system relies on: a store in which objects
appear and stay, rows appear once over objects that are there and keep their
scope, and occurrences are written once, over rows. `Ingest` implements it under
the mapping `stored <- the keys that have an object`.

### Hunts

One tenant and one bundle. Artifacts take `seq` in the finalize transaction
(`FinalizeInsert`) and become visible at its commit (`FinalizeCommit`), so lower
numbers can appear after higher ones; a rolled back transaction loses its number.
`forward_scan` follows in the same call. A hunt is a row with a state and a pinned
watermark, and a job row with its place in the queue. Each statement of
`enqueue_hunt`, `execute_hunt`, `publish_bundle` and `on_bundle_activated` is an
action of an API client or a worker; `claim_next_job` is one transaction and one
action. A scan has the verdict of the artifact (`Matching`) or is incomplete.
The counters of a hunt are reduced to the bit that decides between COMPLETED and
COMPLETED_PARTIAL. A dropped call is `ProcAbort` or `FinalizeAbort`, at most
`MaxAborts` of them.

History variables: `covered` (what the run that ended a hunt had selected),
`raced` (hunts on which an enqueue call overlapped another call), `lost` (hunts
and artifacts on which a call was dropped).

### Neighborhood

`query` as a machine: the next node of the frontier, then its edges in the order of
the SQL, whose ties are broken by random ids and hence anyhow. The code awaits one
query per node, outside a transaction, so between two of them an analysis may insert
an edge and a cleanup may delete all edges of an artifact; an edge can come back under
its key with another score. `was` and `kept` are histories: the edges stored at some
moment of the walk, and at every moment of it. `Within(A, k)` is the reference: the
ends of the paths of k steps from the seed over the edges A, each step along an edge or
staying where it is.

`Page` has the width of `usize`: `offset + limit`, which the handler does not clamp
(`main.rs:432-433`), panics in a build with overflow checks and wraps in one without,
where the slice panics in turn; a response that is too large is refused. Each page is a
request with a walk of its own, so two pages of a changing graph need not fit together;
`PagesSliced` is about the page of one walk.

### Scanner

One call of `scan_with_tier` by a hunt or a forward scan on a host with any
combination of settings and tools. The child process exits with a verdict, with
nothing, with something that is not a verdict or with too much, or it runs until the
parent's time limit. In the gVisor tier the job names `/sample/artifact` while the
sample is mounted under its own name (`sandbox.rs:278`), so that tier can only
answer with an error; the model says so (`SampleFound`), and the verdicts
still fail closed.

### Capture

The candidate table, leases (`due` is `next_retry_at <= now`), pending gaps, the
boot id and sequence counter, the spool, the row the loop holds while it waits for
a permit, and the tasks. Each database write, file operation and network call of
`process_candidate` is an action. A call is answered, lost, or executed with its
answer lost. A crash leaves database, spool and server; after a reboot the boot id
is new and the sequence restarts. Time is the action `Elapse`: a row that is not
due becomes due, unless a running task renews its lease (`renew_lease`). While the
loop waits for a permit nobody renews the lease, which `Elapse` allows only when
all tasks are busy. The partial unique index on active paths is in `transition`
and `set_hashed`: an update that violates it is an error and the row is retried.

The server is `stored` and `ledger`, with what `ContentStore` promises and
`Ingest` is proved to do: finalize stores and records, announce of a stored digest
records, and an occurrence key is written once.

The history variable `doubled` has the rows that were leased while a task was at
work on them (see finding 4).

### VariantGroups

One tenant. `rows` has, for each artifact, which kinds of feature, function and
index rows it has; `edges` the typed edges; `groups` and `member` the variant
groups. `Program` is the list of statements of `analyze_artifact` and of the
semantic pass inside it: stores, the deletion of index rows before they are stored
again, and one lookup per layer. A lookup is followed by an `insert_edge` per
candidate, and a new strong edge by the statements of `union_groups`, each an
action of its own. `backfill` runs the analysis over all artifacts that have no
features when it starts, in commit order. `cleanup_artifact` deletes table after
table and repairs the group. The foreign key of `variant_group_member` is in
`Merge`, `add_member` and `Delete`: a statement that violates it fails, and the
error ends the call where it is (`Fail`), which leaves the artifact as a dropped
call does. `Abort` drops a call anywhere.

An index lookup returns no more than its cap of artifacts (`CANDIDATE_CAP` is the 512 of
`lsh.rs:16`, `FUNC_CANDIDATE_CAP` the 256 of `func_index.rs:64`), and which ones is left
open (`Capped`). Two artifacts of which one shares a band with more than that many
others (`Popular`) may stay without an edge although they are related.

What two artifacts have in common is given by constants: the pairs each layer
would relate, those with an index band in common, and those with strong coverage.
An analysis that reads function rows which another one is still inserting can give
a pair with code in common any semantic verdict.

History variables: `ever` (pairs that ever had a strong edge), `analyzed`,
`spoiled` (artifacts cleaned up, or whose analysis was dropped or failed), `used` (group ids
are fresh UUIDs), `torn` (artifacts in whose component two unions or cleanups
overlapped, or one was dropped or failed).

### Sensors

`disk` is the machine (versions of files, the kernel's bounded event queue, the USN
journal), `adb` what a restart finds and `mem` what it loses. Start-up follows
`main.rs`: sensor, journal check, reconciliation, baseline, poll loop. A version has
a stat key of whole seconds, which two versions can share. The kernel posts an event
per change while a sensor runs, and an overflow when its queue is full; a
rename raises none on Linux. A row is queued, then read (it captures the version of
that moment and still absorbs new events), then gone: what happens in between is
`Capture`.

Errors of the file system are steps of the model, `MaxErrors` of them. The walks of
`baseline.rs` drop an entry they cannot read (`filter_map(|e| e.ok())`) and checkpoint
its directory all the same; `read_dir` of a root may fail, and a poll scan may pass over
a file. On Windows an overflow arrives as a failed call, which becomes a gap, or as a
successful one without bytes, which `watch_root` passes over (`rdcw.rs:86`); a call that
fails for another reason becomes a gap too; and each such gap is counted by `record_gap`
and once more by its caller (`rdcw.rs:82`). A journal page without a record the parser
knows is answered as "no changes" (`usn.rs:330`).

`hist` has what the properties leave out: the three ways in which the code loses a
change (`missed`), the overflows that died with the process (`lost`) or that Windows
reported without bytes (`silent`), gaps that stand for no overflow (`spurious`), entries
that could not be read (`skipped`), and journal checks that moved the cursor without a
scan (`torn`).

### Reports

`local` has the pending gaps and the outcome counters, a counter being the set of
its increments so that one can be followed; `beat` and `flush` are the two loops;
`corpus` is the server. `record_gap` and its count are two statements, `send_once`
is read, send, clear, and `gap_flusher` is read, send, delete row by row, in every
interleaving with lost calls, lost answers and crashes. A row whose time the agent
cannot parse (`GarbledGap`) is left out of every batch; one whose digest the server
cannot parse (`RefusedGap`) makes it refuse the whole batch (`agents.rs:241-245`), which
the agent then sends again for ever.

### Enrollment

The CA is four files. `fs::write` creates or truncates a file and then writes it, which
is two steps here, with `Torn` in between: a crash there leaves a file that exists and
cannot be parsed. A start that finds all four files takes them as they are
(`load_or_create_ca` asks only whether they exist), otherwise it writes all four again,
in order, as a new generation. A device runs `ensure_identity`, which calls the handler
of `enroll`: consume the token, check the tenant, insert the agent, note it in the
token, sign, answer. Everything may be dropped or restarted in between, tenants are
suspended and tokens expire meanwhile.

Certificates expire: an agent's after 30 days, the server's after 365. No code of the
agent calls `/agents/renew` (docs/runbooks.md describes renewal), and the server keeps
its certificate whatever its age. `server_config` says when the agent listener comes up
and `Handshake` when the two ends accept each other. One server process at a time runs
`load_or_create_ca` over a directory.

### Access

A server starts with any combination of its environment variables, or refuses to,
and answers requests of every route, listener, bearer, peer certificate, tenant
header and claimed agent. Routes of the admin listener resolve a tenant or not
(`GlobalRoutes`); the mTLS listener has the agent routes and renewal. `answer` is for
whom the request was served. A gap report without a bearer is served on every bind and
into whichever active tenant the header names (`main.rs:173`, `798-806`); the model does
the same and `CallsEntitled` says so.

### Alerts

`set_opinion` is a read-committed transaction: select the current row, update it
under its lock, insert, commit; then it fires, and the handler reads the current opinion
for its answer. `created_at` is the clock of the server that runs the call:
`InsertOpinion` takes a time after all others, `InsertBehind` one that is not. Where
calls overlap the current row may be that of another call, and then the
`debug_assert_eq!` at `main.rs:1140` does not hold: a debug build panics after
everything is stored, a release build answers with the other opinion (`Answer`).

Each server runs a delivery loop that reads due rows with their attempts, posts one
after the other and records the result. Two servers may have the same row in hand. The
HTTP client has no timeout (`triggers.rs:149`): a webhook that accepts the connection and
never answers stops the loop of that server, so `Post` need never end and nothing is
claimed about when a row is delivered. The detonation that `set_opinion` may start is
in `Detonation`.

### Merlin

The transaction of `ingest_segment` statement by statement: `SELECT FOR UPDATE`, the
insert of a new segment, one insert per event `ON CONFLICT DO NOTHING`, the count,
the commit, with who waits for whom (`WaitsFor`). A deadlock of two transactions
ends as Postgres ends it, with one of them aborted.

### Detonation

`detonate` has two callers. The handler looks the sample up and validates the settings;
the automatic policy of `set_opinion` (`main.rs:1094-1136`) runs in a task of its own and
does not validate them, so it sends without a token where the handler would refuse. Then
the audit event, submission, polling, the run and its findings one by one. The sandbox
ends a task in its own time and any request may fail or lose its answer. The unique key
of `analysis_run` allows one run per artifact: a second call fails there, after its bytes
have left and its report has come.

### Bootstrap

One import of corpusctl at a time (a directory, an image from a registry or from
docker save, MalwareBazaar), file by file, with its counters, while agents capture
the same bytes and an operator posts indicators. The catalog does what
`ContentStore` promises: the first commit of a digest sets its scope. An indicator
call first stores its whole feed and then hunts for the positions that name a SHA-256
(`sha_hashes`, kept in `upsert.left`) one after the other. In an image
saved by docker only members named `*.tar` are layers (`oci.rs:371`); the others do
not count as listed.

A directory import lists what `WalkDir` yields without an error (`ListsPartly`,
`corpusctl/src/main.rs:751`): what it cannot read is neither imported nor counted. The gap
of a file that is too large for an image is sent without a look at the answer, so a
refused one is lost (`unheard`). The server refuses it whenever corpusctl has an admin
token, which the gaps route takes for that of an agent (finding 7).

### MCAgent and MCServer

`Capture`, `Sensors` and `Reports`, and the nine server modules from `VariantGroups` to
`Bootstrap`, share no variable with each other. `MCAgent` and `MCServer` explore
them side by side: the variable `part` chooses at the start which of them moves, and
the others stay as they were. Every behaviour of such a run is a behaviour of one
module, and each module's properties are checked on all of its own. `Alerts` is explored
twice: as "opinions", with overlapping calls and no trigger rule, and as "alerts", with
the outbox and transactions that follow each other. `MCCapture` has the two instances of
`Capture` with findings.

## 3. The runs

| run | instance | properties | result |
| --- | --- | --- | --- |
| `ingest` | 2 tenants, 2 sessions, 2 handlers, 2 contents of equal size, 4 finalize requests (good; other scope; wrong size; unknown scope) | TypeOK, StoredArtifacts, EvidenceBacked, TenantIsolation, DisciplinedIntegrity, CommittedSwept, TerminalSessions, ImplementsContentStore | holds, 2.1 million states |
| `ingest_overlap` | the same | ObjectIntegrity | violated (finding 1) |
| `hunt_queue` | 1 hunt, 2 clients, 1 worker, 4 calls, 1 drop, an empty corpus | NoLostHunt, HuntsEnd, under fairness | holds, 770 thousand states |
| `hunt_coverage` | 1 hunt, 2 artifacts, 1 client, 1 worker, 2 calls, 1 drop | NothingMissed, ActivationCovers | holds |
| `hunt_rerun` | 2 clients, 3 calls, no drop | NoLostHuntAtAll | violated (finding 2) |
| `hunt_reuse` | 2 artifacts, 3 calls, no drop | ReuseCovers | violated (finding 3) |
| `capture_lease` | 2 paths, 2 rows, 1 permit | NeverLeasedTwice | violated (finding 4) |
| `capture_damage` | 1 row, 1 damaged file | FailuresBecomeGaps | violated (finding 5) |
| `agent` | `Capture` with 2 rows of 1 path, 2 contents, 1 retry, and a crash or reboot or 1 damaged file, or with 3 rows of 2 paths of different priority and 1 permit; `Sensors` with 1 file, 2 roots, 2 versions, a queue of 1, 1 crash or 1 error; `Reports` with 3 gaps, 1 garbled and 1 the server refuses, batches of 2, 2 faults | TypeOK, CompleteHasEvidence, GapHasRecord, SpoolBacked, TerminalFinal, CandidatesEnd (`Capture`); BaselineCovers, OverflowReported, DowntimeReconciled, ChangesCaptured (`Sensors`); NothingUnreported, GapsDelivered (`Reports`); under fairness | holds, 1.2 million states |
| `overflow_silent` | the same | OverflowNeverSilent | violated (finding 6) |
| `server` | the instances of `MCServer` (see bounds) | GroupsJustified, GroupsComplete, NoHollowGroups, PairsLinked; TokenAdmitsOne, IdentityUsable; CallsEntitled; LatestOpinionCurrent, GivenUpHonestly; SegmentsHonest; DetonationAccounted; ScansFailClosed; NeighborhoodExact, PagesSliced; ImportAccounted, HashIntelComplete | holds, 2.1 million states |
| `import_gap` | `Bootstrap` as in `server` | LargeFilesRecorded | violated (finding 7) |

What the properties say, and why they could fail:

- **StoredArtifacts, EvidenceBacked**: the store and the database share no
  transaction. A row without bytes would be permanent, because announce answers
  ALREADY_PRESENT for it. The order of finalize prevents it even when another
  handler of the same session or digest removes or replaces files meanwhile.
- **TenantIsolation**: staging files are named by session only, so the tenant
  check of the lookup is all that keeps bytes apart.
- **DisciplinedIntegrity, CommittedSwept, TerminalSessions**: for clients that
  wait for each answer, as the agent and corpusctl do, whatever other sessions do
  to the same digest. Without this restriction the first is false (finding 1).
- **NothingMissed**: results come from own scans, forward scans and other runs
  through the cache; a timeout found there must not count as clean.
- **ActivationCovers**: watermark and forward scan between them leave no artifact
  out, although sequence numbers become visible out of order.
- **NoLostHunt, HuntsEnd**: several statements and two kinds of executors (worker
  and `?sync=1` call) set the state of one hunt.
- **CompleteHasEvidence, SpoolBacked, GapHasRecord**: across crashes, reboots and
  lost answers the agent neither finishes a candidate the server does not know,
  nor deletes bytes it may still need, nor closes a gap without a record.
- **CandidatesEnd**: whatever calls fail, a candidate is completed or given up,
  unless its own spool file is damaged (finding 5) or leftover files fill the spool.
- **GroupsJustified**: without any condition: unions work on groups they read
  earlier, which may be merged or dissolved meanwhile, and still never mix two
  families. Only strong edges count as a link.
- **GroupsComplete, NoHollowGroups**: both ends of a strong edge are in one group,
  and a group has two members at least, for components in which unions and cleanups
  came one after the other. Analyses and unions elsewhere may overlap them. Without
  the condition both are false: the statements of two unions interleave, and a
  dropped union is never repeated because its edge is there already.
- **PairsLinked**: two overlapping analyses cannot both miss the other, since each
  stores its rows before it looks, although a repeated analysis deletes its index
  rows for a moment. A semantic pair of which one shares bands with more artifacts than
  the index returns is left out: beyond the cap the pair may be passed over.
- The **TypeOK** invariants include the database constraints that interleaved
  statements could break: a known scope (`Ingest`), one active row per path
  (`Capture`).
- **BaselineCovers**: a crash in the middle of a walk must not leave a checkpoint
  over files that have no row. Entries the walk could not read are left out: they are
  passed over silently and their directory counts as done.
- **OverflowReported**: the account of overflows. Each is on its way, a gap, dead with
  the process or passed over by `watch_root`; no gap stands for anything else but a
  failing watch; and the counter has each gap once on Linux and twice on Windows. That
  none is passed over is what the comment in `watch_root` says and is false (finding 6).
- **DowntimeReconciled**: two roots share one journal cursor, and the first one
  moves it; a truncated or recreated journal must be noticed. Left out are start-ups
  that moved the cursor without a scan: a crash, or a page without known records.
- **ChangesCaptured**: live sensors lose events, die or are refused, and the poll loop
  picks up what they missed, with the three exceptions named in the module.
- **NothingUnreported, GapsDelivered**: what the agent deletes the server has; a row
  that cannot be sent does not hold up the others, but one the server refuses does.
- **TokenAdmitsOne, IdentityUsable**: devices race for a token, and a CA that was
  half written is never mixed with a new one. The identity an agent starts with is
  accepted, with three exceptions no code repairs: either certificate has expired, or
  the start that made the CA died inside its last write. Then `server-key.pem` is torn,
  every later start takes it for complete, and there is no agent listener.
- **CallsEntitled**: over all environments, not only the two or three a deployment
  guide names. The routes open to anybody are named: health, enrollment, and gap reports
  without a bearer, which act under no agent in the active tenant the header names.
  docs/deploy.md:50 and docs/threat-model.md:39 lead one to expect a credential there.
- **LatestOpinionCurrent**: two transactions can leave two unsuperseded rows, and the
  order of `created_at` still picks the one recorded last, as long as no server's clock
  is behind another's; and a call is answered with its own opinion or a later one.
- **GivenUpHonestly**: two servers count attempts by what they read; a row nobody
  received is closed only after all its attempts failed. That every row is closed in the
  end is not claimed: a post need never end.
- **SegmentsHonest**: `COUNT` sees only committed rows and its own, so the count is
  right only because of the lock on the segment.
- **DetonationAccounted**: the audit event precedes the bytes whatever fails, whoever
  calls; the handler sends under a valid configuration only, the policy under any that
  is enabled. A run may lack findings when its call was dropped half-way.
- **ScansFailClosed**: no failure of process, tool or output reads as clean. A
  forward scan does not ask for the minimum tier (`hunts.rs:628`), so that part of
  the property is about hunts.
- **NeighborhoodExact, PagesSliced**: against the definition by distance, while edges
  come and go: depths lie between the distance over the edges there ever were and over
  those there were all along, and an answer that does not call itself truncated has all
  of the latter. A page that is answered is the slice asked for, and a panic is possible
  only where `offset + limit` exceeds `usize`.
- **ImportAccounted, HashIntelComplete**: the printed counts cover every listed
  file, and a hash hunt finds what hosts hold although imports and captures commit
  meanwhile. A gap the server refused is counted and lost (finding 7).

### Bounds

Two handlers reach every race of `Ingest` between two calls, on one session (same
upload) or on one key (two sessions of a tenant); two tenants are needed for
isolation. Two contents of the same size make digest and size fail separately.
The theorems remove these bounds. In `Hunts` one hunt and at most four calls cover
an enqueue, its rerun and another call against the worker; two artifacts are
enough for numbers that become visible out of order. The queue has room for one job at a time
(`HuntLimit`), so HuntsEnd does not exercise a job that waits behind another. In
`Capture` one permit with a row waiting for it already leads to a double lease;
`MaxSequence` and `MaxFiles` are large enough for every retry within the other bounds,
so no task blocks on them. Its spool has room for two files, so that files of abandoned
candidates, which are never removed, can fill it, and one file may be damaged. The
bounds of `MCAgent` restrict which failures occur, never a step the code has to take, so
that they do not cut off a behaviour the fairness speaks of.

In `agent`, one file is enough for `Sensors`, whose operations treat each
path by itself; two versions make a change, a queue of one an overflow, two journals
a recreated one, and two roots a shared cursor. `WindowsBaseline` starts the
baseline on Windows only on a disk that has the file: where it appears later, Linux
covers the walk. A crash and an error of the file system do not both happen, and the
journal is lost only where there is no baseline. `GapId` has one garbled row ahead of a
good one and one that the server refuses, and two batches.

In `server`, two devices and two tokens race in every combination with two faults, and
two CA generations allow a half-written one and its successor; three opinions overlap in
every way with one clock behind or one drop (part "opinions"); two servers sweep the rows
of two opinions with two attempts (part "alerts", without overlapping transactions); two
bridges send four batches out of six that share events in opposite order, repeat
a segment in other case or under another digest, or break the format; two calls of
`detonate` send one artifact, by handler or policy, under every configuration. `Access`
has every environment and every request. `Neighborhood` has graphs of four
artifacts with strong, weak and no edges (with a few pairs restricted), limits
below and above the size, an allowlist of edge types, two changes during the walk, and
a `usize` of three bits for every offset and limit. `Scanner` has every host. `Bootstrap`
imports three files, two of them with the same bytes, from three images, once
(`MaxImports`), with one fault.

In `VariantGroups` four artifacts are the
fewest with which two groups can merge, two calls reach every pair of overlapping
operations, and a backfill is one call that analyzes all four, so that merges
happen within the bound; two group ids allow two groups and no third, and a call
that needs a third waits. The caps are 1 and 2, below what one of the four artifacts
shares bands with, so that lookups are cut short.

Deadlock is checked for `Ingest` only: elsewhere calls, rows, faults and files are
bounded, so a behaviour ends when they are used up.

Symmetry is used over tenants, sessions and handlers (`ingest`) and over the two callers
(`server`: the devices, servers, bridges and calls are the same two model values), in
runs without liveness properties only.

### Fairness

`Hunts`: weak fairness of every step of an enqueue or execute call and of the
claim. tokio polls each handler that can go on, and the worker loop claims again
after a short sleep. No client has to call, no bundle has to compile and no scan
has to succeed. `Capture`: weak fairness of every task, of `Spawn`, of leasing and
of `Elapse`: the loop runs for ever and time passes. No call has to succeed and
the file may change or vanish at each read. `Sensors`: weak fairness of start-up
(a supervisor restarts the agent), of the live sensor, the poll loop and each scan,
and of the capture of a queued row, which `CandidatesEnd` justifies. `Reports`: of the
two loops. A call may fail at every attempt within the bound on faults. Crashes
and errors are bounded and not fair. The server run has no fairness.

## 4. What is proved

Every invariant and every safety action property that a passing run checks, and the
refinement of `ContentStore`, is also a theorem: it holds for any number of tenants,
artifacts, calls, servers, files, drops and faults, not only on the instance TLC
explores. The
bounds the modules put on counters (`MaxCalls`, `MaxCrashes`, ...) are arbitrary
naturals in the theorems. What stays with TLC is at the end of this section.

The assumptions are the named ASSUMEs of the modules and nothing else: constants have
their types, None and the like are no values, and the sets that are counted
or walked in order are finite (`Artifacts`, `GapId`, `ImportPath`, the edges of a
similarity graph). TLC evaluates all of them on the instances.

Hardly an invariant is inductive as the runs state it. Each proof module begins
with the inductive invariant of its modules, TLC has checked it on a small instance
before it was proved, and the steps follow: one lemma per action, and under
it one step per conjunct that the action can disturb.

### IngestProofs

- `TypeCorrect`, `ArtifactsStored`, `EvidenceIsBacked`, `TenantsIsolated`,
  `ObjectsVerified`, `StagingSwept`: the six invariants of run `ingest`;
  `SessionsTerminal`: the action property; `Refinement`: `Spec =>
  ImplementsContentStore`.

TypeOK is inductive with `AcceptedScope`, which says that a handler past the checks
holds a known scope. `IInv` has three more parts, each preserved by every action given
the parts before it (`OwnershipStep`, `CommitStep`, `IntegrityStep`):

- *ownership*: a fresh session has neither tenant nor file, a handler works for
  the owner of its session, and a staged file holds bytes its owner uploaded. With
  this a rename cannot cross tenants.
- *commit order* (`ObjectFirst`): a handler about to insert a row, or about to
  remove its staged file because the object exists, has the object; a handler
  about to record a dedup hit has the row. Objects and rows are never removed, so
  other handlers do not disturb it.
- *integrity*: on a session that is not overlapped only one handler works
  (`Exclusive`), the state of the session follows from its `pc` (`LoneState`), and
  the bytes it has verified are still those in the staged file when it promotes it
  (`VerifiedBytes`).

The refinement maps `CommitRename` to `Put`, `FinalizeTx` to `Commit`,
`AnnounceRecord` to `Observe` and every other step to a stutter; the guard of
`Commit` is ObjectFirst and the scope is known by AcceptedScope.

### HuntsProofs

`HuntsComplete` (NothingMissed), `HuntsKept` (NoLostHunt), `ActivationComplete`
(ActivationCovers), from one `HuntsInv`:

- a cache entry "clean" is of an artifact that does not match, whoever wrote it, and
  a run that is not partial has a match row for what it has dealt with (`ScanFits`);
- on a hunt that no enqueue raced on, a call past the check is alone with the hunt, a
  run that has taken its job sees no new one, and a hunt on its way has a
  pending job or a call that keeps it (`HoldInv`);
- `Uncovered` are the artifacts no one has scanned and no forward scan will. Once the
  bundle is active it only shrinks, it lies at or below the watermark of the
  activation's hunt whatever becomes visible later, and within what the
  run of that hunt has still to do.

### CaptureProofs

`CaptureTypes` (TypeOK with the unique index), `EvidenceKept` (CompleteHasEvidence),
`GapsRecorded` (GapHasRecord), `SpoolKept` (SpoolBacked), and the action property
`TerminalKept` (TerminalFinal). `CaptureInv` separates what holds of any task
(`TaskAnyway`) from what holds of one that has its row to itself (`TaskAlone`, with
the row states that go with each program point): the history variable `doubled` has the
rows for which the second part is lost. Two parts are not visible in the properties: a
spool file belongs to one row, whoever refers to it (`FileInv`), so
that removing one candidate's file cannot take another's; and a call that is about to
record an occurrence has a sequence number of its own (`SequenceInv`), so that the
server does not take it for one it has.

### GroupsProofs

`FamiliesSafe` (GroupsJustified) needs no condition on interleavings. Its invariant
says that whoever holds a group id, as a member or as a call that has read or made it
(`InGroup`), is connected by strong edges of some time to all others that hold it, and
that held ids are in `used`, so a new group starts with an id nobody holds.

`LinkedSafe` (GroupsComplete) and `HollowSafe` (NoHollowGroups) are about components
in which unions and cleanups came one after the other: two at work in one component
have torn it (`SerialInv`), what the one at work has read is still so (`KnowsInv`), a
strong edge outside `torn` has both ends in one group or its union under way
(`LinkedInv`), and a group has two members or a call that owes it some (`HollowInv`).
The difficult step is an edge that joins two components; connectedness is by
paths, and adding an edge is shown to unite the components and nothing else.

`PairsSafe` (PairsLinked): rows are stored before they are looked up (`RowsInv`); of two
analyses past their lookups one has seen the other's rows; a repeated analysis that
has deleted its index rows still has its own lookup before it (`Will`). The lookups are
capped: where neither artifact is `Popular` a capped answer is the whole one. The proof
attempt found that a call ended by an error had to count as dropped: before, the
model said of a failed analysis what the code does not promise.

`NeighborhoodSafe` (NeighborhoodExact): the walk is breadth-first search, with limits,
over a graph that changes. The frontier is in the order of depth and has at most two
depths (`InOrder`). A depth is reached over edges of some moment, and no path over edges
that were there all along is shorter; up to the depth the walk is at, all nodes over
those edges are there unless one was left out (`Distances`); what has left the frontier
has had them taken (`Expanded`). Distance is by paths, which are extended, shortened and
padded in the lemmas about `Ball`. Keys stay unique among the stored edges, and the walk
keeps one edge of a key (`TakesEdge`). `PagesSafe` (PagesSliced): a wrapped end is below
the offset, so a page that wraps is empty or panics and never another slice.

### AgentProofs

`ReportsSafe` (NothingUnreported): a batch is deleted only when the server has every
row of it, and a row is sent at most once per fault and once more. `BaselineSafe`
(BaselineCovers): the walk has covered what it has taken from the directory it is in, or
skipped it. `OverflowSafe` (OverflowReported): episodes and spurious gaps are the marks in
the kernel queue and the channel plus gaps plus what died or was passed over.
`DowntimeSafe` (DowntimeReconciled): a change made while the agent was down leaves the
journal past the stored cursor until a check has seen it, and then the scan is due,
whichever root came first.

### IdentityProofs

`EnrollmentSafe` (TokenAdmitsOne): between the UPDATE that takes a token and the agent
row one call holds it, afterwards the row stands for it. `IdentitySafe`
(IdentityUsable): the last CA file exists only when the three before it are whole and of
one generation, and once it exists nothing is written again, so what a later start loads
is what the identities were issued under. `AccessSafe` (CallsEntitled): over every
environment, from what `from_env` accepts.

### AlertProofs

`OpinionsSafe` (LatestOpinionCurrent): while no clock was behind, a row is superseded only
by a younger one, since a call takes its `created_at` after it has read the row it will
supersede; with any clocks a superseded row has a successor among the rows, and ids of
calls that wait for each other do not form a circle, so one row is left current.
`OutboxSafe` (GivenUpHonestly): a sweep has read at most the attempts there are now.
`MerlinSafe` (SegmentsHonest): what a transaction has read and written stays true while
it holds the row of its segment.

### ScanProofs

`DetonationSafe` (DetonationAccounted): findings stored and findings left add up to the
report, and the call that inserted the run of an artifact is the only one past that point. `ScannerSafe` (ScansFailClosed): a verdict is truthful at each stage.
`ImportSafe` (ImportAccounted): the five counters are the cardinalities of the files
dealt with in each way (`Books`), and what was reported is in the catalog, which only
grows. `HashSafe` (HashIntelComplete): each position of the feed that is no longer left
has been found if a host held it when the call began.

### Only model-checked

- Liveness and fairness: HuntsEnd, CandidatesEnd, ChangesCaptured, GapsDelivered,
  which are outside the prover's reach.
- The seven violations of section 5, which are counterexamples.
- That the modules fit together beyond `ContentStore`: `Capture` and `Bootstrap` take
  the server's behaviour from what is proved of `Ingest`, and `Sensors` takes the end of
  a candidate from CandidatesEnd; no module composes them.

## 5. Findings

Each is a violated run, with the source line in `PROJECT.json`.

1. `ingest_overlap`: finalize hashes the bytes it read, and commit renames the
   file that is there later. An upload to the same open session in between puts
   bytes under a digest they do not have.
2. `hunt_rerun`: a run marks the job row finished after it has set the hunt
   COMPLETED. An enqueue between the two is marked finished with it; the hunt is
   QUEUED, no worker claims it and enqueue refuses it.
3. `hunt_reuse`: activation reuses an open hunt with an older watermark; artifacts
   committed since are in neither the hunt nor the forward coverage.
4. `capture_lease`: the lease is taken before the permit and renewed after it. A
   row that waits longer than the lease is leased twice.
5. `capture_damage`: an undecryptable spool file is retried for ever and never
   becomes a gap.
6. `overflow_silent`: `ReadDirectoryChangesW` reports an overflow of its buffer as a
   successful call without bytes, and `watch_root` goes on after one without a gap
   (`rdcw.rs:86`). The comment above says "Overflow must be a coverage gap, never a
   silent miss".
7. `import_gap`: `report_gap` of corpusctl does not look at the status of the answer. A
   file that was left out for its size and whose gap was refused is counted, the import
   ends as complete, and no gap row exists, against docs/invariants.md:18.

Disagreements that are stated in the properties and not runs of their own: anonymous gap
reports (CallsEntitled), the unvalidated automatic detonation (DetonationAccounted), the
`debug_assert_eq!` of `set_opinion` and clocks that disagree (`Answer` and `InsertBehind`
in `Alerts`), and the torn server key and expired certificates (IdentityUsable).

## 6. What is not modelled

Out of reach of a small instance or pure I/O: feature extraction, fuzzy hashing,
disassembly and scores, YARA, the contents of certificates, encryption, the layout
of kernel records and archives, the resource limits of the scanner process,
read-only queries and reports, the commands of corpusctl that send one request.
Left out of modelled components: the GCS backend, the cross-device copy in
`FsCas::commit`, failing writes of the agent's own database, boot ids on Windows
that a clock step makes repeat (a reboot always gets a new one), the counters of a
hunt, bundles that are deactivated; in the similarity analysis the `variant_join`
trigger, receipts, the cleanup log, analyzer versions, and
cleanups that are refused (legal hold) or only counted (dry run), which change
nothing; two servers that create the CA of one directory at the same time; a webhook's
body and signature. The component list in `PROJECT.json` has the reason for each.

Some properties leave out what no code repairs, through a history variable: a hunt or
a forward scan whose call was dropped (`lost` in `Hunts`), a union that was dropped
between edge and groups (`torn` in `VariantGroups`), an analysis dropped or failed
on the way, such as between deletion and insertion of its index rows (`spoiled`), a change noted as seen
and never enqueued (`missed` in `Sensors`), counts added while a heartbeat is under
way (`raced` in `Reports`), entries a walk could not read and overflows that Windows
reported without bytes (`skipped` and `silent` in `Sensors`), gaps the server refused
(`unheard` in `Bootstrap`), certificates that have expired (`expired` in `Enrollment`)
and clocks that disagree (`skewed` in `Alerts`).

## 7. Plan

1. State the server of `Capture` as an instance of `ContentStore` and prove that
   its calls are steps of it, so that the two halves rest on one specification.
2. The torn memberships of `VariantGroups` against
   `crates/corpus-core/tests/concurrency_edges.rs:7`, which expects "a single
   coherent partition (no torn membership)".
