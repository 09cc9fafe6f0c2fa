-------------------------------- MODULE Hunts --------------------------------
(***************************************************************************)
(* Retro-hunts and forward coverage of one tenant and one rule bundle       *)
(* (corpus-core hunts.rs, continuous.rs, registry.rs; the worker loop of    *)
(* corpus-server main.rs).  Artifacts take a sequence number inside the     *)
(* finalize transaction and become visible when it commits; a hunt pins the *)
(* highest visible number as its watermark and scans what is at or below    *)
(* it; an active bundle scans every artifact right after its commit.        *)
(* One step is one database statement or transaction, or one scan.  The     *)
(* counters of a hunt are reduced to the bit that decides its final state.  *)
(***************************************************************************)
EXTENDS Integers, SequencesExt

CONSTANTS
    Artifacts,   \* artifact identities
    Finalizers,  \* finalize calls
    Target,      \* the artifact each finalize call commits
    Endpoint,    \* the artifacts with scope 'endpoint'; the others are 'intel'
    Matching,    \* the artifacts the bundle's rules match
    HuntLimit,   \* bound: retro hunts are numbered 1..HuntLimit in creation order
    Clients,     \* API calls that can be in flight at once
    Workers,     \* hunt worker loops, one per server
    MaxCalls,    \* bound: API calls made in all
    MaxAborts,   \* bound: calls dropped by a disconnect, an error or a crash
    None

Hunts == 1..HuntLimit
ForwardHunt == 0   \* the bundle's forward hunt
Procs == Clients \cup Workers

Terminal == {"COMPLETED", "COMPLETED_PARTIAL", "FAILED"}
States   == {"DRAFT", "VALIDATING", "PLANNED", "QUEUED", "RUNNING"} \cup Terminal
Status   == {"clean", "matched", "incomplete"}   \* of a scan that is over

ASSUME HuntsAssumption ==
    /\ Target \in [Finalizers -> Artifacts]
    /\ Endpoint \subseteq Artifacts
    /\ Matching \subseteq Artifacts
    /\ HuntLimit \in Nat /\ MaxCalls \in Nat /\ MaxAborts \in Nat
    /\ Clients \cap Workers = {}
    /\ None \notin Int \cup States \cup Status

VARIABLES
    seq,         \* artifact.seq, None while there is no row
    committed,   \* artifacts whose row is visible
    nextSeq,     \* the BIGSERIAL counter
    active,      \* rule_bundle.active; the forward hunt exists from then on
    cache,       \* scan_cache.status of each artifact for this bundle, "incomplete"
                 \* for a timeout or an error
    state,       \* hunt.state, None while there is no row
    watermark,   \* hunt.corpus_watermark
    job,         \* hunt_job: "none", "pending", "claimed" or "finished"
    queue,       \* the pending jobs in enqueued_at order
    matches,     \* hunt_match rows <<hunt, artifact>>
    reanalysis,  \* continuous_reanalysis rows <<hunt, state>>
    fin,         \* the finalize calls
    proc,        \* the API calls and worker loops
    covered,     \* history: the artifacts the run that ended the hunt selected
    raced,       \* history: hunts an enqueue call shared with another call
    lost,        \* history: hunts and artifacts some call on which was dropped
    calls,       \* number of API calls made
    aborts       \* number of dropped calls

artifacts == <<seq, committed, nextSeq>>
huntRows  == <<state, watermark, job, queue, matches, reanalysis>>
history   == <<covered, raced, lost, calls, aborts>>
vars      == <<artifacts, active, cache, huntRows, fin, proc, history>>

(***************************************************************************)
(* Calls                                                                   *)
(***************************************************************************)
Idle == [pc |-> "idle"]
EnqueuePcs == {"check", "validate", "watermark", "plan", "queue", "job", "record"}
ExecutePcs == {"start", "running", "claim", "select", "next", "scan", "match", "finish", "close"}

Init ==
    /\ seq = [a \in Artifacts |-> None]
    /\ committed = {}
    /\ nextSeq = 1
    /\ active = FALSE
    /\ cache = [a \in Artifacts |-> None]
    /\ state = [h \in Hunts |-> None]
    /\ watermark = [h \in Hunts |-> None]
    /\ job = [h \in Hunts |-> "none"]
    /\ queue = <<>>
    /\ matches = {}
    /\ reanalysis = {}
    /\ fin = [f \in Finalizers |-> "insert"]
    /\ proc = [p \in Procs |-> Idle]
    /\ covered = [h \in Hunts |-> {}]
    /\ raced = {}
    /\ lost = {}
    /\ calls = 0
    /\ aborts = 0

(***************************************************************************)
(* Helpers                                                                 *)
(***************************************************************************)
\* A scan of an artifact ends with its verdict, or with a timeout or an error
\* (an unreadable object counts as an error too).
Outcomes(a) == {IF a \in Matching THEN "matched" ELSE "clean", "incomplete"}

\* INSERT ... ON CONFLICT DO NOTHING: the first terminal status stays.
commit_cache_entry(a, status) ==
    cache' = IF cache[a] = None THEN [cache EXCEPT ![a] = status] ELSE cache

commit_match(h, a) == matches' = matches \cup {<<h, a>>}

set_state(h, s) == state' = [state EXCEPT ![h] = s]

Goto(p, pc) == proc' = [proc EXCEPT ![p].pc = pc]
Return(p)   == proc' = [proc EXCEPT ![p] = Idle]

Enqueuing(p, h) == proc[p].pc \in EnqueuePcs \ {"record"} /\ proc[p].hunt = h
Executing(p, h) == proc[p].pc \in ExecutePcs /\ proc[p].hunt = h
AtWork(p, h)    == Enqueuing(p, h) \/ Executing(p, h)

\* The selection of enqueue_hunt and execute_hunt: committed, scope endpoint,
\* seq at or below the watermark.
AtOrBelow(wm) == {a \in committed \cap Endpoint : seq[a] <= wm}

MaxSeq == IF committed = {} THEN 0
          ELSE CHOOSE n \in {seq[a] : a \in committed} : \A a \in committed : seq[a] <= n

(***************************************************************************)
(* finalize: the artifact row and forward_scan                             *)
(***************************************************************************)
\* INSERT: a row that is committed is adopted; while another transaction
\* holds the row uncommitted this one waits.
FinalizeInsert(f) ==
    /\ fin[f] = "insert"
    /\ LET a == Target[f] IN
          \/ /\ a \in committed
             /\ UNCHANGED <<seq, nextSeq>>
          \/ /\ seq[a] = None
             /\ seq' = [seq EXCEPT ![a] = nextSeq]
             /\ nextSeq' = nextSeq + 1
    /\ fin' = [fin EXCEPT ![f] = "commit"]
    /\ UNCHANGED <<committed, active, cache, huntRows, proc, history>>

FinalizeCommit(f) ==
    /\ fin[f] = "commit"
    /\ committed' = committed \cup {Target[f]}
    /\ fin' = [fin EXCEPT ![f] = "bundles"]
    /\ UNCHANGED <<seq, nextSeq, active, cache, huntRows, proc, history>>

\* forward_scan: the active bundles, then the cache.
ForwardBundles(f) ==
    /\ fin[f] = "bundles"
    /\ fin' = [fin EXCEPT ![f] = IF active THEN "lookup" ELSE "done"]
    /\ UNCHANGED <<artifacts, active, cache, huntRows, proc, history>>

ForwardLookup(f) ==
    /\ fin[f] = "lookup"
    /\ fin' = [fin EXCEPT ![f] = IF cache[Target[f]] # None THEN "done" ELSE "scan"]
    /\ UNCHANGED <<artifacts, active, cache, huntRows, proc, history>>

ForwardScan(f) ==
    /\ fin[f] = "scan"
    /\ \E status \in Outcomes(Target[f]) :
          /\ commit_cache_entry(Target[f], status)
          /\ fin' = [fin EXCEPT ![f] = IF status = "matched" THEN "match" ELSE "done"]
    /\ UNCHANGED <<artifacts, active, huntRows, proc, history>>

ForwardMatch(f) ==
    /\ fin[f] = "match"
    /\ commit_match(ForwardHunt, Target[f])
    /\ fin' = [fin EXCEPT ![f] = "done"]
    /\ UNCHANGED <<artifacts, active, cache, state, watermark, job, queue, reanalysis,
                   proc, history>>

\* The call is dropped: an open transaction rolls back (its number is gone),
\* a forward scan stops where it is.
FinalizeAbort(f) ==
    /\ fin[f] \notin {"insert", "done"}
    /\ aborts < MaxAborts
    /\ aborts' = aborts + 1
    /\ lost' = lost \cup {Target[f]}
    /\ seq' = IF fin[f] = "commit" /\ Target[f] \notin committed
              THEN [seq EXCEPT ![Target[f]] = None] ELSE seq
    /\ fin' = [fin EXCEPT ![f] = "done"]
    /\ UNCHANGED <<committed, nextSeq, active, cache, huntRows, proc, covered, raced, calls>>

(***************************************************************************)
(* create_hunt, enqueue_hunt                                               *)
(***************************************************************************)
\* Hunts are numbered in creation order.
NewHunt(h) == state[h] = None /\ \A g \in Hunts : g < h => state[g] # None

Call(c) ==
    /\ proc[c] = Idle
    /\ calls < MaxCalls
    /\ calls' = calls + 1

create_hunt(c) ==
    /\ Call(c)
    /\ \E h \in Hunts : NewHunt(h) /\ set_state(h, "DRAFT")
    /\ UNCHANGED <<artifacts, active, cache, watermark, job, queue, matches, reanalysis,
                   fin, proc, covered, raced, lost, aborts>>

RunHunt(c, h, sync) ==
    /\ Call(c)
    /\ state[h] # None
    /\ proc' = [proc EXCEPT ![c] = [pc |-> "check", hunt |-> h, wm |-> None,
                                    then |-> IF sync THEN "execute" ELSE "return"]]
    /\ UNCHANGED <<artifacts, active, cache, huntRows, fin, covered, raced, lost, aborts>>

\* get_hunt: the row is read once; RUNNING and QUEUED are refused.
EnqueueCheck(c) ==
    /\ proc[c].pc = "check"
    /\ LET h == proc[c].hunt IN
          \/ /\ state[h] \in {"RUNNING", "QUEUED"}
             /\ Return(c)
             /\ UNCHANGED raced
          \/ /\ state[h] \notin {"RUNNING", "QUEUED"}
             /\ proc' = [proc EXCEPT ![c].pc = "validate", ![c].wm = watermark[h]]
             /\ raced' = raced \cup {g \in {h} : \E p \in Procs \ {c} : AtWork(p, g)}
    /\ UNCHANGED <<artifacts, active, cache, huntRows, fin, covered, lost, calls, aborts>>

EnqueueValidate(c) ==
    /\ proc[c].pc = "validate"
    /\ set_state(proc[c].hunt, "VALIDATING")
    /\ Goto(c, "watermark")
    /\ UNCHANGED <<artifacts, active, cache, watermark, job, queue, matches, reanalysis,
                   fin, history>>

\* The bundle no longer compiles.
EnqueueFail(c) ==
    /\ proc[c].pc = "watermark"
    /\ set_state(proc[c].hunt, "FAILED")
    /\ Return(c)
    /\ UNCHANGED <<artifacts, active, cache, watermark, job, queue, matches, reanalysis,
                   fin, history>>

\* The watermark read before, or else the highest visible seq.
EnqueueWatermark(c) ==
    /\ proc[c].pc = "watermark"
    /\ proc' = [proc EXCEPT ![c].pc = "plan",
                            ![c].wm = IF @ = None THEN MaxSeq ELSE @]
    /\ UNCHANGED <<artifacts, active, cache, huntRows, fin, history>>

EnqueuePlan(c) ==
    /\ proc[c].pc = "plan"
    /\ set_state(proc[c].hunt, "PLANNED")
    /\ watermark' = [watermark EXCEPT ![proc[c].hunt] = proc[c].wm]
    /\ Goto(c, "queue")
    /\ UNCHANGED <<artifacts, active, cache, job, queue, matches, reanalysis, fin, history>>

EnqueueQueue(c) ==
    /\ proc[c].pc = "queue"
    /\ set_state(proc[c].hunt, "QUEUED")
    /\ Goto(c, "job")
    /\ UNCHANGED <<artifacts, active, cache, watermark, job, queue, matches, reanalysis,
                   fin, history>>

\* The upsert clears the claim and takes a new place in the queue.  Then the
\* run endpoint returns or executes, and an activation writes its record.
ExecuteFrom(h) == [pc |-> "start", hunt |-> h, wm |-> None, sel |-> {}, todo |-> {},
                      partial |-> FALSE]
EnqueueJob_KeepClaim(c) ==
    /\ proc[c].pc = "job"
    /\ LET h == proc[c].hunt IN
          /\ job' = IF job[h] = "none" THEN [job EXCEPT ![h] = "pending"] ELSE job
          /\ queue' = IF job[h] = "none" THEN Append(queue, h) ELSE queue
          /\ \/ proc[c].then = "return" /\ Return(c)
             \/ proc[c].then = "execute" /\ proc' = [proc EXCEPT ![c] = ExecuteFrom(h)]
             \/ proc[c].then \in {"reused", "enqueued"} /\ Goto(c, "record")
    /\ UNCHANGED <<artifacts, active, cache, state, watermark, matches, reanalysis, fin, history>>
EnqueueJob(c) ==
    /\ proc[c].pc = "job"
    /\ LET h == proc[c].hunt IN
          /\ job' = [job EXCEPT ![h] = "pending"]
          /\ queue' = Append(RemoveFirst(queue, h), h)
          /\ \/ proc[c].then = "return" /\ Return(c)
             \/ proc[c].then = "execute" /\ proc' = [proc EXCEPT ![c] = ExecuteFrom(h)]
             \/ proc[c].then \in {"reused", "enqueued"} /\ Goto(c, "record")
    /\ UNCHANGED <<artifacts, active, cache, state, watermark, matches, reanalysis, fin, history>>

insert_record(c) ==
    /\ proc[c].pc = "record"
    /\ reanalysis' = reanalysis \cup {<<proc[c].hunt, proc[c].then>>}
    /\ Return(c)
    /\ UNCHANGED <<artifacts, active, cache, state, watermark, job, queue, matches, fin, history>>

(***************************************************************************)
(* publish_bundle with activate, on_bundle_activated                       *)
(***************************************************************************)
\* One transaction: the bundle is active and its forward hunt exists.
publish_bundle_Inactive(c) ==
    /\ Call(c)
    /\ proc' = [proc EXCEPT ![c] = [pc |-> "find", hunt |-> None]]
    /\ UNCHANGED <<artifacts, active, cache, huntRows, fin, covered, raced, lost, aborts>>
publish_bundle(c) ==
    /\ Call(c)
    /\ active' = TRUE
    /\ proc' = [proc EXCEPT ![c] = [pc |-> "find", hunt |-> None]]
    /\ UNCHANGED <<artifacts, cache, huntRows, fin, covered, raced, lost, aborts>>

\* The newest open retro hunt of this bundle, if there is one.
OpenHunts == {h \in Hunts : state[h] \in States \ Terminal}

ActivateFind(c) ==
    /\ proc[c].pc = "find"
    /\ \/ /\ OpenHunts = {}
          /\ proc' = [proc EXCEPT ![c].pc = "create"]
       \/ \E h \in OpenHunts :
             /\ \A g \in OpenHunts : g <= h
             /\ proc' = [proc EXCEPT ![c] = [pc |-> "reuse", hunt |-> h]]
    /\ UNCHANGED <<artifacts, active, cache, huntRows, fin, history>>

\* get_hunt: only a DRAFT is enqueued; any other state is taken as it is.
ActivateReuse(c) ==
    /\ proc[c].pc = "reuse"
    /\ proc' = [proc EXCEPT ![c] =
          [pc |-> IF state[proc[c].hunt] = "DRAFT" THEN "check" ELSE "record",
           hunt |-> proc[c].hunt, wm |-> None, then |-> "reused"]]
    /\ UNCHANGED <<artifacts, active, cache, huntRows, fin, history>>

ActivateCreate(c) ==
    /\ proc[c].pc = "create"
    /\ \E h \in Hunts :
          /\ NewHunt(h)
          /\ set_state(h, "DRAFT")
          /\ proc' = [proc EXCEPT ![c] = [pc |-> "check", hunt |-> h, wm |-> None,
                                          then |-> "enqueued"]]
    /\ UNCHANGED <<artifacts, active, cache, watermark, job, queue, matches, reanalysis,
                   fin, history>>

(***************************************************************************)
(* claim_next_job, execute_hunt                                            *)
(***************************************************************************)
\* One transaction: the oldest pending job is claimed, and its hunt marked
\* RUNNING if it is still QUEUED.  The worker executes it either way.
claim_next_job(w) ==
    /\ proc[w] = Idle
    /\ queue # <<>>
    /\ LET h == Head(queue) IN
          /\ job' = [job EXCEPT ![h] = "claimed"]
          /\ queue' = Tail(queue)
          /\ state' = IF state[h] = "QUEUED" THEN [state EXCEPT ![h] = "RUNNING"] ELSE state
          /\ proc' = [proc EXCEPT ![w] = ExecuteFrom(h)]
          /\ raced' = raced \cup {g \in {h} : \E p \in Procs : Enqueuing(p, g)}
    /\ UNCHANGED <<artifacts, active, cache, watermark, matches, reanalysis, fin,
                   covered, lost, calls, aborts>>

\* get_hunt: only the watermark is used of the row, not the state.
ExecuteStart(p) ==
    /\ proc[p].pc = "start"
    /\ proc' = [proc EXCEPT ![p].pc = "running", ![p].wm = watermark[proc[p].hunt]]
    /\ UNCHANGED <<artifacts, active, cache, huntRows, fin, history>>

\* The bundle does not compile or the sandbox tier is below the minimum.
ExecuteFail_Requeue(p) ==
    /\ proc[p].pc = "running"
    /\ LET h == proc[p].hunt IN
          /\ set_state(h, "QUEUED")
          /\ job' = [job EXCEPT ![h] = "pending"]
          /\ queue' = Append(RemoveFirst(queue, h), h)
    /\ Return(p)
    /\ UNCHANGED <<artifacts, active, cache, watermark, matches, reanalysis, fin, history>>
ExecuteFail(p) ==
    /\ proc[p].pc = "running"
    /\ set_state(proc[p].hunt, "FAILED")
    /\ Return(p)
    /\ UNCHANGED <<artifacts, active, cache, watermark, job, queue, matches, reanalysis,
                   fin, history>>

ExecuteRunning(p) ==
    /\ proc[p].pc = "running"
    /\ set_state(proc[p].hunt, "RUNNING")
    /\ Goto(p, "claim")
    /\ UNCHANGED <<artifacts, active, cache, watermark, job, queue, matches, reanalysis,
                   fin, history>>

ExecuteClaim(p) ==
    /\ proc[p].pc = "claim"
    /\ LET h == proc[p].hunt IN
          /\ job' = IF job[h] = "pending" THEN [job EXCEPT ![h] = "claimed"] ELSE job
          /\ queue' = RemoveFirst(queue, h)
    /\ Goto(p, "select")
    /\ UNCHANGED <<artifacts, active, cache, state, watermark, matches, reanalysis, fin, history>>

ExecuteSelect_Below(p) ==
    /\ proc[p].pc = "select"
    /\ proc' = [proc EXCEPT ![p].pc = "next", ![p].sel = AtOrBelow(proc[p].wm - 1),
                            ![p].todo = AtOrBelow(proc[p].wm - 1)]
    /\ UNCHANGED <<artifacts, active, cache, huntRows, fin, history>>
ExecuteSelect(p) ==
    /\ proc[p].pc = "select"
    /\ proc' = [proc EXCEPT ![p].pc = "next", ![p].sel = AtOrBelow(proc[p].wm),
                            ![p].todo = AtOrBelow(proc[p].wm)]
    /\ UNCHANGED <<artifacts, active, cache, huntRows, fin, history>>

\* The artifact the loop is at: the lowest seq left.
Current(p) == CHOOSE a \in proc[p].todo : \A b \in proc[p].todo : seq[a] <= seq[b]

\* A terminal status counts, cached or not: timeouts and errors make the run
\* partial.
Advance(p, status) ==
    proc' = [proc EXCEPT ![p].pc = "next", ![p].todo = @ \ {Current(p)},
                         ![p].partial = @ \/ status = "incomplete"]

ExecuteLookup_Uncounted(p) ==
    /\ proc[p].pc = "next"
    /\ proc[p].todo # {}
    /\ CASE cache[Current(p)] = None      -> Goto(p, "scan")
         [] cache[Current(p)] = "matched" -> Goto(p, "match")
         [] OTHER                         -> Advance(p, "clean")
    /\ UNCHANGED <<artifacts, active, cache, huntRows, fin, history>>
ExecuteLookup(p) ==
    /\ proc[p].pc = "next"
    /\ proc[p].todo # {}
    /\ CASE cache[Current(p)] = None      -> Goto(p, "scan")
         [] cache[Current(p)] = "matched" -> Goto(p, "match")
         [] OTHER                         -> Advance(p, cache[Current(p)])
    /\ UNCHANGED <<artifacts, active, cache, huntRows, fin, history>>

ExecuteScan(p) ==
    /\ proc[p].pc = "scan"
    /\ \E status \in Outcomes(Current(p)) :
          /\ commit_cache_entry(Current(p), status)
          /\ IF status = "matched" THEN Goto(p, "match") ELSE Advance(p, status)
    /\ UNCHANGED <<artifacts, active, huntRows, fin, history>>

ExecuteMatch(p) ==
    /\ proc[p].pc = "match"
    /\ commit_match(proc[p].hunt, Current(p))
    /\ Advance(p, "matched")
    /\ UNCHANGED <<artifacts, active, cache, state, watermark, job, queue, reanalysis,
                   fin, history>>

ExecuteFinish(p) ==
    /\ proc[p].pc = "next"
    /\ proc[p].todo = {}
    /\ set_state(proc[p].hunt, IF proc[p].partial THEN "COMPLETED_PARTIAL" ELSE "COMPLETED")
    /\ covered' = [covered EXCEPT ![proc[p].hunt] = proc[p].sel]
    /\ Goto(p, "close")
    /\ UNCHANGED <<artifacts, active, cache, watermark, job, queue, matches, reanalysis,
                   fin, raced, lost, calls, aborts>>

ExecuteClose(p) ==
    /\ proc[p].pc = "close"
    /\ job' = [job EXCEPT ![proc[p].hunt] = "finished"]
    /\ queue' = RemoveFirst(queue, proc[p].hunt)
    /\ Return(p)
    /\ UNCHANGED <<artifacts, active, cache, state, watermark, matches, reanalysis, fin, history>>

\* The call is dropped: a disconnect, a database error (the worker logs it and
\* goes on with the next job) or a server crash.
ProcAbort(p) ==
    /\ proc[p] # Idle
    /\ aborts < MaxAborts
    /\ aborts' = aborts + 1
    /\ lost' = lost \cup ({proc[p].hunt} \cap Hunts)
    /\ Return(p)
    /\ UNCHANGED <<artifacts, active, cache, huntRows, fin, covered, raced, calls>>

FinalizeStep(f) ==
    \/ FinalizeInsert(f) \/ FinalizeCommit(f) \/ ForwardBundles(f) \/ ForwardLookup(f)
    \/ ForwardScan(f) \/ ForwardMatch(f)

EnqueueStep(c) ==
    \/ EnqueueCheck(c) \/ EnqueueValidate(c) \/ EnqueueFail(c) \/ EnqueueWatermark(c)
    \/ EnqueuePlan(c) \/ EnqueueQueue(c) \/ EnqueueJob(c) \/ insert_record(c)

ExecuteStep(p) ==
    \/ ExecuteStart(p) \/ ExecuteFail(p) \/ ExecuteRunning(p) \/ ExecuteClaim(p)
    \/ ExecuteSelect(p) \/ ExecuteLookup(p) \/ ExecuteScan(p) \/ ExecuteMatch(p)
    \/ ExecuteFinish(p) \/ ExecuteClose(p)

Next ==
    \/ \E f \in Finalizers : FinalizeStep(f) \/ FinalizeAbort(f)
    \/ \E c \in Clients :
          \/ create_hunt(c)
          \/ \E h \in Hunts, sync \in BOOLEAN : RunHunt(c, h, sync)
          \/ publish_bundle(c) \/ ActivateFind(c) \/ ActivateReuse(c) \/ ActivateCreate(c)
          \/ EnqueueStep(c)
    \/ \E w \in Workers : claim_next_job(w)
    \/ \E p \in Procs : ExecuteStep(p) \/ ProcAbort(p)

Spec == Init /\ [][Next]_vars

\* tokio polls every handler that can go on, and the worker loop claims again
\* after at most a few seconds of sleep.  Nothing makes a client call.
Fairness ==
    /\ \A c \in Clients : WF_vars(EnqueueStep(c)) /\ WF_vars(ExecuteStep(c))
    /\ \A w \in Workers : WF_vars(claim_next_job(w)) /\ WF_vars(ExecuteStep(w))
FairSpec == Spec /\ Fairness

(***************************************************************************)
(* Properties                                                              *)
(***************************************************************************)
\* A COMPLETED hunt has a match row for every matching artifact its run
\* selected, although results come from its own scans, from forward scans and
\* from other runs through the shared cache, and a scan may time out
\* (hunts.rs: cached timeouts "must keep the rerun COMPLETED_PARTIAL").
NothingMissed ==
    \A h \in Hunts : state[h] = "COMPLETED" =>
        \A a \in covered[h] \cap Matching : <<h, a>> \in matches

\* A hunt that is on its way is in somebody's hands: an enqueue call that will
\* queue it, a pending job, or a run (a call dropped half-way may lose it).
Held(h) ==
    h \notin lost /\ state[h] \in {"VALIDATING", "PLANNED", "QUEUED", "RUNNING"} =>
        job[h] = "pending" \/ \E p \in Procs : AtWork(p, h)

\* No order of claims, sync runs and reruns loses a hunt, as long as no enqueue
\* call overlaps another call on it: that a worker and a sync call both execute
\* it, and that a failed sync run leaves its job behind, does no harm.
NoLostHunt == \A h \in Hunts \ raced : Held(h)

\* "Enqueue only; the durable hunt worker claims and executes" (corpus-server
\* main.rs): no hunt is lost, reruns that overlap other calls included.
NoLostHuntAtAll == \A h \in Hunts : Held(h)

Quiet == \A f \in Finalizers : fin[f] \in {"insert", "done"}
Covers(h) ==
    state[h] \in {"COMPLETED", "COMPLETED_PARTIAL"} /\ Quiet =>
        \A a \in (committed \cap Endpoint) \ lost : cache[a] # None

\* When activation enqueued a hunt of its own and that hunt is over, every
\* endpoint artifact has been scanned with the bundle: the hunt took those at
\* or below the watermark, the forward scan all that became visible later,
\* whatever numbers they had.
ActivationCovers == \A h \in Hunts : <<h, "enqueued">> \in reanalysis => Covers(h)

\* The same when activation reused an open hunt: "enqueue a full retro-hunt
\* over the retained endpoint corpus" (continuous.rs).
ReuseCovers == \A h \in Hunts : <<h, "reused">> \in reanalysis => Covers(h)

\* A queued hunt ends, unless a call on it is dropped or its enqueue overlaps
\* another call: the worker gets to every job although failed runs leave jobs
\* behind, sync calls take jobs away and two runs of a hunt set its state in
\* turn.
HuntsEnd ==
    \A h \in Hunts : state[h] = "QUEUED" ~> (state[h] \in Terminal \/ h \in lost \cup raced)
=============================================================================
