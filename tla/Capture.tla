------------------------------- MODULE Capture -------------------------------
(***************************************************************************)
(* The endpoint agent's capture pipeline (corpus-agent capture.rs,          *)
(* state.rs) against a server that keeps the promises of ContentStore.      *)
(* Candidates are rows of a local database; a single loop leases due rows   *)
(* and hands each to a task, which reads the file into the spool, announces *)
(* it, uploads it if the server asks, and finishes.                         *)
(* Every database write, file operation and network call is one step; the   *)
(* agent can crash between any two, and a call can fail before or after the *)
(* server has acted on it.  Time is abstract: a row that is not due becomes *)
(* due unless a running task renews its lease.                              *)
(***************************************************************************)
EXTENDS Integers, FiniteSets

CONSTANTS
    Paths,        \* watched files
    priority,     \* the priority each path is enqueued with, lower is first
    Hashes,       \* contents, by digest
    Tasks,        \* permits of the worker loop (max_concurrent_reads)
    MaxAttempts,  \* limits.max_attempts
    SpoolCap,     \* limits.max_spool_bytes, in files
    MaxRows,      \* bound: candidate rows
    MaxFiles,     \* bound: spool files ever created
    MaxSequence,  \* bound: occurrence numbers taken in one boot
    MaxDamage,    \* bound: spool files damaged on disk
    MaxCrashes,   \* bound: crashes and reboots
    None

Rows  == 1..MaxRows
Files == 1..MaxFiles

ASSUME CaptureAssumption ==
    /\ priority \in [Paths -> Nat]
    /\ MaxAttempts \in Nat /\ SpoolCap \in Nat
    /\ MaxRows \in Nat /\ MaxFiles \in Nat /\ MaxSequence \in Nat
    /\ MaxDamage \in Nat /\ MaxCrashes \in Nat

VARIABLES
    row,       \* candidate rows, None before INSERT
    due,       \* rows with next_retry_at <= now
    gaps,      \* candidates with a pending_gap row
    boot,      \* identity.boot_id
    sequence,  \* identity.agent_sequence
    spool,     \* each spool file: "new" (not created yet), "present", "damaged" or "gone"
    held,      \* the row the loop has leased and waits to start, or None
    task,      \* the locals of each task
    stored,    \* server: digests with an artifact
    ledger,    \* server: occurrence rows <<boot, sequence, path, sha>>
    doubled,   \* history: rows leased while a task was at work on them
    crashes    \* number of crashes

db      == <<row, due, gaps, boot, sequence>>
server  == <<stored, ledger>>
history == <<doubled, crashes>>
vars    == <<db, spool, held, task, server, history>>

(***************************************************************************)
(* Types                                                                   *)
(***************************************************************************)
Terminal == {"complete", "gap_recorded"}
Upload   == {"hashed", "announced", "upload_required", "uploading", "finalizing"}
States   == {"observed", "debouncing", "opening", "copying_and_hashing", "dedup_hit",
             "occurrence_queued"} \cup Upload \cup Terminal

Row == [path: Paths, state: States, attempts: 0..(MaxAttempts + 1),
        sha: Hashes \cup {None}, file: Files \cup {None}]

Active(c) == row[c] # None /\ row[c].state \notin Terminal

\* A task at a point named like a state is about to write that state.
Transitions == {"announced", "dedup_hit", "upload_required", "uploading", "finalizing",
                "occurrence_queued", "complete"}
Pcs == {"open", "copy", "read", "read_full", "hashed", "reload", "sequence", "announce", "read_spool",
        "upload", "final_sequence", "finalize", "remove", "defer", "retry", "gap",
        "finish_gap"} \cup Transitions

\* snap: the task's copy of the row; hit: the server answered
\* ALREADY_PRESENT; seq: the occurrence's sequence number.
Idle == [pc |-> "idle"]
Task == [pc: Pcs, id: Rows, snap: Row, hit: BOOLEAN, seq: Nat]

ASSUME NoneAssumption == None \notin Hashes \cup Files \cup Row \cup [id: Rows, snap: Row]

\* The types of the tables and tasks, and at most one active row per path (the
\* partial unique index of state.rs), whatever the tasks write.
TypeOK ==
    /\ row \in [Rows -> Row \cup {None}]
    /\ due \subseteq Rows
    /\ gaps \subseteq Rows
    /\ boot \in 0..MaxCrashes
    /\ sequence \in 0..MaxSequence
    /\ spool \in [Files -> {"new", "present", "damaged", "gone"}]
    /\ held \in {None} \cup [id: Rows, snap: Row]
    /\ task \in [Tasks -> {Idle} \cup Task]
    /\ stored \subseteq Hashes
    /\ ledger \subseteq (0..MaxCrashes) \X Nat \X Paths \X Hashes
    /\ doubled \subseteq Rows
    /\ crashes \in 0..MaxCrashes
    /\ \A b, c \in Rows : Active(b) /\ Active(c) /\ row[b].path = row[c].path => b = c

Init ==
    /\ row = [c \in Rows |-> None]
    /\ due = {}
    /\ gaps = {}
    /\ boot = 0
    /\ sequence = 0
    /\ spool = [f \in Files |-> "new"]
    /\ held = None
    /\ task = [t \in Tasks |-> Idle]
    /\ stored = {}
    /\ ledger = {}
    /\ doubled = {}
    /\ crashes = 0

(***************************************************************************)
(* Helpers                                                                 *)
(***************************************************************************)
Working(t, c) == task[t] # Idle /\ task[t].id = c

Goto(t, pc) == task' = [task EXCEPT ![t].pc = pc]
Return(t)   == task' = [task EXCEPT ![t] = Idle]

\* An update that would give a path a second active row violates the unique
\* index: it changes nothing and the error goes to the worker loop, which sets
\* the row up for a retry.
Unique(c) == \A b \in Rows \ {c} : Active(b) => row[b].path # row[c].path

transition_Anyway(t, state, next) ==
    /\ row' = [row EXCEPT ![task[t].id].state = state]
    /\ Goto(t, next)
transition(t, state, next) ==
    IF state \in Terminal \/ Unique(task[t].id)
    THEN row' = [row EXCEPT ![task[t].id].state = state] /\ Goto(t, next)
    ELSE UNCHANGED row /\ Goto(t, "retry")

\* What retry_or_fail does next.
retry_or_fail(t) == IF task[t].snap.attempts >= MaxAttempts THEN "gap" ELSE "retry"

\* A call is answered, is lost, or reaches the server but its answer is lost;
\* the agent cannot tell the last two apart.
Deliveries == {"answered", "lost", "unanswered"}

(***************************************************************************)
(* Sensors, time and the disk                                              *)
(***************************************************************************)
\* INSERT ... ON CONFLICT(path) DO NOTHING while a row is active.  A debounced
\* row is not due at first.
enqueue(p, debounced) ==
    /\ \A c \in Rows : Active(c) => row[c].path # p
    /\ \E c \in Rows :
          /\ row[c] = None
          /\ \A b \in Rows : b < c => row[b] # None
          /\ row' = [row EXCEPT ![c] =
                [path |-> p, state |-> IF debounced THEN "debouncing" ELSE "observed",
                 attempts |-> 0, sha |-> None, file |-> None]]
          /\ due' = IF debounced THEN due ELSE due \cup {c}
    /\ UNCHANGED <<gaps, boot, sequence, spool, held, task, server, history>>

\* Debounce, backoff or lease run out.  The lease of a row that a task works on
\* is renewed; the lease of the row the loop holds is not, and runs out if the
\* loop has to wait for a permit.
Elapse(c) ==
    /\ Active(c)
    /\ c \notin due
    /\ \A t \in Tasks : ~Working(t, c)
    /\ held # None /\ held.id = c => \A t \in Tasks : task[t] # Idle
    /\ due' = due \cup {c}
    /\ UNCHANGED <<row, gaps, boot, sequence, spool, held, task, server, history>>

\* A spool file is tampered with, or was written by an older format.
Damage(f) ==
    /\ spool[f] = "present"
    /\ Cardinality({g \in Files : spool[g] = "damaged"}) < MaxDamage
    /\ spool' = [spool EXCEPT ![f] = "damaged"]
    /\ UNCHANGED <<db, held, task, server, history>>

(***************************************************************************)
(* worker_loop                                                             *)
(***************************************************************************)
\* The due row of the lowest priority number, then the lowest id.
Before(c, d) == \/ priority[row[c].path] < priority[row[d].path]
                \/ priority[row[c].path] = priority[row[d].path] /\ c <= d

lease_next_due(c) ==
    /\ held = None
    /\ Active(c) /\ c \in due
    /\ \A d \in due : Active(d) => Before(c, d)
    /\ due' = due \ {c}
    /\ held' = [id |-> c, snap |-> row[c]]
    /\ doubled' = IF \E t \in Tasks : Working(t, c) THEN doubled \cup {c} ELSE doubled
    /\ UNCHANGED <<row, gaps, boot, sequence, spool, task, server, crashes>>

\* The permit is acquired only now.
Spawn(t) ==
    /\ held # None
    /\ task[t] = Idle
    /\ task' = [task EXCEPT ![t] = [pc |-> "open", id |-> held.id, snap |-> held.snap,
                                    hit |-> FALSE, seq |-> 0]]
    /\ held' = None
    /\ UNCHANGED <<db, spool, server, history>>

\* The watchdog of a running task; it leaves terminal rows alone.
renew_lease(t) ==
    /\ task[t] # Idle
    /\ task[t].id \in due /\ Active(task[t].id)
    /\ due' = due \ {task[t].id}
    /\ UNCHANGED <<row, gaps, boot, sequence, spool, held, task, server, history>>

(***************************************************************************)
(* process_candidate: reading                                              *)
(***************************************************************************)
\* The state of the leased copy decides where to resume.
Open(t) ==
    /\ task[t].pc = "open"
    /\ \/ /\ task[t].snap.state \in {"debouncing", "observed"}
          /\ transition(t, "opening", "copy")
       \/ /\ task[t].snap.state \notin {"debouncing", "observed"}
          /\ Goto(t, IF task[t].snap.state \in {"opening", "copying_and_hashing"}
                     THEN "copy" ELSE "reload")
          /\ UNCHANGED row
    /\ UNCHANGED <<due, gaps, boot, sequence, spool, held, server, history>>

\* The free space is measured before the read starts.
spool_used == Cardinality({f \in Files : spool[f] \in {"present", "damaged"}})

Copy(t) ==
    /\ task[t].pc = "copy"
    /\ transition(t, "copying_and_hashing", IF spool_used < SpoolCap THEN "read" ELSE "read_full")
    /\ UNCHANGED <<due, gaps, boot, sequence, spool, held, server, history>>

\* A good read leaves a new spool file; every failure removes it again.
ReadOk(t) ==
    /\ task[t].pc = "read"
    /\ \E h \in Hashes, f \in Files :
          /\ spool[f] = "new" /\ \A g \in Files : g < f => spool[g] # "new"
          /\ spool' = [spool EXCEPT ![f] = "present"]
          /\ task' = [task EXCEPT ![t].pc = "hashed", ![t].snap.sha = h, ![t].snap.file = f]
    /\ UNCHANGED <<db, held, server, history>>

\* Deleted, denied, too large or changing: a gap at once.  SpoolFull: deferred.
\* Any other error: retried up to the limit.
ReadFail(t) ==
    /\ task[t].pc \in {"read", "read_full"}
    /\ \/ Goto(t, "gap")
       \/ task[t].pc = "read_full" /\ Goto(t, "defer")
       \/ Goto(t, retry_or_fail(t))
    /\ UNCHANGED <<db, spool, held, server, history>>

set_hashed(t) ==
    /\ task[t].pc = "hashed"
    /\ IF Unique(task[t].id)
       THEN /\ row' = [row EXCEPT ![task[t].id].state = "hashed",
                                  ![task[t].id].sha = task[t].snap.sha,
                                  ![task[t].id].file = task[t].snap.file]
            /\ Goto(t, "reload")
       ELSE UNCHANGED row /\ Goto(t, "retry")
    /\ UNCHANGED <<due, gaps, boot, sequence, spool, held, server, history>>

(***************************************************************************)
(* process_candidate: announcing and uploading                             *)
(***************************************************************************)
\* The row is read again.  A row whose evidence the server has is only
\* finished; a row without a digest is an error; a row that another task has
\* moved on is left alone.
reload_UploadOnly(t) ==
    /\ task[t].pc = "reload"
    /\ LET r == row[task[t].id]
       IN task' = IF r.state \in Upload
                  THEN [task EXCEPT ![t].snap = r, ![t].pc = "sequence"]
                  ELSE [task EXCEPT ![t] = Idle]
    /\ UNCHANGED <<db, spool, held, server, history>>
reload(t) ==
    /\ task[t].pc = "reload"
    /\ LET r == row[task[t].id]
           resume(pc) == [task EXCEPT ![t].snap = r, ![t].pc = pc]
       IN task' = CASE r.state \in {"dedup_hit", "occurrence_queued"} -> resume("complete")
                    [] r.state \notin {"dedup_hit", "occurrence_queued"} /\ r.sha = None ->
                         resume("retry")
                    [] r.state \in Upload /\ r.sha # None -> resume("sequence")
                    [] OTHER -> [task EXCEPT ![t] = Idle]
    /\ UNCHANGED <<db, spool, held, server, history>>

next_sequence(t) ==
    /\ task[t].pc \in {"sequence", "final_sequence"}
    /\ sequence < MaxSequence
    /\ sequence' = sequence + 1
    /\ task' = [task EXCEPT ![t].seq = sequence + 1,
                    ![t].pc = IF @ = "sequence" THEN "announce" ELSE "finalize"]
    /\ UNCHANGED <<row, due, gaps, boot, spool, held, server, history>>

\* ON CONFLICT (agent_id, boot_id, agent_sequence) DO NOTHING.
insert_occurrence(t) ==
    ledger' = IF \E e \in ledger : e[1] = boot /\ e[2] = task[t].seq THEN ledger
              ELSE ledger \cup {<<boot, task[t].seq, task[t].snap.path, task[t].snap.sha>>}

\* A digest the server has: it records the occurrence in the same call.
Announce(t) ==
    /\ task[t].pc = "announce"
    /\ \E d \in Deliveries :
          /\ IF d # "lost" /\ task[t].snap.sha \in stored
             THEN insert_occurrence(t) ELSE UNCHANGED ledger
          /\ task' = [task EXCEPT ![t].hit = task[t].snap.sha \in stored,
                          ![t].pc = IF d = "answered" THEN "announced" ELSE retry_or_fail(t)]
    /\ UNCHANGED <<db, spool, held, stored, history>>

Then_CompleteFirst(t) ==
    CASE task[t].pc = "announced" -> IF task[t].hit THEN "dedup_hit" ELSE "upload_required"
      [] task[t].pc = "dedup_hit" -> "complete"
      [] task[t].pc = "upload_required" -> "uploading"
      [] task[t].pc = "uploading" -> "read_spool"
      [] task[t].pc = "finalizing" -> "final_sequence"
      [] task[t].pc = "occurrence_queued" -> "remove"
      [] task[t].pc = "complete" -> "occurrence_queued"
Then(t) ==
    CASE task[t].pc = "announced" -> IF task[t].hit THEN "dedup_hit" ELSE "upload_required"
      [] task[t].pc = "dedup_hit" -> "occurrence_queued"
      [] task[t].pc = "upload_required" -> "uploading"
      [] task[t].pc = "uploading" -> "read_spool"
      [] task[t].pc = "finalizing" -> "final_sequence"
      [] task[t].pc = "occurrence_queued" -> "complete"
      [] task[t].pc = "complete" -> "remove"

Advance(t) ==
    /\ task[t].pc \in Transitions
    /\ transition(t, task[t].pc, Then(t))
    /\ UNCHANGED <<due, gaps, boot, sequence, spool, held, server, history>>

\* A spool file that cannot be read or decrypted is an error of the whole task.
ReadSpool(t) ==
    /\ task[t].pc = "read_spool"
    /\ Goto(t, CASE task[t].snap.file = None -> retry_or_fail(t)
                 [] task[t].snap.file # None ->
                      IF spool[task[t].snap.file] = "present" THEN "upload" ELSE "retry")
    /\ UNCHANGED <<db, spool, held, server, history>>

UploadCall_Unlink(t) ==
    /\ task[t].pc = "upload"
    /\ spool' = [spool EXCEPT ![task[t].snap.file] = "gone"]
    /\ \E pc \in {"finalizing", retry_or_fail(t)} : Goto(t, pc)
    /\ UNCHANGED <<db, held, server, history>>
UploadCall(t) ==
    /\ task[t].pc = "upload"
    /\ \E pc \in {"finalizing", retry_or_fail(t)} : Goto(t, pc)
    /\ UNCHANGED <<db, spool, held, server, history>>

\* The server commits the artifact and the occurrence, or answers an error.
Finalize(t) ==
    /\ task[t].pc = "finalize"
    /\ \E d \in Deliveries :
          /\ IF d # "lost" THEN stored' = stored \cup {task[t].snap.sha} /\ insert_occurrence(t)
             ELSE UNCHANGED <<stored, ledger>>
          /\ Goto(t, IF d = "answered" THEN "occurrence_queued" ELSE retry_or_fail(t))
    /\ UNCHANGED <<db, spool, held, history>>

\* remove_file, whose errors are ignored.
Remove(t) ==
    /\ task[t].pc = "remove"
    /\ spool' = [f \in Files |-> IF f = task[t].snap.file THEN "gone" ELSE spool[f]]
    /\ Return(t)
    /\ UNCHANGED <<db, held, server, history>>

(***************************************************************************)
(* process_candidate: other ends                                           *)
(***************************************************************************)
Defer(t) ==
    /\ task[t].pc = "defer"
    /\ due' = due \ {task[t].id}
    /\ Return(t)
    /\ UNCHANGED <<row, gaps, boot, sequence, spool, held, server, history>>

\* The attempts column only matters up to the limit: it is capped one above.
set_retry(t) ==
    /\ task[t].pc = "retry"
    /\ row' = [row EXCEPT ![task[t].id].attempts = IF @ > MaxAttempts THEN @ ELSE @ + 1]
    /\ due' = due \ {task[t].id}
    /\ Return(t)
    /\ UNCHANGED <<gaps, boot, sequence, spool, held, server, history>>

record_gap_FinishFirst(t) ==
    /\ task[t].pc = "gap"
    /\ row' = [row EXCEPT ![task[t].id].state = "gap_recorded"]
    /\ Goto(t, "finish_gap")
    /\ UNCHANGED <<due, gaps, boot, sequence, spool, held, server, history>>
record_gap(t) ==
    /\ task[t].pc = "gap"
    /\ gaps' = gaps \cup {task[t].id}
    /\ Goto(t, "finish_gap")
    /\ UNCHANGED <<row, due, boot, sequence, spool, held, server, history>>

finish_gap(t) ==
    /\ task[t].pc = "finish_gap"
    /\ row' = [row EXCEPT ![task[t].id].state = "gap_recorded"]
    /\ Return(t)
    /\ UNCHANGED <<due, gaps, boot, sequence, spool, held, server, history>>

(***************************************************************************)
(* Crash and restart                                                       *)
(***************************************************************************)
\* The database, the spool and the clock survive; after a reboot of the host
\* the agent starts with a new boot id and the sequence at 0.
Crash_KeepBootId ==
    /\ crashes < MaxCrashes
    /\ crashes' = crashes + 1
    /\ task' = [t \in Tasks |-> Idle]
    /\ held' = None
    /\ sequence' \in {sequence, 0}
    /\ UNCHANGED <<row, due, gaps, boot, spool, server, doubled>>
Crash ==
    /\ crashes < MaxCrashes
    /\ crashes' = crashes + 1
    /\ task' = [t \in Tasks |-> Idle]
    /\ held' = None
    /\ \/ UNCHANGED <<boot, sequence>>
       \/ boot' = boot + 1 /\ sequence' = 0
    /\ UNCHANGED <<row, due, gaps, spool, server, doubled>>

(***************************************************************************)
(* Specification                                                           *)
(***************************************************************************)
TaskStep(t) ==
    \/ Open(t) \/ Copy(t) \/ ReadOk(t) \/ ReadFail(t) \/ set_hashed(t)
    \/ reload(t) \/ next_sequence(t) \/ Announce(t) \/ Advance(t) \/ ReadSpool(t)
    \/ UploadCall(t) \/ Finalize(t) \/ Remove(t) \/ Defer(t) \/ set_retry(t)
    \/ record_gap(t) \/ finish_gap(t)

Next ==
    \/ \E p \in Paths, b \in BOOLEAN : enqueue(p, b)
    \/ \E c \in Rows : Elapse(c) \/ lease_next_due(c)
    \/ \E f \in Files : Damage(f)
    \/ \E t \in Tasks : Spawn(t) \/ renew_lease(t) \/ TaskStep(t)
    \/ Crash

Spec == Init /\ [][Next]_vars

\* Every task keeps running, the loop keeps leasing and time passes.
Fairness ==
    /\ \A t \in Tasks : WF_vars(TaskStep(t)) /\ WF_vars(Spawn(t))
    /\ \A c \in Rows : WF_vars(Elapse(c))
    /\ WF_vars(\E c \in Rows : lease_next_due(c))

FairSpec == Spec /\ Fairness

(***************************************************************************)
(* Properties                                                              *)
(***************************************************************************)
\* process_candidate: a candidate that is finished, or that a restarted agent
\* would finish without another call, has its occurrence, with this path and
\* this digest, in the server's ledger: no crash, lost answer or reboot makes
\* the agent drop evidence.
CompleteHasEvidence ==
    \A c \in Rows \ doubled :
        row[c] # None /\ row[c].state \in {"dedup_hit", "occurrence_queued", "complete"} =>
            \E e \in ledger : e[3] = row[c].path /\ e[4] = row[c].sha

\* record_gap, finish_gap: a candidate given up as a gap has a pending_gap row,
\* also when the agent crashed on the way.
GapHasRecord ==
    \A c \in Rows :
        row[c] # None /\ row[c].state = "gap_recorded" => c \in gaps

\* process_candidate: a candidate that may still have to be uploaded keeps its
\* spool file, so that a resume after a crash finds the bytes.
SpoolBacked ==
    \A c \in Rows \ doubled :
        row[c] # None /\ row[c].state \in Upload =>
            row[c].file # None /\ spool[row[c].file] \in {"present", "damaged"}

\* transition: a terminal row is never reopened and keeps its digest.
TerminalFinal ==
    [][\A c \in Rows \ doubled' : row[c] # None /\ row[c].state \in Terminal =>
           row'[c].state = row[c].state /\ row'[c].sha = row[c].sha]_row

\* worker_loop, retry_or_fail, set_retry: every candidate is completed or given
\* up as a gap, whatever calls fail, with the two exceptions this code has: its
\* spool file cannot be decrypted, or the spool is full for good of files that
\* nothing removes.
CandidatesEnd ==
    \A c \in Rows :
        <>[](row[c] # None => \/ row[c].state \in Terminal \/ c \in doubled
                              \/ row[c].file # None /\ spool[row[c].file] = "damaged"
                              \/ spool_used >= SpoolCap)

\* worker_loop: "a slow capture (large artifact, slow disk) is never leased
\* twice".
NeverLeasedTwice == doubled = {}

\* hardening-decisions.md: "Tamper -> AEAD error -> capture gap, never silent":
\* a candidate that keeps failing is given up after max_attempts retries.
FailuresBecomeGaps ==
    \A c \in Rows \ doubled : row[c] # None => row[c].attempts <= MaxAttempts
=============================================================================
