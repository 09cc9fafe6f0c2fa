------------------------------ MODULE Sensors ------------------------------
(***************************************************************************)
(* How the agent notices files: the start-up of main.rs (sensor choice,    *)
(* USN check, baseline, poll loop), the fanotify and ReadDirectoryChangesW *)
(* sensors, the checkpointed baseline walk and reconcile_scan.  A file is  *)
(* a version number; what the scans compare is the whole-second stat key   *)
(* of the version, which two versions may share.  What becomes of an       *)
(* enqueued path is the Capture module's matter: here a row is queued,     *)
(* then read (it captures the version of that moment and stays active),    *)
(* then gone.                                                              *)
(***************************************************************************)
EXTENDS Integers, Sequences, FiniteSets, FiniteSetsExt

CONSTANTS File, Dir, DirOf, \* watched files, top-level entries, entry of a file
          WatchRoot,        \* configured watch paths, all on one volume
          MaxVersion,       \* bound: writes to one file
          QueueMax,         \* events the kernel keeps for a reader
          MaxPages,         \* records read_journal takes at most
          MaxJournal,       \* bound: journals ever created on the volume
          MaxSensorCrash,   \* bound: restarts of the agent
          MaxErrors         \* bound: directory entries and reads that fail

NoFile == "no_file"
Overflow == "overflow"

ASSUME SensorsAssumption ==
    /\ NoFile \notin File \cup Dir /\ Overflow \notin File
    /\ DirOf \in [File -> Dir]
    /\ {MaxVersion, QueueMax, MaxPages, MaxJournal} \subseteq Nat \ {0}
    /\ {MaxSensorCrash, MaxErrors} \subseteq Nat

VARIABLES
    agentCfg, \* [os, excluded, baseline]: platform and configuration
    disk,     \* [ver, key, kq, journal]: files, kernel event queue, USN journal
    adb,      \* the agent's database: what a restart finds
    mem,      \* the agent process: what a restart loses
    hist      \* history of the behaviour, read by the properties only

SensorsVars == <<agentCfg, disk, adb, mem, hist>>

Scans == {"startup", "poll"}
NoCursor == [id |-> 0, usn |-> 0]
DownProcess ==
    [pc |-> "down", watching |-> FALSE, dead |-> FALSE, chan |-> <<>>,
     roots |-> {}, need |-> FALSE, checked |-> FALSE,
     scan |-> [s \in Scans |-> [on |-> FALSE, todo |-> {}, cur |-> NoFile]],
     walk |-> [on |-> FALSE, dirs |-> {}, cur |-> NoFile, todo |-> {}]]

Marks(q) == Cardinality({i \in DOMAIN q : q[i] = Overflow})

matches_exclusion(f) == f \in agentCfg.excluded
scan_key(f) == disk.key[f]

\* enqueue: an active row of the path absorbs the new one.
WithEnqueued(db, f) ==
    IF db.row[f] = "none" THEN [db EXCEPT !.row[f] = "queued"] ELSE db

\* An error of the file system, as many as the bound allows.
ErrorAllowed == hist.skips + hist.spurious < MaxErrors

\* The change would be noticed by nobody: no queued row will read it.
Unread(f) == adb.row[f] # "queued" /\ adb.captured[f] # disk.ver[f]

(***************************************************************************)
(* The machine: files change, and the kernel keeps events for a reader.    *)
(***************************************************************************)
KernelPost(q, f) ==
    CASE Len(q) < QueueMax -> Append(q, f)
      [] Len(q) >= QueueMax /\ agentCfg.os = "windows" -> <<Overflow>>
      [] OTHER -> IF q[Len(q)] = Overflow THEN q ELSE Append(q, Overflow)

\* A rename into the tree raises no fanotify event on a mount mark; a write
\* of the same size within the same second keeps the stat key.
WriteFile(f, renamed, sameKey) ==
    LET live == mem.watching /\ ~(renamed /\ agentCfg.os = "linux")
        q == IF live THEN KernelPost(disk.kq, f) ELSE disk.kq
        v == disk.ver[f] + 1
        k == IF sameKey THEN disk.key[f] ELSE v
    IN  /\ v <= MaxVersion
        /\ sameKey => disk.ver[f] > 0
        /\ disk' = [disk EXCEPT !.ver[f] = v, !.key[f] = k, !.kq = q,
                      !.journal.next = IF agentCfg.os = "windows" THEN @ + 1 ELSE @]
        /\ hist' = [hist EXCEPT
             !.episodes = @ + IF Marks(q) > Marks(disk.kq) THEN 1 ELSE 0,
             !.missed[f] = IF k = adb.seen[f] THEN v ELSE @,
             !.changed = @ \/ (mem.pc = "down" /\ adb.cursor # NoCursor)]
        /\ UNCHANGED <<agentCfg, adb, mem>>

\* The volume's journal is truncated, or deleted and created again (before
\* the cursor is anchored neither makes a difference).
JournalLoss ==
    /\ adb.cursor # NoCursor
    /\ mem.pc = "down"
    /\ \/ /\ disk.journal.first < disk.journal.next
          /\ disk' = [disk EXCEPT !.journal.first = disk.journal.next]
       \/ /\ disk.journal.id < MaxJournal
          /\ disk' = [disk EXCEPT !.journal.id = @ + 1, !.journal.first = 0, !.journal.next = 0]
    /\ UNCHANGED <<agentCfg, adb, mem, hist>>

(***************************************************************************)
(* Start-up (run in main.rs).                                              *)
(***************************************************************************)
Boot ==
    /\ mem.pc = "down"
    /\ mem' = [mem EXCEPT !.pc = "sensor"]
    /\ UNCHANGED <<agentCfg, disk, adb, hist>>

\* FanotifySensor::start may be refused; the poll loop runs in any case.
StartFanotify ==
    /\ mem.pc = "sensor"
    /\ agentCfg.os = "linux"
    /\ \E ok \in BOOLEAN :
         /\ mem' = [mem EXCEPT !.pc = "baseline", !.watching = ok]
         /\ adb' = [adb EXCEPT !.sensor = IF ok THEN "fanotify" ELSE "poll_reconcile"]
    /\ UNCHANGED <<agentCfg, disk, hist>>

\* rdcw::start names the sensor even when watch_root cannot open its root.
StartRdcw ==
    /\ mem.pc = "sensor"
    /\ agentCfg.os = "windows"
    /\ \E ok \in BOOLEAN :
         mem' = [mem EXCEPT !.pc = "usn", !.watching = ok, !.roots = WatchRoot]
    /\ adb' = [adb EXCEPT !.sensor = "rdcw_user_mode"]
    /\ UNCHANGED <<agentCfg, disk, hist>>

plan_resume(cursor, j) ==
    CASE cursor = NoCursor -> "initialize"
      [] cursor # NoCursor /\ cursor.id = j.id /\ cursor.usn >= j.first /\ cursor.usn <= j.next
           -> "resume"
      [] OTHER -> "reconcile"

\* The USN to resume from; the read is bounded to MaxPages.
read_journal(start, j) == Min({start + MaxPages, j.next})

\* One root's verdict and the cursor it leaves; queries and reads may fail.
\* A page without a record that parse_usn_records knows ("no_records") is
\* answered as NoChanges, with the cursor behind the page or where it was.
DowntimeStatus(cursor, j) ==
    LET anchor == [id |-> j.id, usn |-> j.next]
        un == [status |-> "unavailable", cursor |-> cursor]
    IN  {un} \cup
        CASE plan_resume(cursor, j) = "initialize" ->
               {[status |-> "no_changes", cursor |-> anchor]}
          [] plan_resume(cursor, j) = "reconcile" ->
               {[status |-> "reconcile_required", cursor |-> anchor]}
          [] plan_resume(cursor, j) = "resume" /\ cursor.usn >= j.next ->
               {[status |-> "no_changes", cursor |-> cursor]}
          [] OTHER ->
               LET read == [id |-> j.id, usn |-> read_journal(cursor.usn, j)] IN
               {[status |-> "changes", cursor |-> read]}
               \cup [status : {"no_records"}, cursor : {cursor, read}]

\* Mutant: the last root decides.
ReconcileNeeded_LastRoot(status) == status \in {"changes", "reconcile_required"}

\* reconcile_needed is set by any root and cleared by none.
ReconcileNeeded(status) == mem.need \/ status \in {"changes", "reconcile_required"}

check_downtime_changes ==
    /\ mem.pc = "usn"
    /\ \E r \in mem.roots, d \in DowntimeStatus(adb.cursor, disk.journal) :
         /\ adb' = [adb EXCEPT !.cursor = d.cursor]
         /\ mem' = [mem EXCEPT !.roots = @ \ {r},
                               !.need = ReconcileNeeded(d.status),
                               !.checked = @ \/ d.status # "unavailable",
                               !.pc = IF mem.roots = {r} THEN "spawn" ELSE @]
         /\ hist' = [hist EXCEPT !.torn = @ \/ d.status = "no_records"]
    /\ UNCHANGED <<agentCfg, disk>>

BeginScan(s) == [mem EXCEPT !.scan[s] = [on |-> TRUE, todo |-> File, cur |-> NoFile]]

SpawnReconcile ==
    /\ mem.pc = "spawn"
    /\ mem' = [IF mem.need THEN BeginScan("startup") ELSE mem EXCEPT !.pc = "baseline"]
    /\ UNCHANGED <<agentCfg, disk, adb, hist>>

\* Entries of a root that read_dir could not read are left out of the walk.
StartBaseline ==
    /\ mem.pc = "baseline"
    /\ IF agentCfg.baseline
       THEN \E left \in SUBSET Dir :
              /\ left # {} => ErrorAllowed
              /\ mem' = [mem EXCEPT !.pc = "running", !.walk.on = TRUE, !.walk.dirs = Dir \ left]
              /\ adb' = [adb EXCEPT !.baseline_state = "running"]
              /\ hist' = [hist EXCEPT !.skips = @ + (IF left = {} THEN 0 ELSE 1),
                                      !.skipped = @ \cup left]
       ELSE /\ mem' = [mem EXCEPT !.pc = "running"]
            /\ UNCHANGED <<adb, hist>>
    /\ UNCHANGED <<agentCfg, disk>>

(***************************************************************************)
(* Live sensors.                                                           *)
(***************************************************************************)
\* Mutant: events without a descriptor are skipped before the mask is read.
drain_fd_NoFd ==
    /\ agentCfg.os = "linux" /\ mem.watching /\ ~mem.dead
    /\ disk.kq # <<>>
    /\ disk' = [disk EXCEPT !.kq = Tail(@)]
    /\ mem' = [mem EXCEPT !.chan = @ \o SelectSeq(<<Head(disk.kq)>>, LAMBDA e : e # Overflow)]
    /\ UNCHANGED <<agentCfg, adb, hist>>

drain_fd ==
    /\ agentCfg.os = "linux" /\ mem.watching /\ ~mem.dead
    /\ disk.kq # <<>>
    /\ disk' = [disk EXCEPT !.kq = Tail(@)]
    /\ mem' = [mem EXCEPT !.chan = Append(@, Head(disk.kq))]
    /\ UNCHANGED <<agentCfg, adb, hist>>

\* A read error ends the reader thread; only the log says so.
ReaderDies ==
    /\ agentCfg.os = "linux" /\ mem.watching /\ ~mem.dead
    /\ mem' = [mem EXCEPT !.dead = TRUE]
    /\ UNCHANGED <<agentCfg, disk, adb, hist>>

\* record_gap: a row, and the outcome counter with it; rdcw.rs counts the
\* same gap once more.
RecordOverflow(db) ==
    [db EXCEPT !.gaps = @ + 1, !.counted = @ + IF agentCfg.os = "windows" THEN 2 ELSE 1]

FanotifyRun ==
    /\ agentCfg.os = "linux"
    /\ mem.chan # <<>>
    /\ mem' = [mem EXCEPT !.chan = Tail(@)]
    /\ LET e == Head(mem.chan) IN
         adb' = CASE e = Overflow -> RecordOverflow(adb)
                  [] e # Overflow /\ matches_exclusion(e) -> adb
                  [] OTHER -> WithEnqueued(adb, e)
    /\ UNCHANGED <<agentCfg, disk, hist>>

\* One ReadDirectoryChangesW result.  An overflow is a failed call, which is
\* a gap, or a successful one without bytes, which the loop passes over.
watch_root ==
    /\ agentCfg.os = "windows" /\ mem.watching
    /\ disk.kq # <<>>
    /\ disk' = [disk EXCEPT !.kq = Tail(@)]
    /\ LET e == Head(disk.kq) IN
         \/ /\ e = Overflow
            /\ adb' = RecordOverflow(adb)
            /\ UNCHANGED hist
         \/ /\ e = Overflow
            /\ hist' = [hist EXCEPT !.silent = @ + 1]
            /\ UNCHANGED adb
         \/ /\ e # Overflow
            /\ adb' = IF matches_exclusion(e) THEN adb ELSE WithEnqueued(adb, e)
            /\ UNCHANGED hist
    /\ UNCHANGED <<agentCfg, mem>>

\* The call fails for another reason (the handle): a gap all the same.
WatchFails ==
    /\ agentCfg.os = "windows" /\ mem.watching
    /\ ErrorAllowed
    /\ adb' = RecordOverflow(adb)
    /\ hist' = [hist EXCEPT !.spurious = @ + 1]
    /\ UNCHANGED <<agentCfg, disk, mem>>

(***************************************************************************)
(* run_baseline: entries in turn, a checkpoint after each.                 *)
(***************************************************************************)
\* Mutant: the checkpoint is written before the walk.
BaselineEntry_MarkFirst(d) ==
    /\ mem.walk.on /\ mem.walk.cur = NoFile
    /\ d \in mem.walk.dirs
    /\ mem' = [mem EXCEPT !.walk.dirs = @ \ {d},
                          !.walk.cur = IF d \in adb.done THEN NoFile ELSE d,
                          !.walk.todo = {f \in File : DirOf[f] = d /\ d \notin adb.done}]
    /\ adb' = [adb EXCEPT !.done = @ \cup {d}]
    /\ hist' = [hist EXCEPT !.before = @ \cup {f \in File : DirOf[f] = d /\ disk.ver[f] > 0}]
    /\ UNCHANGED <<agentCfg, disk>>

BaselineEntry(d) ==
    /\ mem.walk.on /\ mem.walk.cur = NoFile
    /\ d \in mem.walk.dirs
    /\ IF d \in adb.done
       THEN /\ mem' = [mem EXCEPT !.walk.dirs = @ \ {d}]
            /\ UNCHANGED hist
       ELSE /\ mem' = [mem EXCEPT !.walk.dirs = @ \ {d}, !.walk.cur = d,
                                  !.walk.todo = {f \in File : DirOf[f] = d}]
            /\ hist' = [hist EXCEPT !.before = @ \cup
                          {f \in File : DirOf[f] = d /\ disk.ver[f] > 0}]
    /\ UNCHANGED <<agentCfg, disk, adb>>

\* An entry that cannot be read is passed over without a trace.
enqueue_tree(f) ==
    /\ f \in mem.walk.todo
    /\ mem' = [mem EXCEPT !.walk.todo = @ \ {f}]
    /\ \/ /\ adb' = IF disk.ver[f] = 0 \/ matches_exclusion(f) THEN adb ELSE WithEnqueued(adb, f)
          /\ UNCHANGED hist
       \/ /\ ErrorAllowed
          /\ hist' = [hist EXCEPT !.skips = @ + 1, !.skipped = @ \cup {f}]
          /\ UNCHANGED adb
    /\ UNCHANGED <<agentCfg, disk>>

mark_baseline_dir ==
    /\ mem.walk.cur # NoFile /\ mem.walk.todo = {}
    /\ adb' = [adb EXCEPT !.done = @ \cup {mem.walk.cur}]
    /\ mem' = [mem EXCEPT !.walk.cur = NoFile]
    /\ UNCHANGED <<agentCfg, disk, hist>>

BaselineEnd ==
    /\ mem.walk.on /\ mem.walk.dirs = {} /\ mem.walk.cur = NoFile
    /\ adb' = [adb EXCEPT !.baseline_state = "complete"]
    /\ mem' = [mem EXCEPT !.walk.on = FALSE]
    /\ UNCHANGED <<agentCfg, disk, hist>>

\* read_dir of a root fails: the walk ends there, its state stays "running".
BaselineFails ==
    /\ mem.walk.on /\ mem.walk.cur = NoFile
    /\ ErrorAllowed
    /\ mem' = [mem EXCEPT !.walk.on = FALSE, !.walk.dirs = {}]
    /\ hist' = [hist EXCEPT !.skips = @ + 1]
    /\ UNCHANGED <<agentCfg, disk, adb>>

(***************************************************************************)
(* reconcile_scan: by the poll loop, and once at start-up on Windows.      *)
(***************************************************************************)
\* Mutant: the poll loop runs only as a fallback.
PollScan_Fallback ==
    /\ mem.pc = "running"
    /\ adb.sensor = "poll_reconcile"
    /\ ~mem.scan["poll"].on
    /\ mem' = BeginScan("poll")
    /\ UNCHANGED <<agentCfg, disk, adb, hist>>

PollScan ==
    /\ mem.pc = "running"
    /\ ~mem.scan["poll"].on
    /\ mem' = BeginScan("poll")
    /\ UNCHANGED <<agentCfg, disk, adb, hist>>

\* seen_check_and_update: the new key is stored before the path is enqueued.
seen_check_and_update(s, f) ==
    /\ mem.scan[s].cur = NoFile
    /\ f \in mem.scan[s].todo
    /\ IF disk.ver[f] > 0 /\ ~matches_exclusion(f) /\ adb.seen[f] # scan_key(f)
       THEN /\ adb' = [adb EXCEPT !.seen[f] = scan_key(f)]
            /\ mem' = [mem EXCEPT !.scan[s].todo = @ \ {f}, !.scan[s].cur = f]
       ELSE /\ mem' = [mem EXCEPT !.scan[s].todo = @ \ {f}]
            /\ UNCHANGED adb
    /\ UNCHANGED <<agentCfg, disk, hist>>

\* The walk passes over an entry it cannot read; the next one may find it.
ScanSkips(s, f) ==
    /\ mem.scan[s].cur = NoFile
    /\ f \in mem.scan[s].todo
    /\ ErrorAllowed
    /\ mem' = [mem EXCEPT !.scan[s].todo = @ \ {f}]
    /\ hist' = [hist EXCEPT !.skips = @ + 1]
    /\ UNCHANGED <<agentCfg, disk, adb>>

ReconcileEnqueue(s) ==
    LET f == mem.scan[s].cur IN
    /\ f # NoFile
    /\ adb' = WithEnqueued(adb, f)
    /\ mem' = [mem EXCEPT !.scan[s].cur = NoFile]
    /\ hist' = IF adb.row[f] = "read" /\ Unread(f)
               THEN [hist EXCEPT !.missed[f] = disk.ver[f]] ELSE hist
    /\ UNCHANGED <<agentCfg, disk>>

ReconcileEnd(s) ==
    /\ mem.scan[s].on /\ mem.scan[s].todo = {} /\ mem.scan[s].cur = NoFile
    /\ mem' = [mem EXCEPT !.scan[s].on = FALSE]
    /\ UNCHANGED <<agentCfg, disk, adb, hist>>

(***************************************************************************)
(* The capture of a row (module Capture), and a crash of the agent.        *)
(***************************************************************************)
CaptureRead(f) ==
    /\ mem.pc = "running"
    /\ adb.row[f] = "queued"
    /\ adb' = [adb EXCEPT !.row[f] = "read", !.captured[f] = disk.ver[f]]
    /\ UNCHANGED <<agentCfg, disk, mem, hist>>

CaptureEnd(f) ==
    /\ mem.pc = "running"
    /\ adb.row[f] = "read"
    /\ adb' = [adb EXCEPT !.row[f] = "none"]
    /\ UNCHANGED <<agentCfg, disk, mem, hist>>

SensorCrash ==
    /\ mem.pc # "down"
    /\ hist.crashes < MaxSensorCrash
    /\ mem' = DownProcess
    /\ disk' = [disk EXCEPT !.kq = <<>>]
    /\ hist' = [hist EXCEPT
         !.crashes = @ + 1,
         !.lost = @ + Marks(disk.kq) + Marks(mem.chan),
         !.missed = [f \in File |-> IF Unread(f) /\ \E s \in Scans : mem.scan[s].cur = f
                                    THEN disk.ver[f] ELSE @[f]],
         !.changed = @ /\ mem.pc # "running",
         !.torn = mem.pc # "running"]
    /\ UNCHANGED <<agentCfg, adb>>

----------------------------------------------------------------------------
SensorsInit ==
    /\ agentCfg \in [os : {"linux", "windows"}, excluded : {{}} \cup {{f} : f \in File},
                     baseline : BOOLEAN]
    /\ \E v \in [File -> 0..1] :
         disk = [ver |-> v, key |-> v, kq |-> <<>>, journal |-> [id |-> 1, first |-> 0, next |-> 0]]
    /\ adb = [sensor |-> "none", seen |-> [f \in File |-> 0],
              row |-> [f \in File |-> "none"], captured |-> [f \in File |-> 0],
              gaps |-> 0, counted |-> 0, cursor |-> NoCursor, done |-> {}, baseline_state |-> "none"]
    /\ mem = DownProcess
    /\ hist = [missed |-> [f \in File |-> 0], episodes |-> 0, lost |-> 0, crashes |-> 0,
               changed |-> FALSE, torn |-> FALSE, before |-> {}, skips |-> 0,
               skipped |-> {}, silent |-> 0, spurious |-> 0]

StartUp == Boot \/ StartFanotify \/ StartRdcw \/ check_downtime_changes \/ SpawnReconcile \/ StartBaseline
LiveSensor == drain_fd \/ FanotifyRun \/ watch_root
Baseline == \/ \E d \in Dir : BaselineEntry(d)
            \/ \E f \in File : enqueue_tree(f)
            \/ mark_baseline_dir
            \/ BaselineEnd
            \/ BaselineFails
Reconcile(s) == \/ \E f \in File : seen_check_and_update(s, f) \/ ScanSkips(s, f)
                \/ ReconcileEnqueue(s)
                \/ ReconcileEnd(s)

SensorsNext ==
    \/ \E f \in File, renamed, sameKey \in BOOLEAN : WriteFile(f, renamed, sameKey)
    \/ JournalLoss
    \/ StartUp
    \/ LiveSensor
    \/ ReaderDies
    \/ WatchFails
    \/ Baseline
    \/ PollScan
    \/ \E s \in Scans : Reconcile(s)
    \/ \E f \in File : CaptureRead(f) \/ CaptureEnd(f)
    \/ SensorCrash

\* The process is restarted by its supervisor, its threads and tasks run on.
SensorsFairness ==
    /\ WF_SensorsVars(StartUp)
    /\ WF_SensorsVars(LiveSensor)
    /\ WF_SensorsVars(PollScan)
    /\ \A s \in Scans : WF_SensorsVars(Reconcile(s))
    /\ \A f \in File : WF_SensorsVars(CaptureRead(f)) /\ WF_SensorsVars(CaptureEnd(f))

SensorsSpec == SensorsInit /\ [][SensorsNext]_SensorsVars /\ SensorsFairness
----------------------------------------------------------------------------
\* A checkpointed directory of the baseline stays covered across restarts:
\* every watched file that was there when its walk began has a row or was
\* captured, and "complete" means that every directory is checkpointed.
\* Both leave out what the walk could not read (hist.skipped): such an entry
\* is passed over without a gap, its directory is checkpointed all the same
\* and no later baseline looks at it again.
BaselineCovers ==
    /\ \A f \in hist.before \ (agentCfg.excluded \cup hist.skipped) :
         DirOf[f] \in adb.done => adb.row[f] # "none" \/ adb.captured[f] > 0
    /\ adb.baseline_state = "complete" => Dir \subseteq adb.done \cup hist.skipped

\* Every overflow of the kernel's queue is on its way to the sensor or has a
\* gap row, and no other gap row is of an overflow, except that the process
\* died with it, that Windows reported it as a call without bytes, which
\* watch_root passes over (hist.silent), and that a failing watch is recorded
\* as one (hist.spurious).  The outcome counter has each row once on Linux
\* and twice on Windows.
OverflowReported ==
    /\ hist.episodes + hist.spurious =
         Marks(disk.kq) + Marks(mem.chan) + adb.gaps + hist.lost + hist.silent
    /\ adb.counted = adb.gaps + IF agentCfg.os = "windows" THEN adb.gaps ELSE 0

\* "Overflow must be a coverage gap, never a silent miss" (watch_root): every
\* overflow that did not die with the process is on its way or recorded.
OverflowNeverSilent ==
    hist.episodes <= Marks(disk.kq) + Marks(mem.chan) + adb.gaps + hist.lost

\* Files that changed while the agent was down, after it had anchored its
\* cursor, are reconciled at start-up whenever the journal could be read,
\* also when it was truncated or created again meanwhile and when several
\* roots share the cursor.  Left out is where the cursor moved and no scan
\* ran (hist.torn): a crash during an earlier start-up, and a page without a
\* record the parser knows, which counts as no change.
DowntimeReconciled ==
    mem.pc \in {"baseline", "running"} /\ hist.changed /\ mem.checked /\ ~hist.torn => mem.need

\* Every change of a watched file is captured in the end, whichever sensor
\* runs and although scans fail to read it now and then, with the three
\* exceptions this code has (hist.missed): the new version has the
\* whole-second stat key already on record; reconcile_scan dropped its
\* enqueue on an older row that had been read; a crash came between the
\* update of the seen table and the enqueue.
ChangesCaptured ==
    \A f \in File : <>[](\/ disk.ver[f] = 0 \/ matches_exclusion(f)
                         \/ disk.ver[f] \in {adb.captured[f], hist.missed[f]})
=============================================================================
