----------------------------- MODULE AgentProofs -----------------------------
(***************************************************************************)
(* Proofs for the agent's heartbeat and gap flusher (module Reports) and   *)
(* for its sensors (module Sensors), for any files, directories, roots,    *)
(* queue and batch sizes and any number of faults and restarts.            *)
(***************************************************************************)
EXTENDS Reports, Sensors, FiniteSetTheorems, SequenceTheorems, WellFoundedInduction, TLAPS

(***************************************************************************)
(* Reports                                                                 *)
(***************************************************************************)
LEMMA GapsAreNumbers == GapId \subseteq Nat
<1>1. Cardinality(GapId) \in Nat
  BY ReportsAssumption, FS_CardinalityType
<1> QED
  BY <1>1, ReportsAssumption

\* The first row of a batch is one of its rows.
LEMMA FirstOfBatch ==
    ASSUME NEW S \in SUBSET Nat, S # {}
    PROVE  Min(S) \in S
<1>1. IsWellFoundedOn(OpToRel(<, Nat), Nat)
  BY NatLessThanWellFounded
<1>2. PICK n \in S : \A m \in S : ~(<<m, n>> \in OpToRel(<, Nat))
  BY <1>1, WFMin
<1>3. \A m \in S : ~(m < n)
  BY <1>2, Zenon DEF OpToRel
<1>4. \A m \in S : n <= m
  BY <1>3
<1> QED
  BY <1>4 DEF Min

LocalTypeOK ==
    /\ local \in [pending : SUBSET GapId, counter : SUBSET GapId, last : Nat]
    /\ 1..local.last \subseteq GapId
LoopTypeOK ==
    /\ beat \in [pc : {"idle", "send", "clear"}, counts : SUBSET GapId]
    /\ flush \in [pc : {"idle", "send", "delete"}, batch : SUBSET GapId]
CorpusTypeOK ==
    /\ corpus \in [counts : SUBSET GapId, attempts : [GapId -> Nat]]
    /\ rhist \in [reported : SUBSET GapId, raced : SUBSET GapId,
                  uncounted : SUBSET GapId, faults : Nat]

\* The batch under way is still in the database; it is deleted only once the
\* server has every row of it.
BatchInv ==
    /\ flush.batch \subseteq local.pending \ GarbledGap
    /\ flush.pc # "idle" => flush.batch # {}
    /\ flush.pc = "delete" => \A g \in flush.batch : corpus.attempts[g] > 0

\* A row was sent at most once per fault, and once more if it is answered;
\* an answered row is one being deleted or gone.
AttemptInv ==
    /\ \A g \in GapId : g > local.last => corpus.attempts[g] = 0 /\ g \notin local.pending
    /\ \A g \in 1..local.last : g \in local.pending \/ corpus.attempts[g] > 0
    /\ \A g \in GapId : corpus.attempts[g] <= rhist.faults + 1
    /\ \A g \in local.pending :
         ~(flush.pc = "delete" /\ g \in flush.batch) => corpus.attempts[g] <= rhist.faults

\* The counters hold nothing but what the heartbeat under way carries and
\* what was counted since it began.
CounterInv ==
    /\ beat.pc = "send" => local.counter \subseteq beat.counts \cup rhist.raced
    /\ beat.pc = "clear" => local.counter \subseteq rhist.reported \cup rhist.raced
    /\ 1..local.last \subseteq local.counter \cup rhist.reported \cup rhist.raced \cup rhist.uncounted

ReportsInv == LocalTypeOK /\ LoopTypeOK /\ CorpusTypeOK /\ BatchInv /\ AttemptInv /\ CounterInv

LEMMA ReportsStart == ReportsInit => ReportsInv
  BY GapsAreNumbers DEF ReportsInit, ReportsInv, LocalTypeOK, LoopTypeOK, CorpusTypeOK, BatchInv, AttemptInv,
     CounterInv, IdleBeat, IdleFlush

LEMMA RecordGapKeeps == ReportsInv /\ (RecordGap \/ RecordGapTorn) => ReportsInv'
<1> SUFFICES ASSUME ReportsInv, RecordGap \/ RecordGapTorn PROVE ReportsInv'
  OBVIOUS
<1>0. GapId \subseteq Nat
  BY GapsAreNumbers
<1>1. PICK g \in GapId : g = local.last + 1
  BY DEF RecordGap, RecordGapTorn
<1>2. /\ local'.last = g /\ local'.pending = local.pending \cup {g}
      /\ local' \in [pending : SUBSET GapId, counter : SUBSET GapId, last : Nat]
      /\ corpus' = corpus
      /\ 1..local'.last = (1..local.last) \cup {g}
  <2>1. local' \in {[local EXCEPT !.last = g, !.pending = @ \cup {g}, !.counter = @ \cup {g}],
                     [local EXCEPT !.last = g, !.pending = @ \cup {g}]} /\ corpus' = corpus
    BY <1>1 DEF RecordGap, RecordGapTorn
  <2>2. local'.last = g /\ local'.pending = local.pending \cup {g}
    BY <2>1 DEF ReportsInv, LocalTypeOK
  <2>3. local' \in [pending : SUBSET GapId, counter : SUBSET GapId, last : Nat]
    <3>1. PICK q \in SUBSET GapId : q = local.pending \cup {g}
      BY DEF ReportsInv, LocalTypeOK
    <3>2. PICK c \in SUBSET GapId : c = local.counter \cup {g}
      BY DEF ReportsInv, LocalTypeOK
    <3>3. \/ local' = [local EXCEPT !.last = g, !.pending = q, !.counter = c]
          \/ local' = [local EXCEPT !.last = g, !.pending = q]
      BY <2>1, <3>1, <3>2
    <3> QED
      BY <1>0, <3>3 DEF ReportsInv, LocalTypeOK
  <2> QED
    BY <1>0, <1>1, <2>1, <2>2, <2>3 DEF ReportsInv, LocalTypeOK
<1>3. CASE RecordGap
  <2>1. /\ local'.counter = local.counter \cup {g}
        /\ beat' = beat /\ flush' = flush
    BY <1>1, <1>3 DEF RecordGap, ReportsInv, LocalTypeOK
  <2>2. /\ rhist' \in [reported : SUBSET GapId, raced : SUBSET GapId, uncounted : SUBSET GapId, faults : Nat]
        /\ rhist'.reported = rhist.reported /\ rhist'.uncounted = rhist.uncounted /\ rhist'.faults = rhist.faults
        /\ rhist.raced \subseteq rhist'.raced
        /\ beat.pc # "idle" => g \in rhist'.raced
    BY <1>1, <1>3 DEF RecordGap, ReportsInv, CorpusTypeOK
  <2>3. LocalTypeOK' /\ LoopTypeOK' /\ CorpusTypeOK'
    BY <1>1, <1>2, <2>1, <2>2 DEF ReportsInv, LocalTypeOK, LoopTypeOK, CorpusTypeOK
  <2>4. BatchInv'
    BY <1>2, <2>1 DEF ReportsInv, BatchInv
  <2>5. AttemptInv'
    BY <1>0, <1>1, <1>2, <2>1, <2>2 DEF ReportsInv, AttemptInv, LocalTypeOK, CorpusTypeOK
  <2>6. CounterInv'
    BY <1>2, <2>1, <2>2 DEF ReportsInv, CounterInv
  <2> QED
    BY <2>3, <2>4, <2>5, <2>6 DEF ReportsInv
<1>4. CASE RecordGapTorn
  <2>1. /\ local'.counter = local.counter
        /\ beat' = IdleBeat /\ flush' = IdleFlush
    BY <1>1, <1>4 DEF RecordGapTorn, ReportsInv, LocalTypeOK
  <2>2. /\ rhist' \in [reported : SUBSET GapId, raced : SUBSET GapId, uncounted : SUBSET GapId, faults : Nat]
        /\ rhist'.reported = rhist.reported /\ rhist'.uncounted = rhist.uncounted \cup {g}
        /\ rhist'.faults = rhist.faults + 1
        /\ rhist.raced = rhist'.raced
    <3>1. PICK u \in SUBSET GapId : u = rhist.uncounted \cup {g}
      BY DEF ReportsInv, CorpusTypeOK
    <3>2. PICK n \in Nat : n = rhist.faults + 1
      BY DEF ReportsInv, CorpusTypeOK
    <3>3. rhist' = [rhist EXCEPT !.uncounted = u, !.faults = n]
      BY <1>1, <1>4, <3>1, <3>2 DEF RecordGapTorn
    <3> QED
      BY <3>1, <3>2, <3>3 DEF ReportsInv, CorpusTypeOK
  <2>3. LocalTypeOK' /\ LoopTypeOK' /\ CorpusTypeOK'
    BY <1>1, <1>2, <2>1, <2>2 DEF ReportsInv, LocalTypeOK, LoopTypeOK, CorpusTypeOK, IdleBeat, IdleFlush
  <2>4. BatchInv'
    BY <1>2, <2>1 DEF ReportsInv, BatchInv, IdleFlush
  <2>5. AttemptInv'
    BY <1>0, <1>1, <1>2, <2>1, <2>2 DEF ReportsInv, AttemptInv, LocalTypeOK, CorpusTypeOK, IdleFlush
  <2>6. CounterInv'
    BY <1>2, <2>1, <2>2 DEF ReportsInv, CounterInv, IdleBeat
  <2> QED
    BY <2>3, <2>4, <2>5, <2>6 DEF ReportsInv
<1> QED
  BY <1>3, <1>4

LEMMA BeatKeeps == ReportsInv /\ Beat => ReportsInv'
<1> SUFFICES ASSUME ReportsInv, Beat PROVE ReportsInv'
  OBVIOUS
<1> USE DEF ReportsInv
<1>1. CASE read_counters \/ clear_counters
  BY <1>1 DEF read_counters, clear_counters, LocalTypeOK, LoopTypeOK, CorpusTypeOK, BatchInv, AttemptInv, CounterInv, IdleBeat
<1>2. CASE heartbeat \/ HeartbeatFails
  <2>0. LocalTypeOK' /\ LoopTypeOK'
    BY <1>2 DEF heartbeat, HeartbeatFails, LoopTypeOK, LocalTypeOK, IdleBeat
  <2>a. /\ corpus' \in {corpus, [corpus EXCEPT !.counts = beat.counts]}
        /\ rhist' \in {[rhist EXCEPT !.reported = @ \cup beat.counts],
                      [rhist EXCEPT !.reported = @ \cup beat.counts, !.faults = @ + 1],
                      [rhist EXCEPT !.faults = @ + 1]}
    BY <1>2 DEF heartbeat, HeartbeatFails, Fault
  <2>b. CorpusTypeOK'
    <3>1. PICK r \in SUBSET GapId : r = rhist.reported \cup beat.counts
      BY DEF CorpusTypeOK, LoopTypeOK
    <3>2. PICK n \in Nat : n = rhist.faults + 1
      BY DEF CorpusTypeOK
    <3>3. \/ rhist' = [rhist EXCEPT !.reported = r]
          \/ rhist' = [rhist EXCEPT !.reported = r, !.faults = n]
          \/ rhist' = [rhist EXCEPT !.faults = n]
      BY <2>a, <3>1, <3>2
    <3>4. rhist' \in [reported : SUBSET GapId, raced : SUBSET GapId, uncounted : SUBSET GapId, faults : Nat]
      BY <3>3 DEF CorpusTypeOK
    <3> QED
      BY <2>a, <3>4 DEF CorpusTypeOK, LoopTypeOK
  <2>c. /\ corpus'.attempts = corpus.attempts
        /\ rhist'.faults \in {rhist.faults, rhist.faults + 1}
        /\ rhist'.raced = rhist.raced /\ rhist'.uncounted = rhist.uncounted
        /\ rhist.reported \subseteq rhist'.reported
    BY <2>a DEF CorpusTypeOK
  <2>d. beat'.pc = "clear" => beat.pc = "send" /\ beat.counts \subseteq rhist'.reported
    BY <1>2 DEF heartbeat, HeartbeatFails, IdleBeat, CorpusTypeOK
  <2>1. /\ local' = local /\ flush' = flush /\ beat'.pc \in {"idle", "clear"} /\ corpus'.attempts = corpus.attempts
        /\ rhist'.faults \in {rhist.faults, rhist.faults + 1}
        /\ rhist'.raced = rhist.raced /\ rhist'.uncounted = rhist.uncounted
        /\ rhist.reported \subseteq rhist'.reported
        /\ beat'.pc = "clear" => beat.pc = "send" /\ beat.counts \subseteq rhist'.reported
    BY <1>2, <2>c, <2>d DEF heartbeat, HeartbeatFails, LoopTypeOK, IdleBeat
  <2>2. LocalTypeOK' /\ LoopTypeOK' /\ CorpusTypeOK'
    BY <2>0, <2>b
  <2>3. BatchInv'
    BY <2>1 DEF BatchInv
  <2>4. AttemptInv'
    BY <2>1, GapsAreNumbers DEF AttemptInv, LocalTypeOK, CorpusTypeOK
  <2>5. CounterInv'
    BY <2>1 DEF CounterInv
  <2> QED
    BY <2>2, <2>3, <2>4, <2>5
<1> QED
  BY <1>1, <1>2 DEF Beat

LEMMA FlushKeeps == ReportsInv /\ Flush => ReportsInv'
<1> SUFFICES ASSUME ReportsInv, Flush PROVE ReportsInv'
  OBVIOUS
<1> USE DEF ReportsInv
<1>1. CASE FlushRead
  <2>1. Deliverable(pending_gaps) \subseteq local.pending \ GarbledGap
    BY DEF Deliverable, pending_gaps
  <2>2. PICK b \in SUBSET local.pending : b = Deliverable(pending_gaps)
    BY <2>1
  <2>3. flush' = [pc |-> "send", batch |-> b] /\ b # {} /\ b \subseteq local.pending \ GarbledGap
        /\ UNCHANGED <<local, beat, corpus, rhist>> /\ flush.pc = "idle"
    BY <1>1, <2>1, <2>2 DEF FlushRead
  <2>4. LocalTypeOK' /\ LoopTypeOK' /\ CorpusTypeOK'
    BY <2>3 DEF LocalTypeOK, LoopTypeOK, CorpusTypeOK
  <2>5. BatchInv' /\ CounterInv'
    BY <2>3 DEF BatchInv, CounterInv
  <2>6. AttemptInv'
    BY <2>3 DEF AttemptInv
  <2> QED
    BY <2>4, <2>5, <2>6
<1>2. CASE report_gaps /\ ~Refused(flush.batch)
  <2>1. /\ local' = local /\ beat' = beat /\ flush.pc = "send" /\ corpus'.counts = corpus.counts
        /\ corpus' \in [counts : SUBSET GapId, attempts : [GapId -> Nat]]
    BY <1>2 DEF report_gaps, record_gaps, CorpusTypeOK
  <2>2. \A g \in GapId : corpus'.attempts[g] = corpus.attempts[g] + IF g \in flush.batch THEN 1 ELSE 0
    BY <1>2 DEF report_gaps, record_gaps, CorpusTypeOK
  <2>3. \A g \in GapId : /\ g \in flush.batch => corpus'.attempts[g] = corpus.attempts[g] + 1
                         /\ g \notin flush.batch => corpus'.attempts[g] = corpus.attempts[g]
    BY <2>2 DEF BatchInv, CorpusTypeOK
  <2>4. \/ flush' = [flush EXCEPT !.pc = "delete"] /\ rhist' = rhist
        \/ flush' = IdleFlush /\ rhist' = [rhist EXCEPT !.faults = @ + 1]
    BY <1>2 DEF report_gaps, Fault
  <2>5. LocalTypeOK' /\ LoopTypeOK' /\ CorpusTypeOK'
    BY <2>1, <2>4 DEF LocalTypeOK, LoopTypeOK, CorpusTypeOK, IdleFlush
  <2>6. BatchInv'
    BY <2>1, <2>3, <2>4 DEF BatchInv, IdleFlush, LoopTypeOK, LocalTypeOK, CorpusTypeOK
  <2>7. AttemptInv'
    <3>1. CASE flush' = [flush EXCEPT !.pc = "delete"] /\ rhist' = rhist
      <4>1. flush'.pc = "delete" /\ flush'.batch = flush.batch
        BY <3>1 DEF LoopTypeOK
      <4> QED
        BY <2>1, <2>3, <3>1, <4>1, GapsAreNumbers DEF AttemptInv, BatchInv, LocalTypeOK, LoopTypeOK, CorpusTypeOK
    <3>2. CASE flush' = IdleFlush /\ rhist' = [rhist EXCEPT !.faults = @ + 1]
      <4>1. flush'.pc = "idle" /\ rhist'.faults = rhist.faults + 1
        BY <3>2 DEF IdleFlush, CorpusTypeOK
      <4> QED
        BY <2>1, <2>3, <4>1, GapsAreNumbers DEF AttemptInv, BatchInv, LocalTypeOK, LoopTypeOK, CorpusTypeOK
    <3> QED
      BY <2>4, <3>1, <3>2
  <2>8. CounterInv'
    BY <2>1, <2>4 DEF CounterInv, CorpusTypeOK
  <2> QED
    BY <2>5, <2>6, <2>7, <2>8
<1>5. CASE report_gaps /\ Refused(flush.batch)
  <2>1. /\ UNCHANGED <<local, beat, corpus>> /\ flush' = IdleFlush
        /\ rhist' \in {rhist, [rhist EXCEPT !.faults = @ + 1]}
    BY <1>5 DEF report_gaps, record_gaps, Fault
  <2>2. PICK n \in Nat : rhist' = [rhist EXCEPT !.faults = n] /\ n >= rhist.faults
    BY <2>1 DEF CorpusTypeOK
  <2>3. LocalTypeOK' /\ LoopTypeOK' /\ CorpusTypeOK'
    BY <2>1, <2>2 DEF IdleFlush, LocalTypeOK, LoopTypeOK, CorpusTypeOK
  <2>4. BatchInv' /\ CounterInv'
    BY <2>1, <2>2 DEF IdleFlush, BatchInv, CounterInv, CorpusTypeOK
  <2>5. AttemptInv'
    <3>1. corpus.attempts \in [GapId -> Nat] /\ rhist.faults \in Nat /\ rhist'.faults = n
      BY <2>2 DEF CorpusTypeOK
    <3>2. flush'.pc = "idle" /\ local' = local /\ corpus' = corpus
      BY <2>1 DEF IdleFlush
    <3>3. flush.pc = "send"
      BY <1>5 DEF report_gaps
    <3>4. local.pending \subseteq GapId
      BY DEF LocalTypeOK
    <3> QED
      BY <2>2, <3>1, <3>2, <3>3, <3>4, GapsAreNumbers DEF AttemptInv
  <2> QED
    BY <2>3, <2>4, <2>5
<1>3. CASE FlushFails
  BY <1>3, GapsAreNumbers DEF FlushFails, Fault, IdleFlush, LocalTypeOK, LoopTypeOK, CorpusTypeOK, BatchInv, AttemptInv, CounterInv
<1>4. CASE delete_gaps
  <2>1. PICK g \in flush.batch : g = Min(flush.batch)
    BY <1>4, FirstOfBatch, GapsAreNumbers DEF delete_gaps, BatchInv, LoopTypeOK
  <2>2. /\ local' = [local EXCEPT !.pending = @ \ {g}]
        /\ flush' = IF flush.batch = {g} THEN IdleFlush ELSE [flush EXCEPT !.batch = @ \ {g}]
        /\ UNCHANGED <<beat, corpus, rhist>>
    BY <1>4, <2>1 DEF delete_gaps
  <2>3. /\ flush'.batch = flush.batch \ {g} /\ (flush'.pc # "idle" => flush'.batch # {})
        /\ flush'.pc \in {"delete", "idle"} /\ (flush'.pc = "idle" => flush.batch = {g})
    BY <1>4, <2>2 DEF IdleFlush, LoopTypeOK, delete_gaps
  <2>4. LocalTypeOK' /\ LoopTypeOK' /\ CorpusTypeOK'
    BY <2>2, <2>1 DEF LocalTypeOK, LoopTypeOK, CorpusTypeOK, IdleFlush
  <2>5. BatchInv' /\ CounterInv'
    BY <1>4, <2>2, <2>3 DEF BatchInv, CounterInv, LocalTypeOK, delete_gaps
  <2>6. AttemptInv'
    BY <1>4, <2>2, <2>3 DEF AttemptInv, BatchInv, LocalTypeOK, delete_gaps
  <2> QED
    BY <2>4, <2>5, <2>6
<1> QED
  BY <1>1, <1>2, <1>3, <1>4, <1>5 DEF Flush

\* What the agent has to report never disappears on the way (heartbeat.rs,
\* gap_flusher of main.rs): for any number of gaps, faults and rows that
\* cannot be sent.
THEOREM ReportsSafe == ReportsSpec => []NothingUnreported
<1>1. ReportsInv /\ [ReportsNext]_ReportsVars => ReportsInv'
  <2> SUFFICES ASSUME ReportsInv, [ReportsNext]_ReportsVars PROVE ReportsInv'
    OBVIOUS
  <2>1. CASE ReportsCrash
    BY <2>1, GapsAreNumbers DEF ReportsInv, ReportsCrash, Fault, IdleFlush, IdleBeat, LocalTypeOK, LoopTypeOK,
       CorpusTypeOK, BatchInv, AttemptInv, CounterInv
  <2>2. CASE UNCHANGED ReportsVars
    BY <2>2 DEF ReportsVars, ReportsInv, LocalTypeOK, LoopTypeOK, CorpusTypeOK, BatchInv, AttemptInv, CounterInv
  <2> QED
    BY <2>1, <2>2, RecordGapKeeps, BeatKeeps, FlushKeeps DEF ReportsNext
<1>2. ReportsInv => NothingUnreported
  BY DEF ReportsInv, AttemptInv, CounterInv, NothingUnreported
<1> QED
  BY <1>1, <1>2, ReportsStart, PTL DEF ReportsSpec

(***************************************************************************)
(* Sensors: types                                                          *)
(***************************************************************************)
CfgTypeOK == agentCfg \in [os : {"linux", "windows"}, excluded : SUBSET File, baseline : BOOLEAN]
Event == File \cup {Overflow}
DiskTypeOK ==
    disk \in [ver : [File -> Nat], key : [File -> Nat], kq : Seq(Event),
              journal : [id : Nat \ {0}, first : Nat, next : Nat]]
AdbTypeOK ==
    adb \in [sensor : {"none", "fanotify", "poll_reconcile", "rdcw_user_mode"},
             seen : [File -> Nat], row : [File -> {"none", "queued", "read"}],
             captured : [File -> Nat], gaps : Nat, counted : Nat, cursor : [id : Nat, usn : Nat],
             done : SUBSET Dir, baseline_state : {"none", "running", "complete"}]
ScanRec == [on : BOOLEAN, todo : SUBSET File, cur : File \cup {NoFile}]
WalkRec == [on : BOOLEAN, dirs : SUBSET Dir, cur : Dir \cup {NoFile}, todo : SUBSET File]
MemTypeOK ==
    mem \in [pc : {"down", "sensor", "usn", "spawn", "baseline", "running"},
             watching : BOOLEAN, dead : BOOLEAN, chan : Seq(Event),
             roots : SUBSET WatchRoot, need : BOOLEAN, checked : BOOLEAN,
             scan : [Scans -> ScanRec], walk : WalkRec]
HistTypeOK ==
    hist \in [missed : [File -> Nat], episodes : Nat, lost : Nat, crashes : Nat,
              changed : BOOLEAN, torn : BOOLEAN, before : SUBSET File, skips : Nat,
              skipped : SUBSET (File \cup Dir), silent : Nat, spurious : Nat]
SensorsTypeOK == CfgTypeOK /\ DiskTypeOK /\ AdbTypeOK /\ MemTypeOK /\ HistTypeOK

(***************************************************************************)
(* Sensors: the baseline                                                   *)
(***************************************************************************)
\* The files that are on the disk: only these are announced, found by a scan
\* or counted as there before the walk.
Present == {f \in File : disk.ver[f] > 0}
PresentInv ==
    /\ disk.kq \in Seq(Present \cup {Overflow})
    /\ mem.chan \in Seq(Present \cup {Overflow})
    /\ \A s \in Scans : mem.scan[s].cur \in Present \cup {NoFile}
    /\ hist.before \subseteq Present

\* A row that is queued will read a version, one that was read has one; the
\* walk has covered what it has taken from the entry it is in.
Covered(f) == adb.row[f] # "none" \/ adb.captured[f] > 0
BaselineInv ==
    /\ \A f \in File : adb.row[f] = "queued" => disk.ver[f] > 0
    /\ \A f \in File : adb.row[f] = "read" => adb.captured[f] > 0
    /\ \A f \in hist.before \ (agentCfg.excluded \cup hist.skipped) :
         /\ DirOf[f] \in adb.done => Covered(f)
         /\ DirOf[f] = mem.walk.cur => f \in mem.walk.todo \/ Covered(f)

\* Every directory is checkpointed, being walked, still to be walked or was
\* left out.
WalkInv ==
    /\ mem.walk.on => Dir \subseteq adb.done \cup hist.skipped \cup mem.walk.dirs \cup {mem.walk.cur}
    /\ adb.baseline_state = "complete" => Dir \subseteq adb.done \cup hist.skipped

(***************************************************************************)
(* Sensors: overflow                                                       *)
(***************************************************************************)
\* The Windows kernel keeps one overflow result for all that it dropped.
OverflowInv ==
    /\ agentCfg.os = "windows" => Marks(disk.kq) <= 1
    /\ hist.episodes + hist.spurious =
         Marks(disk.kq) + Marks(mem.chan) + adb.gaps + hist.lost + hist.silent
    /\ adb.counted = adb.gaps + IF agentCfg.os = "windows" THEN adb.gaps ELSE 0

(***************************************************************************)
(* Sensors: changes while the agent is down                                *)
(***************************************************************************)
\* The journal is past the cursor.
Behind ==
    /\ adb.cursor # NoCursor
    /\ adb.cursor.id < disk.journal.id \/ adb.cursor.usn < disk.journal.next

\* A change made while the agent was down leaves the journal past the cursor
\* until the check sees it, and then the scan is due.
DowntimeInv ==
    /\ mem.pc \in {"usn", "spawn"} \/ adb.cursor # NoCursor => agentCfg.os = "windows"
    /\ adb.cursor # NoCursor =>
         /\ adb.cursor.id <= disk.journal.id
         /\ adb.cursor.id = disk.journal.id => adb.cursor.usn <= disk.journal.next
    /\ mem.pc = "down" => ~mem.checked
    /\ hist.changed /\ ~hist.torn => IF mem.checked THEN mem.need ELSE Behind

(***************************************************************************)
(* Overflow marks in a queue of events                                     *)
(***************************************************************************)
LEMMA MarksNumber ==
    ASSUME NEW q \in Seq(Event)
    PROVE  /\ IsFiniteSet({i \in DOMAIN q : q[i] = Overflow})
           /\ Marks(q) \in Nat
<1>1. DOMAIN q = 1..Len(q) /\ Len(q) \in Nat
  OBVIOUS
<1>2. IsFiniteSet(1..Len(q))
  BY <1>1, FS_Interval
<1>3. IsFiniteSet({i \in DOMAIN q : q[i] = Overflow})
  BY <1>1, <1>2, FS_Subset
<1> QED
  BY <1>3, FS_CardinalityType DEF Marks

LEMMA MarksOfEmpty == Marks(<<>>) = 0
<1>1. {i \in DOMAIN <<>> : <<>>[i] = Overflow} = {}
  OBVIOUS
<1> QED
  BY <1>1, FS_EmptySet DEF Marks

LEMMA MarksOfAppend ==
    ASSUME NEW q \in Seq(Event), NEW e \in Event
    PROVE  Marks(Append(q, e)) = Marks(q) + IF e = Overflow THEN 1 ELSE 0
<1> DEFINE M == {i \in DOMAIN q : q[i] = Overflow}
           N == {i \in DOMAIN Append(q, e) : Append(q, e)[i] = Overflow}
<1>1. /\ DOMAIN q = 1..Len(q) /\ Len(q) \in Nat
      /\ DOMAIN Append(q, e) = 1..(Len(q) + 1)
      /\ \A i \in 1..Len(q) : Append(q, e)[i] = q[i]
      /\ Append(q, e)[Len(q) + 1] = e
  OBVIOUS
<1>2. IsFiniteSet(M) /\ Cardinality(M) \in Nat /\ Marks(q) = Cardinality(M)
  BY MarksNumber DEF Marks
<1>3. CASE e = Overflow
  <2>1. N = M \cup {Len(q) + 1} /\ Len(q) + 1 \notin M
    BY <1>1, <1>3
  <2> HIDE DEF M, N
  <2>2. Cardinality(N) = Cardinality(M) + 1
    BY <1>2, <2>1, FS_AddElement
  <2> QED
    BY <1>2, <1>3, <2>2 DEF Marks, N
<1>4. CASE e # Overflow
  <2>1. N = M
    BY <1>1, <1>4
  <2> HIDE DEF M, N
  <2>2. Cardinality(N) = Cardinality(M)
    BY <2>1
  <2>3. Marks(Append(q, e)) = Cardinality(N)
    BY DEF Marks, N
  <2> QED
    BY <1>2, <1>4, <2>2, <2>3
<1> QED
  BY <1>3, <1>4

LEMMA MarksOfTail ==
    ASSUME NEW q \in Seq(Event), q # <<>>
    PROVE  Marks(q) = Marks(Tail(q)) + IF Head(q) = Overflow THEN 1 ELSE 0
<1> DEFINE M == {i \in DOMAIN Tail(q) : Tail(q)[i] = Overflow}
           N == {i \in DOMAIN q : q[i] = Overflow}
           R == N \ {1}
           up == [i \in M |-> i + 1]
<1>0. Tail(q) \in Seq(Event)
  OBVIOUS
<1>1. /\ DOMAIN q = 1..Len(q) /\ Len(q) \in Nat /\ Len(q) >= 1
      /\ DOMAIN Tail(q) = 1..(Len(q) - 1)
      /\ \A i \in 1..(Len(q) - 1) : Tail(q)[i] = q[i + 1]
      /\ Head(q) = q[1]
  OBVIOUS
<1>2. IsFiniteSet(M) /\ Cardinality(M) \in Nat /\ IsFiniteSet(N)
  BY <1>0, MarksNumber DEF Marks
<1>3. up \in Bijection(M, R)
  <2>1. \A i \in M : i + 1 \in R
    BY <1>1
  <2>2. \A j \in R : j - 1 \in M /\ (j - 1) + 1 = j
    BY <1>1
  <2>3. M \subseteq Int
    BY <1>1
  <2> HIDE DEF M, R
  <2>4. up \in [M -> R]
    BY <2>1
  <2>5. \A i, j \in M : up[i] = up[j] => i = j
    BY <2>3
  <2>6. \A j \in R : \E i \in M : up[i] = j
    BY <2>2
  <2> QED
    BY <2>4, <2>5, <2>6 DEF Bijection, Injection, Surjection, IsInjective
<1>4. IsFiniteSet(R) /\ Cardinality(R) = Cardinality(M)
  <2>1. IsFiniteSet(R)
    BY <1>2, FS_Subset
  <2> HIDE DEF M, R, up
  <2> QED
    BY <1>2, <1>3, <2>1, FS_Bijection DEF ExistsBijection
<1>5. CASE Head(q) = Overflow
  <2>1. N = R \cup {1} /\ 1 \notin R
    BY <1>1, <1>5
  <2> HIDE DEF M, N, R
  <2>2. Cardinality(N) = Cardinality(R) + 1
    BY <1>4, <2>1, FS_AddElement
  <2> QED
    BY <1>4, <1>5, <2>2 DEF Marks, M, N
<1>6. CASE Head(q) # Overflow
  <2>1. N = R
    BY <1>1, <1>6
  <2> HIDE DEF M, N, R
  <2>2. Cardinality(N) = Cardinality(M)
    BY <1>4, <2>1
  <2>3. Marks(q) = Cardinality(N) /\ Marks(Tail(q)) = Cardinality(M)
    BY DEF Marks, M, N
  <2> QED
    BY <1>2, <1>6, <2>2, <2>3
<1> QED
  BY <1>5, <1>6

(***************************************************************************)
(* Sensors: the types are kept                                             *)
(***************************************************************************)
LEMMA KernelPostEvents ==
    ASSUME NEW S, NEW q \in Seq(S), NEW f \in S, Overflow \in S
    PROVE  KernelPost(q, f) \in Seq(S)
<1>1. Append(q, f) \in Seq(S) /\ Append(q, Overflow) \in Seq(S)
  OBVIOUS
<1>2. <<Overflow>> \in Seq(S)
  OBVIOUS
<1>3. Len(q) \in Nat /\ QueueMax \in Nat
  BY SensorsAssumption
<1> QED
  BY <1>1, <1>2, <1>3 DEF KernelPost

LEMMA WriteFileTypes ==
    ASSUME SensorsTypeOK, NEW f \in File, NEW renamed \in BOOLEAN, NEW sameKey \in BOOLEAN,
           WriteFile(f, renamed, sameKey)
    PROVE  SensorsTypeOK'
<1>1. PICK q \in Seq(Event) : disk'.kq = q
  <2>1. disk.kq \in Seq(Event) /\ f \in Event /\ Overflow \in Event
    BY DEF SensorsTypeOK, DiskTypeOK, Event
  <2>2. KernelPost(disk.kq, f) \in Seq(Event)
    BY <2>1, KernelPostEvents
  <2>3. disk'.kq \in {disk.kq, KernelPost(disk.kq, f)}
    BY DEF WriteFile, SensorsTypeOK, DiskTypeOK
  <2> QED
    BY <2>1, <2>2, <2>3
<1>2. PICK v \in Nat : v = disk.ver[f] + 1
  BY DEF SensorsTypeOK, DiskTypeOK
<1>3. PICK k \in Nat : k = IF sameKey THEN disk.key[f] ELSE v
  BY DEF SensorsTypeOK, DiskTypeOK
<1>a. disk.journal.next \in Nat
  BY DEF SensorsTypeOK, DiskTypeOK
<1>4. PICK n \in Nat : n = IF agentCfg.os = "windows" THEN disk.journal.next + 1 ELSE disk.journal.next
  BY <1>a
<1>5. disk' = [disk EXCEPT !.ver[f] = v, !.key[f] = k, !.kq = q, !.journal.next = n]
  BY <1>1, <1>2, <1>3, <1>4 DEF WriteFile, SensorsTypeOK, DiskTypeOK
<1>6. DiskTypeOK'
  BY <1>5 DEF SensorsTypeOK, DiskTypeOK
<1>7. PICK m \in Nat : hist'.episodes = m
  BY DEF WriteFile, SensorsTypeOK, HistTypeOK
<1>8. PICK c \in BOOLEAN : hist'.changed = c
  BY DEF WriteFile, SensorsTypeOK, HistTypeOK
<1>9. PICK u \in Nat : hist'.missed = [hist.missed EXCEPT ![f] = u]
  BY <1>2 DEF WriteFile, SensorsTypeOK, HistTypeOK
<1>10. hist' = [hist EXCEPT !.episodes = m, !.missed[f] = u, !.changed = c]
  BY <1>7, <1>8, <1>9 DEF WriteFile, SensorsTypeOK, HistTypeOK
<1>11. HistTypeOK'
  BY <1>10 DEF SensorsTypeOK, HistTypeOK
<1> QED
  BY <1>6, <1>11 DEF WriteFile, SensorsTypeOK, CfgTypeOK, AdbTypeOK, MemTypeOK

LEMMA JournalLossTypes ==
    ASSUME SensorsTypeOK, JournalLoss
    PROVE  SensorsTypeOK'
<1>1. PICK j : j = disk.journal
  OBVIOUS
<1>2. j \in [id : Nat \ {0}, first : Nat, next : Nat]
  BY <1>1 DEF SensorsTypeOK, DiskTypeOK
<1>3. \/ disk' = [disk EXCEPT !.journal = [j EXCEPT !.first = j.next]]
      \/ disk' = [disk EXCEPT !.journal = [j EXCEPT !.id = j.id + 1, !.first = 0, !.next = 0]]
  BY <1>1 DEF JournalLoss, SensorsTypeOK, DiskTypeOK
<1>a. PICK i \in Nat \ {0} : i = j.id + 1
  BY <1>2
<1>b. [j EXCEPT !.first = j.next] \in [id : Nat \ {0}, first : Nat, next : Nat]
  BY <1>2
<1>c. [j EXCEPT !.id = i, !.first = 0, !.next = 0] \in [id : Nat \ {0}, first : Nat, next : Nat]
  BY <1>2
<1>4. PICK k \in [id : Nat \ {0}, first : Nat, next : Nat] : disk' = [disk EXCEPT !.journal = k]
  BY <1>3, <1>a, <1>b, <1>c, Zenon
<1>5. DiskTypeOK'
  BY <1>4 DEF SensorsTypeOK, DiskTypeOK
<1> QED
  BY <1>5 DEF JournalLoss, SensorsTypeOK, CfgTypeOK, AdbTypeOK, MemTypeOK, HistTypeOK

LEMMA BootTypes ==
    ASSUME SensorsTypeOK, Boot \/ StartFanotify \/ StartRdcw
    PROVE  SensorsTypeOK'
<1>1. CfgTypeOK' /\ DiskTypeOK' /\ HistTypeOK'
  BY DEF Boot, StartFanotify, StartRdcw, SensorsTypeOK, CfgTypeOK, DiskTypeOK, HistTypeOK
<1>2. AdbTypeOK'
  BY DEF Boot, StartFanotify, StartRdcw, SensorsTypeOK, AdbTypeOK
<1>3. MemTypeOK'
  BY DEF Boot, StartFanotify, StartRdcw, SensorsTypeOK, MemTypeOK
<1> QED
  BY <1>1, <1>2, <1>3 DEF SensorsTypeOK

\* What the check of one root leaves.
LEMMA DowntimeStatusType ==
    ASSUME NEW c \in [id : Nat, usn : Nat], NEW j \in [id : Nat \ {0}, first : Nat, next : Nat],
           NEW d \in DowntimeStatus(c, j)
    PROVE  /\ d.cursor \in [id : Nat, usn : Nat]
           /\ d.status = "unavailable" => d.cursor = c
           /\ d.status # "unavailable" =>
                /\ d.cursor.id = j.id /\ d.cursor.usn <= j.next
                /\ c # NoCursor /\ (c.id # j.id \/ c.usn < j.next) =>
                     d.status \in {"changes", "reconcile_required", "no_records"}
<1>1. read_journal(c.usn, j) \in Nat /\ read_journal(c.usn, j) <= j.next
  <2>1. MaxPages \in Nat /\ c.usn \in Nat /\ j.next \in Nat
    BY SensorsAssumption
  <2>2. PICK a \in Nat : a = c.usn + MaxPages
    BY <2>1
  <2>3. \E x \in {a, j.next} : \A y \in {a, j.next} : x <= y
    BY <2>1, <2>2
  <2>4. Min({a, j.next}) \in {a, j.next} /\ Min({a, j.next}) <= j.next
    BY <2>1, <2>3 DEF Min
  <2> QED
    BY <2>1, <2>2, <2>4 DEF read_journal
<1>2. CASE d.status = "unavailable"
  BY <1>2, <1>1 DEF DowntimeStatus
<1>3. CASE d.status # "unavailable"
  BY <1>1, <1>3 DEF DowntimeStatus, plan_resume
<1> QED
  BY <1>2, <1>3

LEMMA CheckTypes ==
    ASSUME SensorsTypeOK, check_downtime_changes
    PROVE  SensorsTypeOK'
<1>1. PICK r \in mem.roots, d \in DowntimeStatus(adb.cursor, disk.journal) :
         /\ adb' = [adb EXCEPT !.cursor = d.cursor]
         /\ mem' = [mem EXCEPT !.roots = @ \ {r},
                               !.need = ReconcileNeeded(d.status),
                               !.checked = @ \/ d.status # "unavailable",
                               !.pc = IF mem.roots = {r} THEN "spawn" ELSE @]
         /\ hist' = [hist EXCEPT !.torn = @ \/ d.status = "no_records"]
  BY DEF check_downtime_changes
<1>a. HistTypeOK'
  <2>1. PICK t \in BOOLEAN : t = (hist.torn \/ d.status = "no_records")
    OBVIOUS
  <2>2. hist' = [hist EXCEPT !.torn = t]
    BY <1>1, <2>1
  <2> QED
    BY <2>2 DEF SensorsTypeOK, HistTypeOK
<1>2. d.cursor \in [id : Nat, usn : Nat]
  BY DowntimeStatusType DEF SensorsTypeOK, DiskTypeOK, AdbTypeOK
<1>3. PICK n \in BOOLEAN : n = ReconcileNeeded(d.status)
  BY DEF SensorsTypeOK, MemTypeOK, ReconcileNeeded
<1>4. PICK c \in BOOLEAN : c = (mem.checked \/ d.status # "unavailable")
  OBVIOUS
<1>5. PICK p \in {"usn", "spawn"} : p = IF mem.roots = {r} THEN "spawn" ELSE mem.pc
  BY DEF check_downtime_changes
<1>6. mem' = [mem EXCEPT !.roots = @ \ {r}, !.need = n, !.checked = c, !.pc = p]
  BY <1>1, <1>3, <1>4, <1>5
<1>7. MemTypeOK'
  BY <1>6 DEF SensorsTypeOK, MemTypeOK
<1>8. AdbTypeOK'
  BY <1>1, <1>2 DEF SensorsTypeOK, AdbTypeOK
<1> QED
  BY <1>7, <1>8, <1>a DEF check_downtime_changes, SensorsTypeOK, CfgTypeOK, DiskTypeOK

\* An entry that could not be read, and what an error leaves alone.
LEMMA SkipsKeep ==
    ASSUME HistTypeOK, NEW n \in Nat, NEW S \in SUBSET (File \cup Dir),
           hist' = [hist EXCEPT !.skips = n, !.skipped = S]
    PROVE  /\ HistTypeOK'
           /\ hist'.skipped = S /\ hist'.before = hist.before /\ hist'.missed = hist.missed
           /\ hist'.changed = hist.changed /\ hist'.torn = hist.torn
           /\ hist'.episodes = hist.episodes /\ hist'.lost = hist.lost
           /\ hist'.silent = hist.silent /\ hist'.spurious = hist.spurious
BY DEF HistTypeOK

LEMMA StartBaselineMoves ==
    ASSUME SensorsTypeOK, StartBaseline
    PROVE  /\ agentCfg' = agentCfg /\ disk' = disk /\ mem.pc = "baseline"
           /\ \E n \in Nat, S \in SUBSET Dir, w \in WalkRec, b \in {"none", "running", "complete"} :
                /\ hist' = [hist EXCEPT !.skips = n, !.skipped = hist.skipped \cup S]
                /\ mem' = [mem EXCEPT !.pc = "running", !.walk = w]
                /\ adb' = [adb EXCEPT !.baseline_state = b]
                /\ w.cur = mem.walk.cur /\ w.todo = mem.walk.todo
                /\ \/ w.on /\ Dir = S \cup w.dirs /\ b = "running"
                   \/ w = mem.walk /\ b = adb.baseline_state
<1>1. agentCfg' = agentCfg /\ disk' = disk /\ mem.pc = "baseline"
  BY DEF StartBaseline
<1>2. PICK w \in WalkRec : w = mem.walk
  BY DEF SensorsTypeOK, MemTypeOK
<1>3. CASE agentCfg.baseline
  <2>1. PICK left \in SUBSET Dir :
              /\ mem' = [mem EXCEPT !.pc = "running", !.walk.on = TRUE, !.walk.dirs = Dir \ left]
              /\ adb' = [adb EXCEPT !.baseline_state = "running"]
              /\ hist' = [hist EXCEPT !.skips = @ + (IF left = {} THEN 0 ELSE 1),
                                      !.skipped = @ \cup left]
    BY <1>3 DEF StartBaseline
  <2>2. PICK n \in Nat : n = hist.skips + (IF left = {} THEN 0 ELSE 1)
    BY DEF SensorsTypeOK, HistTypeOK
  <2>3. PICK ds \in SUBSET Dir : ds = Dir \ left
    OBVIOUS
  <2>4. PICK v : v = [w EXCEPT !.on = TRUE, !.dirs = ds]
    OBVIOUS
  <2>5. v \in WalkRec /\ v.on /\ v.dirs = ds /\ v.cur = w.cur /\ v.todo = w.todo
    BY <2>4 DEF WalkRec
  <2>6. mem' = [mem EXCEPT !.pc = "running", !.walk = v]
    BY <1>2, <2>1, <2>3, <2>4 DEF SensorsTypeOK, MemTypeOK
  <2>7. hist' = [hist EXCEPT !.skips = n, !.skipped = hist.skipped \cup left]
    BY <2>1, <2>2
  <2>8. Dir = left \cup v.dirs
    BY <2>3, <2>5
  <2> QED
    BY <1>1, <1>2, <2>1, <2>2, <2>5, <2>6, <2>7, <2>8, Zenon
<1>4. CASE ~agentCfg.baseline
  <2>1. mem' = [mem EXCEPT !.pc = "running"] /\ adb' = adb /\ hist' = hist
    BY <1>4 DEF StartBaseline
  <2>2. /\ mem' = [mem EXCEPT !.pc = "running", !.walk = w]
        /\ adb' = [adb EXCEPT !.baseline_state = adb.baseline_state]
        /\ adb.baseline_state \in {"none", "running", "complete"}
    BY <1>2, <2>1 DEF SensorsTypeOK, MemTypeOK, AdbTypeOK
  <2>3. /\ hist' = [hist EXCEPT !.skips = hist.skips, !.skipped = hist.skipped \cup {}]
        /\ hist.skips \in Nat
    BY <2>1 DEF SensorsTypeOK, HistTypeOK
  <2> QED
    BY <1>1, <1>2, <2>2, <2>3, Zenon
<1> QED
  BY <1>3, <1>4

LEMMA StartBaselineTypes ==
    ASSUME SensorsTypeOK, StartBaseline
    PROVE  SensorsTypeOK'
<1>1. PICK n \in Nat, S \in SUBSET Dir, w \in WalkRec, b \in {"none", "running", "complete"} :
        /\ hist' = [hist EXCEPT !.skips = n, !.skipped = hist.skipped \cup S]
        /\ mem' = [mem EXCEPT !.pc = "running", !.walk = w]
        /\ adb' = [adb EXCEPT !.baseline_state = b]
  BY StartBaselineMoves, Zenon
<1>2. PICK T \in SUBSET (File \cup Dir) : T = hist.skipped \cup S
  BY DEF SensorsTypeOK, HistTypeOK
<1>3. HistTypeOK'
  BY <1>1, <1>2, SkipsKeep DEF SensorsTypeOK
<1>4. MemTypeOK' /\ AdbTypeOK'
  BY <1>1 DEF SensorsTypeOK, MemTypeOK, AdbTypeOK
<1> QED
  BY <1>3, <1>4, StartBaselineMoves DEF SensorsTypeOK, CfgTypeOK, DiskTypeOK

LEMMA SpawnTypes ==
    ASSUME SensorsTypeOK, SpawnReconcile \/ PollScan
    PROVE  SensorsTypeOK'
<1>1. CfgTypeOK' /\ DiskTypeOK' /\ HistTypeOK'
  BY DEF SpawnReconcile, PollScan, SensorsTypeOK, CfgTypeOK, DiskTypeOK, HistTypeOK
<1>2. AdbTypeOK'
  BY DEF SpawnReconcile, PollScan, SensorsTypeOK, AdbTypeOK
<1>3. ASSUME NEW s \in Scans
      PROVE  BeginScan(s) \in [pc : {"down", "sensor", "usn", "spawn", "baseline", "running"},
             watching : BOOLEAN, dead : BOOLEAN, chan : Seq(Event),
             roots : SUBSET WatchRoot, need : BOOLEAN, checked : BOOLEAN,
             scan : [Scans -> ScanRec], walk : WalkRec]
  <2>1. PICK v \in ScanRec : v = [on |-> TRUE, todo |-> File, cur |-> NoFile]
    BY DEF ScanRec
  <2> QED
    BY <2>1 DEF BeginScan, SensorsTypeOK, MemTypeOK
<1>4. CASE SpawnReconcile
  <2>1. PICK m : m = IF mem.need THEN BeginScan("startup") ELSE mem
    OBVIOUS
  <2>2. m \in [pc : {"down", "sensor", "usn", "spawn", "baseline", "running"},
             watching : BOOLEAN, dead : BOOLEAN, chan : Seq(Event),
             roots : SUBSET WatchRoot, need : BOOLEAN, checked : BOOLEAN,
             scan : [Scans -> ScanRec], walk : WalkRec]
    BY <1>3, <2>1 DEF SensorsTypeOK, MemTypeOK, Scans
  <2>3. mem' = [m EXCEPT !.pc = "baseline"]
    BY <1>4, <2>1 DEF SpawnReconcile
  <2>4. MemTypeOK'
    BY <2>2, <2>3 DEF MemTypeOK
  <2> QED
    BY <1>1, <1>2, <2>4 DEF SensorsTypeOK
<1>6. CASE PollScan
  BY <1>1, <1>2, <1>3, <1>6 DEF SensorsTypeOK, MemTypeOK, PollScan, Scans
<1> QED
  BY <1>4, <1>6

LEMMA EnqueuedType ==
    ASSUME AdbTypeOK, NEW f \in File
    PROVE  /\ WithEnqueued(adb, f) \in
                [sensor : {"none", "fanotify", "poll_reconcile", "rdcw_user_mode"},
                 seen : [File -> Nat], row : [File -> {"none", "queued", "read"}],
                 captured : [File -> Nat], gaps : Nat, counted : Nat, cursor : [id : Nat, usn : Nat],
                 done : SUBSET Dir, baseline_state : {"none", "running", "complete"}]
           /\ WithEnqueued(adb, f).row = [adb.row EXCEPT ![f] = IF @ = "none" THEN "queued" ELSE @]
           /\ WithEnqueued(adb, f).captured = adb.captured
           /\ WithEnqueued(adb, f).gaps = adb.gaps
           /\ WithEnqueued(adb, f).counted = adb.counted
           /\ WithEnqueued(adb, f).baseline_state = adb.baseline_state
           /\ WithEnqueued(adb, f).cursor = adb.cursor
           /\ WithEnqueued(adb, f).done = adb.done
<1>1. CASE adb.row[f] = "none"
  <2>1. WithEnqueued(adb, f) = [adb EXCEPT !.row = [adb.row EXCEPT ![f] = "queued"]]
    BY <1>1 DEF WithEnqueued, AdbTypeOK
  <2>2. PICK r \in [File -> {"none", "queued", "read"}] : r = [adb.row EXCEPT ![f] = "queued"]
    BY DEF AdbTypeOK
  <2>3. WithEnqueued(adb, f) = [adb EXCEPT !.row = r]
    BY <2>1, <2>2
  <2> QED
    BY <1>1, <2>2, <2>3 DEF AdbTypeOK
<1>2. CASE adb.row[f] # "none"
  <2>1. WithEnqueued(adb, f) = adb
    BY <1>2 DEF WithEnqueued
  <2>2. adb.row = [adb.row EXCEPT ![f] = IF @ = "none" THEN "queued" ELSE @]
    BY <1>2 DEF AdbTypeOK
  <2> QED
    BY <2>1, <2>2 DEF AdbTypeOK
<1> QED
  BY <1>1, <1>2

\* A gap row of an overflow, and what it leaves alone.
LEMMA RecordOverflowType ==
    ASSUME AdbTypeOK, CfgTypeOK, adb' = RecordOverflow(adb)
    PROVE  /\ AdbTypeOK'
           /\ adb'.gaps = adb.gaps + 1
           /\ adb'.counted = adb.counted + IF agentCfg.os = "windows" THEN 2 ELSE 1
           /\ adb'.row = adb.row /\ adb'.captured = adb.captured /\ adb'.cursor = adb.cursor
           /\ adb'.done = adb.done /\ adb'.baseline_state = adb.baseline_state
<1>1. PICK g \in Nat : g = adb.gaps + 1
  BY DEF AdbTypeOK
<1>2. PICK c \in Nat : c = adb.counted + IF agentCfg.os = "windows" THEN 2 ELSE 1
  BY DEF AdbTypeOK
<1>3. adb' = [adb EXCEPT !.gaps = g, !.counted = c]
  BY <1>1, <1>2 DEF RecordOverflow
<1> QED
  BY <1>1, <1>2, <1>3 DEF AdbTypeOK

\* What one result of the watch leaves: how the overflow of a result and the
\* counters go together.
LEMMA WatchMoves ==
    ASSUME SensorsTypeOK, watch_root
    PROVE  /\ agentCfg.os = "windows" /\ agentCfg' = agentCfg /\ mem' = mem
           /\ disk.kq # <<>> /\ disk' = [disk EXCEPT !.kq = Tail(@)]
           /\ \/ Head(disk.kq) = Overflow /\ adb' = RecordOverflow(adb) /\ hist' = hist
              \/ Head(disk.kq) = Overflow /\ adb' = adb /\ hist' = [hist EXCEPT !.silent = @ + 1]
              \/ Head(disk.kq) # Overflow /\ adb' \in {adb, WithEnqueued(adb, Head(disk.kq))} /\ hist' = hist
BY DEF watch_root

LEMMA LiveTypes ==
    ASSUME SensorsTypeOK, LiveSensor \/ ReaderDies \/ WatchFails
    PROVE  SensorsTypeOK'
<1>0. CfgTypeOK'
  BY DEF LiveSensor, drain_fd, FanotifyRun, watch_root, ReaderDies, WatchFails, SensorsTypeOK, CfgTypeOK
<1>a. ASSUME drain_fd \/ FanotifyRun \/ ReaderDies PROVE HistTypeOK'
  BY <1>a DEF drain_fd, FanotifyRun, ReaderDies, SensorsTypeOK, HistTypeOK
<1>2. ASSUME NEW q \in Seq(Event), q # <<>>
      PROVE  Tail(q) \in Seq(Event) /\ Head(q) \in Event
  BY <1>2
<1>3. ASSUME NEW e \in Event,
             adb' = CASE e = Overflow -> RecordOverflow(adb)
                      [] e # Overflow /\ matches_exclusion(e) -> adb
                      [] OTHER -> WithEnqueued(adb, e)
      PROVE  AdbTypeOK'
  <2>1. CASE e = Overflow
    BY <1>3, <2>1, RecordOverflowType DEF SensorsTypeOK
  <2>2. CASE e # Overflow /\ matches_exclusion(e)
    BY <1>3, <2>2 DEF AdbTypeOK, SensorsTypeOK
  <2>3. CASE e # Overflow /\ ~matches_exclusion(e)
    <3>1. adb' = WithEnqueued(adb, e) /\ e \in File
      BY <1>3, <2>3 DEF Event
    <3> QED
      BY <3>1, EnqueuedType DEF AdbTypeOK, SensorsTypeOK
  <2> QED
    BY <2>1, <2>2, <2>3
<1>4. CASE drain_fd
  <2>1. PICK q \in Seq(Event) : q = Tail(disk.kq)
    BY <1>2, <1>4 DEF drain_fd, SensorsTypeOK, DiskTypeOK
  <2>2. PICK c \in Seq(Event) : c = Append(mem.chan, Head(disk.kq))
    <3>1. PICK e \in Event : e = Head(disk.kq)
      BY <1>2, <1>4 DEF drain_fd, SensorsTypeOK, DiskTypeOK
    <3>2. mem.chan \in Seq(Event)
      BY DEF SensorsTypeOK, MemTypeOK
    <3>3. PICK b \in Seq(Event) : b = mem.chan
      BY <3>2
    <3>4. Append(b, e) \in Seq(Event)
      OBVIOUS
    <3> QED
      BY <3>1, <3>3, <3>4
  <2>3. disk' = [disk EXCEPT !.kq = q] /\ mem' = [mem EXCEPT !.chan = c] /\ adb' = adb
    BY <1>4, <2>1, <2>2 DEF drain_fd
  <2>4. DiskTypeOK' /\ AdbTypeOK'
    BY <2>3 DEF SensorsTypeOK, DiskTypeOK, AdbTypeOK
  <2>5. MemTypeOK'
    BY <2>3 DEF SensorsTypeOK, MemTypeOK
  <2> QED
    BY <1>0, <1>a, <1>4, <2>4, <2>5 DEF SensorsTypeOK
<1>5. CASE FanotifyRun
  <2>1. PICK c \in Seq(Event) : c = Tail(mem.chan)
    BY <1>2, <1>5 DEF FanotifyRun, SensorsTypeOK, MemTypeOK
  <2>2. PICK e \in Event : e = Head(mem.chan)
    BY <1>2, <1>5 DEF FanotifyRun, SensorsTypeOK, MemTypeOK
  <2>3. MemTypeOK'
    BY <1>5, <2>1 DEF FanotifyRun, SensorsTypeOK, MemTypeOK
  <2>4. AdbTypeOK'
    BY <1>3, <1>5, <2>2 DEF FanotifyRun
  <2> QED
    BY <1>0, <1>a, <1>5, <2>3, <2>4 DEF SensorsTypeOK, FanotifyRun, DiskTypeOK
<1>6. CASE watch_root
  <2>1. PICK q \in Seq(Event) : q = Tail(disk.kq)
    BY <1>2, <1>6 DEF watch_root, SensorsTypeOK, DiskTypeOK
  <2>2. PICK e \in Event : e = Head(disk.kq)
    BY <1>2, <1>6 DEF watch_root, SensorsTypeOK, DiskTypeOK
  <2>3. DiskTypeOK'
    BY <1>6, <2>1 DEF watch_root, SensorsTypeOK, DiskTypeOK
  <2>4. CASE hist' = hist
    <3>1. \/ adb' = RecordOverflow(adb) \/ adb' = adb
          \/ e # Overflow /\ adb' = WithEnqueued(adb, e)
      BY <1>6, <2>2, WatchMoves
    <3>2. AdbTypeOK'
      <4>1. CASE adb' = RecordOverflow(adb)
        BY <4>1, RecordOverflowType DEF SensorsTypeOK
      <4>2. CASE adb' = adb
        BY <4>2 DEF SensorsTypeOK, AdbTypeOK
      <4>3. CASE e \in File /\ adb' = WithEnqueued(adb, e)
        BY <4>3, EnqueuedType DEF SensorsTypeOK, AdbTypeOK
      <4> QED
        BY <3>1, <4>1, <4>2, <4>3 DEF Event
    <3> QED
      BY <1>0, <1>6, <2>3, <2>4, <3>2 DEF SensorsTypeOK, watch_root, MemTypeOK, HistTypeOK
  <2>5. CASE hist' # hist
    <3>1. adb' = adb /\ hist' = [hist EXCEPT !.silent = @ + 1]
      BY <1>6, <2>5, WatchMoves
    <3>a. PICK n \in Nat : n = hist.silent + 1
      BY DEF SensorsTypeOK, HistTypeOK
    <3>2. hist' = [hist EXCEPT !.silent = n]
      BY <3>1, <3>a
    <3> QED
      BY <1>0, <1>6, <2>3, <3>1, <3>2 DEF SensorsTypeOK, watch_root, MemTypeOK, AdbTypeOK, HistTypeOK
  <2> QED
    BY <2>4, <2>5
<1>7. CASE ReaderDies
  BY <1>0, <1>a, <1>7 DEF ReaderDies, SensorsTypeOK, DiskTypeOK, AdbTypeOK, MemTypeOK
<1>8. CASE WatchFails
  <2>1. adb' = RecordOverflow(adb) /\ disk' = disk /\ mem' = mem /\ hist' = [hist EXCEPT !.spurious = @ + 1]
    BY <1>8 DEF WatchFails
  <2>2. AdbTypeOK'
    BY <2>1, RecordOverflowType DEF SensorsTypeOK
  <2>3. PICK n \in Nat : hist' = [hist EXCEPT !.spurious = n]
    BY <2>1 DEF SensorsTypeOK, HistTypeOK
  <2> QED
    BY <1>0, <2>1, <2>2, <2>3 DEF SensorsTypeOK, DiskTypeOK, MemTypeOK, HistTypeOK
<1> QED
  BY <1>4, <1>5, <1>6, <1>7, <1>8 DEF LiveSensor

\* One file of the walk: enqueued, left alone, or passed over unread.
LEMMA EnqueueTreeMoves ==
    ASSUME SensorsTypeOK, NEW f \in File, enqueue_tree(f)
    PROVE  \/ hist' = hist /\ adb' = (IF disk.ver[f] = 0 \/ matches_exclusion(f) THEN adb ELSE WithEnqueued(adb, f))
           \/ adb' = adb /\ \E n \in Nat, S \in SUBSET (File \cup Dir) :
                /\ S = hist.skipped \cup {f}
                /\ hist' = [hist EXCEPT !.skips = n, !.skipped = S]
<1>1. PICK n \in Nat : n = hist.skips + 1
  BY DEF SensorsTypeOK, HistTypeOK
<1>2. PICK S \in SUBSET (File \cup Dir) : S = hist.skipped \cup {f}
  BY DEF SensorsTypeOK, HistTypeOK
<1> QED
  BY <1>1, <1>2 DEF enqueue_tree

\* The walk or a scan that fails: only the count of errors moves.
LEMMA ErrorMoves ==
    ASSUME SensorsTypeOK, hist' = [hist EXCEPT !.skips = @ + 1]
    PROVE  \E n \in Nat, S \in SUBSET (File \cup Dir) :
             S = hist.skipped /\ hist' = [hist EXCEPT !.skips = n, !.skipped = S]
<1>1. PICK n \in Nat : n = hist.skips + 1
  BY DEF SensorsTypeOK, HistTypeOK
<1>2. PICK S \in SUBSET (File \cup Dir) : S = hist.skipped
  BY DEF SensorsTypeOK, HistTypeOK
<1>3. hist' = [hist EXCEPT !.skips = n, !.skipped = S]
  BY <1>1, <1>2 DEF SensorsTypeOK, HistTypeOK
<1> QED
  BY <1>2, <1>3

LEMMA BaselineTypes ==
    ASSUME SensorsTypeOK, Baseline
    PROVE  SensorsTypeOK'
<1>1. CfgTypeOK' /\ DiskTypeOK'
  BY DEF Baseline, BaselineEntry, enqueue_tree, mark_baseline_dir, BaselineEnd, BaselineFails, SensorsTypeOK,
     CfgTypeOK, DiskTypeOK
<1>2. HistTypeOK'
  <2>1. CASE hist' = hist
    BY <2>1 DEF SensorsTypeOK, HistTypeOK
  <2>2. CASE \E S \in SUBSET File : hist' = [hist EXCEPT !.before = @ \cup S]
    <3>1. PICK S \in SUBSET File : hist' = [hist EXCEPT !.before = @ \cup S]
      BY <2>2
    <3>2. PICK B \in SUBSET File : B = hist.before \cup S
      BY DEF SensorsTypeOK, HistTypeOK
    <3>3. hist' = [hist EXCEPT !.before = B]
      BY <3>1, <3>2
    <3> QED
      BY <3>3 DEF SensorsTypeOK, HistTypeOK
  <2>3. ASSUME NEW d \in Dir, BaselineEntry(d)
        PROVE  hist' = hist \/ \E S \in SUBSET File : hist' = [hist EXCEPT !.before = @ \cup S]
    <3>1. PICK S \in SUBSET File : S = {f \in File : DirOf[f] = d /\ disk.ver[f] > 0}
      OBVIOUS
    <3> QED
      BY <2>3, <3>1 DEF BaselineEntry
  <2>4. ASSUME NEW f \in File, enqueue_tree(f) PROVE HistTypeOK'
    BY <2>1, <2>4, EnqueueTreeMoves, SkipsKeep DEF SensorsTypeOK
  <2>5. ASSUME BaselineFails PROVE HistTypeOK'
    BY <2>5, ErrorMoves, SkipsKeep DEF SensorsTypeOK, BaselineFails
  <2> QED
    BY <2>1, <2>2, <2>3, <2>4, <2>5 DEF Baseline, mark_baseline_dir, BaselineEnd
<1>3. AdbTypeOK'
  <2>1. CASE \E f \in File : enqueue_tree(f)
    <3>1. PICK f \in File : enqueue_tree(f)
      BY <2>1
    <3>2. CASE adb' = adb
      BY <3>2 DEF SensorsTypeOK, AdbTypeOK
    <3>3. CASE adb' = WithEnqueued(adb, f)
      BY <3>3, EnqueuedType DEF SensorsTypeOK, AdbTypeOK
    <3> QED
      BY <3>1, <3>2, <3>3 DEF enqueue_tree
  <2>2. CASE mark_baseline_dir
    <3>1. mem.walk.cur \in Dir
      BY <2>2 DEF mark_baseline_dir, SensorsTypeOK, MemTypeOK, WalkRec
    <3>2. PICK D \in SUBSET Dir : D = adb.done \cup {mem.walk.cur}
      BY <3>1 DEF SensorsTypeOK, AdbTypeOK
    <3>3. adb' = [adb EXCEPT !.done = D]
      BY <2>2, <3>2 DEF mark_baseline_dir
    <3> QED
      BY <3>3 DEF SensorsTypeOK, AdbTypeOK
  <2> QED
    BY <2>1, <2>2 DEF Baseline, BaselineEntry, BaselineEnd, BaselineFails, SensorsTypeOK, AdbTypeOK
<1>4. MemTypeOK'
  <2>1. PICK w \in WalkRec : w = mem.walk
    BY DEF SensorsTypeOK, MemTypeOK
  <2>2. ASSUME NEW d \in Dir, BaselineEntry(d) PROVE \E v \in WalkRec : mem' = [mem EXCEPT !.walk = v]
    <3>1. PICK T \in SUBSET File : T = {f \in File : DirOf[f] = d}
      OBVIOUS
    <3>2. \/ mem' = [mem EXCEPT !.walk = [w EXCEPT !.dirs = @ \ {d}]]
          \/ mem' = [mem EXCEPT !.walk = [w EXCEPT !.dirs = @ \ {d}, !.cur = d, !.todo = T]]
      BY <2>1, <2>2, <3>1 DEF BaselineEntry, SensorsTypeOK, MemTypeOK
    <3>3. /\ [w EXCEPT !.dirs = @ \ {d}] \in WalkRec
          /\ [w EXCEPT !.dirs = @ \ {d}, !.cur = d, !.todo = T] \in WalkRec
      BY DEF WalkRec
    <3> QED
      BY <3>2, <3>3, Zenon
  <2>3. ASSUME NEW f \in File, enqueue_tree(f) PROVE \E v \in WalkRec : mem' = [mem EXCEPT !.walk = v]
    <3>1. mem' = [mem EXCEPT !.walk = [w EXCEPT !.todo = @ \ {f}]]
      BY <2>1, <2>3 DEF enqueue_tree, SensorsTypeOK, MemTypeOK
    <3>2. [w EXCEPT !.todo = @ \ {f}] \in WalkRec
      BY DEF WalkRec
    <3> QED
      BY <3>1, <3>2, Zenon
  <2>4. ASSUME mark_baseline_dir \/ BaselineEnd PROVE \E v \in WalkRec : mem' = [mem EXCEPT !.walk = v]
    <3>1. \/ mem' = [mem EXCEPT !.walk = [w EXCEPT !.cur = NoFile]]
          \/ mem' = [mem EXCEPT !.walk = [w EXCEPT !.on = FALSE]]
      BY <2>1, <2>4 DEF mark_baseline_dir, BaselineEnd, SensorsTypeOK, MemTypeOK
    <3>2. [w EXCEPT !.cur = NoFile] \in WalkRec /\ [w EXCEPT !.on = FALSE] \in WalkRec
      BY DEF WalkRec
    <3> QED
      BY <3>1, <3>2, Zenon
  <2>6. ASSUME BaselineFails PROVE \E v \in WalkRec : mem' = [mem EXCEPT !.walk = v]
    <3>1. mem' = [mem EXCEPT !.walk = [w EXCEPT !.on = FALSE, !.dirs = {}]]
      BY <2>1, <2>6 DEF BaselineFails, SensorsTypeOK, MemTypeOK
    <3>2. [w EXCEPT !.on = FALSE, !.dirs = {}] \in WalkRec
      BY DEF WalkRec
    <3> QED
      BY <3>1, <3>2, Zenon
  <2>5. PICK v \in WalkRec : mem' = [mem EXCEPT !.walk = v]
    BY <2>2, <2>3, <2>4, <2>6 DEF Baseline
  <2> QED
    BY <2>5 DEF SensorsTypeOK, MemTypeOK
<1> QED
  BY <1>1, <1>2, <1>3, <1>4 DEF SensorsTypeOK

LEMMA ReconcileTypes ==
    ASSUME SensorsTypeOK, NEW s \in Scans, Reconcile(s)
    PROVE  SensorsTypeOK'
<1>1. CfgTypeOK' /\ DiskTypeOK'
  BY DEF Reconcile, seen_check_and_update, ScanSkips, ReconcileEnqueue, ReconcileEnd, SensorsTypeOK, CfgTypeOK,
     DiskTypeOK
<1>2. PICK v \in ScanRec : v = mem.scan[s]
  BY DEF SensorsTypeOK, MemTypeOK
<1>3. ASSUME NEW u \in ScanRec, mem' = [mem EXCEPT !.scan[s] = u] PROVE MemTypeOK'
  BY <1>3 DEF SensorsTypeOK, MemTypeOK
<1>4. ASSUME NEW f \in File, seen_check_and_update(s, f) PROVE MemTypeOK' /\ AdbTypeOK' /\ HistTypeOK'
  <2>1. \/ mem' = [mem EXCEPT !.scan[s] = [v EXCEPT !.todo = @ \ {f}, !.cur = f]]
        \/ mem' = [mem EXCEPT !.scan[s] = [v EXCEPT !.todo = @ \ {f}]]
    <3>1. \/ mem' = [mem EXCEPT !.scan[s].todo = @ \ {f}, !.scan[s].cur = f]
          \/ mem' = [mem EXCEPT !.scan[s].todo = @ \ {f}]
      BY <1>4 DEF seen_check_and_update
    <3>2. CASE mem' = [mem EXCEPT !.scan[s].todo = @ \ {f}, !.scan[s].cur = f]
      BY <1>2, <3>2 DEF SensorsTypeOK, MemTypeOK
    <3>3. CASE mem' = [mem EXCEPT !.scan[s].todo = @ \ {f}]
      BY <1>2, <3>3 DEF SensorsTypeOK, MemTypeOK
    <3> QED
      BY <3>1, <3>2, <3>3
  <2>2. /\ [v EXCEPT !.todo = @ \ {f}, !.cur = f] \in ScanRec
        /\ [v EXCEPT !.todo = @ \ {f}] \in ScanRec
    BY DEF ScanRec
  <2>3. MemTypeOK'
    BY <1>3, <2>1, <2>2
  <2>4. PICK k \in Nat : k = scan_key(f)
    BY DEF scan_key, SensorsTypeOK, DiskTypeOK
  <2>5. adb' = adb \/ adb' = [adb EXCEPT !.seen[f] = k]
    BY <1>4, <2>4 DEF seen_check_and_update
  <2>6. AdbTypeOK'
    BY <2>5 DEF SensorsTypeOK, AdbTypeOK
  <2> QED
    BY <1>4, <2>3, <2>6 DEF seen_check_and_update, SensorsTypeOK, HistTypeOK
<1>5. ASSUME ReconcileEnqueue(s) PROVE MemTypeOK' /\ AdbTypeOK' /\ HistTypeOK'
  <2>1. PICK f \in File : f = mem.scan[s].cur
    BY <1>2, <1>5 DEF ReconcileEnqueue, ScanRec
  <2>2. mem' = [mem EXCEPT !.scan[s] = [v EXCEPT !.cur = NoFile]]
    BY <1>2, <1>5 DEF ReconcileEnqueue, SensorsTypeOK, MemTypeOK
  <2>3. [v EXCEPT !.cur = NoFile] \in ScanRec
    BY DEF ScanRec
  <2>4. MemTypeOK'
    BY <1>3, <2>2, <2>3
  <2>5. AdbTypeOK'
    BY <1>5, <2>1, EnqueuedType DEF ReconcileEnqueue, SensorsTypeOK, AdbTypeOK
  <2>6. PICK n \in Nat : n = disk.ver[f]
    BY DEF SensorsTypeOK, DiskTypeOK
  <2>7. hist' = hist \/ hist' = [hist EXCEPT !.missed[f] = n]
    BY <1>5, <2>1, <2>6 DEF ReconcileEnqueue
  <2>8. HistTypeOK'
    BY <2>7 DEF SensorsTypeOK, HistTypeOK
  <2> QED
    BY <2>4, <2>5, <2>8
<1>6. ASSUME ReconcileEnd(s) PROVE MemTypeOK' /\ AdbTypeOK' /\ HistTypeOK'
  <2>1. mem' = [mem EXCEPT !.scan[s] = [v EXCEPT !.on = FALSE]]
    BY <1>2, <1>6 DEF ReconcileEnd, SensorsTypeOK, MemTypeOK
  <2>2. [v EXCEPT !.on = FALSE] \in ScanRec
    BY DEF ScanRec
  <2> QED
    BY <1>3, <1>6, <2>1, <2>2 DEF ReconcileEnd, SensorsTypeOK, AdbTypeOK, HistTypeOK
<1>7. ASSUME NEW f \in File, ScanSkips(s, f) PROVE MemTypeOK' /\ AdbTypeOK' /\ HistTypeOK'
  <2>1. mem' = [mem EXCEPT !.scan[s] = [v EXCEPT !.todo = @ \ {f}]]
    BY <1>2, <1>7 DEF ScanSkips, SensorsTypeOK, MemTypeOK
  <2>2. [v EXCEPT !.todo = @ \ {f}] \in ScanRec
    BY DEF ScanRec
  <2>3. HistTypeOK'
    BY <1>7, ErrorMoves, SkipsKeep DEF SensorsTypeOK, ScanSkips
  <2> QED
    BY <1>3, <1>7, <2>1, <2>2, <2>3 DEF ScanSkips, SensorsTypeOK, AdbTypeOK
<1> QED
  BY <1>1, <1>4, <1>5, <1>6, <1>7 DEF Reconcile, SensorsTypeOK

LEMMA CaptureTypes ==
    ASSUME SensorsTypeOK, NEW f \in File, CaptureRead(f) \/ CaptureEnd(f)
    PROVE  SensorsTypeOK'
<1>1. CfgTypeOK' /\ DiskTypeOK' /\ MemTypeOK' /\ HistTypeOK'
  BY DEF CaptureRead, CaptureEnd, SensorsTypeOK, CfgTypeOK, DiskTypeOK, MemTypeOK, HistTypeOK
<1>2. PICK n \in Nat : n = disk.ver[f]
  BY DEF SensorsTypeOK, DiskTypeOK
<1>3. \/ adb' = [adb EXCEPT !.row[f] = "read", !.captured[f] = n]
      \/ adb' = [adb EXCEPT !.row[f] = "none"]
  BY <1>2 DEF CaptureRead, CaptureEnd
<1>4. AdbTypeOK'
  <2>1. CASE adb' = [adb EXCEPT !.row[f] = "read", !.captured[f] = n]
    <3>1. PICK r \in [File -> {"none", "queued", "read"}] : r = [adb.row EXCEPT ![f] = "read"]
      BY DEF SensorsTypeOK, AdbTypeOK
    <3>2. PICK c \in [File -> Nat] : c = [adb.captured EXCEPT ![f] = n]
      BY DEF SensorsTypeOK, AdbTypeOK
    <3>3. adb' = [adb EXCEPT !.row = r, !.captured = c]
      BY <2>1, <3>1, <3>2 DEF SensorsTypeOK, AdbTypeOK
    <3> QED
      BY <3>3 DEF SensorsTypeOK, AdbTypeOK
  <2>2. CASE adb' = [adb EXCEPT !.row[f] = "none"]
    BY <2>2 DEF SensorsTypeOK, AdbTypeOK
  <2> QED
    BY <1>3, <2>1, <2>2
<1> QED
  BY <1>1, <1>4 DEF SensorsTypeOK

LEMMA DownType ==
    DownProcess \in [pc : {"down", "sensor", "usn", "spawn", "baseline", "running"},
             watching : BOOLEAN, dead : BOOLEAN, chan : Seq(Event),
             roots : SUBSET WatchRoot, need : BOOLEAN, checked : BOOLEAN,
             scan : [Scans -> ScanRec], walk : WalkRec]
<1>1. <<>> \in Seq(Event)
  BY EmptySeq
<1>2. [on |-> FALSE, todo |-> {}, cur |-> NoFile] \in ScanRec
  BY DEF ScanRec
<1>3. [on |-> FALSE, dirs |-> {}, cur |-> NoFile, todo |-> {}] \in WalkRec
  BY DEF WalkRec
<1> QED
  BY <1>1, <1>2, <1>3 DEF DownProcess

LEMMA CrashTypes ==
    ASSUME SensorsTypeOK, SensorCrash
    PROVE  SensorsTypeOK'
<1>1. CfgTypeOK' /\ AdbTypeOK'
  BY DEF SensorCrash, SensorsTypeOK, CfgTypeOK, AdbTypeOK
<1>2. MemTypeOK'
  BY DownType DEF SensorCrash, MemTypeOK
<1>3. PICK e \in Seq(Event) : e = <<>>
  BY EmptySeq
<1>4. DiskTypeOK'
  BY <1>3 DEF SensorCrash, SensorsTypeOK, DiskTypeOK
<1>5. PICK l \in Nat : l = hist.lost + Marks(disk.kq) + Marks(mem.chan)
  <2>1. disk.kq \in Seq(Event) /\ mem.chan \in Seq(Event) /\ hist.lost \in Nat
    BY DEF SensorsTypeOK, DiskTypeOK, MemTypeOK, HistTypeOK
  <2>2. Marks(disk.kq) \in Nat /\ Marks(mem.chan) \in Nat
    BY <2>1, MarksNumber
  <2> QED
    BY <2>1, <2>2
<1>6. PICK m \in [File -> Nat] : m = [f \in File |->
        IF Unread(f) /\ \E s \in Scans : mem.scan[s].cur = f THEN disk.ver[f] ELSE hist.missed[f]]
  BY DEF SensorsTypeOK, DiskTypeOK, HistTypeOK
<1>7. PICK c \in BOOLEAN : c = (hist.changed /\ mem.pc # "running")
  OBVIOUS
<1>8. PICK t \in BOOLEAN : t = (mem.pc # "running")
  OBVIOUS
<1>n. PICK n \in Nat : n = hist.crashes + 1
  BY DEF SensorsTypeOK, HistTypeOK
<1>9. hist' = [hist EXCEPT !.crashes = n, !.lost = l, !.missed = m, !.changed = c, !.torn = t]
  BY <1>5, <1>6, <1>7, <1>8, <1>n DEF SensorCrash
<1>10. HistTypeOK'
  BY <1>9 DEF SensorsTypeOK, HistTypeOK
<1> QED
  BY <1>1, <1>2, <1>4, <1>10 DEF SensorsTypeOK

LEMMA SensorsTypesStart == SensorsInit => SensorsTypeOK
<1> SUFFICES ASSUME SensorsInit PROVE SensorsTypeOK
  OBVIOUS
<1>1. CfgTypeOK
  BY DEF SensorsInit, CfgTypeOK
<1>2. PICK e \in Seq(Event) : e = <<>>
  BY EmptySeq
<1>3. DiskTypeOK
  BY <1>2 DEF SensorsInit, DiskTypeOK
<1>4. AdbTypeOK
  BY DEF SensorsInit, AdbTypeOK, NoCursor
<1>5. MemTypeOK
  BY DownType DEF SensorsInit, MemTypeOK
<1>6. HistTypeOK
  BY DEF SensorsInit, HistTypeOK
<1> QED
  BY <1>1, <1>3, <1>4, <1>5, <1>6 DEF SensorsTypeOK

LEMMA SensorsTypesKept == SensorsTypeOK /\ [SensorsNext]_SensorsVars => SensorsTypeOK'
<1> SUFFICES ASSUME SensorsTypeOK, [SensorsNext]_SensorsVars PROVE SensorsTypeOK'
  OBVIOUS
<1>1. CASE UNCHANGED SensorsVars
  <2>1. CfgTypeOK' /\ DiskTypeOK' /\ AdbTypeOK'
    BY <1>1 DEF SensorsVars, SensorsTypeOK, CfgTypeOK, DiskTypeOK, AdbTypeOK
  <2>2. MemTypeOK' /\ HistTypeOK'
    BY <1>1 DEF SensorsVars, SensorsTypeOK, MemTypeOK, HistTypeOK
  <2> QED
    BY <2>1, <2>2 DEF SensorsTypeOK
<1>2. CASE StartUp
  BY <1>2, BootTypes, CheckTypes, SpawnTypes, StartBaselineTypes DEF StartUp
<1>3. CASE LiveSensor \/ ReaderDies \/ WatchFails \/ Baseline \/ PollScan \/ SensorCrash \/ JournalLoss
  BY <1>3, LiveTypes, BaselineTypes, SpawnTypes, CrashTypes, JournalLossTypes
<1>4. CASE \E s \in Scans : Reconcile(s)
  BY <1>4, ReconcileTypes
<1>5. CASE \E f \in File : CaptureRead(f) \/ CaptureEnd(f)
  BY <1>5, CaptureTypes
<1>6. CASE \E f \in File, renamed, sameKey \in BOOLEAN : WriteFile(f, renamed, sameKey)
  BY <1>6, WriteFileTypes
<1> QED
  BY <1>1, <1>2, <1>3, <1>4, <1>5, <1>6 DEF SensorsNext

(***************************************************************************)
(* Sensors: changes while the agent is down                                *)
(***************************************************************************)
\* The start-up of the process and the writes to the disk decide; the rest
\* leaves the journal, the cursor and what the check found alone.
LEMMA QuietSteps ==
    ASSUME SensorsTypeOK,
           \/ LiveSensor \/ ReaderDies \/ WatchFails \/ Baseline \/ PollScan
           \/ \E s \in Scans : Reconcile(s)
           \/ \E f \in File : CaptureRead(f) \/ CaptureEnd(f)
    PROVE  /\ agentCfg' = agentCfg /\ disk'.journal = disk.journal /\ adb'.cursor = adb.cursor
           /\ mem'.pc = mem.pc /\ mem'.checked = mem.checked /\ mem'.need = mem.need
           /\ hist'.changed = hist.changed /\ hist'.torn = hist.torn
<1> USE DEF SensorsTypeOK
<1>1. agentCfg' = agentCfg
  BY DEF LiveSensor, drain_fd, FanotifyRun, watch_root, ReaderDies, WatchFails, Baseline, BaselineEntry, enqueue_tree,
     mark_baseline_dir, BaselineEnd, BaselineFails, PollScan, Reconcile, seen_check_and_update, ScanSkips, ReconcileEnqueue, ReconcileEnd,
     CaptureRead, CaptureEnd
<1>2. disk'.journal = disk.journal
  BY DEF LiveSensor, drain_fd, FanotifyRun, watch_root, ReaderDies, WatchFails, Baseline, BaselineEntry, enqueue_tree,
     mark_baseline_dir, BaselineEnd, BaselineFails, PollScan, Reconcile, seen_check_and_update, ScanSkips, ReconcileEnqueue, ReconcileEnd,
     CaptureRead, CaptureEnd, DiskTypeOK
<1>3. mem'.pc = mem.pc /\ mem'.checked = mem.checked /\ mem'.need = mem.need
  BY DEF LiveSensor, drain_fd, FanotifyRun, watch_root, ReaderDies, WatchFails, Baseline, BaselineEntry, enqueue_tree,
     mark_baseline_dir, BaselineEnd, BaselineFails, PollScan, BeginScan, Reconcile, seen_check_and_update, ScanSkips, ReconcileEnqueue,
     ReconcileEnd, CaptureRead, CaptureEnd, MemTypeOK
<1>4. hist'.changed = hist.changed /\ hist'.torn = hist.torn
  BY DEF LiveSensor, drain_fd, FanotifyRun, watch_root, ReaderDies, WatchFails, Baseline, BaselineEntry, enqueue_tree,
     mark_baseline_dir, BaselineEnd, BaselineFails, PollScan, Reconcile, seen_check_and_update, ScanSkips, ReconcileEnqueue, ReconcileEnd,
     CaptureRead, CaptureEnd, HistTypeOK
<1>5. adb'.cursor = adb.cursor
  BY DEF LiveSensor, drain_fd, FanotifyRun, watch_root, ReaderDies, WatchFails, Baseline, BaselineEntry, enqueue_tree,
     mark_baseline_dir, BaselineEnd, BaselineFails, PollScan, Reconcile, seen_check_and_update, ScanSkips, ReconcileEnqueue, ReconcileEnd,
     CaptureRead, CaptureEnd, AdbTypeOK, WithEnqueued, RecordOverflow
<1> QED
  BY <1>1, <1>2, <1>3, <1>4, <1>5

LEMMA DowntimeKept == SensorsTypeOK /\ DowntimeInv /\ [SensorsNext]_SensorsVars => DowntimeInv'
<1> SUFFICES ASSUME SensorsTypeOK, DowntimeInv, [SensorsNext]_SensorsVars PROVE DowntimeInv'
  OBVIOUS
<1>0. /\ adb.cursor \in [id : Nat, usn : Nat] /\ disk.journal \in [id : Nat \ {0}, first : Nat, next : Nat]
      /\ adb.cursor.id \in Nat /\ adb.cursor.usn \in Nat /\ disk.journal.id \in Nat \ {0} /\ disk.journal.next \in Nat
  BY DEF SensorsTypeOK, AdbTypeOK, DiskTypeOK
<1>1. ASSUME agentCfg' = agentCfg, disk'.journal = disk.journal, adb'.cursor = adb.cursor,
             mem'.pc = mem.pc, mem'.checked = mem.checked, mem'.need = mem.need,
             hist'.changed = hist.changed, hist'.torn = hist.torn
      PROVE  DowntimeInv'
  BY <1>1 DEF DowntimeInv, Behind
<1>2. CASE UNCHANGED SensorsVars
  BY <1>1, <1>2 DEF SensorsVars
<1>3. CASE \/ LiveSensor \/ ReaderDies \/ WatchFails \/ Baseline \/ PollScan
           \/ \E s \in Scans : Reconcile(s)
           \/ \E f \in File : CaptureRead(f) \/ CaptureEnd(f)
  BY <1>1, <1>3, QuietSteps
<1>4. CASE \E f \in File, renamed, sameKey \in BOOLEAN : WriteFile(f, renamed, sameKey)
  <2>1. PICK f \in File, renamed \in BOOLEAN, sameKey \in BOOLEAN : WriteFile(f, renamed, sameKey)
    BY <1>4
  <2>2. /\ UNCHANGED <<agentCfg, adb, mem>>
        /\ hist'.torn = hist.torn
        /\ hist'.changed => hist.changed \/ (mem.pc = "down" /\ adb.cursor # NoCursor)
    BY <2>1 DEF WriteFile, SensorsTypeOK, HistTypeOK
  <2>3. /\ disk'.journal.id = disk.journal.id
        /\ disk'.journal.next = IF agentCfg.os = "windows" THEN disk.journal.next + 1 ELSE disk.journal.next
    BY <2>1 DEF WriteFile, SensorsTypeOK, DiskTypeOK
  <2> QED
    BY <1>0, <2>2, <2>3 DEF DowntimeInv, Behind
<1>5. CASE JournalLoss
  <2>1. /\ UNCHANGED <<agentCfg, adb, mem, hist>>
        /\ adb.cursor # NoCursor
        /\ \/ disk'.journal.id = disk.journal.id /\ disk'.journal.next = disk.journal.next
           \/ disk'.journal.id = disk.journal.id + 1
    <3>1. PICK j \in [id : Nat \ {0}, first : Nat, next : Nat] : j = disk.journal
      BY <1>0
    <3>2. \/ disk' = [disk EXCEPT !.journal = [j EXCEPT !.first = j.next]]
          \/ disk' = [disk EXCEPT !.journal = [j EXCEPT !.id = j.id + 1, !.first = 0, !.next = 0]]
      BY <1>5, <3>1 DEF JournalLoss, SensorsTypeOK, DiskTypeOK
    <3>3. \/ disk'.journal = [j EXCEPT !.first = j.next]
          \/ disk'.journal = [j EXCEPT !.id = j.id + 1, !.first = 0, !.next = 0]
      BY <3>2 DEF SensorsTypeOK, DiskTypeOK
    <3> QED
      BY <1>5, <3>1, <3>3 DEF JournalLoss
  <2> QED
    BY <1>0, <2>1 DEF DowntimeInv, Behind
<1>6. CASE Boot \/ StartFanotify \/ StartRdcw \/ SpawnReconcile \/ StartBaseline
  <2>1. UNCHANGED <<agentCfg, disk>> /\ adb'.cursor = adb.cursor
    BY <1>6 DEF Boot, StartFanotify, StartRdcw, SpawnReconcile, StartBaseline, SensorsTypeOK, AdbTypeOK
  <2>a. hist'.changed = hist.changed /\ hist'.torn = hist.torn
    BY <1>6 DEF Boot, StartFanotify, StartRdcw, SpawnReconcile, StartBaseline, SensorsTypeOK, HistTypeOK
  <2>2. mem'.checked = mem.checked /\ mem'.need = mem.need
    BY <1>6 DEF Boot, StartFanotify, StartRdcw, SpawnReconcile, StartBaseline, BeginScan, SensorsTypeOK, MemTypeOK
  <2>3. mem'.pc # "down" /\ (mem'.pc \in {"usn", "spawn"} => agentCfg.os = "windows")
    BY <1>6 DEF Boot, StartFanotify, StartRdcw, SpawnReconcile, StartBaseline, BeginScan, SensorsTypeOK, MemTypeOK
  <2> QED
    BY <2>1, <2>2, <2>3, <2>a DEF DowntimeInv, Behind
<1>7. CASE check_downtime_changes
  <2>1. PICK r \in mem.roots, d \in DowntimeStatus(adb.cursor, disk.journal) :
         /\ adb' = [adb EXCEPT !.cursor = d.cursor]
         /\ mem' = [mem EXCEPT !.roots = @ \ {r},
                               !.need = ReconcileNeeded(d.status),
                               !.checked = @ \/ d.status # "unavailable",
                               !.pc = IF mem.roots = {r} THEN "spawn" ELSE @]
         /\ hist' = [hist EXCEPT !.torn = @ \/ d.status = "no_records"]
    BY <1>7 DEF check_downtime_changes
  <2>2. /\ UNCHANGED <<agentCfg, disk>> /\ adb'.cursor = d.cursor
        /\ mem.pc = "usn" /\ mem'.pc \in {"usn", "spawn"}
    BY <1>7, <2>1 DEF check_downtime_changes, SensorsTypeOK, AdbTypeOK, MemTypeOK
  <2>3. /\ mem'.checked <=> mem.checked \/ d.status # "unavailable"
        /\ mem'.need <=> mem.need \/ d.status \in {"changes", "reconcile_required"}
    BY <2>1 DEF SensorsTypeOK, MemTypeOK, ReconcileNeeded
  <2>a. hist'.changed = hist.changed /\ (hist'.torn <=> hist.torn \/ d.status = "no_records")
    BY <2>1 DEF SensorsTypeOK, HistTypeOK
  <2>4. /\ d.cursor \in [id : Nat, usn : Nat]
        /\ d.status = "unavailable" => d.cursor = adb.cursor
        /\ d.status # "unavailable" =>
                /\ d.cursor.id = disk.journal.id /\ d.cursor.usn <= disk.journal.next
                /\ adb.cursor # NoCursor /\ (adb.cursor.id # disk.journal.id \/ adb.cursor.usn < disk.journal.next) =>
                     d.status \in {"changes", "reconcile_required", "no_records"}
    BY <1>0, DowntimeStatusType
  <2>5. agentCfg.os = "windows"
    BY <2>2 DEF DowntimeInv
  <2>6. Behind => adb.cursor # NoCursor /\ (adb.cursor.id # disk.journal.id \/ adb.cursor.usn < disk.journal.next)
    BY <1>0 DEF Behind
  <2>7. CASE d.status = "unavailable"
    BY <2>2, <2>3, <2>a, <2>4, <2>5, <2>7 DEF DowntimeInv, Behind
  <2>8. CASE d.status # "unavailable"
    <3>1. adb'.cursor.id = disk'.journal.id /\ adb'.cursor.usn <= disk'.journal.next
      BY <2>2, <2>4, <2>8
    <3>2. hist'.changed /\ ~hist'.torn => mem'.need
      BY <2>a, <2>3, <2>4, <2>6, <2>8 DEF DowntimeInv
    <3> QED
      BY <1>0, <2>2, <2>3, <2>5, <2>8, <3>1, <3>2 DEF DowntimeInv
  <2> QED
    BY <2>7, <2>8
<1>8. CASE SensorCrash
  <2>1. /\ UNCHANGED <<agentCfg, adb>> /\ disk'.journal = disk.journal
        /\ mem'.pc = "down" /\ ~mem'.checked
    BY <1>8 DEF SensorCrash, DownProcess, SensorsTypeOK, DiskTypeOK
  <2>2. ~(hist'.changed /\ ~hist'.torn)
    BY <1>8 DEF SensorCrash, SensorsTypeOK, HistTypeOK
  <2> QED
    BY <2>1, <2>2 DEF DowntimeInv
<1> QED
  BY <1>2, <1>3, <1>4, <1>5, <1>6, <1>7, <1>8 DEF SensorsNext, StartUp

\* Files that changed while the agent was down are scanned for at start-up
\* whenever a root's journal could be read (usn.rs, main.rs), however many
\* roots share the cursor and whatever became of the journal.
THEOREM DowntimeSafe == SensorsSpec => []DowntimeReconciled
<1>1. SensorsInit => DowntimeInv
  BY DEF SensorsInit, DowntimeInv, Behind, NoCursor, DownProcess
<1>2. SensorsTypeOK /\ DowntimeInv => DowntimeReconciled
  BY DEF DowntimeInv, DowntimeReconciled
<1> QED
  BY <1>1, <1>2, DowntimeKept, SensorsTypesStart, SensorsTypesKept, PTL DEF SensorsSpec

(***************************************************************************)
(* Sensors: overflow                                                       *)
(***************************************************************************)
\* Which steps move what the histories count.
LEMMA HistQuiet ==
    ASSUME SensorsTypeOK,
           \/ JournalLoss \/ StartUp \/ ReaderDies \/ PollScan \/ drain_fd \/ FanotifyRun \/ Baseline
           \/ \E s \in Scans : Reconcile(s)
           \/ \E f \in File : CaptureRead(f) \/ CaptureEnd(f)
    PROVE  /\ hist'.episodes = hist.episodes /\ hist'.lost = hist.lost
           /\ hist'.silent = hist.silent /\ hist'.spurious = hist.spurious
           /\ hist.skipped \subseteq hist'.skipped
           /\ hist'.before = hist.before \/ \E d \in Dir : BaselineEntry(d)
<1> USE DEF SensorsTypeOK, HistTypeOK
<1>1. CASE JournalLoss \/ ReaderDies \/ PollScan \/ drain_fd \/ FanotifyRun
  BY <1>1 DEF JournalLoss, ReaderDies, PollScan, drain_fd, FanotifyRun
<1>2. CASE StartUp
  <2>1. CASE StartBaseline
    <3>1. PICK n \in Nat, S \in SUBSET Dir : hist' = [hist EXCEPT !.skips = n, !.skipped = hist.skipped \cup S]
      BY <2>1, StartBaselineMoves
    <3>2. PICK T \in SUBSET (File \cup Dir) : T = hist.skipped \cup S
      OBVIOUS
    <3>3. /\ hist'.skipped = T /\ hist'.before = hist.before
          /\ hist'.episodes = hist.episodes /\ hist'.lost = hist.lost
          /\ hist'.silent = hist.silent /\ hist'.spurious = hist.spurious
      BY <3>1, <3>2, SkipsKeep
    <3> QED
      BY <3>2, <3>3
  <2>2. CASE check_downtime_changes
    BY <2>2 DEF check_downtime_changes
  <2>3. CASE Boot \/ StartFanotify \/ StartRdcw \/ SpawnReconcile
    BY <2>3 DEF Boot, StartFanotify, StartRdcw, SpawnReconcile
  <2> QED
    BY <1>2, <2>1, <2>2, <2>3 DEF StartUp
<1>3. CASE Baseline
  BY <1>3 DEF Baseline, BaselineEntry, enqueue_tree, mark_baseline_dir, BaselineEnd, BaselineFails
<1>4. CASE \E s \in Scans : Reconcile(s)
  BY <1>4 DEF Reconcile, seen_check_and_update, ScanSkips, ReconcileEnqueue, ReconcileEnd
<1>5. CASE \E f \in File : CaptureRead(f) \/ CaptureEnd(f)
  BY <1>5 DEF CaptureRead, CaptureEnd
<1> QED
  BY <1>1, <1>2, <1>3, <1>4, <1>5

LEMMA HistLive ==
    ASSUME SensorsTypeOK, \/ watch_root \/ WatchFails \/ SensorCrash
                          \/ \E f \in File, renamed, sameKey \in BOOLEAN : WriteFile(f, renamed, sameKey)
    PROVE  hist'.skipped = hist.skipped /\ hist'.before = hist.before
BY DEF watch_root, WatchFails, SensorCrash, WriteFile, SensorsTypeOK, HistTypeOK

LEMMA OverflowKept == SensorsTypeOK /\ OverflowInv /\ [SensorsNext]_SensorsVars => OverflowInv'
<1> SUFFICES ASSUME SensorsTypeOK, OverflowInv, [SensorsNext]_SensorsVars PROVE OverflowInv'
  OBVIOUS
<1>0. /\ disk.kq \in Seq(Event) /\ mem.chan \in Seq(Event)
      /\ adb.gaps \in Nat /\ adb.counted \in Nat /\ hist.lost \in Nat /\ hist.episodes \in Nat
      /\ hist.silent \in Nat /\ hist.spurious \in Nat
  BY DEF SensorsTypeOK, DiskTypeOK, MemTypeOK, AdbTypeOK, HistTypeOK
<1>m. Marks(disk.kq) \in Nat /\ Marks(mem.chan) \in Nat
  BY <1>0, MarksNumber
<1>1. ASSUME agentCfg' = agentCfg, disk'.kq = disk.kq, mem'.chan = mem.chan, adb'.gaps = adb.gaps,
             adb'.counted = adb.counted, hist'.episodes = hist.episodes, hist'.lost = hist.lost,
             hist'.silent = hist.silent, hist'.spurious = hist.spurious
      PROVE  OverflowInv'
  <2>1. Marks(disk.kq)' = Marks(disk.kq) /\ Marks(mem.chan)' = Marks(mem.chan)
    BY <1>1 DEF Marks
  <2> QED
    BY <1>1, <2>1 DEF OverflowInv
<1>2. CASE UNCHANGED SensorsVars
  BY <1>1, <1>2 DEF SensorsVars
<1>3. CASE JournalLoss \/ StartUp \/ ReaderDies \/ PollScan
  <2>a. /\ hist'.episodes = hist.episodes /\ hist'.lost = hist.lost
        /\ hist'.silent = hist.silent /\ hist'.spurious = hist.spurious
    BY <1>3, HistQuiet
  <2>1. agentCfg' = agentCfg /\ disk'.kq = disk.kq
    BY <1>3 DEF JournalLoss, StartUp, Boot, StartFanotify, StartRdcw, check_downtime_changes, SpawnReconcile, StartBaseline,
       ReaderDies, PollScan, SensorsTypeOK, DiskTypeOK
  <2>2. adb'.gaps = adb.gaps /\ adb'.counted = adb.counted
    BY <1>3 DEF JournalLoss, StartUp, Boot, StartFanotify, StartRdcw, check_downtime_changes, SpawnReconcile, StartBaseline,
       ReaderDies, PollScan, SensorsTypeOK, AdbTypeOK
  <2>3. mem'.chan = mem.chan
    BY <1>3 DEF JournalLoss, StartUp, Boot, StartFanotify, StartRdcw, check_downtime_changes, SpawnReconcile, StartBaseline,
       BeginScan, ReaderDies, PollScan, SensorsTypeOK, MemTypeOK
  <2> QED
    BY <1>1, <2>1, <2>2, <2>3, <2>a
<1>4. CASE \/ Baseline
           \/ \E s \in Scans : Reconcile(s)
           \/ \E f \in File : CaptureRead(f) \/ CaptureEnd(f)
  <2>1. agentCfg' = agentCfg /\ disk' = disk
    BY <1>4 DEF Baseline, BaselineEntry, enqueue_tree, mark_baseline_dir, BaselineEnd, BaselineFails, Reconcile, seen_check_and_update, ScanSkips,
       ReconcileEnqueue, ReconcileEnd, CaptureRead, CaptureEnd
  <2>2. /\ hist'.episodes = hist.episodes /\ hist'.lost = hist.lost
        /\ hist'.silent = hist.silent /\ hist'.spurious = hist.spurious
    BY <1>4, HistQuiet
  <2>3. adb'.gaps = adb.gaps /\ adb'.counted = adb.counted
    BY <1>4 DEF Baseline, BaselineEntry, enqueue_tree, mark_baseline_dir, BaselineEnd, BaselineFails, Reconcile, seen_check_and_update, ScanSkips,
       ReconcileEnqueue, ReconcileEnd, CaptureRead, CaptureEnd, SensorsTypeOK, AdbTypeOK, WithEnqueued
  <2>4. mem'.chan = mem.chan
    BY <1>4 DEF Baseline, BaselineEntry, enqueue_tree, mark_baseline_dir, BaselineEnd, BaselineFails, Reconcile, seen_check_and_update, ScanSkips,
       ReconcileEnqueue, ReconcileEnd, CaptureRead, CaptureEnd, SensorsTypeOK, MemTypeOK
  <2> QED
    BY <1>1, <2>1, <2>2, <2>3, <2>4
<1>b. PICK k0 \in Nat, c0 \in Nat, g0 \in Nat, n0 \in Nat, e0 \in Nat, l0 \in Nat, z0 \in Nat, u0 \in Nat :
        /\ k0 = Marks(disk.kq) /\ c0 = Marks(mem.chan) /\ g0 = adb.gaps /\ n0 = adb.counted
        /\ e0 = hist.episodes /\ l0 = hist.lost /\ z0 = hist.silent /\ u0 = hist.spurious
  BY <1>0, <1>m
<1>c. /\ e0 + u0 = k0 + c0 + g0 + l0 + z0
      /\ n0 = g0 + IF agentCfg.os = "windows" THEN g0 ELSE 0
      /\ agentCfg.os = "windows" => k0 <= 1
  BY <1>b DEF OverflowInv
<1>d. ASSUME agentCfg' = agentCfg, agentCfg.os = "windows" => Marks(disk.kq)' <= 1,
             NEW x, NEW y, x = y,
             x = hist'.episodes + hist'.spurious,
             y = Marks(disk.kq)' + Marks(mem.chan)' + adb'.gaps + hist'.lost + hist'.silent,
             adb'.counted = adb'.gaps + IF agentCfg.os = "windows" THEN adb'.gaps ELSE 0
      PROVE  OverflowInv'
  BY <1>d DEF OverflowInv
<1>5. ASSUME NEW e \in Event, e # Overflow, adb' \in {adb, WithEnqueued(adb, e)}
      PROVE  adb'.gaps = adb.gaps /\ adb'.counted = adb.counted
  <2>1. e \in File
    BY <1>5 DEF Event
  <2> QED
    BY <1>5, <2>1, EnqueuedType DEF SensorsTypeOK
<1>a. ASSUME NEW k \in Nat, Marks(disk.kq)' = k, mem' = mem,
             \/ Marks(disk.kq) = k + 1 /\ adb' = RecordOverflow(adb) /\ hist' = hist
             \/ Marks(disk.kq) = k + 1 /\ adb' = adb /\ hist' = [hist EXCEPT !.silent = @ + 1]
             \/ Marks(disk.kq) = k /\ adb'.gaps = adb.gaps /\ adb'.counted = adb.counted /\ hist' = hist
             \/ Marks(disk.kq) = k /\ adb' = RecordOverflow(adb) /\ hist' = [hist EXCEPT !.spurious = @ + 1],
             agentCfg' = agentCfg, agentCfg.os = "windows"
      PROVE  OverflowInv'
  <2>1. Marks(mem.chan)' = Marks(mem.chan)
    BY <1>a DEF Marks
  <2>2. CASE Marks(disk.kq) = k + 1 /\ adb' = RecordOverflow(adb) /\ hist' = hist
    <3>1. adb'.gaps = adb.gaps + 1 /\ adb'.counted = adb.counted + 2
      BY <1>a, <2>2, RecordOverflowType DEF SensorsTypeOK
    <3>2. /\ k0 = k + 1 /\ Marks(mem.chan)' = c0 /\ adb'.gaps = g0 + 1 /\ adb'.counted = n0 + 2
          /\ hist'.episodes = e0 /\ hist'.lost = l0 /\ hist'.silent = z0 /\ hist'.spurious = u0
      BY <1>b, <2>1, <2>2, <3>1
    <3>3. k <= 1 /\ e0 + u0 = k + c0 + (g0 + 1) + l0 + z0 /\ n0 + 2 = (g0 + 1) + (g0 + 1)
      BY <1>a, <1>c, <3>2
    <3> QED
      BY <1>a, <1>d, <3>2, <3>3
  <2>3. CASE Marks(disk.kq) = k + 1 /\ adb' = adb /\ hist' = [hist EXCEPT !.silent = @ + 1]
    <3>1. /\ hist'.silent = hist.silent + 1 /\ hist'.episodes = hist.episodes /\ hist'.lost = hist.lost
          /\ hist'.spurious = hist.spurious
      BY <2>3 DEF SensorsTypeOK, HistTypeOK
    <3>2. /\ k0 = k + 1 /\ Marks(mem.chan)' = c0 /\ adb'.gaps = g0 /\ adb'.counted = n0
          /\ hist'.episodes = e0 /\ hist'.lost = l0 /\ hist'.silent = z0 + 1 /\ hist'.spurious = u0
      BY <1>b, <2>1, <2>3, <3>1
    <3>3. k <= 1 /\ e0 + u0 = k + c0 + g0 + l0 + (z0 + 1) /\ n0 = g0 + g0
      BY <1>a, <1>c, <3>2
    <3> QED
      BY <1>a, <1>d, <3>2, <3>3
  <2>4. CASE Marks(disk.kq) = k /\ adb'.gaps = adb.gaps /\ adb'.counted = adb.counted /\ hist' = hist
    BY <1>0, <1>m, <1>a, <2>1, <2>4 DEF OverflowInv
  <2>5. CASE Marks(disk.kq) = k /\ adb' = RecordOverflow(adb) /\ hist' = [hist EXCEPT !.spurious = @ + 1]
    <3>1. adb'.gaps = adb.gaps + 1 /\ adb'.counted = adb.counted + 2
      BY <1>a, <2>5, RecordOverflowType DEF SensorsTypeOK
    <3>2. /\ hist'.spurious = hist.spurious + 1 /\ hist'.episodes = hist.episodes /\ hist'.lost = hist.lost
          /\ hist'.silent = hist.silent
      BY <2>5 DEF SensorsTypeOK, HistTypeOK
    <3>3. /\ k0 = k /\ Marks(mem.chan)' = c0 /\ adb'.gaps = g0 + 1 /\ adb'.counted = n0 + 2
          /\ hist'.episodes = e0 /\ hist'.lost = l0 /\ hist'.silent = z0 /\ hist'.spurious = u0 + 1
      BY <1>b, <2>1, <2>5, <3>1, <3>2
    <3>4. k <= 1 /\ e0 + (u0 + 1) = k + c0 + (g0 + 1) + l0 + z0 /\ n0 + 2 = (g0 + 1) + (g0 + 1)
      BY <1>a, <1>c, <3>3
    <3> QED
      BY <1>a, <1>d, <3>3, <3>4
  <2> QED
    BY <1>a, <2>2, <2>3, <2>4, <2>5
<1>6. CASE drain_fd
  <2>1. PICK q \in Seq(Event), c \in Seq(Event) : q = disk.kq /\ c = mem.chan
    BY <1>0
  <2>2. q # <<>> /\ disk'.kq = Tail(q) /\ mem'.chan = Append(c, Head(q)) /\ UNCHANGED <<agentCfg, adb, hist>>
    BY <1>6, <2>1 DEF drain_fd, SensorsTypeOK, DiskTypeOK, MemTypeOK
  <2>3. Head(q) \in Event /\ Tail(q) \in Seq(Event)
    BY <2>2
  <2>4. PICK h \in Event : h = Head(q)
    BY <2>3
  <2>5. /\ Marks(q) = Marks(Tail(q)) + IF h = Overflow THEN 1 ELSE 0
        /\ Marks(Append(c, h)) = Marks(c) + IF h = Overflow THEN 1 ELSE 0
        /\ Marks(Tail(q)) \in Nat
    BY <2>2, <2>3, <2>4, MarksOfTail, MarksOfAppend, MarksNumber
  <2>6. Marks(disk.kq)' = Marks(Tail(q)) /\ Marks(mem.chan)' = Marks(Append(c, h))
    BY <2>2, <2>4 DEF Marks
  <2>7. PICK k \in Nat, i \in {0, 1} : k = Marks(Tail(q)) /\ i = IF h = Overflow THEN 1 ELSE 0
    BY <2>5
  <2>8. /\ k0 = k + i /\ Marks(disk.kq)' = k /\ Marks(mem.chan)' = c0 + i
        /\ adb'.gaps = g0 /\ adb'.counted = n0 /\ agentCfg' = agentCfg
        /\ hist'.episodes = e0 /\ hist'.lost = l0 /\ hist'.silent = z0 /\ hist'.spurious = u0
    BY <1>b, <2>1, <2>2, <2>5, <2>6, <2>7
  <2>9. e0 + u0 = k + (c0 + i) + g0 + l0 + z0 /\ (agentCfg.os = "windows" => k <= 1)
    <3>1. k0 = k + i /\ i >= 0
      BY <2>8
    <3>2. agentCfg.os = "windows" => k <= 1
      BY <1>c, <3>1
    <3>3. k0 + c0 = k + (c0 + i)
      BY <3>1
    <3>4. e0 + u0 = k + (c0 + i) + g0 + l0 + z0
      BY <1>c, <3>3
    <3> QED
      BY <3>2, <3>4
  <2> QED
    BY <1>c, <1>d, <2>8, <2>9
<1>7. CASE FanotifyRun
  <2>1. PICK c \in Seq(Event) : c = mem.chan
    BY <1>0
  <2>2. c # <<>> /\ mem'.chan = Tail(c) /\ UNCHANGED <<agentCfg, disk, hist>>
    BY <1>7, <2>1 DEF FanotifyRun, SensorsTypeOK, MemTypeOK
  <2>3. Head(c) \in Event /\ Tail(c) \in Seq(Event)
    BY <2>2
  <2>4. PICK h \in Event : h = Head(c)
    BY <2>3
  <2>5. /\ adb'.gaps = adb.gaps + IF h = Overflow THEN 1 ELSE 0
        /\ adb'.counted = adb.counted + IF h = Overflow THEN 1 ELSE 0
        /\ agentCfg.os = "linux"
    <3>0. agentCfg.os = "linux" /\ agentCfg.os # "windows"
      BY <1>7 DEF FanotifyRun
    <3>1. CASE h = Overflow
      <4>1. adb' = RecordOverflow(adb)
        BY <1>7, <2>1, <2>4, <3>1 DEF FanotifyRun
      <4>2. adb'.gaps = adb.gaps + 1 /\ adb'.counted = adb.counted + 1
        BY <3>0, <4>1, RecordOverflowType DEF SensorsTypeOK
      <4> QED
        BY <3>0, <3>1, <4>2
    <3>2. CASE h # Overflow
      <4>1. adb' \in {adb, WithEnqueued(adb, h)}
        BY <1>7, <2>1, <2>4, <3>2 DEF FanotifyRun
      <4>2. adb'.gaps = adb.gaps /\ adb'.counted = adb.counted
        BY <1>5, <3>2, <4>1
      <4> QED
        BY <1>0, <3>0, <3>2, <4>2
    <3> QED
      BY <3>1, <3>2
  <2>6. Marks(c) = Marks(Tail(c)) + (IF h = Overflow THEN 1 ELSE 0) /\ Marks(Tail(c)) \in Nat
    BY <2>2, <2>3, <2>4, MarksOfTail, MarksNumber
  <2>7. Marks(disk.kq)' = Marks(disk.kq) /\ Marks(mem.chan)' = Marks(Tail(c))
    BY <2>2 DEF Marks
  <2>8. agentCfg' = agentCfg /\ hist' = hist
    BY <2>2
  <2>9. agentCfg.os # "windows"
    BY <2>5
  <2>10. PICK i \in {0, 1} : i = IF h = Overflow THEN 1 ELSE 0
    OBVIOUS
  <2>11. PICK m \in Nat : m = Marks(Tail(c))
    BY <2>6
  <2>12. /\ Marks(mem.chan) = m + i /\ Marks(mem.chan)' = m
         /\ adb'.gaps = adb.gaps + i /\ adb'.counted = adb.counted + i
    BY <2>1, <2>5, <2>6, <2>7, <2>10, <2>11
  <2>13. /\ Marks(disk.kq)' = k0 /\ Marks(mem.chan)' = m /\ c0 = m + i
         /\ adb'.gaps = g0 + i /\ adb'.counted = n0 + i
         /\ hist'.episodes = e0 /\ hist'.lost = l0 /\ hist'.silent = z0 /\ hist'.spurious = u0
    BY <1>b, <2>7, <2>8, <2>12
  <2>14. e0 + u0 = k0 + m + (g0 + i) + l0 + z0 /\ n0 + i = (g0 + i) + 0
    BY <1>c, <2>9, <2>13
  <2> QED
    BY <1>d, <2>8, <2>9, <2>13, <2>14
<1>8. CASE watch_root
  <2>1. PICK q \in Seq(Event) : q = disk.kq
    BY <1>0
  <2>2. q # <<>> /\ disk'.kq = Tail(q) /\ agentCfg' = agentCfg /\ mem' = mem /\ agentCfg.os = "windows"
    BY <1>8, <2>1, WatchMoves DEF SensorsTypeOK, DiskTypeOK
  <2>3. Head(q) \in Event /\ Tail(q) \in Seq(Event)
    BY <2>2
  <2>4. PICK h \in Event : h = Head(q)
    BY <2>3
  <2>5. PICK k \in Nat : k = Marks(Tail(q)) /\ Marks(q) = k + IF h = Overflow THEN 1 ELSE 0
    BY <2>2, <2>3, <2>4, MarksOfTail, MarksNumber
  <2>6. Marks(disk.kq)' = k
    BY <2>2, <2>5 DEF Marks
  <2>7. CASE h = Overflow
    <3>1. Marks(disk.kq) = k + 1
      BY <2>1, <2>5, <2>7
    <3>2. \/ adb' = RecordOverflow(adb) /\ hist' = hist
          \/ adb' = adb /\ hist' = [hist EXCEPT !.silent = @ + 1]
      BY <1>8, <2>1, <2>4, <2>7, WatchMoves
    <3> QED
      BY <1>a, <2>2, <2>6, <3>1, <3>2
  <2>8. CASE h # Overflow
    <3>1. Marks(disk.kq) = k
      BY <2>1, <2>5, <2>8
    <3>2. adb' \in {adb, WithEnqueued(adb, h)} /\ hist' = hist
      BY <1>8, <2>1, <2>4, <2>8, WatchMoves
    <3>3. adb'.gaps = adb.gaps /\ adb'.counted = adb.counted
      BY <1>5, <2>8, <3>2
    <3> QED
      BY <1>a, <2>2, <2>6, <3>1, <3>2, <3>3
  <2> QED
    BY <2>7, <2>8
<1>11. CASE WatchFails
  <2>1. /\ agentCfg.os = "windows" /\ agentCfg' = agentCfg /\ disk' = disk /\ mem' = mem
        /\ adb' = RecordOverflow(adb) /\ hist' = [hist EXCEPT !.spurious = @ + 1]
    BY <1>11 DEF WatchFails
  <2>2. PICK k \in Nat : k = Marks(disk.kq)
    BY <1>m
  <2>3. Marks(disk.kq)' = k
    BY <2>1, <2>2 DEF Marks
  <2> QED
    BY <1>a, <2>1, <2>2, <2>3
<1>9. CASE SensorCrash
  <2>1. /\ agentCfg' = agentCfg /\ adb' = adb /\ disk'.kq = <<>> /\ mem'.chan = <<>>
        /\ hist'.episodes = hist.episodes /\ hist'.lost = hist.lost + Marks(disk.kq) + Marks(mem.chan)
        /\ hist'.silent = hist.silent /\ hist'.spurious = hist.spurious
    BY <1>9 DEF SensorCrash, DownProcess, SensorsTypeOK, DiskTypeOK, HistTypeOK
  <2>2. Marks(disk.kq)' = 0 /\ Marks(mem.chan)' = 0
    BY <2>1, MarksOfEmpty DEF Marks
  <2>3. /\ adb'.gaps = g0 /\ adb'.counted = n0
        /\ hist'.episodes = e0 /\ hist'.lost = l0 + k0 + c0 /\ hist'.silent = z0 /\ hist'.spurious = u0
    BY <1>b, <2>1
  <2>4. e0 + u0 = 0 + 0 + g0 + (l0 + k0 + c0) + z0
    BY <1>c
  <2> QED
    BY <1>c, <1>d, <2>1, <2>2, <2>3, <2>4
<1>10. CASE \E f \in File, renamed, sameKey \in BOOLEAN : WriteFile(f, renamed, sameKey)
  <2>1. PICK f \in File, renamed \in BOOLEAN, sameKey \in BOOLEAN : WriteFile(f, renamed, sameKey)
    BY <1>10
  <2>2. PICK q \in Seq(Event) : q = disk.kq
    BY <1>0
  <2>3. PICK r : r = disk'.kq
    OBVIOUS
  <2>4. /\ UNCHANGED <<agentCfg, adb, mem>> /\ r \in {q, KernelPost(q, f)}
        /\ hist'.silent = hist.silent /\ hist'.spurious = hist.spurious
        /\ hist'.lost = hist.lost /\ hist'.episodes = hist.episodes + IF Marks(r) > Marks(q) THEN 1 ELSE 0
    BY <2>1, <2>2, <2>3 DEF WriteFile, SensorsTypeOK, DiskTypeOK, HistTypeOK
  <2>5. /\ Marks(r) \in {Marks(q), Marks(q) + 1} \/ (r = <<Overflow>> /\ agentCfg.os = "windows")
        /\ agentCfg.os = "windows" => Marks(r) = Marks(q) \/ r = <<Overflow>>
    <3>1. f \in Event /\ Overflow \in Event /\ f # Overflow
      BY SensorsAssumption DEF Event
    <3>2. Marks(Append(q, f)) = Marks(q) /\ Marks(Append(q, Overflow)) = Marks(q) + 1
      BY <1>m, <2>2, <3>1, MarksOfAppend
    <3>3. Len(q) \in Nat /\ QueueMax \in Nat
      BY SensorsAssumption
    <3>4. r \in {q, Append(q, f), Append(q, Overflow), <<Overflow>>}
          /\ (r = <<Overflow>> => agentCfg.os = "windows" \/ r \in {q, Append(q, f), Append(q, Overflow)})
          /\ (agentCfg.os = "windows" => r \in {q, Append(q, f), <<Overflow>>})
      BY <2>4, <3>3 DEF KernelPost
    <3> QED
      BY <3>2, <3>4
  <2>6. Marks(<<Overflow>>) = 1
    <3>1. PICK e \in Seq(Event) : e = <<>>
      BY EmptySeq
    <3>2. PICK o \in Event : o = Overflow
      BY DEF Event
    <3>3. Append(e, o) = <<Overflow>>
      BY <3>1, <3>2
    <3>4. Marks(Append(e, o)) = Marks(e) + 1
      BY <3>2, MarksOfAppend
    <3> QED
      BY <3>1, <3>3, <3>4, MarksOfEmpty
  <2>7. Marks(disk.kq)' = Marks(r) /\ Marks(mem.chan)' = Marks(mem.chan)
    BY <2>3, <2>4 DEF Marks
  <2>8. agentCfg.os = "windows" => Marks(q) <= 1
    BY <2>2 DEF OverflowInv
  <2>9. Marks(r) = Marks(q) + IF Marks(r) > Marks(q) THEN 1 ELSE 0
    <3>1. CASE r = <<Overflow>> /\ agentCfg.os = "windows"
      BY <1>m, <2>2, <2>6, <2>8, <3>1
    <3>2. CASE Marks(r) \in {Marks(q), Marks(q) + 1}
      BY <1>m, <2>2, <3>2
    <3> QED
      BY <2>5, <3>1, <3>2
  <2>10. agentCfg.os = "windows" => Marks(r) <= 1
    BY <2>5, <2>6, <2>8
  <2>11. PICK i \in {0, 1} : i = IF Marks(r) > Marks(q) THEN 1 ELSE 0
    OBVIOUS
  <2>12. /\ Marks(disk.kq)' = k0 + i /\ Marks(mem.chan)' = c0 /\ adb'.gaps = g0 /\ adb'.counted = n0
         /\ hist'.episodes = e0 + i /\ hist'.lost = l0 /\ hist'.silent = z0 /\ hist'.spurious = u0
         /\ agentCfg' = agentCfg
    BY <1>b, <2>2, <2>4, <2>7, <2>9, <2>11
  <2>13. (e0 + i) + u0 = (k0 + i) + c0 + g0 + l0 + z0
    BY <1>c
  <2>14. agentCfg.os = "windows" => Marks(disk.kq)' <= 1
    BY <2>7, <2>10
  <2> QED
    BY <1>c, <1>d, <2>12, <2>13, <2>14
<1> QED
  BY <1>2, <1>3, <1>4, <1>6, <1>7, <1>8, <1>9, <1>10, <1>11 DEF SensorsNext, LiveSensor

\* Every overflow of the kernel's queue becomes a recorded gap, is still on
\* its way to the sensor, died with the process or was the call without bytes
\* that watch_root passes over (fanotify.rs, rdcw.rs), and the counter has
\* every gap once on Linux and twice on Windows.
THEOREM OverflowSafe == SensorsSpec => []OverflowReported
<1>1. SensorsInit => OverflowInv
  <2> SUFFICES ASSUME SensorsInit PROVE OverflowInv
    OBVIOUS
  <2>1. /\ disk.kq = <<>> /\ mem.chan = <<>> /\ adb.gaps = 0 /\ adb.counted = 0
        /\ hist.episodes = 0 /\ hist.lost = 0 /\ hist.silent = 0 /\ hist.spurious = 0
    BY DEF SensorsInit, DownProcess
  <2>2. Marks(disk.kq) = 0 /\ Marks(mem.chan) = 0
    BY <2>1, MarksOfEmpty
  <2> QED
    BY <2>1, <2>2 DEF OverflowInv
<1>2. OverflowInv => OverflowReported
  BY DEF OverflowInv, OverflowReported
<1> QED
  BY <1>1, <1>2, OverflowKept, SensorsTypesStart, SensorsTypesKept, PTL DEF SensorsSpec

(***************************************************************************)
(* Sensors: the baseline                                                   *)
(***************************************************************************)
LEMMA PresentGrows == SensorsTypeOK /\ [SensorsNext]_SensorsVars => Present \subseteq Present' /\ agentCfg' = agentCfg
<1> SUFFICES ASSUME SensorsTypeOK, [SensorsNext]_SensorsVars PROVE Present \subseteq Present' /\ agentCfg' = agentCfg
  OBVIOUS
<1>1. CASE \E f \in File, renamed, sameKey \in BOOLEAN : WriteFile(f, renamed, sameKey)
  <2>0. PICK f \in File, renamed \in BOOLEAN, sameKey \in BOOLEAN : WriteFile(f, renamed, sameKey)
    BY <1>1
  <2>1. disk'.ver = [disk.ver EXCEPT ![f] = @ + 1] /\ agentCfg' = agentCfg
    BY <2>0 DEF WriteFile, SensorsTypeOK, DiskTypeOK
  <2>2. disk.ver \in [File -> Nat]
    BY DEF SensorsTypeOK, DiskTypeOK
  <2> QED
    BY <2>1, <2>2 DEF Present
<1>2. CASE \/ JournalLoss \/ StartUp \/ LiveSensor \/ ReaderDies \/ WatchFails \/ PollScan \/ SensorCrash
           \/ UNCHANGED SensorsVars
  BY <1>2 DEF JournalLoss, StartUp, Boot, StartFanotify, StartRdcw, check_downtime_changes, SpawnReconcile, StartBaseline,
     LiveSensor, drain_fd, FanotifyRun, watch_root, ReaderDies, WatchFails, PollScan, SensorCrash, SensorsVars, Present,
     SensorsTypeOK, DiskTypeOK
<1>3. CASE \/ Baseline
           \/ \E s \in Scans : Reconcile(s)
           \/ \E f \in File : CaptureRead(f) \/ CaptureEnd(f)
  BY <1>3 DEF Baseline, BaselineEntry, enqueue_tree, mark_baseline_dir, BaselineEnd, BaselineFails, Reconcile,
     seen_check_and_update, ScanSkips, ReconcileEnqueue, ReconcileEnd, CaptureRead, CaptureEnd, Present
<1> QED
  BY <1>1, <1>2, <1>3 DEF SensorsNext

LEMMA ScanMoves ==
    ASSUME SensorsTypeOK, NEW s \in Scans, Reconcile(s)
    PROVE  \E u : mem' = [mem EXCEPT !.scan[s] = u] /\ u.cur \in {mem.scan[s].cur, NoFile} \cup Present
<1>1. PICK v \in ScanRec : v = mem.scan[s]
  BY DEF SensorsTypeOK, MemTypeOK
<1>2. ASSUME NEW f \in File, seen_check_and_update(s, f)
      PROVE  \E u : mem' = [mem EXCEPT !.scan[s] = u] /\ u.cur \in {mem.scan[s].cur, NoFile} \cup Present
  <2>1. CASE disk.ver[f] > 0 /\ ~matches_exclusion(f) /\ adb.seen[f] # scan_key(f)
    <3>1. PICK u : u = [v EXCEPT !.todo = @ \ {f}, !.cur = f]
      OBVIOUS
    <3>2. mem' = [mem EXCEPT !.scan[s] = u]
      BY <1>1, <1>2, <2>1, <3>1 DEF seen_check_and_update, SensorsTypeOK, MemTypeOK
    <3>3. u.cur = f /\ f \in Present
      BY <2>1, <3>1 DEF ScanRec, Present
    <3> QED
      BY <3>2, <3>3, Zenon
  <2>2. CASE ~(disk.ver[f] > 0 /\ ~matches_exclusion(f) /\ adb.seen[f] # scan_key(f))
    <3>1. PICK u : u = [v EXCEPT !.todo = @ \ {f}]
      OBVIOUS
    <3>2. mem' = [mem EXCEPT !.scan[s] = u]
      BY <1>1, <1>2, <2>2, <3>1 DEF seen_check_and_update, SensorsTypeOK, MemTypeOK
    <3>3. u.cur = mem.scan[s].cur
      BY <1>1, <3>1 DEF ScanRec
    <3> QED
      BY <3>2, <3>3, Zenon
  <2> QED
    BY <2>1, <2>2
<1>3. ASSUME ReconcileEnqueue(s)
      PROVE  \E u : mem' = [mem EXCEPT !.scan[s] = u] /\ u.cur \in {mem.scan[s].cur, NoFile} \cup Present
  <2>1. PICK u : u = [v EXCEPT !.cur = NoFile]
    OBVIOUS
  <2>2. mem' = [mem EXCEPT !.scan[s] = u]
    BY <1>1, <1>3, <2>1 DEF ReconcileEnqueue, SensorsTypeOK, MemTypeOK
  <2>3. u.cur = NoFile
    BY <2>1 DEF ScanRec
  <2> QED
    BY <2>2, <2>3, Zenon
<1>4. ASSUME ReconcileEnd(s)
      PROVE  \E u : mem' = [mem EXCEPT !.scan[s] = u] /\ u.cur \in {mem.scan[s].cur, NoFile} \cup Present
  <2>1. PICK u : u = [v EXCEPT !.on = FALSE]
    OBVIOUS
  <2>2. mem' = [mem EXCEPT !.scan[s] = u]
    BY <1>1, <1>4, <2>1 DEF ReconcileEnd, SensorsTypeOK, MemTypeOK
  <2>3. u.cur = mem.scan[s].cur
    BY <1>1, <2>1 DEF ScanRec
  <2> QED
    BY <2>2, <2>3, Zenon
<1>5. ASSUME NEW f \in File, ScanSkips(s, f)
      PROVE  \E u : mem' = [mem EXCEPT !.scan[s] = u] /\ u.cur \in {mem.scan[s].cur, NoFile} \cup Present
  <2>1. PICK u : u = [v EXCEPT !.todo = @ \ {f}]
    OBVIOUS
  <2>2. mem' = [mem EXCEPT !.scan[s] = u]
    BY <1>1, <1>5, <2>1 DEF ScanSkips, SensorsTypeOK, MemTypeOK
  <2>3. u.cur = mem.scan[s].cur
    BY <1>1, <2>1 DEF ScanRec
  <2> QED
    BY <2>2, <2>3, Zenon
<1> QED
  BY <1>2, <1>3, <1>4, <1>5 DEF Reconcile

LEMMA MoreEvents ==
    ASSUME NEW S, NEW T, S \subseteq T, NEW q \in Seq(S)
    PROVE  q \in Seq(T)
  OBVIOUS

\* The events, the paths a scan found and the files counted before the walk
\* are of files on the disk.
LEMMA PresentKept == SensorsTypeOK /\ PresentInv /\ [SensorsNext]_SensorsVars => PresentInv'
<1> SUFFICES ASSUME SensorsTypeOK, PresentInv, [SensorsNext]_SensorsVars PROVE PresentInv'
  OBVIOUS
<1>1. PICK T : T = Present' /\ Present \subseteq T
  BY PresentGrows
<1>2. PICK E : E = T \cup {Overflow}
  OBVIOUS
<1>3. PICK q \in Seq(E), c \in Seq(E) : q = disk.kq /\ c = mem.chan
  <2>1. Present \cup {Overflow} \subseteq E
    BY <1>1, <1>2
  <2>2. disk.kq \in Seq(E) /\ mem.chan \in Seq(E)
    BY <2>1, MoreEvents DEF PresentInv
  <2> QED
    BY <2>2
<1>4. \A s \in Scans : mem.scan[s].cur \in T \cup {NoFile}
  BY <1>1 DEF PresentInv
<1>5. hist.before \subseteq T
  BY <1>1 DEF PresentInv
<1>6. <<>> \in Seq(E)
  BY EmptySeq
<1>7. SUFFICES /\ disk'.kq \in Seq(E) /\ mem'.chan \in Seq(E)
               /\ \A s \in Scans : mem'.scan[s].cur \in T \cup {NoFile}
               /\ hist'.before \subseteq T
  BY <1>1, <1>2 DEF PresentInv
<1>8. CASE UNCHANGED SensorsVars
  BY <1>3, <1>4, <1>5, <1>8 DEF SensorsVars
<1>9. CASE JournalLoss \/ StartUp \/ ReaderDies \/ PollScan
  <2>a. hist'.before = hist.before
    BY <1>9 DEF JournalLoss, StartUp, Boot, StartFanotify, StartRdcw, check_downtime_changes, SpawnReconcile, StartBaseline,
       ReaderDies, PollScan, SensorsTypeOK, HistTypeOK
  <2>1. disk'.kq = disk.kq
    BY <1>9 DEF JournalLoss, StartUp, Boot, StartFanotify, StartRdcw, check_downtime_changes, SpawnReconcile, StartBaseline,
       ReaderDies, PollScan, SensorsTypeOK, DiskTypeOK
  <2>2. mem'.chan = mem.chan
    BY <1>9 DEF JournalLoss, StartUp, Boot, StartFanotify, StartRdcw, check_downtime_changes, SpawnReconcile, StartBaseline,
       BeginScan, ReaderDies, PollScan, SensorsTypeOK, MemTypeOK
  <2>3. CASE mem'.scan = mem.scan
    BY <1>3, <1>4, <1>5, <2>a, <2>1, <2>2, <2>3
  <2>4. CASE \E s \in Scans : mem'.scan = [mem.scan EXCEPT ![s] = [on |-> TRUE, todo |-> File, cur |-> NoFile]]
    <3>1. \A s \in Scans : mem'.scan[s].cur \in {mem.scan[s].cur, NoFile}
      BY <2>4 DEF SensorsTypeOK, MemTypeOK
    <3> QED
      BY <1>3, <1>4, <1>5, <2>a, <2>1, <2>2, <3>1
  <2>5. SpawnReconcile => \/ mem'.scan = mem.scan
                          \/ \E s \in Scans : mem'.scan = [mem.scan EXCEPT ![s] = [on |-> TRUE, todo |-> File, cur |-> NoFile]]
    BY DEF SpawnReconcile, BeginScan, Scans, SensorsTypeOK, MemTypeOK
  <2>6. PollScan => \E s \in Scans : mem'.scan = [mem.scan EXCEPT ![s] = [on |-> TRUE, todo |-> File, cur |-> NoFile]]
    BY DEF PollScan, BeginScan, Scans, SensorsTypeOK, MemTypeOK
  <2>7. JournalLoss \/ Boot \/ StartFanotify \/ StartRdcw \/ check_downtime_changes \/ StartBaseline \/ ReaderDies
        => mem'.scan = mem.scan
    BY DEF JournalLoss, Boot, StartFanotify, StartRdcw, check_downtime_changes, StartBaseline, ReaderDies,
       SensorsTypeOK, MemTypeOK
  <2> QED
    BY <1>9, <2>3, <2>4, <2>5, <2>6, <2>7 DEF StartUp
<1>10. CASE LiveSensor
  <2>a. hist'.before = hist.before
    BY <1>10 DEF LiveSensor, drain_fd, FanotifyRun, watch_root, SensorsTypeOK, HistTypeOK
  <2>1. mem'.scan = mem.scan
    BY <1>10 DEF LiveSensor, drain_fd, FanotifyRun, watch_root, SensorsTypeOK, MemTypeOK
  <2>2. \/ q # <<>> /\ disk'.kq = Tail(q) /\ mem'.chan = Append(c, Head(q))
        \/ c # <<>> /\ disk'.kq = q /\ mem'.chan = Tail(c)
        \/ q # <<>> /\ disk'.kq = Tail(q) /\ mem'.chan = c
    BY <1>3, <1>10 DEF LiveSensor, drain_fd, FanotifyRun, watch_root, SensorsTypeOK, DiskTypeOK, MemTypeOK
  <2>3. /\ q # <<>> => Tail(q) \in Seq(E) /\ Head(q) \in E
        /\ c # <<>> => Tail(c) \in Seq(E)
    OBVIOUS
  <2>4. q # <<>> => Append(c, Head(q)) \in Seq(E)
    BY <2>3
  <2> QED
    BY <1>4, <1>5, <2>a, <2>1, <2>2, <2>3, <2>4
<1>11. CASE \/ Baseline
            \/ \E f \in File : CaptureRead(f) \/ CaptureEnd(f)
  <2>1. disk' = disk /\ mem'.chan = mem.chan /\ mem'.scan = mem.scan
    BY <1>11 DEF Baseline, BaselineEntry, enqueue_tree, mark_baseline_dir, BaselineEnd, BaselineFails,
       CaptureRead, CaptureEnd, SensorsTypeOK, MemTypeOK
  <2>2. hist'.before = hist.before \/ \E d \in Dir : BaselineEntry(d)
    BY <1>11, HistQuiet
  <2>3. ASSUME NEW d \in Dir, BaselineEntry(d) PROVE hist'.before \subseteq hist.before \cup Present
    BY <2>3 DEF BaselineEntry, Present, SensorsTypeOK, HistTypeOK
  <2> QED
    BY <1>1, <1>3, <1>4, <1>5, <2>1, <2>2, <2>3
<1>12. CASE \E s \in Scans : Reconcile(s)
  <2>1. PICK s \in Scans : Reconcile(s)
    BY <1>12
  <2>2. disk' = disk /\ mem'.chan = mem.chan /\ hist'.before = hist.before
    BY <2>1 DEF Reconcile, seen_check_and_update, ScanSkips, ReconcileEnqueue, ReconcileEnd, SensorsTypeOK, MemTypeOK,
       HistTypeOK
  <2>3. PICK u : mem' = [mem EXCEPT !.scan[s] = u] /\ u.cur \in {mem.scan[s].cur, NoFile} \cup Present
    BY <2>1, ScanMoves
  <2>4. /\ \A r \in Scans : r # s => mem'.scan[r] = mem.scan[r]
        /\ mem'.scan[s].cur \in {mem.scan[s].cur, NoFile} \cup Present
    BY <2>3 DEF SensorsTypeOK, MemTypeOK
  <2> QED
    BY <1>1, <1>3, <1>4, <1>5, <2>2, <2>3, <2>4
<1>13. CASE SensorCrash
  <2>1. disk'.kq = <<>> /\ mem'.chan = <<>> /\ hist'.before = hist.before
    BY <1>13 DEF SensorCrash, DownProcess, SensorsTypeOK, DiskTypeOK, HistTypeOK
  <2>2. \A s \in Scans : mem'.scan[s].cur = NoFile
    BY <1>13 DEF SensorCrash, DownProcess
  <2> QED
    BY <1>5, <1>6, <2>1, <2>2
<1>14. CASE \E f \in File, renamed, sameKey \in BOOLEAN : WriteFile(f, renamed, sameKey)
  <2>1. PICK f \in File, renamed \in BOOLEAN, sameKey \in BOOLEAN : WriteFile(f, renamed, sameKey)
    BY <1>14
  <2>2. f \in T
    BY <1>1, <2>1 DEF WriteFile, Present, SensorsTypeOK, DiskTypeOK
  <2>3. /\ mem' = mem /\ hist'.before = hist.before /\ disk'.kq \in {disk.kq, KernelPost(disk.kq, f)}
    BY <2>1 DEF WriteFile, SensorsTypeOK, DiskTypeOK, HistTypeOK
  <2>4. KernelPost(q, f) \in Seq(E)
    <3>1. f \in E /\ Overflow \in E
      BY <1>2, <2>2
    <3> QED
      BY <3>1, KernelPostEvents
  <2> QED
    BY <1>3, <1>4, <1>5, <2>3, <2>4
<1>15. CASE WatchFails
  <2>1. disk' = disk /\ mem' = mem /\ hist'.before = hist.before
    BY <1>15, HistLive DEF WatchFails
  <2> QED
    BY <1>3, <1>4, <1>5, <2>1
<1> QED
  BY <1>8, <1>9, <1>10, <1>11, <1>12, <1>13, <1>14, <1>15 DEF SensorsNext

\* A row and the version it captured move on: queued for a file on the disk,
\* read at the version of that moment, gone with the version kept.
RowMoves(f) ==
    \/ adb'.row[f] = adb.row[f] /\ adb'.captured[f] = adb.captured[f]
    \/ adb'.row[f] = "queued" /\ adb'.captured[f] = adb.captured[f] /\ f \in Present
    \/ adb.row[f] = "queued" /\ adb'.row[f] = "read" /\ adb'.captured[f] = disk.ver[f]
    \/ adb.row[f] = "read" /\ adb'.row[f] = "none" /\ adb'.captured[f] = adb.captured[f]

LEMMA CoverageKept ==
    ASSUME SensorsTypeOK, BaselineInv, [SensorsNext]_SensorsVars, \A f \in File : RowMoves(f)
    PROVE  /\ \A f \in File : adb'.row[f] = "queued" => disk'.ver[f] > 0
           /\ \A f \in File : adb'.row[f] = "read" => adb'.captured[f] > 0
           /\ \A f \in File : Covered(f) => Covered(f)'
<1>1. \A f \in File : disk.ver[f] > 0 => disk'.ver[f] > 0
  BY PresentGrows DEF Present
<1>2. \A f \in File : adb.row[f] \in {"none", "queued", "read"} /\ adb.captured[f] \in Nat
  BY DEF SensorsTypeOK, AdbTypeOK
<1> QED
  BY <1>1, <1>2 DEF RowMoves, BaselineInv, Covered, Present

\* What the walk left out stays left out.
LEMMA SkippedGrows == SensorsTypeOK /\ [SensorsNext]_SensorsVars => hist.skipped \subseteq hist'.skipped
BY HistQuiet, HistLive DEF SensorsNext, LiveSensor, SensorsVars

LEMMA BaselineKept == SensorsTypeOK /\ PresentInv /\ BaselineInv /\ [SensorsNext]_SensorsVars => BaselineInv'
<1> SUFFICES ASSUME SensorsTypeOK, PresentInv, BaselineInv, [SensorsNext]_SensorsVars PROVE BaselineInv'
  OBVIOUS
<1>0. agentCfg' = agentCfg /\ hist.before \subseteq File
  BY PresentGrows DEF SensorsTypeOK, HistTypeOK
<1>s. hist.skipped \subseteq hist'.skipped
  BY SkippedGrows
<1>1. ASSUME \A f \in File : RowMoves(f),
             \A f \in hist'.before \ (agentCfg.excluded \cup hist'.skipped) :
               /\ DirOf[f] \in adb'.done => Covered(f)'
               /\ DirOf[f] = mem'.walk.cur => f \in mem'.walk.todo \/ Covered(f)'
      PROVE  BaselineInv'
  BY <1>0, <1>1, CoverageKept DEF BaselineInv
<1>2. ASSUME \A f \in File : RowMoves(f), hist'.before = hist.before, adb'.done = adb.done,
             mem'.walk.cur = mem.walk.cur, mem'.walk.todo = mem.walk.todo
      PROVE  BaselineInv'
  BY <1>0, <1>s, <1>1, <1>2, CoverageKept DEF BaselineInv
<1>3. ASSUME NEW f \in Present, adb' = WithEnqueued(adb, f)
      PROVE  (\A g \in File : RowMoves(g)) /\ adb'.done = adb.done /\ adb'.row[f] # "none"
  <2>1. f \in File
    BY DEF Present
  <2>2. /\ adb'.row = [adb.row EXCEPT ![f] = IF @ = "none" THEN "queued" ELSE @]
        /\ adb'.captured = adb.captured /\ adb'.done = adb.done
    BY <1>3, <2>1, EnqueuedType DEF SensorsTypeOK
  <2>3. adb.row \in [File -> {"none", "queued", "read"}]
    BY DEF SensorsTypeOK, AdbTypeOK
  <2> QED
    BY <2>1, <2>2, <2>3 DEF RowMoves
<1>4. ASSUME adb' = adb
      PROVE  (\A g \in File : RowMoves(g)) /\ adb'.done = adb.done
  BY <1>4 DEF RowMoves
<1>5. CASE UNCHANGED SensorsVars
  BY <1>2, <1>4, <1>5 DEF SensorsVars
<1>6. CASE \E f \in File, renamed, sameKey \in BOOLEAN : WriteFile(f, renamed, sameKey)
  <2>1. adb' = adb /\ mem' = mem /\ hist'.before = hist.before
    BY <1>6 DEF WriteFile, SensorsTypeOK, HistTypeOK
  <2> QED
    BY <1>2, <1>4, <2>1
<1>7. CASE JournalLoss \/ StartUp \/ ReaderDies \/ PollScan
  <2>1. hist'.before = hist.before
    BY <1>7 DEF JournalLoss, StartUp, Boot, StartFanotify, StartRdcw, check_downtime_changes, SpawnReconcile, StartBaseline,
       ReaderDies, PollScan, SensorsTypeOK, HistTypeOK
  <2>2. adb'.row = adb.row /\ adb'.captured = adb.captured /\ adb'.done = adb.done
    BY <1>7 DEF JournalLoss, StartUp, Boot, StartFanotify, StartRdcw, check_downtime_changes, SpawnReconcile, StartBaseline,
       ReaderDies, PollScan, SensorsTypeOK, AdbTypeOK
  <2>3. mem'.walk.cur = mem.walk.cur /\ mem'.walk.todo = mem.walk.todo
    <3>1. CASE StartBaseline
      <4>1. PICK w \in WalkRec : /\ mem' = [mem EXCEPT !.pc = "running", !.walk = w]
                                 /\ w.cur = mem.walk.cur /\ w.todo = mem.walk.todo
        BY <3>1, StartBaselineMoves, Zenon
      <4> QED
        BY <4>1 DEF SensorsTypeOK, MemTypeOK
    <3>2. CASE ~StartBaseline
      <4>1. mem'.walk = mem.walk
        BY <1>7, <3>2 DEF JournalLoss, StartUp, Boot, StartFanotify, StartRdcw, check_downtime_changes, SpawnReconcile,
           BeginScan, ReaderDies, PollScan, SensorsTypeOK, MemTypeOK
      <4> QED
        BY <4>1
    <3> QED
      BY <3>1, <3>2
  <2> QED
    BY <1>2, <2>1, <2>2, <2>3 DEF RowMoves
<1>8. ASSUME NEW e \in Present \cup {Overflow},
             \/ adb' = RecordOverflow(adb) \/ adb' = adb
             \/ e # Overflow /\ adb' = WithEnqueued(adb, e)
      PROVE  (\A g \in File : RowMoves(g)) /\ adb'.done = adb.done
  <2>1. CASE adb' = RecordOverflow(adb)
    BY <2>1, RecordOverflowType DEF SensorsTypeOK, RowMoves
  <2>2. CASE adb' = adb
    BY <1>4, <2>2
  <2>3. CASE e # Overflow /\ adb' = WithEnqueued(adb, e)
    BY <1>3, <2>3
  <2> QED
    BY <1>8, <2>1, <2>2, <2>3
<1>9. CASE LiveSensor
  <2>1. hist'.before = hist.before /\ mem'.walk = mem.walk
    BY <1>9 DEF LiveSensor, drain_fd, FanotifyRun, watch_root, SensorsTypeOK, MemTypeOK, HistTypeOK
  <2>2. CASE drain_fd
    BY <1>2, <1>4, <2>1, <2>2 DEF drain_fd
  <2>3. CASE FanotifyRun
    <3>1. PICK e \in Present \cup {Overflow} : e = Head(mem.chan)
      BY <2>3 DEF FanotifyRun, PresentInv
    <3>2. \/ adb' = RecordOverflow(adb) \/ adb' = adb
          \/ e # Overflow /\ adb' = WithEnqueued(adb, e)
      BY <2>3, <3>1 DEF FanotifyRun
    <3> QED
      BY <1>2, <1>8, <2>1, <3>2
  <2>4. CASE watch_root
    <3>1. PICK e \in Present \cup {Overflow} : e = Head(disk.kq)
      BY <2>4 DEF watch_root, PresentInv
    <3>2. \/ adb' = RecordOverflow(adb) \/ adb' = adb
          \/ e # Overflow /\ adb' = WithEnqueued(adb, e)
      BY <2>4, <3>1, WatchMoves
    <3> QED
      BY <1>2, <1>8, <2>1, <3>2
  <2> QED
    BY <1>9, <2>2, <2>3, <2>4 DEF LiveSensor
<1>17. CASE WatchFails
  <2>1. mem' = mem /\ adb' = RecordOverflow(adb) /\ hist'.before = hist.before
    BY <1>17, HistLive DEF WatchFails
  <2>2. (\A g \in File : RowMoves(g)) /\ adb'.done = adb.done
    BY <2>1, RecordOverflowType DEF SensorsTypeOK, RowMoves
  <2> QED
    BY <1>2, <2>1, <2>2
<1>10. CASE \E f \in File : CaptureRead(f) \/ CaptureEnd(f)
  <2>1. PICK f \in File : CaptureRead(f) \/ CaptureEnd(f)
    BY <1>10
  <2>2. mem' = mem /\ hist' = hist /\ adb'.done = adb.done
    BY <2>1 DEF CaptureRead, CaptureEnd, SensorsTypeOK, AdbTypeOK
  <2>3. \A g \in File : RowMoves(g)
    <3>1. adb.row \in [File -> {"none", "queued", "read"}] /\ adb.captured \in [File -> Nat]
      BY DEF SensorsTypeOK, AdbTypeOK
    <3>2. CASE CaptureRead(f)
      <4>1. /\ adb.row[f] = "queued" /\ adb'.row = [adb.row EXCEPT ![f] = "read"]
            /\ adb'.captured = [adb.captured EXCEPT ![f] = disk.ver[f]]
        BY <3>2 DEF CaptureRead, SensorsTypeOK, AdbTypeOK
      <4> QED
        BY <3>1, <4>1 DEF RowMoves
    <3>3. CASE CaptureEnd(f)
      <4>1. adb.row[f] = "read" /\ adb'.row = [adb.row EXCEPT ![f] = "none"] /\ adb'.captured = adb.captured
        BY <3>3 DEF CaptureEnd, SensorsTypeOK, AdbTypeOK
      <4> QED
        BY <3>1, <4>1 DEF RowMoves
    <3> QED
      BY <2>1, <3>2, <3>3
  <2> QED
    BY <1>2, <2>2, <2>3
<1>11. CASE \E s \in Scans : Reconcile(s)
  <2>1. PICK s \in Scans : Reconcile(s)
    BY <1>11
  <2>2. mem'.walk = mem.walk /\ hist'.before = hist.before
    BY <2>1 DEF Reconcile, seen_check_and_update, ScanSkips, ReconcileEnqueue, ReconcileEnd, SensorsTypeOK, MemTypeOK,
       HistTypeOK
  <2>3. CASE ReconcileEnqueue(s)
    <3>1. PICK f \in Present : f = mem.scan[s].cur
      BY <2>3 DEF ReconcileEnqueue, PresentInv
    <3> QED
      BY <1>2, <1>3, <2>2, <2>3, <3>1 DEF ReconcileEnqueue
  <2>4. CASE ~ReconcileEnqueue(s)
    <3>1. adb'.row = adb.row /\ adb'.captured = adb.captured /\ adb'.done = adb.done
      BY <2>1, <2>4 DEF Reconcile, seen_check_and_update, ScanSkips, ReconcileEnd, SensorsTypeOK, AdbTypeOK
    <3> QED
      BY <1>2, <2>2, <3>1 DEF RowMoves
  <2> QED
    BY <2>3, <2>4
<1>12. CASE SensorCrash
  <2>1. mem'.walk.cur = NoFile /\ adb' = adb /\ hist'.before = hist.before
    BY <1>12 DEF SensorCrash, DownProcess, SensorsTypeOK, HistTypeOK
  <2>2. \A f \in File : DirOf[f] # NoFile
    BY SensorsAssumption
  <2>3. \A f \in File : Covered(f) => Covered(f)'
    BY <1>4, <2>1, CoverageKept
  <2> QED
    BY <1>0, <1>s, <1>1, <1>4, <2>1, <2>2, <2>3 DEF BaselineInv
<1>13. CASE \E d \in Dir : BaselineEntry(d)
  <2>1. PICK d \in Dir : BaselineEntry(d)
    BY <1>13
  <2>2. adb' = adb /\ \A f \in File : Covered(f) => Covered(f)'
    BY <1>4, <2>1, CoverageKept DEF BaselineEntry
  <2>3. CASE d \in adb.done
    <3>1. hist' = hist /\ mem'.walk.cur = mem.walk.cur /\ mem'.walk.todo = mem.walk.todo
      BY <2>1, <2>3 DEF BaselineEntry, SensorsTypeOK, MemTypeOK, WalkRec
    <3> QED
      BY <1>2, <1>4, <2>2, <3>1
  <2>4. CASE d \notin adb.done
    <3>1. /\ mem'.walk.cur = d /\ mem'.walk.todo = {f \in File : DirOf[f] = d}
          /\ hist'.before = hist.before \cup {f \in File : DirOf[f] = d /\ disk.ver[f] > 0}
      <4>1. PICK w \in WalkRec, t \in SUBSET File : w = mem.walk /\ t = {f \in File : DirOf[f] = d}
        BY DEF SensorsTypeOK, MemTypeOK
      <4>2. mem' = [mem EXCEPT !.walk = [w EXCEPT !.dirs = @ \ {d}, !.cur = d, !.todo = t]]
        BY <2>1, <2>4, <4>1 DEF BaselineEntry, SensorsTypeOK, MemTypeOK
      <4>3. mem'.walk = [w EXCEPT !.dirs = @ \ {d}, !.cur = d, !.todo = t]
        BY <4>2 DEF SensorsTypeOK, MemTypeOK
      <4>4. mem'.walk.cur = d /\ mem'.walk.todo = t
        BY <4>3 DEF WalkRec
      <4>5. hist'.before = hist.before \cup {f \in File : DirOf[f] = d /\ disk.ver[f] > 0}
        BY <2>1, <2>4 DEF BaselineEntry, SensorsTypeOK, HistTypeOK
      <4> QED
        BY <4>1, <4>4, <4>5
    <3>2. ASSUME NEW f \in hist'.before \ (agentCfg.excluded \cup hist'.skipped)
          PROVE  /\ DirOf[f] \in adb'.done => Covered(f)'
                 /\ DirOf[f] = mem'.walk.cur => f \in mem'.walk.todo \/ Covered(f)'
      BY <1>0, <1>s, <2>2, <2>4, <3>1 DEF BaselineInv
    <3> QED
      BY <1>1, <1>4, <2>2, <3>2
  <2> QED
    BY <2>3, <2>4
<1>14. CASE \E f \in File : enqueue_tree(f)
  <2>1. PICK f \in File : enqueue_tree(f)
    BY <1>14
  <2>2. /\ hist'.before = hist.before
        /\ mem'.walk.cur = mem.walk.cur /\ mem'.walk.todo = mem.walk.todo \ {f}
        /\ \/ adb' = IF disk.ver[f] = 0 \/ matches_exclusion(f) THEN adb ELSE WithEnqueued(adb, f)
           \/ adb' = adb /\ f \in hist'.skipped
    <3>1. mem'.walk.cur = mem.walk.cur /\ mem'.walk.todo = mem.walk.todo \ {f}
      BY <2>1 DEF enqueue_tree, SensorsTypeOK, MemTypeOK, WalkRec
    <3>2. CASE hist' = hist /\ adb' = (IF disk.ver[f] = 0 \/ matches_exclusion(f) THEN adb ELSE WithEnqueued(adb, f))
      BY <3>1, <3>2
    <3>3. CASE adb' = adb /\ \E n \in Nat, S \in SUBSET (File \cup Dir) :
                 S = hist.skipped \cup {f} /\ hist' = [hist EXCEPT !.skips = n, !.skipped = S]
      <4>1. PICK n \in Nat, S \in SUBSET (File \cup Dir) :
               S = hist.skipped \cup {f} /\ hist' = [hist EXCEPT !.skips = n, !.skipped = S]
        BY <3>3
      <4>2. hist'.before = hist.before /\ f \in hist'.skipped
        BY <4>1, SkipsKeep DEF SensorsTypeOK
      <4> QED
        BY <3>1, <3>3, <4>2
    <3> QED
      BY <2>1, <3>2, <3>3, EnqueueTreeMoves
  <2>3. disk.ver[f] = 0 \/ f \in Present
    BY DEF Present, SensorsTypeOK, DiskTypeOK
  <2>4. /\ \A g \in File : RowMoves(g)
        /\ adb'.done = adb.done
        /\ f \in Present /\ f \notin agentCfg.excluded \cup hist'.skipped => Covered(f)'
    <3>1. CASE adb' = adb /\ (f \in hist'.skipped \/ disk.ver[f] = 0 \/ matches_exclusion(f))
      BY <1>4, <3>1 DEF matches_exclusion, Present
    <3>2. CASE f \in Present /\ adb' = WithEnqueued(adb, f)
      BY <1>3, <3>2 DEF Covered
    <3> QED
      BY <2>2, <2>3, <3>1, <3>2
  <2>5. \A g \in File : Covered(g) => Covered(g)'
    BY <2>4, CoverageKept
  <2>6. ASSUME NEW g \in hist'.before \ (agentCfg.excluded \cup hist'.skipped)
        PROVE  /\ DirOf[g] \in adb'.done => Covered(g)'
               /\ DirOf[g] = mem'.walk.cur => g \in mem'.walk.todo \/ Covered(g)'
    <3>1. g \in File /\ g \in Present
      BY <1>0, <2>2 DEF PresentInv
    <3> QED
      BY <1>s, <2>2, <2>4, <2>5, <3>1 DEF BaselineInv
  <2> QED
    BY <1>1, <2>4, <2>6
<1>15. CASE mark_baseline_dir
  <2>1. /\ mem.walk.cur # NoFile /\ mem.walk.todo = {} /\ hist' = hist /\ mem'.walk.cur = NoFile
        /\ adb'.done = adb.done \cup {mem.walk.cur} /\ adb'.row = adb.row /\ adb'.captured = adb.captured
    BY <1>15 DEF mark_baseline_dir, SensorsTypeOK, MemTypeOK, WalkRec, AdbTypeOK
  <2>2. \A f \in File : RowMoves(f)
    BY <2>1 DEF RowMoves
  <2>3. \A f \in File : DirOf[f] # NoFile /\ (Covered(f) => Covered(f)')
    BY <2>2, CoverageKept, SensorsAssumption
  <2> QED
    BY <1>0, <1>1, <2>1, <2>2, <2>3 DEF BaselineInv
<1>16. CASE BaselineEnd
  <2>1. /\ hist' = hist /\ mem'.walk.cur = mem.walk.cur /\ mem'.walk.todo = mem.walk.todo
        /\ adb'.done = adb.done /\ adb'.row = adb.row /\ adb'.captured = adb.captured
    BY <1>16 DEF BaselineEnd, SensorsTypeOK, MemTypeOK, WalkRec, AdbTypeOK
  <2> QED
    BY <1>2, <2>1 DEF RowMoves
<1>18. CASE BaselineFails
  <2>1. /\ hist'.before = hist.before /\ mem'.walk.cur = mem.walk.cur /\ mem'.walk.todo = mem.walk.todo
        /\ adb' = adb
    BY <1>18 DEF BaselineFails, SensorsTypeOK, MemTypeOK, WalkRec, HistTypeOK
  <2> QED
    BY <1>2, <1>4, <2>1
<1> QED
  BY <1>5, <1>6, <1>7, <1>9, <1>10, <1>11, <1>12, <1>13, <1>14, <1>15, <1>16, <1>17, <1>18 DEF SensorsNext, Baseline

\* The walk forgets no directory: it takes one only to walk it or because it
\* is checkpointed, and "complete" is written when none is left.
LEMMA WalkKept == SensorsTypeOK /\ WalkInv /\ [SensorsNext]_SensorsVars => WalkInv'
<1> SUFFICES ASSUME SensorsTypeOK, WalkInv, [SensorsNext]_SensorsVars PROVE WalkInv'
  OBVIOUS
<1>s. hist.skipped \subseteq hist'.skipped
  BY SkippedGrows
<1>1. ASSUME mem'.walk = mem.walk, adb'.done = adb.done, adb'.baseline_state = adb.baseline_state
      PROVE  WalkInv'
  BY <1>s, <1>1 DEF WalkInv
<1>2. CASE UNCHANGED SensorsVars
  BY <1>1, <1>2 DEF SensorsVars
<1>3. CASE \/ JournalLoss \/ Boot \/ StartFanotify \/ StartRdcw \/ check_downtime_changes \/ SpawnReconcile
           \/ ReaderDies \/ PollScan
  <2>1. mem'.walk = mem.walk
    BY <1>3 DEF JournalLoss, Boot, StartFanotify, StartRdcw, check_downtime_changes, SpawnReconcile, BeginScan, ReaderDies,
       PollScan, SensorsTypeOK, MemTypeOK
  <2>2. adb'.done = adb.done /\ adb'.baseline_state = adb.baseline_state
    BY <1>3 DEF JournalLoss, Boot, StartFanotify, StartRdcw, check_downtime_changes, SpawnReconcile, ReaderDies,
       PollScan, SensorsTypeOK, AdbTypeOK
  <2> QED
    BY <1>1, <2>1, <2>2
<1>4. CASE LiveSensor \/ WatchFails
  <2>1. mem'.walk = mem.walk
    BY <1>4 DEF LiveSensor, drain_fd, FanotifyRun, watch_root, WatchFails, SensorsTypeOK, MemTypeOK
  <2>2. adb'.done = adb.done /\ adb'.baseline_state = adb.baseline_state
    BY <1>4 DEF LiveSensor, drain_fd, FanotifyRun, watch_root, WatchFails, RecordOverflow, WithEnqueued, SensorsTypeOK,
       AdbTypeOK
  <2> QED
    BY <1>1, <2>1, <2>2
<1>5. CASE \/ \E s \in Scans : Reconcile(s)
           \/ \E f \in File : CaptureRead(f) \/ CaptureEnd(f)
           \/ \E f \in File, renamed, sameKey \in BOOLEAN : WriteFile(f, renamed, sameKey)
  <2>1. mem'.walk = mem.walk
    BY <1>5 DEF Reconcile, seen_check_and_update, ScanSkips, ReconcileEnqueue, ReconcileEnd, CaptureRead, CaptureEnd,
       WriteFile, SensorsTypeOK, MemTypeOK
  <2>2. adb'.done = adb.done /\ adb'.baseline_state = adb.baseline_state
    BY <1>5 DEF Reconcile, seen_check_and_update, ScanSkips, ReconcileEnqueue, ReconcileEnd, CaptureRead, CaptureEnd,
       WriteFile, WithEnqueued, SensorsTypeOK, AdbTypeOK
  <2> QED
    BY <1>1, <2>1, <2>2
<1>6. CASE SensorCrash
  <2>1. ~mem'.walk.on /\ adb' = adb
    BY <1>6 DEF SensorCrash, DownProcess
  <2> QED
    BY <1>s, <2>1 DEF WalkInv
<1>7. CASE StartBaseline
  <2>1. PICK n \in Nat, S \in SUBSET Dir, w \in WalkRec, b \in {"none", "running", "complete"} :
                /\ hist' = [hist EXCEPT !.skips = n, !.skipped = hist.skipped \cup S]
                /\ mem' = [mem EXCEPT !.pc = "running", !.walk = w]
                /\ adb' = [adb EXCEPT !.baseline_state = b]
                /\ \/ w.on /\ Dir = S \cup w.dirs /\ b = "running"
                   \/ w = mem.walk /\ b = adb.baseline_state
    BY <1>7, StartBaselineMoves, Zenon
  <2>2. /\ hist'.skipped = hist.skipped \cup S /\ mem'.walk = w
        /\ adb'.baseline_state = b /\ adb'.done = adb.done
    BY <2>1 DEF SensorsTypeOK, HistTypeOK, MemTypeOK, AdbTypeOK
  <2> QED
    BY <1>1, <2>1, <2>2 DEF WalkInv
<1>8. CASE \E d \in Dir : BaselineEntry(d)
  <2>1. PICK d \in Dir : BaselineEntry(d)
    BY <1>8
  <2>2. PICK w \in WalkRec, t \in SUBSET File : w = mem.walk /\ t = {f \in File : DirOf[f] = d}
    BY DEF SensorsTypeOK, MemTypeOK
  <2>3. adb' = adb /\ mem.walk.cur = NoFile
    BY <2>1 DEF BaselineEntry
  <2>4. \/ d \in adb.done /\ mem'.walk = [w EXCEPT !.dirs = @ \ {d}]
        \/ mem'.walk = [w EXCEPT !.dirs = @ \ {d}, !.cur = d, !.todo = t]
    BY <2>1, <2>2 DEF BaselineEntry, SensorsTypeOK, MemTypeOK
  <2>5. /\ mem'.walk.dirs = mem.walk.dirs \ {d}
        /\ d \in adb.done \/ mem'.walk.cur = d
    BY <2>2, <2>4 DEF WalkRec
  <2>6. mem.walk.on
    BY <2>1 DEF BaselineEntry
  <2>7. NoFile \notin Dir
    BY SensorsAssumption
  <2> QED
    BY <1>s, <2>3, <2>5, <2>6, <2>7 DEF WalkInv
<1>9. CASE \E f \in File : enqueue_tree(f)
  <2>1. PICK f \in File : enqueue_tree(f)
    BY <1>9
  <2>2. /\ mem'.walk.on = mem.walk.on /\ mem'.walk.dirs = mem.walk.dirs /\ mem'.walk.cur = mem.walk.cur
    BY <2>1 DEF enqueue_tree, SensorsTypeOK, MemTypeOK, WalkRec
  <2>3. adb' = adb \/ adb' = WithEnqueued(adb, f)
    BY <2>1 DEF enqueue_tree
  <2>4. adb'.done = adb.done /\ adb'.baseline_state = adb.baseline_state
    BY <2>3, EnqueuedType DEF SensorsTypeOK
  <2> QED
    BY <1>s, <2>2, <2>4 DEF WalkInv
<1>10. CASE mark_baseline_dir
  <2>1. /\ mem'.walk.on = mem.walk.on /\ mem'.walk.dirs = mem.walk.dirs
        /\ adb'.done = adb.done \cup {mem.walk.cur} /\ adb'.baseline_state = adb.baseline_state
    BY <1>10 DEF mark_baseline_dir, SensorsTypeOK, MemTypeOK, WalkRec, AdbTypeOK
  <2> QED
    BY <1>s, <2>1 DEF WalkInv
<1>11. CASE BaselineEnd
  <2>1. /\ mem.walk.on /\ mem.walk.dirs = {} /\ mem.walk.cur = NoFile
        /\ ~mem'.walk.on /\ adb'.done = adb.done
    BY <1>11 DEF BaselineEnd, SensorsTypeOK, MemTypeOK, WalkRec, AdbTypeOK
  <2>2. NoFile \notin Dir
    BY SensorsAssumption
  <2> QED
    BY <1>s, <2>1, <2>2 DEF WalkInv
<1>12. CASE BaselineFails
  <2>1. ~mem'.walk.on /\ adb' = adb
    BY <1>12 DEF BaselineFails, SensorsTypeOK, MemTypeOK, WalkRec
  <2> QED
    BY <1>s, <2>1 DEF WalkInv
<1> QED
  BY <1>2, <1>3, <1>4, <1>5, <1>6, <1>7, <1>8, <1>9, <1>10, <1>11, <1>12 DEF SensorsNext, StartUp, Baseline

\* A directory that the baseline has checkpointed (run_baseline,
\* mark_baseline_dir) stays covered across restarts and whatever the sensors,
\* the scans and the captures do meanwhile, and a complete baseline has
\* checkpointed all, save the entries that could not be read.
THEOREM BaselineSafe == SensorsSpec => []BaselineCovers
<1>1. SensorsInit => PresentInv /\ BaselineInv /\ WalkInv
  <2> SUFFICES ASSUME SensorsInit PROVE PresentInv /\ BaselineInv /\ WalkInv
    OBVIOUS
  <2>1. <<>> \in Seq(Present \cup {Overflow})
    BY EmptySeq
  <2>2. PresentInv
    BY <2>1 DEF SensorsInit, PresentInv, DownProcess
  <2>3. BaselineInv
    BY DEF SensorsInit, BaselineInv
  <2>4. WalkInv
    BY DEF SensorsInit, WalkInv, DownProcess
  <2> QED
    BY <2>2, <2>3, <2>4
<1>2. BaselineInv /\ WalkInv => BaselineCovers
  BY DEF BaselineInv, WalkInv, BaselineCovers, Covered
<1> QED
  BY <1>1, <1>2, PresentKept, BaselineKept, WalkKept, SensorsTypesStart, SensorsTypesKept, PTL DEF SensorsSpec
=============================================================================
