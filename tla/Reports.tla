------------------------------ MODULE Reports ------------------------------
(***************************************************************************)
(* What the agent tells the server about its coverage: the heartbeat with  *)
(* the outcome counters, and the gap flusher.  Calls and answers may be    *)
(* lost and the agent may crash at any step.  A counter is the set of the  *)
(* increments it holds, so that an increment can be followed.              *)
(***************************************************************************)
EXTENDS Integers, FiniteSets, FiniteSetsExt

CONSTANTS GapId,        \* identifiers of pending_gap rows, a range from 1
          GarbledGap,   \* rows whose observed_at does not parse
          RefusedGap,   \* rows whose digest the server does not parse
          BatchLimit,   \* rows the flusher reads at once
          MaxFaults     \* bound: lost calls, lost answers and crashes

ASSUME ReportsAssumption ==
    /\ IsFiniteSet(GapId) /\ GapId = 1..Cardinality(GapId)
    /\ GarbledGap \subseteq GapId /\ RefusedGap \subseteq GapId
    /\ BatchLimit \in Nat /\ Cardinality(GarbledGap) < BatchLimit
    /\ MaxFaults \in Nat

VARIABLES
    local,     \* [pending, counter, last]: pending_gap rows, outcome counters
    beat,      \* [pc, counts]: the heartbeat loop
    flush,     \* [pc, batch]: the gap flusher
    corpus,    \* [counts, attempts]: agent row and capture_attempt rows
    rhist      \* [reported, raced, uncounted, faults]: history

ReportsVars == <<local, beat, flush, corpus, rhist>>

IdleBeat == [pc |-> "idle", counts |-> {}]
IdleFlush == [pc |-> "idle", batch |-> {}]
Fault == rhist.faults < MaxFaults /\ rhist' = [rhist EXCEPT !.faults = @ + 1]

(***************************************************************************)
(* Rows and counters, written by sensors and capture tasks.                *)
(***************************************************************************)
\* record_gap: the row and the count; the increment carries the row's id.
RecordGap ==
    LET g == local.last + 1 IN
    /\ g \in GapId
    /\ local' = [local EXCEPT !.last = g, !.pending = @ \cup {g}, !.counter = @ \cup {g}]
    /\ rhist' = IF beat.pc # "idle" THEN [rhist EXCEPT !.raced = @ \cup {g}] ELSE rhist
    /\ UNCHANGED <<beat, flush, corpus>>

\* The process dies between the two statements of record_gap.
RecordGapTorn ==
    LET g == local.last + 1 IN
    /\ g \in GapId
    /\ rhist.faults < MaxFaults
    /\ local' = [local EXCEPT !.last = g, !.pending = @ \cup {g}]
    /\ rhist' = [rhist EXCEPT !.uncounted = @ \cup {g}, !.faults = @ + 1]
    /\ beat' = IdleBeat
    /\ flush' = IdleFlush
    /\ UNCHANGED corpus

(***************************************************************************)
(* heartbeat::send_once.                                                   *)
(***************************************************************************)
\* Mutant: the counters are cleared as they are read.
read_counters_Clear ==
    /\ beat.pc = "idle"
    /\ beat' = [pc |-> "send", counts |-> local.counter]
    /\ local' = [local EXCEPT !.counter = {}]
    /\ rhist' = [rhist EXCEPT !.raced = {}]
    /\ UNCHANGED <<flush, corpus>>
read_counters ==
    /\ beat.pc = "idle"
    /\ beat' = [pc |-> "send", counts |-> local.counter]
    /\ UNCHANGED <<local, flush, corpus, rhist>>

\* The server keeps the counts of the latest heartbeat only.
heartbeat ==
    /\ beat.pc = "send"
    /\ corpus' = [corpus EXCEPT !.counts = beat.counts]
    /\ \/ /\ beat' = [beat EXCEPT !.pc = "clear"]
          /\ rhist' = [rhist EXCEPT !.reported = @ \cup beat.counts]
       \/ /\ rhist.faults < MaxFaults \* the answer is lost
          /\ beat' = IdleBeat
          /\ rhist' = [rhist EXCEPT !.reported = @ \cup beat.counts, !.faults = @ + 1]
    /\ UNCHANGED <<local, flush>>

HeartbeatFails ==
    /\ beat.pc = "send"
    /\ Fault
    /\ beat' = IdleBeat
    /\ UNCHANGED <<local, flush, corpus>>

\* Deletes every counter, those counted since read_counters too.
clear_counters ==
    /\ beat.pc = "clear"
    /\ local' = [local EXCEPT !.counter = {}]
    /\ beat' = IdleBeat
    /\ UNCHANGED <<flush, corpus, rhist>>

(***************************************************************************)
(* gap_flusher.                                                            *)
(***************************************************************************)
\* Mutant: the oldest row only.
pending_gaps_One == IF local.pending = {} THEN {} ELSE {Min(local.pending)}
pending_gaps == {g \in local.pending : Cardinality({h \in local.pending : h < g}) < BatchLimit}

Deliverable(rows) == rows \ GarbledGap

FlushRead ==
    /\ flush.pc = "idle"
    /\ Deliverable(pending_gaps) # {}
    /\ flush' = [pc |-> "send", batch |-> Deliverable(pending_gaps)]
    /\ UNCHANGED <<local, beat, corpus, rhist>>

\* record_gaps inserts a batch in one transaction, a fresh row for each gap;
\* one digest it cannot parse refuses the whole batch.
Refused(rows) == rows \cap RefusedGap # {}
record_gaps(rows) ==
    IF Refused(rows) THEN corpus
    ELSE [corpus EXCEPT !.attempts = [g \in GapId |-> @[g] + IF g \in rows THEN 1 ELSE 0]]

report_gaps ==
    /\ flush.pc = "send"
    /\ corpus' = record_gaps(flush.batch)
    /\ \/ ~Refused(flush.batch) /\ flush' = [flush EXCEPT !.pc = "delete"] /\ UNCHANGED rhist
       \/ Refused(flush.batch) /\ flush' = IdleFlush /\ UNCHANGED rhist
       \/ flush' = IdleFlush /\ Fault
    /\ UNCHANGED <<local, beat>>

FlushFails ==
    /\ flush.pc = "send"
    /\ Fault
    /\ flush' = IdleFlush
    /\ UNCHANGED <<local, beat, corpus>>

\* delete_gaps: one statement per row.
delete_gaps ==
    /\ flush.pc = "delete"
    /\ LET g == Min(flush.batch) IN
         /\ local' = [local EXCEPT !.pending = @ \ {g}]
         /\ flush' = IF flush.batch = {g} THEN IdleFlush ELSE [flush EXCEPT !.batch = @ \ {g}]
    /\ UNCHANGED <<beat, corpus, rhist>>

ReportsCrash ==
    /\ Fault
    /\ beat' = IdleBeat
    /\ flush' = IdleFlush
    /\ UNCHANGED <<local, corpus>>
----------------------------------------------------------------------------
ReportsInit ==
    /\ local = [pending |-> {}, counter |-> {}, last |-> 0]
    /\ beat = IdleBeat
    /\ flush = IdleFlush
    /\ corpus = [counts |-> {}, attempts |-> [g \in GapId |-> 0]]
    /\ rhist = [reported |-> {}, raced |-> {}, uncounted |-> {}, faults |-> 0]

Beat == read_counters \/ heartbeat \/ HeartbeatFails \/ clear_counters
Flush == FlushRead \/ report_gaps \/ FlushFails \/ delete_gaps
ReportsNext == RecordGap \/ RecordGapTorn \/ Beat \/ Flush \/ ReportsCrash

\* Both loops run for ever.
ReportsFairness == WF_ReportsVars(Beat) /\ WF_ReportsVars(Flush)
ReportsSpec == ReportsInit /\ [][ReportsNext]_ReportsVars /\ ReportsFairness
----------------------------------------------------------------------------
\* Nothing the agent has to report disappears on the way.  A gap leaves its
\* database only when the server has it: lost calls and answers, crashes and
\* rows that cannot be sent never lose one, and only they store one twice.
\* An outcome counted before a heartbeat starts reaches the server in some
\* heartbeat before its counter is deleted.  Left out: what is counted while
\* a heartbeat is under way (rhist.raced), which clear_counters deletes
\* unsent, and a gap whose process died before it was counted.
NothingUnreported ==
    /\ \A g \in 1..local.last : g \in local.pending \/ corpus.attempts[g] > 0
    /\ \A g \in GapId : corpus.attempts[g] <= rhist.faults + 1
    /\ 1..local.last \subseteq local.counter \cup rhist.reported \cup rhist.raced \cup rhist.uncounted

\* The flusher delivers every gap that can be sent, also behind rows that
\* cannot, as long as these are fewer than a batch: again and again none is
\* left waiting, unless the batch has a row that the server refuses, which
\* keeps the whole batch, and what is behind it, on the agent for good.
GapsDelivered ==
    []<>(\/ Refused(pending_gaps)
         \/ \A g \in local.pending \ GarbledGap : corpus.attempts[g] > 0)
=============================================================================
