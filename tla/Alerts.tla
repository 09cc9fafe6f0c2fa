------------------------------- MODULE Alerts -------------------------------
(***************************************************************************)
(* Opinions and the trigger outbox: set_opinion as a read-committed        *)
(* transaction, statement by statement, the fire call after its commit,    *)
(* the read of its answer, and the sweeps of deliver_pending, one loop per *)
(* server, against webhooks that fail or whose answers are lost.  Opinions *)
(* are on one artifact; every trigger is on the verdict condition of its   *)
(* tenant.  The detonation a verdict may start is in module Detonation.    *)
(***************************************************************************)
EXTENDS Integers, Sequences, FiniteSets, FiniteSetsExt, SequencesExt

CONSTANTS MaxOpinions,    \* bound: set_opinion calls
          Trigger,        \* trigger rules that may be created
          Server,         \* servers, each with a delivery loop
          MaxAttempts,    \* attempts before a row is given up (8 in the code)
          SweepLimit,     \* rows of one sweep (20 in the code)
          MaxAlertFaults  \* bound: dropped calls and sweeps, clocks behind

ASSUME AlertsAssumption ==
    /\ {MaxOpinions, MaxAttempts, SweepLimit} \subseteq Nat \ {0}
    /\ MaxAlertFaults \in Nat

VARIABLES
    opinion, \* committed artifact_opinion rows: id -> [kind, created, superseded_by]
    call,    \* id -> [pc, kind, prev, created, todo, answer]: the set_opinion call
    clock,   \* the latest Utc::now() of an insert so far
    skewed,  \* history: an insert took a time that is not after it
    rule,    \* trigger_rule rows
    outbox,  \* trigger_outbox: <<id, trigger>> -> [open, due, attempts]
    order,   \* its undelivered rows by next_attempt_at
    sweep,   \* server -> [batch, post]: the sweep under way
    got,     \* rows a webhook has received
    afault   \* faults so far

AlertsVars == <<opinion, call, clock, skewed, rule, outbox, order, sweep, got, afault>>

OpinionId == 1..MaxOpinions
NoSweep == [batch |-> <<>>, post |-> "none"]
AlertFault == afault < MaxAlertFaults /\ afault' = afault + 1

\* "malicious" stands for suspicious verdicts too.
FiresTrigger(kind) == kind = "malicious"

(***************************************************************************)
(* set_opinion                                                             *)
(***************************************************************************)
\* The unsuperseded row created last, 0 without one.
CurrentOpinion ==
    LET current == {i \in DOMAIN opinion : opinion[i].superseded_by = 0}
    IN  IF current = {} THEN 0
        ELSE CHOOSE i \in current : \A j \in current : opinion[j].created <= opinion[i].created

Begin(i, kind) ==
    /\ call[i].pc = "idle"
    /\ i > 1 => call[i - 1].pc # "idle"
    /\ call' = [call EXCEPT ![i].pc = "select", ![i].kind = kind]
    /\ UNCHANGED <<opinion, clock, skewed, rule, outbox, order, sweep, got, afault>>

SelectPrevious(i) ==
    /\ call[i].pc = "select"
    /\ call' = [call EXCEPT ![i].pc = IF CurrentOpinion = 0 THEN "insert" ELSE "update",
                            ![i].prev = CurrentOpinion]
    /\ UNCHANGED <<opinion, clock, skewed, rule, outbox, order, sweep, got, afault>>

\* The row lock: a second update waits for the first transaction to end.
UpdatePrevious(i) ==
    /\ call[i].pc = "update"
    /\ \A j \in OpinionId \ {i} : ~(call[j].pc \in {"insert", "commit"} /\ call[j].prev = call[i].prev)
    /\ call' = [call EXCEPT ![i].pc = "insert"]
    /\ UNCHANGED <<opinion, clock, skewed, rule, outbox, order, sweep, got, afault>>

\* Mutant: created_at is the time the call began.
InsertOpinion_Begun(i) ==
    /\ call[i].pc = "insert"
    /\ call' = [call EXCEPT ![i].pc = "commit", ![i].created = i]
    /\ UNCHANGED <<opinion, clock, skewed, rule, outbox, order, sweep, got, afault>>
InsertOpinion(i) ==
    /\ call[i].pc = "insert"
    /\ clock' = clock + 1
    /\ call' = [call EXCEPT ![i].pc = "commit", ![i].created = clock']
    /\ UNCHANGED <<opinion, skewed, rule, outbox, order, sweep, got, afault>>

\* created_at is the clock of the server that runs the call: it may be behind
\* that of another server, or equal.
InsertBehind(i) ==
    /\ call[i].pc = "insert"
    /\ AlertFault
    /\ skewed' = TRUE
    /\ \E now \in 1..clock : call' = [call EXCEPT ![i].pc = "commit", ![i].created = now]
    /\ UNCHANGED <<opinion, clock, rule, outbox, order, sweep, got>>

\* Row, superseded mark and audit event become visible together.
CommitOpinion(i) ==
    LET row == [kind |-> call[i].kind, created |-> call[i].created, superseded_by |-> 0] IN
    /\ call[i].pc = "commit"
    /\ opinion' = [j \in DOMAIN opinion \cup {i} |->
                     IF j = i THEN row
                     ELSE IF j = call[i].prev THEN [opinion[j] EXCEPT !.superseded_by = i]
                     ELSE opinion[j]]
    /\ call' = [call EXCEPT ![i].pc = IF FiresTrigger(call[i].kind) THEN "fire" ELSE "answer"]
    /\ UNCHANGED <<clock, skewed, rule, outbox, order, sweep, got, afault>>

\* The call is dropped: an open transaction is rolled back, and after the
\* commit the triggers not yet queued never are.
DropCall(i) ==
    /\ call[i].pc \notin {"idle", "done", "dropped"}
    /\ AlertFault
    /\ call' = [call EXCEPT ![i].pc = "dropped"]
    /\ UNCHANGED <<opinion, clock, skewed, rule, outbox, order, sweep, got>>

(***************************************************************************)
(* Triggers and the outbox                                                 *)
(***************************************************************************)
create_trigger(g) ==
    /\ g \notin rule
    /\ rule' = rule \cup {g}
    /\ UNCHANGED <<opinion, call, clock, skewed, outbox, order, sweep, got, afault>>

FireSelect(i) ==
    /\ call[i].pc = "fire"
    /\ call' = [call EXCEPT ![i].pc = IF rule = {} THEN "answer" ELSE "queue", ![i].todo = rule]
    /\ UNCHANGED <<opinion, clock, skewed, rule, outbox, order, sweep, got, afault>>

FireInsert(i) ==
    /\ call[i].pc = "queue"
    /\ \E g \in call[i].todo :
         LET r == <<i, g>> IN
         /\ outbox' = [x \in DOMAIN outbox \cup {r} |->
                         IF x = r THEN [open |-> TRUE, due |-> TRUE, attempts |-> 0] ELSE outbox[x]]
         /\ order' = Append(order, r)
         /\ call' = [call EXCEPT ![i].todo = @ \ {g},
                                 ![i].pc = IF call[i].todo = {g} THEN "answer" ELSE @]
    /\ UNCHANGED <<opinion, clock, skewed, rule, sweep, got, afault>>

\* The handler answers with what is current by now, which is the opinion of
\* another call where calls overlap.  (The debug_assert_eq! on its id then fails: a debug
\* build panics here, after everything is stored, and the client gets no answer.)
Answer(i) ==
    /\ call[i].pc = "answer"
    /\ call' = [call EXCEPT ![i].pc = "done", ![i].answer = CurrentOpinion]
    /\ UNCHANGED <<opinion, clock, skewed, rule, outbox, order, sweep, got, afault>>

\* The backoff of a row runs out.
BackoffEnds(r) ==
    /\ outbox[r].open /\ ~outbox[r].due
    /\ outbox' = [outbox EXCEPT ![r].due = TRUE]
    /\ UNCHANGED <<opinion, call, clock, skewed, rule, order, sweep, got, afault>>

\* The first due rows in order, with the attempts they had at that moment.
DueRows ==
    LET due == {k \in DOMAIN order : outbox[order[k]].due}
        n == Min({SweepLimit, Cardinality(due)})
        first == {f \in [1..n -> due] : /\ \A j, k \in 1..n : j < k => f[j] < f[k]
                                        /\ \A d \in due \ {f[k] : k \in 1..n} : \A k \in 1..n : f[k] < d}
    IN  {[k \in 1..n |-> [row |-> order[f[k]], attempts |-> outbox[order[f[k]]].attempts]] : f \in first}

BeginSweep(s) ==
    /\ sweep[s] = NoSweep
    /\ \E read \in DueRows : read # <<>> /\ sweep' = [sweep EXCEPT ![s].batch = read]
    /\ UNCHANGED <<opinion, call, clock, skewed, rule, outbox, order, got, afault>>

\* The webhook gets the body or not; its answer says so, or is lost.  The client
\* has no timeout: a webhook that keeps the connection open without an answer
\* holds the loop here for ever.
Post(s) ==
    /\ sweep[s].batch # <<>> /\ sweep[s].post = "none"
    /\ \E received, success \in BOOLEAN :
         /\ success => received
         /\ got' = IF received THEN got \cup {Head(sweep[s].batch).row} ELSE got
         /\ sweep' = [sweep EXCEPT ![s].post = IF success THEN "success" ELSE "failure"]
    /\ UNCHANGED <<opinion, call, clock, skewed, rule, outbox, order, afault>>

NextRow(s) == sweep' = [sweep EXCEPT ![s] = [batch |-> Tail(@.batch), post |-> "none"]]

RecordSuccess(s) ==
    LET r == Head(sweep[s].batch).row IN
    /\ sweep[s].post = "success"
    /\ outbox' = [outbox EXCEPT ![r].open = FALSE]
    /\ order' = RemoveFirst(order, r)
    /\ NextRow(s)
    /\ UNCHANGED <<opinion, call, clock, skewed, rule, got, afault>>

\* Mutant: off by one, the row is given up an attempt too early.
GiveUp_Early(attempts) == attempts + 2 >= MaxAttempts
GiveUp(attempts) == attempts + 1 >= MaxAttempts

\* A failed row is due again behind the others.
Requeued(r) == IF outbox[r].open THEN Append(RemoveFirst(order, r), r) ELSE order

\* Decided by the attempts the sweep has read; the count itself is the row's.
RecordFailure(s) ==
    LET b == Head(sweep[s].batch)
        r == b.row
    IN  /\ sweep[s].post = "failure"
        /\ IF GiveUp(b.attempts)
           THEN /\ outbox' = [outbox EXCEPT ![r].attempts = @ + 1, ![r].open = FALSE]
                /\ order' = RemoveFirst(order, r)
           ELSE /\ outbox' = [outbox EXCEPT ![r].attempts = @ + 1, ![r].due = FALSE]
                /\ order' = Requeued(r)
        /\ NextRow(s)
        /\ UNCHANGED <<opinion, call, clock, skewed, rule, got, afault>>

\* An error of a statement ends the sweep, a restart too: the rows are read
\* again.
DropSweep(s) ==
    /\ sweep[s] # NoSweep
    /\ AlertFault
    /\ sweep' = [sweep EXCEPT ![s] = NoSweep]
    /\ UNCHANGED <<opinion, call, clock, skewed, rule, outbox, order, got>>
----------------------------------------------------------------------------
AlertsInit ==
    /\ opinion = <<>>
    /\ call = [i \in OpinionId |-> [pc |-> "idle", kind |-> "none", prev |-> 0, created |-> 0, todo |-> {},
                                   answer |-> 0]]
    /\ clock = 0 /\ skewed = FALSE
    /\ rule = {}
    /\ outbox = <<>>
    /\ order = <<>>
    /\ sweep = [s \in Server |-> NoSweep]
    /\ got = {}
    /\ afault = 0

Calls == \E i \in OpinionId : \/ SelectPrevious(i) \/ UpdatePrevious(i) \/ InsertOpinion(i) \/ InsertBehind(i)
                              \/ CommitOpinion(i) \/ FireSelect(i) \/ FireInsert(i) \/ Answer(i)
Sweep(s) == BeginSweep(s) \/ Post(s) \/ RecordSuccess(s) \/ RecordFailure(s)

AlertsNext ==
    \/ \E i \in OpinionId : (\E kind \in {"trusted", "malicious"} : Begin(i, kind)) \/ DropCall(i)
    \/ Calls
    \/ \E g \in Trigger : create_trigger(g)
    \/ \E r \in DOMAIN outbox : BackoffEnds(r)
    \/ \E s \in Server : Sweep(s) \/ DropSweep(s)

AlertsSpec == AlertsInit /\ [][AlertsNext]_AlertsVars
----------------------------------------------------------------------------
\* Once there is an opinion there is a current one, whatever the clocks say;
\* and while no clock was behind another it is the one inserted last,
\* whichever calls overlap, are dropped or wait for each other's row: no row
\* is superseded by an older one, one left unsuperseded by two calls at once
\* never comes back, and a call is answered with its own opinion or one
\* inserted after it.
LatestOpinionCurrent ==
    /\ DOMAIN opinion # {} => CurrentOpinion \in DOMAIN opinion
    /\ ~skewed =>
         /\ \A i \in DOMAIN opinion : opinion[i].created <= opinion[CurrentOpinion].created
         /\ \A i \in OpinionId : call[i].answer # 0 => call[i].created <= opinion[call[i].answer].created

\* A row that no webhook received is closed only after all its attempts have
\* failed, also when two servers sweep the same row with stale counts.
GivenUpHonestly ==
    \A r \in DOMAIN outbox : ~outbox[r].open /\ r \notin got => outbox[r].attempts >= MaxAttempts
=============================================================================
