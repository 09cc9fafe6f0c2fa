------------------------------- MODULE Merlin -------------------------------
(***************************************************************************)
(* Segments of the Merlin bridge: ingest_segment as a read-committed       *)
(* transaction, statement by statement, with the locks its statements      *)
(* take and the waits they cause.  Batches overlap, are sent again after   *)
(* a lost answer or an error, and name the same segment or the same event. *)
(* All segments are of one tenant and one host, the scope of every key.    *)
(***************************************************************************)
EXTENDS Integers, Sequences, FiniteSets, SequencesExt

CONSTANTS Bridge,           \* senders, each with one batch under way
          Batch,            \* the batches they send, [segment, sha256, events]
          MaxEvents,        \* events of one request at most (MAX_EVENTS_PER_REQUEST)
          MaxSends          \* bound: batches sent

ASSUME MerlinAssumption ==
    /\ \A b \in Batch : Len(b.events) \in Nat /\ DOMAIN b.events = 1..Len(b.events)
    /\ {MaxEvents, MaxSends} \subseteq Nat \ {0}

VARIABLES
    segment,     \* committed merlin_segment rows: name -> [sha256, event_count]
    observation, \* committed merlin_observation rows: event id -> segment
    batch,       \* bridge -> [pc, req, next, own, count]: its transaction
    receipt,     \* answers that arrived, in order: [req, accepted]
    sends        \* batches sent so far

MerlinVars == <<segment, observation, batch, receipt, sends>>

NoBatch == [pc |-> "idle"]
NoEventId == "no_identity" \* neither event_id nor boot_id and source_seq
NotAnObject == "not_an_object"

\* Digests differ in case only as text.
to_ascii_lowercase(d) == IF d = "D1" THEN "d1" ELSE d

validate_request(req) ==
    /\ req.sha256 # "malformed"
    /\ Len(req.events) <= MaxEvents
    /\ ~Contains(req.events, NotAnObject)

(***************************************************************************)
(* Locks.  A transaction holds the row of its segment from the SELECT FOR  *)
(* UPDATE or the INSERT on, and the keys of the events it has inserted.    *)
(***************************************************************************)
InTx(c) == batch[c].pc \in {"select", "new", "events", "count", "commit"}
HoldsSegment(c, s) == batch[c].pc \in {"events", "count", "commit"} /\ batch[c].req.segment = s
HoldsEvent(c, e) == InTx(c) /\ e \in batch[c].own

NextEvent(c) == batch[c].req.events[batch[c].next]

\* SELECT ... FOR UPDATE waits for the transaction that holds the row.
\* Mutant: the segment is selected without FOR UPDATE.
SelectWaits_Unlocked(c) == {}
SelectWaits(c) ==
    {d \in Bridge \ {c} : /\ batch[c].req.segment \in DOMAIN segment
                           /\ HoldsSegment(d, batch[c].req.segment)}

\* The transactions a statement of c waits for.
WaitsFor(c) ==
    LET others == Bridge \ {c} IN
    CASE batch[c].pc = "select" -> SelectWaits(c)
      [] batch[c].pc = "new" -> {d \in others : HoldsSegment(d, batch[c].req.segment)}
      [] batch[c].pc = "events" /\ batch[c].next <= Len(batch[c].req.events) ->
           {d \in others : HoldsEvent(d, NextEvent(c))}
      [] OTHER -> {}

Rollback(c) == batch' = [batch EXCEPT ![c] = NoBatch]

(***************************************************************************)
(* ingest_segment                                                          *)
(***************************************************************************)
\* The request arrives; an invalid one is refused before the transaction.
Send(c, req) ==
    /\ batch[c] = NoBatch
    /\ sends < MaxSends
    /\ sends' = sends + 1
    /\ batch' = [batch EXCEPT ![c] = IF validate_request(req)
          THEN [pc |-> "select", req |-> req, next |-> 1, own |-> {}, count |-> 0]
          ELSE NoBatch]
    /\ UNCHANGED <<segment, observation, receipt>>

SelectSegment(c) ==
    LET s == batch[c].req.segment IN
    /\ batch[c].pc = "select"
    /\ WaitsFor(c) = {}
    /\ CASE s \notin DOMAIN segment -> batch' = [batch EXCEPT ![c].pc = "new"]
         [] s \in DOMAIN segment /\ segment[s].sha256 = to_ascii_lowercase(batch[c].req.sha256) ->
              batch' = [batch EXCEPT ![c].pc = "events"]
         [] OTHER -> Rollback(c)
    /\ UNCHANGED <<segment, observation, receipt, sends>>

\* Two first batches of a segment: the second waits, then breaks the key.
InsertSegment(c) ==
    /\ batch[c].pc = "new"
    /\ WaitsFor(c) = {}
    /\ IF batch[c].req.segment \in DOMAIN segment THEN Rollback(c)
       ELSE batch' = [batch EXCEPT ![c].pc = "events"]
    /\ UNCHANGED <<segment, observation, receipt, sends>>

\* ON CONFLICT DO NOTHING, after the other transaction with the key ended.
InsertEvent(c) ==
    /\ batch[c].pc = "events"
    /\ batch[c].next <= Len(batch[c].req.events)
    /\ WaitsFor(c) = {}
    /\ CASE NextEvent(c) = NoEventId -> Rollback(c)
         [] NextEvent(c) \in (DOMAIN observation \cup batch[c].own) \ {NoEventId} ->
              batch' = [batch EXCEPT ![c].next = @ + 1]
         [] OTHER -> batch' = [batch EXCEPT ![c].next = @ + 1, ![c].own = @ \cup {NextEvent(c)}]
    /\ UNCHANGED <<segment, observation, receipt, sends>>

\* COUNT sees what is committed and the transaction's own rows.
CountEvents(c) ==
    LET s == batch[c].req.segment IN
    /\ batch[c].pc = "events"
    /\ batch[c].next > Len(batch[c].req.events)
    /\ batch' = [batch EXCEPT ![c].pc = "commit",
          ![c].count = Cardinality({e \in DOMAIN observation : observation[e] = s} \cup batch[c].own)]
    /\ UNCHANGED <<segment, observation, receipt, sends>>

Accepted(c) == batch[c].own

\* The answer may be lost on its way.
CommitSegment(c) ==
    LET s == batch[c].req.segment
        row == [sha256 |-> to_ascii_lowercase(batch[c].req.sha256), event_count |-> batch[c].count]
    IN  /\ batch[c].pc = "commit"
        /\ segment' = [x \in DOMAIN segment \cup {s} |-> IF x = s THEN row ELSE segment[x]]
        /\ observation' = [e \in DOMAIN observation \cup batch[c].own |->
                             IF e \in batch[c].own THEN s ELSE observation[e]]
        /\ \/ receipt' = Append(receipt, [req |-> batch[c].req, accepted |-> Accepted(c)])
           \/ UNCHANGED receipt
        /\ batch' = [batch EXCEPT ![c] = NoBatch]
        /\ UNCHANGED sends

\* A dropped handler or a lost connection ends the transaction; so does the
\* database when two transactions wait for each other.
AbortSegment(c) ==
    /\ InTx(c)
    /\ Rollback(c)
    /\ UNCHANGED <<segment, observation, receipt, sends>>
----------------------------------------------------------------------------
MerlinInit ==
    /\ segment = <<>>
    /\ observation = <<>>
    /\ batch = [c \in Bridge |-> NoBatch]
    /\ receipt = <<>>
    /\ sends = 0

MerlinNext ==
    \E c \in Bridge :
        \/ \E req \in Batch : Send(c, req)
        \/ SelectSegment(c) \/ InsertSegment(c) \/ InsertEvent(c)
        \/ CountEvents(c) \/ CommitSegment(c) \/ AbortSegment(c)
MerlinSpec == MerlinInit /\ [][MerlinNext]_MerlinVars
----------------------------------------------------------------------------
\* What the bridge and the analyst are told is what is stored, whichever
\* batches of a segment overlap, repeat events of other segments, fail or are
\* sent again.  The event_count of a segment is the number of its stored
\* observations; behind a receipt every event of the batch is stored and the
\* segment has the digest of the batch; and an event is accepted by one
\* receipt only.
SegmentsHonest ==
    /\ \A s \in DOMAIN segment :
         segment[s].event_count = Cardinality({e \in DOMAIN observation : observation[e] = s})
    /\ \A r \in ToSet(receipt) :
         /\ ToSet(r.req.events) \subseteq DOMAIN observation
         /\ segment[r.req.segment].sha256 = to_ascii_lowercase(r.req.sha256)
    /\ \A i, j \in DOMAIN receipt : i # j => receipt[i].accepted \cap receipt[j].accepted = {}
=============================================================================
