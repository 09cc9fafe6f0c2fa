---------------------------- MODULE AlertProofs ----------------------------
(***************************************************************************)
(* Proofs for the modules that write what an analyst is told: Merlin, for   *)
(* any bridges and batches, and Alerts, for any numbers of opinions,        *)
(* triggers and servers.                                                    *)
(***************************************************************************)
EXTENDS Merlin, Alerts, SequenceTheorems, FiniteSetTheorems, WellFoundedInduction, TLAPS

(***************************************************************************)
(* Merlin                                                                  *)
(***************************************************************************)
Event == UNION {ToSet(b.events) : b \in Batch}
Tx == [pc : {"select", "new", "events", "commit"}, req : Batch, next : Nat \ {0},
       own : SUBSET Event, count : {0} \cup {Cardinality(S) : S \in SUBSET Event}]
MerlinTypeOK ==
    /\ batch \in [Bridge -> {NoBatch} \cup Tx]
    /\ receipt \in Seq([req : Batch, accepted : SUBSET Event])
    /\ DOMAIN observation \subseteq Event

Stored(s) == {e \in DOMAIN observation : observation[e] = s}
Holding == {"events", "commit"}

\* What a transaction has read and written stays true while it holds its
\* segment: no other transaction holds it, the row has its digest, the events
\* before the next are stored or its own, and its own are nobody else's.
TxOK(c, v) ==
    /\ v.pc \in {"select", "new"} => v.own = {} /\ v.next = 1
    /\ v.pc \in Holding =>
         /\ v.req.segment \in DOMAIN segment =>
              segment[v.req.segment].sha256 = to_ascii_lowercase(v.req.sha256)
         /\ \A i \in DOMAIN v.req.events : i < v.next => v.req.events[i] \in DOMAIN observation \cup v.own
         /\ v.own \cap DOMAIN observation = {}
         /\ \A d \in Bridge \ {c} : batch[d].pc \in Holding =>
              batch[d].req.segment # v.req.segment /\ v.own \cap batch[d].own = {}
    /\ v.pc = "commit" =>
         /\ v.next > Len(v.req.events)
         /\ v.count = Cardinality(Stored(v.req.segment) \cup v.own)

ReceiptInv ==
    \A i \in DOMAIN receipt :
      /\ ToSet(receipt[i].req.events) \subseteq DOMAIN observation
      /\ receipt[i].accepted \subseteq DOMAIN observation
      /\ receipt[i].req.segment \in DOMAIN segment
      /\ segment[receipt[i].req.segment].sha256 = to_ascii_lowercase(receipt[i].req.sha256)
      /\ \A j \in DOMAIN receipt : i # j => receipt[i].accepted \cap receipt[j].accepted = {}

CountInv == \A s \in DOMAIN segment : segment[s].event_count = Cardinality(Stored(s))

MerlinInv == MerlinTypeOK /\ (\A c \in Bridge : TxOK(c, batch[c])) /\ ReceiptInv /\ CountInv

\* A step that changes one transaction and no row.
LEMMA OneTx ==
    ASSUME MerlinInv, NEW c \in Bridge, NEW v \in {NoBatch} \cup Tx,
           batch' = [batch EXCEPT ![c] = v], TxOK(c, v),
           UNCHANGED <<segment, observation, receipt>>
    PROVE  MerlinInv'
<1>1. batch'[c] = v /\ \A d \in Bridge \ {c} : batch'[d] = batch[d]
  BY DEF MerlinInv, MerlinTypeOK
<1>2. MerlinTypeOK'
  BY DEF MerlinInv, MerlinTypeOK
<1>3. ReceiptInv' /\ CountInv'
  BY DEF MerlinInv, ReceiptInv, CountInv, Stored
<1>4. TxOK(c, batch[c])'
  BY <1>1 DEF TxOK, Stored
<1>5. ASSUME NEW d \in Bridge, d # c PROVE TxOK(d, batch[d])'
  <2>1. TxOK(d, batch[d]) /\ batch'[d] = batch[d]
    BY <1>1, <1>5 DEF MerlinInv
  <2>2. ASSUME batch[d].pc \in Holding, v.pc \in Holding
        PROVE  v.req.segment # batch[d].req.segment /\ batch[d].own \cap v.own = {}
    BY <1>5, <2>2 DEF TxOK
  <2>3. ASSUME batch[d].pc \in Holding, NEW e \in Bridge \ {d}, batch'[e].pc \in Holding
        PROVE  batch'[e].req.segment # batch[d].req.segment /\ batch[d].own \cap batch'[e].own = {}
    BY <1>1, <2>1, <2>2, <2>3 DEF TxOK
  <2> QED
    BY <2>1, <2>3 DEF TxOK, Stored
<1> QED
  BY <1>2, <1>3, <1>4, <1>5 DEF MerlinInv

LEMMA RolledBack ==
    ASSUME MerlinInv, NEW c \in Bridge, Rollback(c), UNCHANGED <<segment, observation, receipt>>
    PROVE  MerlinInv'
  BY OneTx DEF Rollback, TxOK, NoBatch, Holding

\* An open transaction.
LEMMA OpenTx ==
    ASSUME MerlinInv, NEW c \in Bridge, batch[c].pc \in {"select", "new", "events", "commit"}
    PROVE  /\ batch[c] \in Tx /\ TxOK(c, batch[c])
           /\ \A d \in Bridge : HoldsSegment(d, batch[c].req.segment) <=>
                batch[d].pc \in Holding /\ batch[d].req.segment = batch[c].req.segment
  BY DEF MerlinInv, MerlinTypeOK, NoBatch, Tx, HoldsSegment, Holding

\* A transaction that gets the row of its segment has nothing of its own yet.
LEMMA TakeSegment ==
    ASSUME MerlinInv, NEW c \in Bridge, batch[c].pc \in {"select", "new"},
           batch' = [batch EXCEPT ![c].pc = "events"], UNCHANGED <<segment, observation, receipt>>,
           batch[c].req.segment \in DOMAIN segment =>
             segment[batch[c].req.segment].sha256 = to_ascii_lowercase(batch[c].req.sha256),
           \A d \in Bridge \ {c} : ~(batch[d].pc \in Holding /\ batch[d].req.segment = batch[c].req.segment)
    PROVE  MerlinInv'
<1> DEFINE v == [batch[c] EXCEPT !.pc = "events"]
<1>1. batch[c] \in Tx /\ TxOK(c, batch[c])
  BY OpenTx
<1>2. v \in Tx /\ v.pc = "events" /\ v.own = {} /\ v.req = batch[c].req /\ v.next = 1 /\ v.req \in Batch
  BY <1>1 DEF Tx, TxOK
<1>3. batch' = [batch EXCEPT ![c] = v]
  OBVIOUS
<1> HIDE DEF v
<1>4. \A i \in DOMAIN v.req.events : ~(i < v.next)
  BY <1>2, MerlinAssumption
<1>5. TxOK(c, v)
  BY <1>2, <1>4 DEF TxOK, Holding
<1> QED
  BY <1>2, <1>3, <1>5, OneTx

\* The commit adds the transaction's own events to its segment and to no other.
LEMMA Committed ==
    ASSUME MerlinInv, NEW c \in Bridge, CommitSegment(c)
    PROVE  MerlinInv'
<1>s. PICK s, own : s = batch[c].req.segment /\ own = batch[c].own
  OBVIOUS
<1>0. /\ batch[c].pc = "commit" /\ batch[c] \in Tx /\ TxOK(c, batch[c])
      /\ batch[c].req \in Batch /\ own \in SUBSET Event
  BY <1>s, OpenTx DEF CommitSegment, Tx
<1>1. /\ DOMAIN segment' = DOMAIN segment \cup {s}
      /\ segment'[s].event_count = batch[c].count
      /\ segment'[s].sha256 = to_ascii_lowercase(batch[c].req.sha256)
      /\ \A t \in DOMAIN segment : t # s => segment'[t] = segment[t]
  BY <1>s DEF CommitSegment
<1>2. /\ DOMAIN observation' = DOMAIN observation \cup own
      /\ \A e \in own : observation'[e] = s
      /\ \A e \in DOMAIN observation : observation'[e] = observation[e]
  BY <1>s, <1>0 DEF CommitSegment, TxOK, Holding
<1>3. /\ batch'[c] = NoBatch /\ \A d \in Bridge \ {c} : batch'[d] = batch[d]
      /\ batch' \in [Bridge -> {NoBatch} \cup Tx]
  BY DEF CommitSegment, MerlinInv, MerlinTypeOK
<1>4. Stored(s)' = Stored(s) \cup own /\ \A t : t # s => Stored(t)' = Stored(t)
  <2>1. own \cap DOMAIN observation = {}
    BY <1>s, <1>0 DEF TxOK, Holding
  <2> QED
    BY <1>2, <2>1 DEF Stored
<1>5. CountInv'
  BY <1>s, <1>0, <1>1, <1>4 DEF CountInv, MerlinInv, TxOK
<1>6. s \in DOMAIN segment => segment[s].sha256 = to_ascii_lowercase(batch[c].req.sha256)
  BY <1>s, <1>0 DEF TxOK, Holding
<1>7. \A t \in DOMAIN segment : segment'[t].sha256 = segment[t].sha256
  BY <1>1, <1>6
<1>8. ASSUME NEW d \in Bridge PROVE TxOK(d, batch[d])'
  <2>1. CASE d = c
    BY <1>3, <2>1 DEF TxOK, NoBatch, Holding
  <2>2. CASE d # c /\ batch[d].pc \in Holding
    <3>1. TxOK(d, batch[d]) /\ batch'[d] = batch[d]
      BY <1>3, <2>2 DEF MerlinInv
    <3>2. batch[d].req.segment # s /\ batch[d].own \cap own = {}
      BY <1>s, <1>0, <2>2, <3>1 DEF TxOK, Holding
    <3>3. batch[d].own \cap DOMAIN observation' = {}
      BY <1>2, <2>2, <3>1, <3>2 DEF TxOK
    <3>4. \A i \in DOMAIN batch[d].req.events : i < batch[d].next =>
            batch[d].req.events[i] \in DOMAIN observation' \cup batch[d].own
      BY <1>2, <2>2, <3>1 DEF TxOK
    <3>5. \A e \in Bridge \ {d} : batch'[e].pc \in Holding =>
            batch'[e].req.segment # batch[d].req.segment /\ batch[d].own \cap batch'[e].own = {}
      BY <1>3, <2>2, <3>1 DEF TxOK, NoBatch, Holding
    <3>6. batch[d].req.segment \in DOMAIN segment' =>
            segment'[batch[d].req.segment].sha256 = to_ascii_lowercase(batch[d].req.sha256)
      BY <1>1, <2>2, <3>1, <3>2 DEF TxOK
    <3>7. Stored(batch[d].req.segment)' = Stored(batch[d].req.segment)
      BY <1>2, <1>4, <3>1, <3>2 DEF Stored
    <3> QED
      BY <2>2, <3>1, <3>3, <3>4, <3>5, <3>6, <3>7 DEF TxOK, Holding
  <2>3. CASE d # c /\ batch[d].pc \notin Holding
    BY <1>3, <2>3 DEF MerlinInv, TxOK, Holding
  <2> QED
    BY <2>1, <2>2, <2>3
<1>9. ToSet(batch[c].req.events) \subseteq DOMAIN observation'
  <2>1. \A i \in DOMAIN batch[c].req.events : i < batch[c].next
    BY <1>0, MerlinAssumption DEF TxOK, Tx
  <2> QED
    BY <1>s, <1>0, <1>2, <2>1 DEF TxOK, Holding, ToSet
<1>10. receipt \in Seq([req : Batch, accepted : SUBSET Event]) /\ ReceiptInv
  BY DEF MerlinInv, MerlinTypeOK
<1>11. MerlinTypeOK' /\ ReceiptInv'
  <2>0. DOMAIN observation' \subseteq Event
    BY <1>0, <1>2 DEF MerlinInv, MerlinTypeOK
  <2>1. CASE UNCHANGED receipt
    <3>1. ReceiptInv'
      BY <1>1, <1>2, <1>7, <1>10, <2>1 DEF ReceiptInv
    <3> QED
      BY <1>3, <1>10, <2>0, <2>1, <3>1 DEF MerlinTypeOK
  <2>2. CASE receipt' = Append(receipt, [req |-> batch[c].req, accepted |-> own])
    <3> DEFINE r == [req |-> batch[c].req, accepted |-> own]
               n == Len(receipt) + 1
    <3>1. r \in [req : Batch, accepted : SUBSET Event]
      BY <1>0
    <3>2. /\ receipt' \in Seq([req : Batch, accepted : SUBSET Event])
          /\ DOMAIN receipt' = DOMAIN receipt \cup {n} /\ n \notin DOMAIN receipt
          /\ receipt'[n] = r /\ \A i \in DOMAIN receipt : receipt'[i] = receipt[i]
      BY <1>10, <2>2, <3>1, AppendProperties, LenProperties
    <3>3. r.req = batch[c].req /\ r.accepted = own
      OBVIOUS
    <3>4. own \cap DOMAIN observation = {} /\ own \subseteq DOMAIN observation'
      BY <1>s, <1>0, <1>2 DEF TxOK, Holding
    <3> HIDE DEF r, n
    <3>5. \A i \in DOMAIN receipt : own \cap receipt'[i].accepted = {}
      BY <1>10, <3>2, <3>4 DEF ReceiptInv
    <3>6. ASSUME NEW i \in DOMAIN receipt
          PROVE  /\ ToSet(receipt'[i].req.events) \subseteq DOMAIN observation'
                 /\ receipt'[i].accepted \subseteq DOMAIN observation'
                 /\ receipt'[i].req.segment \in DOMAIN segment'
                 /\ segment'[receipt'[i].req.segment].sha256 = to_ascii_lowercase(receipt'[i].req.sha256)
                 /\ \A j \in DOMAIN receipt' : i # j => receipt'[i].accepted \cap receipt'[j].accepted = {}
      BY <1>1, <1>2, <1>7, <1>10, <3>2, <3>3, <3>5, <3>6 DEF ReceiptInv
    <3>7. /\ ToSet(receipt'[n].req.events) \subseteq DOMAIN observation'
          /\ receipt'[n].accepted \subseteq DOMAIN observation'
          /\ receipt'[n].req.segment \in DOMAIN segment'
          /\ segment'[receipt'[n].req.segment].sha256 = to_ascii_lowercase(receipt'[n].req.sha256)
          /\ \A j \in DOMAIN receipt' : n # j => receipt'[n].accepted \cap receipt'[j].accepted = {}
      BY <1>s, <1>1, <1>9, <3>2, <3>3, <3>4, <3>5
    <3>8. ReceiptInv'
      BY <3>2, <3>6, <3>7 DEF ReceiptInv
    <3> QED
      BY <1>3, <2>0, <3>2, <3>8 DEF MerlinTypeOK
  <2> QED
    BY <1>s, <2>1, <2>2 DEF CommitSegment, Accepted
<1> QED
  BY <1>5, <1>8, <1>11 DEF MerlinInv

LEMMA MerlinStep ==
    ASSUME MerlinInv, [MerlinNext]_MerlinVars
    PROVE  MerlinInv'
<1>1. ASSUME NEW c \in Bridge, NEW req \in Batch, Send(c, req) PROVE MerlinInv'
  <2>1. PICK v \in {NoBatch, [pc |-> "select", req |-> req, next |-> 1, own |-> {}, count |-> 0]} :
               batch' = [batch EXCEPT ![c] = v]
    BY <1>1 DEF Send
  <2>2. v \in {NoBatch} \cup Tx /\ TxOK(c, v)
    BY DEF Tx, TxOK, NoBatch, Holding
  <2> QED
    BY <1>1, <2>1, <2>2, OneTx DEF Send
<1>2. ASSUME NEW c \in Bridge, SelectSegment(c) PROVE MerlinInv'
  <2> DEFINE s == batch[c].req.segment
  <2>0. batch[c].pc = "select" /\ batch[c] \in Tx /\ TxOK(c, batch[c])
    BY <1>2, OpenTx DEF SelectSegment
  <2>1. CASE s \notin DOMAIN segment
    <3> DEFINE v == [batch[c] EXCEPT !.pc = "new"]
    <3>1. v \in Tx /\ v.pc = "new" /\ v.own = batch[c].own /\ v.next = batch[c].next
      BY <2>0 DEF Tx
    <3>2. TxOK(c, v)
      BY <2>0, <3>1 DEF TxOK, Holding
    <3>3. batch' = [batch EXCEPT ![c] = v]
      BY <1>2, <2>1 DEF SelectSegment
    <3> QED
      BY <1>2, <3>1, <3>2, <3>3, OneTx DEF SelectSegment
  <2>2. CASE s \in DOMAIN segment /\ segment[s].sha256 = to_ascii_lowercase(batch[c].req.sha256)
    <3>1. batch' = [batch EXCEPT ![c].pc = "events"]
      BY <1>2, <2>2 DEF SelectSegment
    <3>2. \A d \in Bridge \ {c} : ~(batch[d].pc \in Holding /\ batch[d].req.segment = s)
      BY <1>2, <2>0, <2>2, OpenTx DEF SelectSegment, WaitsFor, SelectWaits
    <3> QED
      BY <1>2, <2>0, <2>2, <3>1, <3>2, TakeSegment DEF SelectSegment
  <2>3. CASE ~(s \notin DOMAIN segment) /\ ~(s \in DOMAIN segment /\ segment[s].sha256 = to_ascii_lowercase(batch[c].req.sha256))
    BY <1>2, <2>3, RolledBack DEF SelectSegment
  <2> QED
    BY <2>1, <2>2, <2>3
<1>3. ASSUME NEW c \in Bridge, InsertSegment(c) PROVE MerlinInv'
  <2> DEFINE s == batch[c].req.segment
  <2>0. batch[c].pc = "new" /\ batch[c] \in Tx /\ TxOK(c, batch[c])
    BY <1>3, OpenTx DEF InsertSegment
  <2>1. CASE s \in DOMAIN segment
    BY <1>3, <2>1, RolledBack DEF InsertSegment
  <2>2. CASE s \notin DOMAIN segment
    <3>1. batch' = [batch EXCEPT ![c].pc = "events"]
      BY <1>3, <2>2 DEF InsertSegment
    <3>2. \A d \in Bridge \ {c} : ~(batch[d].pc \in Holding /\ batch[d].req.segment = s)
      BY <1>3, <2>0, <2>2, OpenTx DEF InsertSegment, WaitsFor
    <3> QED
      BY <1>3, <2>0, <2>2, <3>1, <3>2, TakeSegment DEF InsertSegment
  <2> QED
    BY <2>1, <2>2
<1>4. ASSUME NEW c \in Bridge, InsertEvent(c) PROVE MerlinInv'
  <2> DEFINE e == NextEvent(c)
  <2>0. /\ batch[c].pc = "events" /\ batch[c] \in Tx /\ TxOK(c, batch[c])
        /\ batch[c].next <= Len(batch[c].req.events) /\ batch[c].req \in Batch
        /\ batch[c].next \in Nat \ {0} /\ batch[c].own \in SUBSET Event
    BY <1>4, OpenTx DEF InsertEvent, Tx
  <2>1. batch[c].next \in DOMAIN batch[c].req.events /\ DOMAIN batch[c].req.events \subseteq Nat
    BY <2>0, MerlinAssumption
  <2>2. e \in Event
    BY <2>0, <2>1 DEF Event, ToSet, NextEvent
  <2>3. CASE e = NoEventId
    BY <1>4, <2>3, RolledBack DEF InsertEvent
  <2>4. ASSUME NEW o \in SUBSET Event, o = batch[c].own \/ o = batch[c].own \cup {e},
               e \in DOMAIN observation \cup o, o # batch[c].own => e \notin DOMAIN observation,
               \A d \in Bridge \ {c} : batch[d].pc \in Holding => batch[d].own \cap o = {},
               batch' = [batch EXCEPT ![c] = [batch[c] EXCEPT !.next = @ + 1, !.own = o]]
        PROVE  MerlinInv'
    <3> DEFINE v == [batch[c] EXCEPT !.next = @ + 1, !.own = o]
    <3>0. batch[c].next + 1 \in Nat \ {0}
      BY <2>0
    <3>1. /\ v \in Tx /\ v.pc = "events" /\ v.req = batch[c].req /\ v.own = o
          /\ v.next = batch[c].next + 1
      BY <2>0, <3>0 DEF Tx
    <3>2. \A i \in DOMAIN v.req.events : i < v.next => v.req.events[i] \in DOMAIN observation \cup o
      BY <2>0, <2>1, <2>4, <3>1 DEF TxOK, NextEvent, Holding
    <3>3. o \cap DOMAIN observation = {}
      BY <2>0, <2>4 DEF TxOK, Holding
    <3>4. TxOK(c, v)
      BY <2>0, <2>4, <3>1, <3>2, <3>3 DEF TxOK, Holding
    <3> HIDE DEF v
    <3>5. batch' = [batch EXCEPT ![c] = v]
      BY <2>4 DEF v
    <3> QED
      BY <1>4, <3>1, <3>4, <3>5, OneTx DEF InsertEvent
  <2>5. CASE e # NoEventId /\ e \in DOMAIN observation \cup batch[c].own
    <3>1. batch' = [batch EXCEPT ![c].next = @ + 1]
      BY <1>4, <2>5 DEF InsertEvent
    <3>2. [batch[c] EXCEPT !.next = @ + 1] = [batch[c] EXCEPT !.next = @ + 1, !.own = batch[c].own]
      BY <2>0 DEF Tx
    <3>3. batch' = [batch EXCEPT ![c] = [batch[c] EXCEPT !.next = @ + 1, !.own = batch[c].own]]
      BY <3>1, <3>2
    <3> QED
      BY <2>0, <2>4, <2>5, <3>3 DEF TxOK, Holding
  <2>6. CASE e # NoEventId /\ e \notin DOMAIN observation \cup batch[c].own
    <3>1. batch' = [batch EXCEPT ![c].next = @ + 1, ![c].own = @ \cup {e}]
      BY <1>4, <2>6 DEF InsertEvent
    <3>2. batch' = [batch EXCEPT ![c] = [batch[c] EXCEPT !.next = @ + 1, !.own = batch[c].own \cup {e}]]
      BY <3>1 DEF MerlinInv, MerlinTypeOK
    <3>3. \A d \in Bridge \ {c} : ~HoldsEvent(d, e)
      BY <1>4, <2>0 DEF InsertEvent, WaitsFor
    <3>4. \A d \in Bridge \ {c} : batch[d].pc \in Holding => batch[d].own \cap (batch[c].own \cup {e}) = {}
      BY <2>0, <3>3 DEF HoldsEvent, InTx, TxOK, Holding
    <3> QED
      BY <2>0, <2>2, <2>4, <2>6, <3>2, <3>4
  <2> QED
    BY <2>3, <2>5, <2>6
<1>5. ASSUME NEW c \in Bridge, CountEvents(c) PROVE MerlinInv'
  <2> DEFINE n == Cardinality(Stored(batch[c].req.segment) \cup batch[c].own)
             v == [batch[c] EXCEPT !.pc = "commit", !.count = n]
  <2>0. /\ batch[c].pc = "events" /\ batch[c] \in Tx /\ TxOK(c, batch[c])
        /\ batch[c].next > Len(batch[c].req.events) /\ batch[c].own \in SUBSET Event
    BY <1>5, OpenTx DEF CountEvents, Tx
  <2>1. Stored(batch[c].req.segment) \cup batch[c].own \in SUBSET Event
    BY <2>0 DEF MerlinInv, MerlinTypeOK, Stored
  <2>2. n \in {Cardinality(S) : S \in SUBSET Event}
    BY <2>1
  <2>3. batch' = [batch EXCEPT ![c].pc = "commit", ![c].count = n]
    BY <1>5 DEF CountEvents, Stored
  <2>4. batch' = [batch EXCEPT ![c] = v]
    BY <2>3 DEF MerlinInv, MerlinTypeOK
  <2> HIDE DEF n
  <2>5. /\ v \in Tx /\ v.pc = "commit" /\ v.req = batch[c].req /\ v.own = batch[c].own
        /\ v.next = batch[c].next /\ v.count = n
    BY <2>0, <2>2 DEF Tx
  <2> HIDE DEF v
  <2>6. TxOK(c, v)
    BY <2>0, <2>5 DEF TxOK, Holding, n
  <2> QED
    BY <1>5, <2>4, <2>5, <2>6, OneTx DEF CountEvents
<1>6. ASSUME NEW c \in Bridge, CommitSegment(c) PROVE MerlinInv'
  BY <1>6, Committed
<1>7. ASSUME NEW c \in Bridge, AbortSegment(c) PROVE MerlinInv'
  BY <1>7, RolledBack DEF AbortSegment
<1>8. CASE UNCHANGED MerlinVars
  <2>1. UNCHANGED <<segment, observation, batch, receipt>>
    BY <1>8 DEF MerlinVars
  <2>2. \A c \in Bridge : TxOK(c, batch[c])'
    BY <2>1 DEF MerlinInv, TxOK, Stored
  <2> QED
    BY <2>1, <2>2 DEF MerlinInv, MerlinTypeOK, ReceiptInv, CountInv, Stored
<1> QED
  BY <1>1, <1>2, <1>3, <1>4, <1>5, <1>6, <1>7, <1>8 DEF MerlinNext

\* What the bridge is told is what is stored: event counts, digests and
\* accepted events agree with the committed rows for any number of bridges
\* and batches that overlap, because ingest_segment holds the row of its
\* segment until it commits.
THEOREM MerlinSafe == MerlinSpec => []SegmentsHonest
<1>1. MerlinInit => MerlinInv
  BY DEF MerlinInit, MerlinInv, MerlinTypeOK, TxOK, ReceiptInv, CountInv, NoBatch, Holding
<1>2. MerlinInv /\ [MerlinNext]_MerlinVars => MerlinInv'
  BY MerlinStep
<1>3. MerlinInv => SegmentsHonest
  BY DEF MerlinInv, ReceiptInv, CountInv, Stored, SegmentsHonest, ToSet
<1> QED
  BY <1>1, <1>2, <1>3, PTL DEF MerlinSpec

(***************************************************************************)
(* Alerts                                                                  *)
(***************************************************************************)
\* A set of numbers that is not empty has a least one; bounded, a largest.
LEMMA LeastNumber ==
    ASSUME NEW S \in SUBSET Nat, S # {}
    PROVE  \E n \in S : \A m \in S : n <= m
<1>1. IsWellFoundedOn(OpToRel(<, Nat), Nat)
  BY NatLessThanWellFounded
<1>2. PICK n \in S : \A m \in S : ~(<<m, n>> \in OpToRel(<, Nat))
  BY <1>1, WFMin
<1>3. \A m \in S : ~(m < n)
  BY <1>2, Zenon DEF OpToRel
<1> QED
  BY <1>3

LEMMA LargestNumber ==
    ASSUME NEW S \in SUBSET Nat, S # {}, NEW bound \in Nat, \A n \in S : n <= bound
    PROVE  \E n \in S : \A m \in S : m <= n
<1> DEFINE T == {bound - n : n \in S}
<1>1. T \in SUBSET Nat
  OBVIOUS
<1>n. T # {}
  OBVIOUS
<1>2. PICK t \in T : \A u \in T : t <= u
  BY <1>1, <1>n, LeastNumber
<1>3. PICK n \in S : t = bound - n
  BY <1>2
<1>4. ASSUME NEW m \in S PROVE m <= n
  BY <1>2, <1>3
<1> QED
  BY <1>4

CallRec == [pc : {"idle", "select", "update", "insert", "commit", "fire", "queue", "answer", "done", "dropped"},
            kind : {"none", "trusted", "malicious"}, prev : Nat, created : Nat, todo : SUBSET Trigger,
            answer : Nat]
OpinionRow == [kind : {"none", "trusted", "malicious"}, created : Nat, superseded_by : Nat]
OutRow == [open : BOOLEAN, due : BOOLEAN, attempts : Nat]
Read == [row : DOMAIN outbox, attempts : Nat]
CallTypeOK ==
    /\ DOMAIN opinion \subseteq OpinionId
    /\ \A i \in DOMAIN opinion : opinion[i] \in OpinionRow
    /\ call \in [OpinionId -> CallRec]
    /\ clock \in Nat /\ skewed \in BOOLEAN /\ rule \subseteq Trigger
QueueTypeOK ==
    /\ \A r \in DOMAIN outbox : outbox[r] \in OutRow
    /\ order \in Seq(DOMAIN outbox)
    /\ sweep \in [Server -> [batch : Seq(Read), post : {"none", "success", "failure"}]]
AlertsTypeOK == CallTypeOK /\ QueueTypeOK

\* While no clock was behind, a row is superseded by a younger one, and the
\* call that will mark a row takes its own created_at after it has read that
\* row; the row of a call has the time of the call.
RowOK(i) ==
    /\ opinion[i].created <= clock
    /\ opinion[i].superseded_by # 0 =>
         /\ opinion[i].superseded_by \in DOMAIN opinion
         /\ ~skewed => opinion[i].created < opinion[opinion[i].superseded_by].created
CallOK(i) ==
    /\ call[i].pc \in {"idle", "select", "update", "insert", "commit"} => i \notin DOMAIN opinion
    /\ call[i].pc \in {"fire", "queue", "answer", "done"} => i \in DOMAIN opinion
    /\ i \in DOMAIN opinion => opinion[i].created = call[i].created
    /\ call[i].pc \in {"update", "insert", "commit"} /\ call[i].prev # 0 => call[i].prev \in DOMAIN opinion
    /\ call[i].pc = "commit" =>
         /\ call[i].created <= clock
         /\ ~skewed /\ call[i].prev # 0 => opinion[call[i].prev].created < call[i].created
    /\ call[i].answer # 0 =>
         /\ call[i].pc = "done"
         /\ call[i].answer \in DOMAIN opinion
         /\ ~skewed => call[i].created <= opinion[call[i].answer].created
OpinionInv ==
    /\ \A i \in DOMAIN opinion : RowOK(i)
    /\ \A i \in OpinionId : CallOK(i)
    /\ DOMAIN opinion # {} => \E i \in DOMAIN opinion : opinion[i].superseded_by = 0

\* A sweep has read at most the attempts there are now, and a post that
\* succeeded was received; a trigger still to be queued has no row.
SweepInv ==
    /\ \A s \in Server :
         /\ \A k \in DOMAIN sweep[s].batch :
              sweep[s].batch[k].attempts <= outbox[sweep[s].batch[k].row].attempts
         /\ sweep[s].post # "none" => sweep[s].batch # <<>>
         /\ sweep[s].post = "success" => Head(sweep[s].batch).row \in got
    /\ \A i \in OpinionId : \A g \in Trigger : <<i, g>> \in DOMAIN outbox =>
         /\ call[i].pc \in {"queue", "answer", "done", "dropped"}
         /\ call[i].pc = "queue" => g \notin call[i].todo
    /\ GivenUpHonestly

AlertsInv == AlertsTypeOK /\ OpinionInv /\ SweepInv

\* Some row is not superseded, and the CHOOSE of CurrentOpinion picks one;
\* while no clock was behind, the newest of all opinions is such a row.
LEMMA CurrentIsNewest ==
    ASSUME CallTypeOK, OpinionInv, DOMAIN opinion # {}
    PROVE  /\ CurrentOpinion \in DOMAIN opinion
           /\ ~skewed => \A i \in DOMAIN opinion : opinion[i].created <= opinion[CurrentOpinion].created
<1> DEFINE current == {i \in DOMAIN opinion : opinion[i].superseded_by = 0}
<1>1. \A i \in DOMAIN opinion : opinion[i].created \in Nat /\ opinion[i].created <= clock
  BY DEF CallTypeOK, OpinionInv, OpinionRow, RowOK
<1>2. ASSUME NEW D \in SUBSET DOMAIN opinion, D # {}
      PROVE  \E top \in D : \A i \in D : opinion[i].created <= opinion[top].created
  <2> DEFINE S == {opinion[i].created : i \in D}
  <2>1. S \in SUBSET Nat /\ S # {} /\ clock \in Nat /\ \A n \in S : n <= clock
    BY <1>1, <1>2 DEF CallTypeOK
  <2>2. PICK n \in S : \A m \in S : m <= n
    BY <2>1, LargestNumber
  <2>3. PICK top \in D : opinion[top].created = n
    BY <2>2
  <2> QED
    BY <2>2, <2>3
<1>3. current \in SUBSET DOMAIN opinion /\ current # {}
  BY DEF OpinionInv
<1>4. \E i \in current : \A j \in current : opinion[j].created <= opinion[i].created
  BY <1>2, <1>3
<1>5. CurrentOpinion = CHOOSE i \in current : \A j \in current : opinion[j].created <= opinion[i].created
  BY <1>3 DEF CurrentOpinion
<1>6. CurrentOpinion \in current /\ \A j \in current : opinion[j].created <= opinion[CurrentOpinion].created
  BY <1>4, <1>5
<1>7. PICK top \in DOMAIN opinion : \A i \in DOMAIN opinion : opinion[i].created <= opinion[top].created
  BY <1>2
<1>8. ASSUME ~skewed PROVE top \in current
  <2>1. RowOK(top)
    BY DEF OpinionInv
  <2>2. \A u \in DOMAIN opinion : ~(opinion[top].created < opinion[u].created)
    BY <1>1, <1>7
  <2> QED
    BY <1>8, <2>1, <2>2 DEF RowOK
<1>9. ASSUME ~skewed, NEW i \in DOMAIN opinion PROVE opinion[i].created <= opinion[CurrentOpinion].created
  <2>1. CurrentOpinion \in DOMAIN opinion /\ opinion[top].created <= opinion[CurrentOpinion].created
    BY <1>6, <1>8, <1>9
  <2> QED
    BY <2>1, <1>1, <1>7
<1> QED
  BY <1>6, <1>9

\* One call of set_opinion takes on the value v.
LEMMA CallSet ==
    ASSUME NEW i \in OpinionId, NEW v \in CallRec, call \in [OpinionId -> CallRec],
           call' = [call EXCEPT ![i] = v]
    PROVE  /\ call' \in [OpinionId -> CallRec]
           /\ call'[i] = v
           /\ \A j \in OpinionId \ {i} : call'[j] = call[j]
  OBVIOUS

\* A call moves on without touching the committed rows.
LEMMA CallMoves ==
    ASSUME CallTypeOK, OpinionInv,
           NEW i \in OpinionId, NEW v \in CallRec, call' = [call EXCEPT ![i] = v],
           opinion' = opinion, clock' \in Nat, clock <= clock', rule' \subseteq Trigger,
           skewed' \in BOOLEAN, skewed => skewed', CallOK(i)'
    PROVE  CallTypeOK' /\ OpinionInv'
<1>1. /\ call' \in [OpinionId -> CallRec]
      /\ call'[i] = v
      /\ \A j \in OpinionId \ {i} : call'[j] = call[j]
  BY CallSet DEF CallTypeOK
<1>2. CallTypeOK'
  BY <1>1 DEF CallTypeOK
<1>3. \A j \in OpinionId : call[j].created \in Nat
  BY DEF CallTypeOK, CallRec
<1>4. \A j \in DOMAIN opinion : opinion[j].created \in Nat
  BY DEF CallTypeOK, OpinionRow
<1>5. clock \in Nat
  BY DEF CallTypeOK
<1>6. ASSUME NEW j \in DOMAIN opinion PROVE RowOK(j)'
  <2>1. RowOK(j)
    BY DEF OpinionInv
  <2> QED
    BY <2>1, <1>4, <1>5 DEF RowOK
<1>7. ASSUME NEW j \in OpinionId, j # i PROVE CallOK(j)'
  <2>1. CallOK(j) /\ call'[j] = call[j]
    BY <1>1, <1>7 DEF OpinionInv
  <2> QED
    BY <2>1, <1>3, <1>5 DEF CallOK
<1> QED
  BY <1>2, <1>6, <1>7 DEF OpinionInv

\* Every step keeps the opinions in order.
LEMMA OpinionStep ==
    ASSUME CallTypeOK, OpinionInv, [AlertsNext]_AlertsVars
    PROVE  CallTypeOK' /\ OpinionInv'
<1> USE DEF CallTypeOK
<1>c. \A j \in OpinionId : call[j] \in CallRec /\ CallOK(j)
  BY DEF OpinionInv
<1>n. clock <= clock /\ clock \in Nat /\ skewed \in BOOLEAN
  OBVIOUS
<1>o. \A j \in DOMAIN opinion : opinion[j].created \in Nat /\ opinion[j].superseded_by \in Nat
  BY DEF OpinionRow
<1>q. \A j \in DOMAIN opinion : opinion[j].created <= clock
  BY DEF OpinionInv, RowOK
<1>k. CurrentOpinion \in DOMAIN opinion \cup {0} /\ CurrentOpinion \in Nat
  <2>1. CASE DOMAIN opinion = {}
    BY <2>1 DEF CurrentOpinion
  <2>2. CASE DOMAIN opinion # {}
    BY <2>2, CurrentIsNewest DEF OpinionId
  <2> QED
    BY <2>1, <2>2
<1> USE <1>c
<1>1. ASSUME NEW i \in OpinionId, NEW kind \in {"trusted", "malicious"}, Begin(i, kind)
      PROVE  CallTypeOK' /\ OpinionInv'
  <2> DEFINE v == [call[i] EXCEPT !.pc = "select", !.kind = kind]
  <2>1. v \in CallRec /\ v.pc = "select" /\ v.created = call[i].created /\ v.answer = call[i].answer
    BY <1>k, <1>n DEF CallRec
  <2>2. call' = [call EXCEPT ![i] = v]
    BY <1>1 DEF Begin, CallRec
  <2>3. opinion' = opinion /\ clock' = clock /\ skewed' = skewed /\ rule' = rule
    BY <1>1 DEF Begin
  <2>4. call'[i] = v
    BY <2>2
  <2> HIDE DEF v
  <2>5. CallOK(i)'
    BY <1>1, <2>1, <2>3, <2>4 DEF Begin, CallOK
  <2> QED
    BY <2>1, <2>2, <2>3, <2>5, <1>n, CallMoves
<1>2. ASSUME NEW i \in OpinionId, DropCall(i)
      PROVE  CallTypeOK' /\ OpinionInv'
  <2> DEFINE v == [call[i] EXCEPT !.pc = "dropped"]
  <2>1. v \in CallRec /\ v.pc = "dropped" /\ v.created = call[i].created /\ v.answer = call[i].answer
    BY <1>k, <1>n DEF CallRec
  <2>2. call' = [call EXCEPT ![i] = v]
    BY <1>2 DEF DropCall, CallRec
  <2>3. opinion' = opinion /\ clock' = clock /\ skewed' = skewed /\ rule' = rule
    BY <1>2 DEF DropCall
  <2>4. call'[i] = v
    BY <2>2
  <2> HIDE DEF v
  <2>5. CallOK(i)'
    BY <1>2, <2>1, <2>3, <2>4 DEF DropCall, CallOK
  <2> QED
    BY <2>1, <2>2, <2>3, <2>5, <1>n, CallMoves
<1>3. ASSUME NEW i \in OpinionId, SelectPrevious(i)
      PROVE  CallTypeOK' /\ OpinionInv'
  <2> DEFINE p == IF CurrentOpinion = 0 THEN "insert" ELSE "update"
             v == [call[i] EXCEPT !.pc = p, !.prev = CurrentOpinion]
  <2>1. v \in CallRec /\ v.pc \in {"insert", "update"} /\ v.prev = CurrentOpinion /\ v.created = call[i].created /\ v.answer = call[i].answer
    BY <1>k, <1>n DEF CallRec
  <2>2. call' = [call EXCEPT ![i] = v]
    BY <1>3 DEF SelectPrevious, CallRec
  <2>3. opinion' = opinion /\ clock' = clock /\ skewed' = skewed /\ rule' = rule
    BY <1>3 DEF SelectPrevious
  <2>4. call'[i] = v
    BY <2>2
  <2> HIDE DEF v
  <2>5. CallOK(i)'
    BY <1>3, <2>1, <2>3, <2>4, <1>k DEF SelectPrevious, CallOK
  <2> QED
    BY <2>1, <2>2, <2>3, <2>5, <1>n, CallMoves
<1>4. ASSUME NEW i \in OpinionId, UpdatePrevious(i)
      PROVE  CallTypeOK' /\ OpinionInv'
  <2> DEFINE v == [call[i] EXCEPT !.pc = "insert"]
  <2>1. v \in CallRec /\ v.pc = "insert" /\ v.prev = call[i].prev /\ v.created = call[i].created /\ v.answer = call[i].answer
    BY <1>k, <1>n DEF CallRec
  <2>2. call' = [call EXCEPT ![i] = v]
    BY <1>4 DEF UpdatePrevious, CallRec
  <2>3. opinion' = opinion /\ clock' = clock /\ skewed' = skewed /\ rule' = rule
    BY <1>4 DEF UpdatePrevious
  <2>4. call'[i] = v
    BY <2>2
  <2> HIDE DEF v
  <2>5. CallOK(i)'
    BY <1>4, <2>1, <2>3, <2>4 DEF UpdatePrevious, CallOK
  <2> QED
    BY <2>1, <2>2, <2>3, <2>5, <1>n, CallMoves
<1>5. ASSUME NEW i \in OpinionId, InsertOpinion(i)
      PROVE  CallTypeOK' /\ OpinionInv'
  <2> DEFINE v == [call[i] EXCEPT !.pc = "commit", !.created = clock']
  <2>0. clock' = clock + 1 /\ clock' \in Nat /\ clock <= clock'
    BY <1>5 DEF InsertOpinion
  <2>1. v \in CallRec /\ v.pc = "commit" /\ v.prev = call[i].prev /\ v.created = clock' /\ v.answer = call[i].answer
    BY <2>0 DEF CallRec
  <2>2. call' = [call EXCEPT ![i] = v]
    BY <1>5 DEF InsertOpinion, CallRec
  <2>3. opinion' = opinion /\ rule' = rule /\ skewed' = skewed
    BY <1>5 DEF InsertOpinion
  <2>4. call'[i] = v
    BY <2>2
  <2>5. /\ i \notin DOMAIN opinion /\ (call[i].prev # 0 => call[i].prev \in DOMAIN opinion)
        /\ call[i].answer = 0
    BY <1>5 DEF InsertOpinion, CallOK
  <2>6. call[i].prev # 0 => opinion[call[i].prev].created < clock'
    BY <2>0, <2>5, <1>o, <1>q
  <2> HIDE DEF v
  <2>7. CallOK(i)'
    BY <2>0, <2>1, <2>3, <2>4, <2>5, <2>6 DEF CallOK
  <2> QED
    BY <2>0, <2>1, <2>2, <2>3, <2>7, <1>n, CallMoves
<1>6. ASSUME NEW i \in OpinionId, FireSelect(i)
      PROVE  CallTypeOK' /\ OpinionInv'
  <2> DEFINE p == IF rule = {} THEN "answer" ELSE "queue"
             v == [call[i] EXCEPT !.pc = p, !.todo = rule]
  <2>1. v \in CallRec /\ v.pc \in {"answer", "queue"} /\ v.created = call[i].created /\ v.answer = call[i].answer
    BY <1>k, <1>n DEF CallRec
  <2>2. call' = [call EXCEPT ![i] = v]
    BY <1>6 DEF FireSelect, CallRec
  <2>3. opinion' = opinion /\ clock' = clock /\ skewed' = skewed /\ rule' = rule
    BY <1>6 DEF FireSelect
  <2>4. call'[i] = v
    BY <2>2
  <2> HIDE DEF v
  <2>5. CallOK(i)'
    BY <1>6, <2>1, <2>3, <2>4 DEF FireSelect, CallOK
  <2> QED
    BY <2>1, <2>2, <2>3, <2>5, <1>n, CallMoves
<1>7. ASSUME NEW i \in OpinionId, FireInsert(i)
      PROVE  CallTypeOK' /\ OpinionInv'
  <2>0. PICK g \in call[i].todo :
          call' = [call EXCEPT ![i].todo = @ \ {g}, ![i].pc = IF call[i].todo = {g} THEN "answer" ELSE @]
    BY <1>7 DEF FireInsert
  <2>4. call[i].pc = "queue"
    BY <1>7 DEF FireInsert
  <2> DEFINE p == IF call[i].todo = {g} THEN "answer" ELSE "queue"
             v == [call[i] EXCEPT !.todo = call[i].todo \ {g}, !.pc = p]
  <2>1. v \in CallRec /\ v.pc \in {"answer", "queue"} /\ v.created = call[i].created /\ v.answer = call[i].answer
    BY DEF CallRec
  <2>2. call' = [call EXCEPT ![i] = v]
    BY <2>0, <2>4 DEF CallRec
  <2>3. opinion' = opinion /\ clock' = clock /\ skewed' = skewed /\ rule' = rule
    BY <1>7 DEF FireInsert
  <2>5. call'[i] = v
    BY <2>2
  <2> HIDE DEF v
  <2>6. CallOK(i)'
    BY <2>1, <2>3, <2>4, <2>5 DEF CallOK
  <2> QED
    BY <2>1, <2>2, <2>3, <2>6, <1>n, CallMoves
<1>8. ASSUME NEW i \in OpinionId, CommitOpinion(i)
      PROVE  CallTypeOK' /\ OpinionInv'
  <2> DEFINE p == IF FiresTrigger(call[i].kind) THEN "fire" ELSE "answer"
             v == [call[i] EXCEPT !.pc = p]
  <2>1. v \in CallRec /\ v.pc \in {"fire", "answer"} /\ v.created = call[i].created /\ v.answer = call[i].answer
    BY DEF CallRec
  <2>2. call' = [call EXCEPT ![i] = v]
    BY <1>8 DEF CommitOpinion, CallRec
  <2>3. clock' = clock /\ rule' = rule /\ skewed' = skewed /\ call[i].pc = "commit"
    BY <1>8 DEF CommitOpinion
  <2>4. /\ call' \in [OpinionId -> CallRec]
        /\ call'[i].pc \in {"fire", "answer"} /\ call'[i].created = call[i].created /\ call'[i].answer = call[i].answer
        /\ \A j \in OpinionId \ {i} : call'[j] = call[j]
    <3> HIDE DEF v
    <3> QED
      BY <2>1, <2>2, CallSet
  <2>5. /\ i \notin DOMAIN opinion
        /\ call[i].created <= clock
        /\ call[i].prev # 0 => call[i].prev \in DOMAIN opinion
        /\ ~skewed /\ call[i].prev # 0 => opinion[call[i].prev].created < call[i].created
        /\ call[i].answer = 0
    BY <2>3 DEF CallOK
  <2>6. call[i].created \in Nat /\ call[i].kind \in {"none", "trusted", "malicious"} /\ i # 0 /\ i \in Nat
    BY DEF CallRec, OpinionId
  <2>7. /\ DOMAIN opinion' = DOMAIN opinion \cup {i}
        /\ opinion'[i] = [kind |-> call[i].kind, created |-> call[i].created, superseded_by |-> 0]
        /\ \A j \in DOMAIN opinion : opinion'[j] =
             IF j = call[i].prev THEN [opinion[j] EXCEPT !.superseded_by = i] ELSE opinion[j]
    BY <1>8, <2>5 DEF CommitOpinion
  <2>8. /\ opinion'[i] \in OpinionRow /\ opinion'[i].created = call[i].created /\ opinion'[i].superseded_by = 0
        /\ \A j \in DOMAIN opinion :
             /\ opinion'[j] \in OpinionRow
             /\ opinion'[j].created = opinion[j].created
             /\ opinion'[j].superseded_by = IF j = call[i].prev THEN i ELSE opinion[j].superseded_by
    BY <2>5, <2>6, <2>7 DEF OpinionRow
  <2>9. CallTypeOK'
    BY <2>3, <2>4, <2>7, <2>8
  <2>10. ASSUME NEW j \in DOMAIN opinion'
         PROVE  RowOK(j)'
    <3>1. CASE j = i
      BY <3>1, <2>3, <2>5, <2>8 DEF RowOK
    <3>2. CASE j # i /\ j = call[i].prev
      <4>1. j \in DOMAIN opinion /\ j # 0
        BY <3>2, <2>7, <2>5, <2>6 DEF OpinionId
      <4> QED
        BY <3>2, <4>1, <2>3, <2>5, <2>7, <2>8, <1>q DEF RowOK
    <3>3. CASE j # i /\ j # call[i].prev
      <4>1. j \in DOMAIN opinion
        BY <3>3, <2>7
      <4>2. opinion'[j].superseded_by = opinion[j].superseded_by /\ opinion'[j].created = opinion[j].created
        BY <3>3, <4>1, <2>8
      <4>3. RowOK(j)
        BY <4>1 DEF OpinionInv
      <4> QED
        BY <4>1, <4>2, <4>3, <2>3, <2>7, <2>8, <1>q DEF RowOK
    <3> QED
      BY <3>1, <3>2, <3>3
  <2>11. ASSUME NEW j \in OpinionId
         PROVE  CallOK(j)'
    <3>1. CASE j = i
      BY <3>1, <2>4, <2>5, <2>7, <2>8 DEF CallOK
    <3>2. CASE j # i
      <4>1. call'[j] = call[j] /\ CallOK(j)
        BY <3>2, <2>4
      <4> QED
        BY <3>2, <4>1, <2>3, <2>7, <2>8 DEF CallOK
    <3> QED
      BY <3>1, <3>2
  <2>12. opinion'[i].superseded_by = 0 /\ i \in DOMAIN opinion'
    BY <2>7, <2>8
  <2> QED
    BY <2>9, <2>10, <2>11, <2>12 DEF OpinionInv
<1>9. CASE UNCHANGED <<opinion, call, clock, skewed>> /\ rule' \subseteq Trigger
  BY <1>9 DEF OpinionInv, RowOK, CallOK
<1>10. ASSUME NEW g \in Trigger, create_trigger(g)
       PROVE  UNCHANGED <<opinion, call, clock, skewed>> /\ rule' \subseteq Trigger
  BY <1>10 DEF create_trigger
<1>11. ASSUME NEW r \in DOMAIN outbox, BackoffEnds(r)
       PROVE  UNCHANGED <<opinion, call, clock, skewed>> /\ rule' \subseteq Trigger
  BY <1>11 DEF BackoffEnds
<1>12. ASSUME NEW s \in Server, Sweep(s) \/ DropSweep(s)
       PROVE  UNCHANGED <<opinion, call, clock, skewed>> /\ rule' \subseteq Trigger
  BY <1>12 DEF Sweep, BeginSweep, Post, RecordSuccess, RecordFailure, DropSweep
<1>13. CASE UNCHANGED AlertsVars
  BY <1>13, <1>9 DEF AlertsVars
<1>14. ASSUME NEW i \in OpinionId, InsertBehind(i)
      PROVE  CallTypeOK' /\ OpinionInv'
  <2>0. PICK now \in 1..clock : call' = [call EXCEPT ![i].pc = "commit", ![i].created = now]
    BY <1>14 DEF InsertBehind
  <2> DEFINE v == [call[i] EXCEPT !.pc = "commit", !.created = now]
  <2>n. now \in Nat /\ now <= clock
    OBVIOUS
  <2>1. v \in CallRec /\ v.pc = "commit" /\ v.prev = call[i].prev /\ v.created = now /\ v.answer = call[i].answer
    BY <2>n DEF CallRec
  <2>2. call' = [call EXCEPT ![i] = v]
    BY <2>0 DEF CallRec
  <2>3. opinion' = opinion /\ clock' = clock /\ rule' = rule /\ skewed' = TRUE
    BY <1>14 DEF InsertBehind
  <2>4. call'[i] = v
    BY <2>2
  <2>5. /\ i \notin DOMAIN opinion /\ (call[i].prev # 0 => call[i].prev \in DOMAIN opinion)
        /\ call[i].answer = 0
    BY <1>14 DEF InsertBehind, CallOK
  <2> HIDE DEF v
  <2>6. CallOK(i)'
    BY <2>n, <2>1, <2>3, <2>4, <2>5 DEF CallOK
  <2> QED
    BY <2>1, <2>2, <2>3, <2>6, <1>n, CallMoves
<1>15. ASSUME NEW i \in OpinionId, Answer(i)
      PROVE  CallTypeOK' /\ OpinionInv'
  <2>0. /\ call[i].pc = "answer" /\ i \in DOMAIN opinion /\ opinion[i].created = call[i].created
        /\ CurrentOpinion \in DOMAIN opinion
        /\ ~skewed => call[i].created <= opinion[CurrentOpinion].created
    BY <1>15, CurrentIsNewest DEF Answer, CallOK
  <2> DEFINE v == [call[i] EXCEPT !.pc = "done", !.answer = CurrentOpinion]
  <2>1. v \in CallRec /\ v.pc = "done" /\ v.created = call[i].created /\ v.answer = CurrentOpinion
    BY <1>k DEF CallRec
  <2>2. call' = [call EXCEPT ![i] = v]
    BY <1>15 DEF Answer, CallRec
  <2>3. opinion' = opinion /\ clock' = clock /\ skewed' = skewed /\ rule' = rule
    BY <1>15 DEF Answer
  <2>4. call'[i] = v
    BY <2>2
  <2> HIDE DEF v
  <2>5. CallOK(i)'
    BY <2>0, <2>1, <2>3, <2>4 DEF CallOK
  <2> QED
    BY <2>1, <2>2, <2>3, <2>5, <1>n, CallMoves
<1> QED
  BY <1>1, <1>2, <1>3, <1>4, <1>5, <1>6, <1>7, <1>8, <1>9, <1>10, <1>11, <1>12, <1>13, <1>14, <1>15 DEF AlertsNext, Calls

LEMMA RemoveFirstSeq ==
    ASSUME NEW S, NEW s \in Seq(S), NEW e
    PROVE  RemoveFirst(s, e) \in Seq(S)
<1>1. CASE ~ \E i \in 1..Len(s) : s[i] = e
  BY <1>1 DEF RemoveFirst
<1>2. CASE \E i \in 1..Len(s) : s[i] = e
  <2> DEFINE I == {i \in 1..Len(s) : s[i] = e}
  <2>1. I \in SUBSET Nat /\ I # {} /\ Len(s) \in Nat
    BY <1>2
  <2>2. \E n \in I : \A m \in I : n <= m
    BY <2>1, LeastNumber
  <2>3. Min(I) \in I
    BY <2>2 DEF Min
  <2>4. SelectInSeq(s, LAMBDA v : v = e) = Min(I)
    BY <2>1 DEF SelectInSeq
  <2>5. RemoveFirst(s, e) = RemoveAt(s, Min(I))
    BY <1>2, <2>4 DEF RemoveFirst
  <2>6. PICK i \in 1..Len(s) : i = Min(I)
    BY <2>3
  <2>7. SubSeq(s, 1, i - 1) \in Seq(S) /\ SubSeq(s, i + 1, Len(s)) \in Seq(S)
    BY SubSeqProperties
  <2> QED
    BY <2>5, <2>6, <2>7, ConcatProperties DEF RemoveAt
<1> QED
  BY <1>1, <1>2

SweepRec == [batch : Seq(Read), post : {"none", "success", "failure"}]
SweepOK(s) ==
    /\ \A k \in DOMAIN sweep[s].batch :
         sweep[s].batch[k].attempts <= outbox[sweep[s].batch[k].row].attempts
    /\ sweep[s].post # "none" => sweep[s].batch # <<>>
    /\ sweep[s].post = "success" => Head(sweep[s].batch).row \in got

\* Rows change without vanishing, attempts only grow, and a row is closed
\* when it was received or has had its attempts.
LEMMA OutboxMoves ==
    ASSUME QueueTypeOK, SweepInv, call' = call, got \subseteq got',
           DOMAIN outbox' = DOMAIN outbox, order' \in Seq(DOMAIN outbox),
           \A r \in DOMAIN outbox :
             /\ outbox'[r] \in OutRow
             /\ outbox[r].attempts <= outbox'[r].attempts
             /\ \/ outbox'[r].open = outbox[r].open
                \/ r \in got'
                \/ outbox'[r].attempts >= MaxAttempts,
           sweep' \in [Server -> SweepRec],
           \A s \in Server : sweep'[s] = sweep[s] \/ SweepOK(s)'
    PROVE  QueueTypeOK' /\ SweepInv'
<1>1. Read' = Read
  BY DEF Read
<1>2. QueueTypeOK'
  BY <1>1 DEF QueueTypeOK, SweepRec
<1>3. \A r \in DOMAIN outbox : outbox[r].attempts \in Nat /\ outbox'[r].attempts \in Nat
  BY DEF QueueTypeOK, OutRow
<1>4. ASSUME NEW s \in Server
      PROVE  SweepOK(s)'
  <2>1. CASE SweepOK(s)'
    BY <2>1
  <2>2. CASE sweep'[s] = sweep[s]
    <3>1. sweep[s].batch \in Seq(Read)
      BY DEF QueueTypeOK
    <3>2. \A k \in DOMAIN sweep[s].batch :
            /\ sweep[s].batch[k].row \in DOMAIN outbox
            /\ sweep[s].batch[k].attempts \in Nat
            /\ sweep[s].batch[k].attempts <= outbox[sweep[s].batch[k].row].attempts
      <4>1. \A k \in DOMAIN sweep[s].batch : sweep[s].batch[k] \in Read
        BY <3>1
      <4> QED
        BY <4>1 DEF Read, SweepInv
    <3> QED
      BY <2>2, <3>2, <1>3 DEF SweepInv, SweepOK
  <2> QED
    BY <2>1, <2>2
<1>5. GivenUpHonestly'
  <2> SUFFICES ASSUME NEW r \in DOMAIN outbox, ~outbox'[r].open, r \notin got'
               PROVE  outbox'[r].attempts >= MaxAttempts
    BY DEF GivenUpHonestly
  <2>1. CASE ~outbox[r].open
    BY <2>1, <1>3, AlertsAssumption DEF SweepInv, GivenUpHonestly
  <2>2. CASE outbox[r].open
    BY <2>2
  <2> QED
    BY <2>1, <2>2
<1> QED
  BY <1>2, <1>4, <1>5 DEF SweepInv, SweepOK

\* The sweep of one server takes on the value w.
LEMMA SweepSet ==
    ASSUME QueueTypeOK, NEW s \in Server, NEW w \in SweepRec, sweep' = [sweep EXCEPT ![s] = w]
    PROVE  /\ sweep' \in [Server -> SweepRec]
           /\ sweep'[s] = w
           /\ \A t \in Server \ {s} : sweep'[t] = sweep[t]
  BY DEF QueueTypeOK, SweepRec

\* A call that is not queueing rows, or that is dropped, leaves the outbox
\* alone.
LEMMA OutboxQuiet ==
    ASSUME CallTypeOK, QueueTypeOK, SweepInv, UNCHANGED <<outbox, order, sweep, got>>,
           NEW i \in OpinionId, call[i].pc \notin {"queue", "answer", "done", "dropped"} \/ call'[i].pc \in {"done", "dropped"},
           \A j \in OpinionId \ {i} : call'[j] = call[j]
    PROVE  QueueTypeOK' /\ SweepInv'
<1>1. QueueTypeOK'
  BY DEF QueueTypeOK, Read
<1>2. \A j \in OpinionId : \A g \in Trigger : <<j, g>> \in DOMAIN outbox =>
         /\ call'[j].pc \in {"queue", "answer", "done", "dropped"}
         /\ call'[j].pc = "queue" => g \notin call'[j].todo
  BY DEF SweepInv
<1> QED
  BY <1>1, <1>2 DEF SweepInv, GivenUpHonestly

\* A batch of rows just read from the outbox.
LEMMA DueRowsRead ==
    ASSUME QueueTypeOK, NEW read \in DueRows
    PROVE  /\ read \in Seq(Read)
           /\ \A k \in DOMAIN read : read[k].attempts <= outbox[read[k].row].attempts
<1> DEFINE due == {k \in DOMAIN order : outbox[order[k]].due}
           n == Min({SweepLimit, Cardinality(due)})
<1>1. DOMAIN order = 1..Len(order) /\ Len(order) \in Nat /\ \A k \in DOMAIN order : order[k] \in DOMAIN outbox
  BY DEF QueueTypeOK
<1>2. IsFiniteSet(1..Len(order))
  BY <1>1, FS_Interval
<1>3. Cardinality(due) \in Nat
  BY <1>1, <1>2, FS_Subset, FS_CardinalityType
<1>4. SweepLimit \in Nat
  BY AlertsAssumption
<1>5. \E x \in {SweepLimit, Cardinality(due)} : \A y \in {SweepLimit, Cardinality(due)} : x <= y
  BY <1>3, <1>4
<1>6. n \in Nat
  <2> HIDE DEF due
  <2> QED
    BY <1>3, <1>4, <1>5 DEF Min
<1>7. PICK f \in [1..n -> due] :
        read = [k \in 1..n |-> [row |-> order[f[k]], attempts |-> outbox[order[f[k]]].attempts]]
  BY DEF DueRows
<1> HIDE DEF n
<1>8. \A k \in 1..n : order[f[k]] \in DOMAIN outbox
  BY <1>1
<1>9. \A k \in 1..n : outbox[order[f[k]]].attempts \in Nat
  BY <1>8 DEF QueueTypeOK, OutRow
<1>10. DOMAIN read = 1..n
  BY <1>7
<1>11. \A k \in 1..n : /\ read[k] \in Read
                       /\ read[k].row = order[f[k]] /\ read[k].attempts = outbox[order[f[k]]].attempts
  BY <1>7, <1>8, <1>9 DEF Read
<1>12. read \in [1..n -> Read]
  BY <1>7, <1>11
<1>13. read \in Seq(Read)
  BY <1>6, <1>12
<1> QED
  BY <1>9, <1>10, <1>11, <1>13

\* A row after one more failed attempt.
LEMMA TriedRow ==
    ASSUME NEW o \in OutRow
    PROVE  /\ [o EXCEPT !.attempts = o.attempts + 1, !.open = FALSE] \in OutRow
           /\ [o EXCEPT !.attempts = o.attempts + 1, !.open = FALSE].attempts = o.attempts + 1
           /\ [o EXCEPT !.attempts = o.attempts + 1, !.due = FALSE] \in OutRow
           /\ [o EXCEPT !.attempts = o.attempts + 1, !.due = FALSE].attempts = o.attempts + 1
           /\ [o EXCEPT !.attempts = o.attempts + 1, !.due = FALSE].open = o.open
<1>1. PICK n \in Nat : n = o.attempts + 1
  BY DEF OutRow
<1>2. PICK u \in OutRow : u = [o EXCEPT !.attempts = n]
  BY DEF OutRow
<1>3. u.attempts = n /\ u.open = o.open
  BY <1>2 DEF OutRow
<1>4. [o EXCEPT !.attempts = n, !.open = FALSE] = [u EXCEPT !.open = FALSE]
  BY <1>2 DEF OutRow
<1>5. [o EXCEPT !.attempts = n, !.due = FALSE] = [u EXCEPT !.due = FALSE]
  BY <1>2 DEF OutRow
<1>6. [u EXCEPT !.open = FALSE] \in OutRow /\ [u EXCEPT !.due = FALSE] \in OutRow
  BY DEF OutRow
<1>7. [u EXCEPT !.open = FALSE].attempts = u.attempts /\ [u EXCEPT !.due = FALSE].attempts = u.attempts
  BY DEF OutRow
<1>8. [u EXCEPT !.due = FALSE].open = u.open
  BY DEF OutRow
<1> QED
  BY <1>1, <1>3, <1>4, <1>5, <1>6, <1>7, <1>8

\* Every step keeps the outbox and the sweeps in order.
LEMMA SweepStep ==
    ASSUME CallTypeOK, QueueTypeOK, SweepInv, [AlertsNext]_AlertsVars
    PROVE  QueueTypeOK' /\ SweepInv'
<1>c. \A j \in OpinionId : call[j] \in CallRec
  BY DEF CallTypeOK
<1>a. \A r \in DOMAIN outbox : outbox[r] \in OutRow /\ outbox[r].attempts \in Nat /\ outbox[r].attempts <= outbox[r].attempts
  BY DEF QueueTypeOK, OutRow
<1>b. \A s \in Server : /\ sweep[s] \in SweepRec /\ sweep[s].batch \in Seq(Read)
                        /\ sweep[s].post \in {"none", "success", "failure"}
  BY DEF QueueTypeOK, SweepRec
<1>o. order \in Seq(DOMAIN outbox)
  BY DEF QueueTypeOK
<1>1. ASSUME NEW i \in OpinionId, NEW kind \in {"trusted", "malicious"}, Begin(i, kind)
      PROVE  QueueTypeOK' /\ SweepInv'
  <2>1. /\ call[i].pc = "idle" /\ UNCHANGED <<outbox, order, sweep, got>>
        /\ \A j \in OpinionId \ {i} : call'[j] = call[j]
    BY <1>1 DEF Begin, CallTypeOK
  <2> QED
    BY <2>1, OutboxQuiet
<1>2. ASSUME NEW i \in OpinionId, DropCall(i)
      PROVE  QueueTypeOK' /\ SweepInv'
  <2>1. /\ UNCHANGED <<outbox, order, sweep, got>> /\ call'[i].pc = "dropped"
        /\ \A j \in OpinionId \ {i} : call'[j] = call[j]
    BY <1>2, <1>c DEF DropCall, CallTypeOK, CallRec
  <2> QED
    BY <2>1, OutboxQuiet
<1>3. ASSUME NEW i \in OpinionId,
             \/ SelectPrevious(i) \/ UpdatePrevious(i) \/ InsertOpinion(i) \/ InsertBehind(i)
             \/ CommitOpinion(i) \/ FireSelect(i)
      PROVE  QueueTypeOK' /\ SweepInv'
  <2>1. /\ UNCHANGED <<outbox, order, sweep, got>> /\ call[i].pc \in {"select", "update", "insert", "commit", "fire"}
        /\ \A j \in OpinionId \ {i} : call'[j] = call[j]
    BY <1>3 DEF SelectPrevious, UpdatePrevious, InsertOpinion, InsertBehind, CommitOpinion, FireSelect, CallTypeOK
  <2> QED
    BY <2>1, OutboxQuiet
<1>4. ASSUME NEW i \in OpinionId, FireInsert(i)
      PROVE  QueueTypeOK' /\ SweepInv'
  <2>1. PICK g \in call[i].todo :
          /\ outbox' = [x \in DOMAIN outbox \cup {<<i, g>>} |->
                          IF x = <<i, g>> THEN [open |-> TRUE, due |-> TRUE, attempts |-> 0] ELSE outbox[x]]
          /\ order' = Append(order, <<i, g>>)
          /\ call' = [call EXCEPT ![i].todo = @ \ {g}, ![i].pc = IF call[i].todo = {g} THEN "answer" ELSE @]
    BY <1>4 DEF FireInsert
  <2>2. call[i].pc = "queue" /\ UNCHANGED <<sweep, got>>
    BY <1>4 DEF FireInsert
  <2>3. g \in Trigger
    BY <1>c DEF CallRec
  <2> DEFINE r == <<i, g>>
  <2>4. r \notin DOMAIN outbox
    BY <2>2, <2>3 DEF SweepInv
  <2>5. /\ call'[i].todo = call[i].todo \ {g}
        /\ call'[i].pc \in {"queue", "answer"}
        /\ \A j \in OpinionId \ {i} : call'[j] = call[j]
    BY <2>1, <2>2, <1>c DEF CallTypeOK, CallRec
  <2>6. /\ DOMAIN outbox' = DOMAIN outbox \cup {r}
        /\ outbox'[r] = [open |-> TRUE, due |-> TRUE, attempts |-> 0]
        /\ \A x \in DOMAIN outbox : outbox'[x] = outbox[x]
    BY <2>1, <2>4
  <2>7. \A x \in DOMAIN outbox' : outbox'[x] \in OutRow
    <3>1. [open |-> TRUE, due |-> TRUE, attempts |-> 0] \in OutRow
      BY DEF OutRow
    <3> QED
      BY <2>6, <3>1, <1>a
  <2>8. order' \in Seq(DOMAIN outbox')
    <3>1. order \in Seq(DOMAIN outbox')
      BY <1>o, <2>6, SeqMonotonic
    <3>2. r \in DOMAIN outbox'
      BY <2>6
    <3> QED
      BY <2>1, <3>1, <3>2, AppendProperties
  <2>9. Read \subseteq Read'
    BY <2>6 DEF Read
  <2>10. ASSUME NEW s \in Server PROVE sweep'[s] \in SweepRec'
    <3>1. sweep[s].batch \in Seq(Read')
      BY <1>b, <2>9, SeqMonotonic
    <3> QED
      BY <2>2, <3>1, <1>b DEF SweepRec
  <2>11. QueueTypeOK'
    BY <2>2, <2>7, <2>8, <2>10 DEF QueueTypeOK, SweepRec
  <2>12. ASSUME NEW s \in Server PROVE SweepOK(s)'
    <3>1. \A k \in DOMAIN sweep[s].batch : sweep[s].batch[k].row \in DOMAIN outbox
      <4>1. \A k \in DOMAIN sweep[s].batch : sweep[s].batch[k] \in Read
        BY <1>b
      <4> QED
        BY <4>1 DEF Read
    <3> QED
      BY <2>2, <2>6, <3>1 DEF SweepInv, SweepOK
  <2>13. ASSUME NEW j \in OpinionId, NEW h \in Trigger, <<j, h>> \in DOMAIN outbox'
         PROVE  /\ call'[j].pc \in {"queue", "answer", "done", "dropped"}
                /\ call'[j].pc = "queue" => h \notin call'[j].todo
    <3>1. CASE j # i
      BY <3>1, <2>5, <2>6, <2>13 DEF SweepInv
    <3>2. CASE j = i /\ h = g
      BY <3>2, <2>5
    <3>3. CASE j = i /\ h # g
      BY <3>3, <2>2, <2>5, <2>6, <2>13 DEF SweepInv
    <3> QED
      BY <3>1, <3>2, <3>3
  <2>14. GivenUpHonestly'
    BY <2>2, <2>6 DEF SweepInv, GivenUpHonestly
  <2> QED
    BY <2>11, <2>12, <2>13, <2>14 DEF SweepInv, SweepOK
<1>5. ASSUME NEW r \in DOMAIN outbox, BackoffEnds(r)
      PROVE  QueueTypeOK' /\ SweepInv'
  <2>1. call' = call /\ got' = got /\ sweep' = sweep /\ order' = order
    BY <1>5 DEF BackoffEnds
  <2>2. outbox' = [outbox EXCEPT ![r] = [outbox[r] EXCEPT !.due = TRUE]]
    BY <1>5 DEF BackoffEnds
  <2>3. DOMAIN outbox' = DOMAIN outbox
    BY <2>2
  <2>4. \A x \in DOMAIN outbox : /\ outbox'[x] \in OutRow
                                 /\ outbox'[x].attempts = outbox[x].attempts
                                 /\ outbox'[x].open = outbox[x].open
    BY <2>2, <1>a DEF OutRow
  <2>5. sweep' \in [Server -> SweepRec]
    BY <2>1 DEF QueueTypeOK, SweepRec
  <2> QED
    BY <2>1, <2>3, <2>4, <2>5, <1>a, <1>o, OutboxMoves
<1>6. ASSUME NEW s \in Server, BeginSweep(s)
      PROVE  QueueTypeOK' /\ SweepInv'
  <2>1. PICK read \in DueRows : read # <<>> /\ sweep' = [sweep EXCEPT ![s].batch = read]
    BY <1>6 DEF BeginSweep
  <2>2. /\ call' = call /\ got' = got /\ outbox' = outbox /\ order' = order
        /\ sweep[s].post = "none"
    BY <1>6 DEF BeginSweep, NoSweep
  <2> DEFINE w == [sweep[s] EXCEPT !.batch = read]
  <2>3. w \in SweepRec /\ w.batch = read /\ w.post = "none"
    BY <2>2, <1>b, DueRowsRead DEF SweepRec
  <2>4. sweep' = [sweep EXCEPT ![s] = w]
    BY <2>1, <1>b DEF QueueTypeOK
  <2> HIDE DEF w
  <2>5. /\ sweep' \in [Server -> SweepRec] /\ sweep'[s] = w
        /\ \A t \in Server \ {s} : sweep'[t] = sweep[t]
    BY <2>3, <2>4, SweepSet
  <2>6. SweepOK(s)'
    BY <2>2, <2>3, <2>5, DueRowsRead DEF SweepOK
  <2> QED
    BY <2>2, <2>5, <2>6, <1>a, <1>o, OutboxMoves
<1>7. ASSUME NEW s \in Server, Post(s)
      PROVE  QueueTypeOK' /\ SweepInv'
  <2>1. PICK received \in BOOLEAN, success \in BOOLEAN :
          /\ success => received
          /\ got' = IF received THEN got \cup {Head(sweep[s].batch).row} ELSE got
          /\ sweep' = [sweep EXCEPT ![s].post = IF success THEN "success" ELSE "failure"]
    BY <1>7 DEF Post
  <2>2. /\ call' = call /\ outbox' = outbox /\ order' = order /\ got \subseteq got'
        /\ sweep[s].batch # <<>>
    BY <1>7, <2>1 DEF Post
  <2> DEFINE p == IF success THEN "success" ELSE "failure"
             w == [sweep[s] EXCEPT !.post = p]
  <2>3. w \in SweepRec /\ w.batch = sweep[s].batch /\ w.post = p
    BY <1>b DEF SweepRec
  <2>4. sweep' = [sweep EXCEPT ![s] = w]
    BY <2>1, <1>b DEF QueueTypeOK
  <2>7. w.post = "success" => Head(sweep[s].batch).row \in got'
    BY <2>1, <2>3
  <2> HIDE DEF w
  <2>5. /\ sweep' \in [Server -> SweepRec] /\ sweep'[s] = w
        /\ \A t \in Server \ {s} : sweep'[t] = sweep[t]
    BY <2>3, <2>4, SweepSet
  <2>6. SweepOK(s)'
    BY <2>2, <2>3, <2>5, <2>7 DEF SweepOK, SweepInv
  <2> QED
    BY <2>2, <2>5, <2>6, <1>a, <1>o, OutboxMoves
<1>8. ASSUME NEW s \in Server, sweep[s].batch # <<>>, NextRow(s),
             DOMAIN outbox' = DOMAIN outbox,
             \A r \in DOMAIN outbox : outbox'[r] \in OutRow /\ outbox[r].attempts <= outbox'[r].attempts
      PROVE  /\ sweep' \in [Server -> SweepRec]
             /\ \A t \in Server : sweep'[t] = sweep[t] \/ SweepOK(t)'
  <2> DEFINE w == [batch |-> Tail(sweep[s].batch), post |-> "none"]
  <2>1. Tail(sweep[s].batch) \in Seq(Read)
    BY <1>8, <1>b
  <2>2. w \in SweepRec /\ w.batch = Tail(sweep[s].batch) /\ w.post = "none"
    BY <2>1 DEF SweepRec
  <2>3. sweep' = [sweep EXCEPT ![s] = w]
    BY <1>8 DEF NextRow, QueueTypeOK
  <2> HIDE DEF w
  <2>4. /\ sweep' \in [Server -> SweepRec] /\ sweep'[s] = w
        /\ \A t \in Server \ {s} : sweep'[t] = sweep[t]
    BY <2>2, <2>3, SweepSet
  <2>5. ASSUME NEW k \in DOMAIN w.batch
        PROVE  w.batch[k].attempts <= outbox'[w.batch[k].row].attempts
    <3>1. k \in Nat /\ k + 1 \in DOMAIN sweep[s].batch /\ w.batch[k] = sweep[s].batch[k + 1]
      BY <1>8, <1>b, <2>2, HeadTailProperties
    <3>2. sweep[s].batch[k + 1] \in Read
      BY <3>1, <1>b
    <3>3. w.batch[k].row \in DOMAIN outbox /\ w.batch[k].attempts \in Nat
      BY <3>1, <3>2 DEF Read
    <3>4. w.batch[k].attempts <= outbox[w.batch[k].row].attempts
      BY <3>1 DEF SweepInv
    <3>5. outbox'[w.batch[k].row].attempts \in Nat
      BY <3>3, <1>8 DEF OutRow
    <3> QED
      BY <3>3, <3>4, <3>5, <1>8, <1>a
  <2>6. SweepOK(s)'
    BY <2>2, <2>4, <2>5 DEF SweepOK
  <2> QED
    BY <2>4, <2>6
<1>9. ASSUME NEW s \in Server, sweep[s].batch # <<>>
      PROVE  /\ Head(sweep[s].batch) \in Read
             /\ Head(sweep[s].batch).row \in DOMAIN outbox
             /\ Head(sweep[s].batch).attempts \in Nat
             /\ Head(sweep[s].batch).attempts <= outbox[Head(sweep[s].batch).row].attempts
  <2>1. 1 \in DOMAIN sweep[s].batch /\ Head(sweep[s].batch) = sweep[s].batch[1]
    BY <1>9, <1>b
  <2>2. Head(sweep[s].batch) \in Read
    BY <2>1, <1>b
  <2> QED
    BY <2>1, <2>2 DEF Read, SweepInv
<1>10. ASSUME NEW s \in Server, RecordSuccess(s)
       PROVE  QueueTypeOK' /\ SweepInv'
  <2>1. PICK r : r = Head(sweep[s].batch).row
    OBVIOUS
  <2>2. /\ sweep[s].post = "success" /\ NextRow(s) /\ call' = call /\ got' = got
        /\ outbox' = [outbox EXCEPT ![r].open = FALSE]
        /\ order' = RemoveFirst(order, r)
    BY <1>10, <2>1 DEF RecordSuccess
  <2>3. sweep[s].batch # <<>> /\ r \in got
    BY <2>1, <2>2 DEF SweepInv
  <2>4. r \in DOMAIN outbox
    BY <2>1, <2>3, <1>9
  <2>5. outbox' = [outbox EXCEPT ![r] = [outbox[r] EXCEPT !.open = FALSE]]
    BY <2>2
  <2>6. DOMAIN outbox' = DOMAIN outbox
    BY <2>5
  <2>7. \A x \in DOMAIN outbox : /\ outbox'[x] \in OutRow
                                 /\ outbox[x].attempts <= outbox'[x].attempts
                                 /\ x # r => outbox'[x].open = outbox[x].open
    BY <2>5, <1>a DEF OutRow
  <2>8. order' \in Seq(DOMAIN outbox)
    BY <2>2, <1>o, RemoveFirstSeq
  <2>9. /\ sweep' \in [Server -> SweepRec]
        /\ \A t \in Server : sweep'[t] = sweep[t] \/ SweepOK(t)'
    BY <2>2, <2>3, <2>6, <2>7, <1>8
  <2> QED
    BY <2>2, <2>3, <2>6, <2>7, <2>8, <2>9, OutboxMoves
<1>11. ASSUME NEW s \in Server, RecordFailure(s)
       PROVE  QueueTypeOK' /\ SweepInv'
  <2>1. PICK b, r : b = Head(sweep[s].batch) /\ r = b.row
    OBVIOUS
  <2>2. /\ sweep[s].post = "failure" /\ NextRow(s) /\ call' = call /\ got' = got
        /\ IF GiveUp(b.attempts)
           THEN /\ outbox' = [outbox EXCEPT ![r].attempts = @ + 1, ![r].open = FALSE]
                /\ order' = RemoveFirst(order, r)
           ELSE /\ outbox' = [outbox EXCEPT ![r].attempts = @ + 1, ![r].due = FALSE]
                /\ order' = Requeued(r)
    BY <1>11, <2>1 DEF RecordFailure
  <2>3. sweep[s].batch # <<>>
    BY <2>2 DEF SweepInv
  <2>4. r \in DOMAIN outbox /\ b.attempts \in Nat /\ b.attempts <= outbox[r].attempts
    BY <2>1, <2>3, <1>9
  <2>5. RemoveFirst(order, r) \in Seq(DOMAIN outbox)
    BY <1>o, RemoveFirstSeq
  <2>6. /\ DOMAIN outbox' = DOMAIN outbox
        /\ \A x \in DOMAIN outbox :
             /\ outbox'[x] \in OutRow
             /\ outbox[x].attempts <= outbox'[x].attempts
             /\ \/ outbox'[x].open = outbox[x].open
                \/ outbox'[x].attempts >= MaxAttempts
    <3>1. CASE GiveUp(b.attempts)
      <4>1. outbox' = [outbox EXCEPT ![r] = [outbox[r] EXCEPT !.attempts = outbox[r].attempts + 1, !.open = FALSE]]
        BY <2>2, <2>4, <3>1
      <4>2. outbox[r].attempts + 1 >= MaxAttempts
        BY <2>4, <3>1, <1>a, AlertsAssumption DEF GiveUp
      <4>3. DOMAIN outbox' = DOMAIN outbox /\ \A x \in DOMAIN outbox \ {r} : outbox'[x] = outbox[x]
        BY <4>1
      <4>4. outbox'[r] \in OutRow /\ outbox'[r].attempts = outbox[r].attempts + 1
        BY <4>1, <2>4, <1>a, TriedRow
      <4> QED
        BY <4>2, <4>3, <4>4, <2>4, <1>a
    <3>2. CASE ~GiveUp(b.attempts)
      <4>1. outbox' = [outbox EXCEPT ![r] = [outbox[r] EXCEPT !.attempts = outbox[r].attempts + 1, !.due = FALSE]]
        BY <2>2, <2>4, <3>2
      <4>3. DOMAIN outbox' = DOMAIN outbox /\ \A x \in DOMAIN outbox \ {r} : outbox'[x] = outbox[x]
        BY <4>1
      <4>4. /\ outbox'[r] \in OutRow /\ outbox'[r].attempts = outbox[r].attempts + 1
            /\ outbox'[r].open = outbox[r].open
        BY <4>1, <2>4, <1>a, TriedRow
      <4> QED
        BY <4>3, <4>4, <2>4, <1>a
    <3> QED
      BY <3>1, <3>2
  <2>7. order' \in Seq(DOMAIN outbox)
    <3>1. Append(RemoveFirst(order, r), r) \in Seq(DOMAIN outbox)
      BY <2>4, <2>5, AppendProperties
    <3> QED
      BY <2>2, <2>5, <3>1, <1>o DEF Requeued
  <2>8. /\ sweep' \in [Server -> SweepRec]
        /\ \A t \in Server : sweep'[t] = sweep[t] \/ SweepOK(t)'
    BY <2>2, <2>3, <2>6, <1>8
  <2> QED
    BY <2>2, <2>6, <2>7, <2>8, OutboxMoves
<1>12. ASSUME NEW s \in Server, DropSweep(s)
       PROVE  QueueTypeOK' /\ SweepInv'
  <2>1. /\ call' = call /\ got' = got /\ outbox' = outbox /\ order' = order
        /\ sweep' = [sweep EXCEPT ![s] = NoSweep]
    BY <1>12 DEF DropSweep
  <2>2. NoSweep \in SweepRec
    BY DEF NoSweep, SweepRec
  <2>3. /\ sweep' \in [Server -> SweepRec] /\ sweep'[s] = NoSweep
        /\ \A t \in Server \ {s} : sweep'[t] = sweep[t]
    BY <2>1, <2>2, SweepSet
  <2>4. SweepOK(s)'
    BY <2>3 DEF SweepOK, NoSweep
  <2> QED
    BY <2>1, <2>3, <2>4, <1>a, <1>o, OutboxMoves
<1>13. CASE UNCHANGED <<call, outbox, order, sweep, got>>
  BY <1>13 DEF QueueTypeOK, SweepInv, GivenUpHonestly, Read
<1>14. ASSUME NEW g \in Trigger, create_trigger(g)
       PROVE  UNCHANGED <<call, outbox, order, sweep, got>>
  BY <1>14 DEF create_trigger
<1>15. CASE UNCHANGED AlertsVars
  BY <1>13, <1>15 DEF AlertsVars
<1>16. ASSUME NEW i \in OpinionId, Answer(i)
       PROVE  QueueTypeOK' /\ SweepInv'
  <2>1. /\ UNCHANGED <<outbox, order, sweep, got>> /\ call'[i].pc = "done"
        /\ \A j \in OpinionId \ {i} : call'[j] = call[j]
    BY <1>16, <1>c DEF Answer, CallTypeOK, CallRec
  <2> QED
    BY <2>1, OutboxQuiet
<1> QED
  BY <1>1, <1>2, <1>3, <1>4, <1>5, <1>6, <1>7, <1>10, <1>11, <1>12, <1>13, <1>14, <1>15, <1>16
  DEF AlertsNext, Calls, Sweep

LEMMA AlertsInvariant == AlertsSpec => []AlertsInv
<1>1. AlertsInit => AlertsInv
  <2> SUFFICES ASSUME AlertsInit PROVE AlertsInv
    OBVIOUS
  <2>1. CallTypeOK
    <3>1. PICK v : v = [pc |-> "idle", kind |-> "none", prev |-> 0, created |-> 0, todo |-> {}, answer |-> 0]
      OBVIOUS
    <3>2. v \in CallRec
      BY <3>1 DEF CallRec
    <3>3. call = [i \in OpinionId |-> v]
      BY <3>1 DEF AlertsInit
    <3>4. opinion = <<>> /\ clock = 0 /\ skewed = FALSE /\ rule = {}
      BY DEF AlertsInit
    <3>5. skewed \in BOOLEAN
      BY <3>4
    <3>6. DOMAIN opinion = {}
      BY <3>4
    <3>7. call \in [OpinionId -> CallRec]
      BY <3>2, <3>3
    <3> QED
      BY <3>4, <3>5, <3>6, <3>7 DEF CallTypeOK
  <2>2. QueueTypeOK
    BY DEF AlertsInit, QueueTypeOK, NoSweep, Read
  <2>3. OpinionInv
    BY DEF AlertsInit, OpinionInv, CallOK
  <2>4. SweepInv
    BY DEF AlertsInit, SweepInv, NoSweep, GivenUpHonestly
  <2> QED
    BY <2>1, <2>2, <2>3, <2>4 DEF AlertsInv, AlertsTypeOK
<1>2. AlertsInv /\ [AlertsNext]_AlertsVars => AlertsInv'
  BY OpinionStep, SweepStep DEF AlertsInv, AlertsTypeOK
<1> QED
  BY <1>1, <1>2, PTL DEF AlertsSpec

\* Once an opinion is recorded there is a current one, and while no server's
\* clock is behind another's it is the one inserted last and every call is
\* answered with its own or a later one, for any number of set_opinion calls
\* that overlap, wait or are dropped.
THEOREM OpinionsSafe == AlertsSpec => []LatestOpinionCurrent
<1>1. AlertsInv => LatestOpinionCurrent
  <2> SUFFICES ASSUME AlertsInv PROVE LatestOpinionCurrent
    OBVIOUS
  <2>1. CallTypeOK /\ OpinionInv
    BY DEF AlertsInv, AlertsTypeOK
  <2>2. CASE DOMAIN opinion # {}
    BY <2>1, <2>2, CurrentIsNewest DEF LatestOpinionCurrent, OpinionInv, CallOK
  <2>3. CASE DOMAIN opinion = {}
    BY <2>1, <2>3 DEF LatestOpinionCurrent, OpinionInv, CallOK
  <2> QED
    BY <2>2, <2>3
<1> QED
  BY <1>1, AlertsInvariant, PTL

\* deliver_pending closes a row its webhook never received only after
\* MaxAttempts failed attempts, for any number of servers sweeping at once.
THEOREM OutboxSafe == AlertsSpec => []GivenUpHonestly
<1>1. AlertsInv => GivenUpHonestly
  BY DEF AlertsInv, SweepInv
<1> QED
  BY <1>1, AlertsInvariant, PTL
=============================================================================
