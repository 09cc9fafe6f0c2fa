---------------------------- MODULE HuntsProofs ----------------------------
(***************************************************************************)
(* Proofs for the module Hunts, for any artifacts, finalize calls, clients, *)
(* workers and bounds: a completed hunt missed nothing it selected, a hunt  *)
(* on its way is in somebody's hands, and an activation covers the corpus.  *)
(***************************************************************************)
EXTENDS Hunts, SequenceTheorems, WellFoundedInduction, TLAPS

(***************************************************************************)
(* The inductive invariant                                                 *)
(***************************************************************************)
\* What there is to number and to compare.
Number == Nat \cup {None}
Goal   == {"execute", "return", "reused", "enqueued"}

IdleCall    == [pc : {"idle"}]
FindCall    == [pc : {"find", "create"}, hunt : {None}]
ReuseCall   == [pc : {"reuse"}, hunt : Hunts]
EnqueueCall == [pc : EnqueuePcs, hunt : Hunts, wm : Number, then : Goal]
ExecuteCall == [pc : ExecutePcs, hunt : Hunts, wm : Number, sel : SUBSET Artifacts,
                todo : SUBSET Artifacts, partial : BOOLEAN]
CallRec == IdleCall \cup FindCall \cup ReuseCall \cup EnqueueCall \cup ExecuteCall

\* Sequence numbers are taken once, a committed row has one, and only one
\* open transaction holds the row of an artifact that is not committed.
FinPcs == {"insert", "commit", "bundles", "lookup", "scan", "match", "done"}
ArtifactInv ==
    /\ seq \in [Artifacts -> Number]
    /\ committed \in SUBSET Artifacts
    /\ nextSeq \in Nat
    /\ fin \in [Finalizers -> FinPcs]
    /\ \A a \in committed : seq[a] # None
    /\ \A a \in Artifacts : seq[a] # None => seq[a] < nextSeq
    /\ \A a, b \in Artifacts : seq[a] = seq[b] /\ seq[a] # None => a = b
    /\ \A f \in Finalizers : fin[f] = "commit" => seq[Target[f]] # None
    /\ \A f, g \in Finalizers :
          fin[f] = "commit" /\ fin[g] = "commit" /\ Target[f] = Target[g] /\ f # g
             => Target[f] \in committed

CacheInv ==
    /\ cache \in [Artifacts -> Status \cup {None}]
    /\ \A a \in Artifacts : cache[a] = "clean" => a \notin Matching

\* An endpoint artifact no one has scanned with the bundle and no forward scan
\* will: once the bundle is active there are no new ones.
Forwarding == {"bundles", "lookup", "scan"}
Uncovered ==
    {a \in (committed \cap Endpoint) \ lost :
        cache[a] = None /\ \A f \in Finalizers : Target[f] = a => fin[f] \notin Forwarding}

\* A hunt that an activation created, and has recorded or will record.
Own(h) ==
    \/ <<h, "enqueued">> \in reanalysis
    \/ \E p \in Procs : /\ proc[p].pc \in EnqueuePcs
                        /\ proc[p].then = "enqueued" /\ proc[p].hunt = h

Above(wm) == \A a \in Uncovered : seq[a] <= wm

\* A hunt's row.  Whatever is uncovered lies at or below the watermark of an
\* activation's own hunt, and a run of it that ends leaves nothing uncovered.
RowFits(h) ==
    /\ state[h] = None => watermark[h] = None /\ ~Own(h)
    /\ state[h] = "COMPLETED" => \A a \in covered[h] \cap Matching : <<h, a>> \in matches
    /\ Own(h) => /\ active
                 /\ watermark[h] # None => Above(watermark[h])
                 /\ state[h] \in {"COMPLETED", "COMPLETED_PARTIAL"} => Uncovered = {}

\* What a call knows.  r is its record.
Scanning == {"next", "scan", "match"}
Lowest(S) == CHOOSE a \in S : \A b \in S : seq[a] <= seq[b]

FindFits(r) == r.pc \in {"find", "create"} => active
EnqueueFits(r) ==
    r.pc \in EnqueuePcs =>
        /\ state[r.hunt] # None
        /\ r.then = "enqueued" => active
        /\ r.pc = "plan" => r.wm # None
        /\ r.pc \in {"queue", "job"} => watermark[r.hunt] # None
        /\ Own(r.hunt) /\ r.wm # None => Above(r.wm)
ExecuteFits(r) ==
    r.pc \in ExecutePcs =>
        /\ state[r.hunt] # None
        /\ watermark[r.hunt] # None
        /\ r.pc # "start" => r.wm # None
        /\ Own(r.hunt) /\ r.wm # None => Above(r.wm)
ScanFits(r) ==
    r.pc \in Scanning =>
        /\ r.sel \subseteq committed
        /\ r.todo \subseteq r.sel
        /\ r.pc \in {"scan", "match"} => r.todo # {}
        /\ r.pc = "match" => cache[Lowest(r.todo)] # None
        /\ r.partial \/ \A a \in (r.sel \ r.todo) \cap Matching : <<r.hunt, a>> \in matches
        /\ Own(r.hunt) => Uncovered \subseteq r.todo
CallFits(r) ==
    /\ r.pc = "reuse" => state[r.hunt] # None
    /\ FindFits(r) /\ EnqueueFits(r) /\ ExecuteFits(r) /\ ScanFits(r)

Planned == {h \in Hunts : watermark[h] # None}
RowInv ==
    /\ state \in [Hunts -> States \cup {None}]
    /\ watermark \in [Hunts -> Number]
    /\ job \in [Hunts -> {"none", "pending", "claimed", "finished"}]
    /\ queue \in Seq(Planned)
    /\ covered \in [Hunts -> SUBSET Artifacts]
    /\ active \in BOOLEAN
    /\ \A h \in Hunts : RowFits(h)
CallInv ==
    /\ proc \in [Procs -> CallRec]
    /\ \A p \in Procs : CallFits(proc[p])

\* Who has a hunt in hand: a call past the check of enqueue_hunt, or a run that
\* has not written its final state.
Past(r, h) == r.pc \in EnqueuePcs \ {"check", "record"} /\ r.hunt = h
Runs(r, h) == r.pc \in ExecutePcs /\ r.hunt = h
Keeps(r, h) == Past(r, h) \/ (Runs(r, h) /\ r.pc # "close")
Moving == {"VALIDATING", "PLANNED", "QUEUED", "RUNNING"}

\* As long as no enqueue overlaps another call on the hunt, a call that is past
\* the check is alone with it, a run that has taken its job sees no new one,
\* and a hunt on its way is kept.
HoldFits(h) ==
    h \notin raced =>
        /\ \A p, q \in Procs : p # q /\ Past(proc[p], h) => ~Past(proc[q], h) /\ ~Runs(proc[q], h)
        /\ \A p \in Procs : Runs(proc[p], h) /\ proc[p].pc \notin {"start", "running", "claim"}
              => job[h] # "pending"
        /\ h \notin lost /\ state[h] \in Moving =>
              job[h] = "pending" \/ \E p \in Procs : Keeps(proc[p], h)
HoldInv == \A h \in Hunts : HoldFits(h)

HuntsInv == ArtifactInv /\ CacheInv /\ RowInv /\ CallInv /\ HoldInv

(***************************************************************************)
(* Numbers, sequences and records                                          *)
(***************************************************************************)
LEMMA LeastNumber ==
    ASSUME NEW S \in SUBSET Nat, S # {}
    PROVE  \E n \in S : \A m \in S : n <= m
<1>1. IsWellFoundedOn(OpToRel(<, Nat), Nat)
  BY NatLessThanWellFounded
<1>2. PICK n \in S : \A m \in S : ~(<<m, n>> \in OpToRel(<, Nat))
  BY <1>1, WFMin
<1>3. \A m \in S : ~(m < n)
  BY <1>2, Zenon DEF OpToRel
<1> QED
  BY <1>3

LEMMA LargestNumber ==
    ASSUME NEW S \in SUBSET Nat, S # {}, NEW bound \in Nat, \A n \in S : n <= bound
    PROVE  \E n \in S : \A m \in S : m <= n
<1> DEFINE T == {bound - n : n \in S}
<1>1. T \in SUBSET Nat
  OBVIOUS
<1>n. T # {}
  OBVIOUS
<1>2. PICK t \in T : \A u \in T : t <= u
  BY <1>1, <1>n, LeastNumber
<1>3. PICK n \in S : t = bound - n
  BY <1>2
<1>4. ASSUME NEW m \in S PROVE m <= n
  BY <1>2, <1>3
<1> QED
  BY <1>4

LEMMA RemoveFirstSeq ==
    ASSUME NEW S, NEW s \in Seq(S), NEW e
    PROVE  RemoveFirst(s, e) \in Seq(S)
<1>1. CASE ~ \E i \in 1..Len(s) : s[i] = e
  BY <1>1 DEF RemoveFirst
<1>2. CASE \E i \in 1..Len(s) : s[i] = e
  <2> DEFINE I == {i \in 1..Len(s) : s[i] = e}
  <2>1. I \in SUBSET Nat /\ I # {}
    BY <1>2
  <2>2. \E n \in I : \A m \in I : n <= m
    BY <2>1, LeastNumber
  <2>3. Min(I) \in I
    BY <2>2 DEF Min
  <2>4. SelectInSeq(s, LAMBDA v : v = e) = Min(I)
    BY <2>1 DEF SelectInSeq
  <2>5. RemoveFirst(s, e) = RemoveAt(s, Min(I))
    BY <1>2, <2>4 DEF RemoveFirst
  <2>6. PICK i \in 1..Len(s) : i = Min(I)
    BY <2>3
  <2>7. SubSeq(s, 1, i - 1) \in Seq(S) /\ SubSeq(s, i + 1, Len(s)) \in Seq(S)
    BY SubSeqProperties
  <2> QED
    BY <2>5, <2>6, <2>7, ConcatProperties DEF RemoveAt
<1> QED
  BY <1>1, <1>2

\* None is no number, no hunt, no state and no status.
LEMMA NoneApart ==
    /\ None \notin Nat /\ None \notin Hunts
    /\ Hunts \in SUBSET Nat
    /\ None \notin Status /\ None \notin States
  BY HuntsAssumption DEF Hunts

\* The pc tells which kind of call a record is.
LEMMA CallShape ==
    ASSUME NEW r \in CallRec
    PROVE  /\ r.pc \in EnqueuePcs => r \in EnqueueCall
           /\ r.pc \in ExecutePcs => r \in ExecuteCall
           /\ r.pc = "reuse" => r \in ReuseCall
           /\ r.pc \in {"find", "create"} => r \in FindCall
           /\ r.pc = "idle" => r = Idle
  BY DEF CallRec, IdleCall, FindCall, ReuseCall, EnqueueCall, ExecuteCall, EnqueuePcs,
         ExecutePcs, Idle

LEMMA IdleIsCall == Idle \in CallRec /\ Idle.pc = "idle"
  BY DEF CallRec, IdleCall, Idle

\* The lowest of some committed artifacts is one of them, and there is no other.
LEMMA LowestIs ==
    ASSUME ArtifactInv, NEW S \in SUBSET committed, S # {}
    PROVE  /\ Lowest(S) \in S
           /\ \A b \in S : seq[Lowest(S)] <= seq[b]
           /\ \A a \in S : (\A b \in S : seq[a] <= seq[b]) => a = Lowest(S)
<1>1. \A a \in S : a \in Artifacts /\ seq[a] \in Nat
  BY NoneApart DEF ArtifactInv, Number
<1> DEFINE N == {seq[a] : a \in S}
<1>2. N \in SUBSET Nat /\ N # {}
  BY <1>1
<1>3. PICK n \in N : \A m \in N : n <= m
  BY <1>2, LeastNumber
<1>4. PICK a \in S : seq[a] = n
  BY <1>3
<1>5. \A b \in S : seq[a] <= seq[b]
  BY <1>3, <1>4
<1>6. Lowest(S) \in S /\ \A b \in S : seq[Lowest(S)] <= seq[b]
  BY <1>5 DEF Lowest
<1>7. ASSUME NEW c \in S, \A b \in S : seq[c] <= seq[b] PROVE c = Lowest(S)
  <2>1. seq[c] = seq[Lowest(S)]
    BY <1>1, <1>6, <1>7
  <2> QED
    BY <2>1, <1>1, <1>6, NoneApart DEF ArtifactInv
<1> QED
  BY <1>6, <1>7

(***************************************************************************)
(* What every step leaves in place                                         *)
(***************************************************************************)
Grows ==
    /\ committed \subseteq committed'
    /\ \A a \in committed : seq'[a] = seq[a]
    /\ \A a \in Artifacts : cache[a] # None => cache'[a] = cache[a]
    /\ matches \subseteq matches'
    /\ active => active'
    /\ active => Uncovered' \subseteq Uncovered
    /\ \A h \in Hunts : state[h] # None => state'[h] # None
    /\ \A h \in Hunts : watermark[h] # None => watermark'[h] # None
    /\ \A h \in Hunts : Own(h)' => Own(h) \/ state[h] = None

LEMMA AboveStays ==
    ASSUME ArtifactInv, RowInv, Grows, NEW h \in Hunts, Own(h)', state[h] # None
    PROVE  /\ Own(h) /\ active
           /\ Uncovered' \subseteq Uncovered
           /\ \A wm : Above(wm) => Above(wm)'
<1>1. Own(h) /\ active /\ Uncovered' \subseteq Uncovered
  BY DEF RowInv, RowFits, Grows
<1>2. Uncovered \subseteq committed
  BY DEF Uncovered
<1> QED
  BY <1>1, <1>2 DEF Above, Grows

LEMMA LowestStays ==
    ASSUME ArtifactInv, ArtifactInv', Grows, NEW S \in SUBSET committed, S # {}
    PROVE  Lowest(S)' = Lowest(S)
<1>1. S \in SUBSET committed'
  BY DEF Grows
<1>2. \A a \in S : seq'[a] = seq[a]
  BY DEF Grows
<1>3. Lowest(S) \in S /\ \A b \in S : seq[Lowest(S)] <= seq[b]
  BY LowestIs
<1>4. \A a \in S : (\A b \in S : seq'[a] <= seq'[b]) => a = Lowest(S)'
  <2>1. (ArtifactInv /\ S \in SUBSET committed =>
           \A a \in S : (\A b \in S : seq[a] <= seq[b]) => a = Lowest(S))'
    BY LowestIs, PTL
  <2> QED
    BY <2>1, <1>1
<1> QED
  BY <1>2, <1>3, <1>4

\* What a call knows stays true whatever the others do.
LEMMA CallsStay ==
    ASSUME ArtifactInv, ArtifactInv', RowInv, Grows, NEW r \in CallRec, CallFits(r)
    PROVE  CallFits(r)'
<1>1. r.pc = "reuse" => state'[r.hunt] # None
  BY CallShape DEF CallFits, Grows, ReuseCall
<1>2. FindFits(r)'
  BY DEF CallFits, FindFits, Grows
<1>3. EnqueueFits(r)'
  <2> SUFFICES ASSUME r.pc \in EnqueuePcs PROVE EnqueueFits(r)'
    BY DEF EnqueueFits
  <2>1. r \in EnqueueCall /\ r.hunt \in Hunts
    BY CallShape DEF EnqueueCall
  <2>2. state[r.hunt] # None
    BY DEF CallFits, EnqueueFits
  <2>3. Own(r.hunt)' => Own(r.hunt) /\ \A wm : Above(wm) => Above(wm)'
    BY <2>1, <2>2, AboveStays
  <2> QED
    BY <2>1, <2>2, <2>3 DEF CallFits, EnqueueFits, Grows
<1>4. ExecuteFits(r)'
  <2> SUFFICES ASSUME r.pc \in ExecutePcs PROVE ExecuteFits(r)'
    BY DEF ExecuteFits
  <2>1. r \in ExecuteCall /\ r.hunt \in Hunts
    BY CallShape DEF ExecuteCall
  <2>2. state[r.hunt] # None
    BY DEF CallFits, ExecuteFits
  <2>3. Own(r.hunt)' => Own(r.hunt) /\ \A wm : Above(wm) => Above(wm)'
    BY <2>1, <2>2, AboveStays
  <2> QED
    BY <2>1, <2>2, <2>3 DEF CallFits, ExecuteFits, Grows
<1>5. ScanFits(r)'
  <2> SUFFICES ASSUME r.pc \in Scanning PROVE ScanFits(r)'
    BY DEF ScanFits
  <2>0. r.pc \in ExecutePcs
    BY DEF Scanning, ExecutePcs
  <2>1. r \in ExecuteCall /\ r.hunt \in Hunts /\ r.sel \subseteq committed /\ r.todo \subseteq r.sel
    BY <2>0, CallShape DEF ExecuteCall, CallFits, ScanFits
  <2>2. state[r.hunt] # None
    BY <2>0 DEF CallFits, ExecuteFits
  <2>3. Own(r.hunt)' => Own(r.hunt) /\ Uncovered' \subseteq Uncovered
    BY <2>1, <2>2, AboveStays
  <2>4. r.pc = "match" => cache'[Lowest(r.todo)'] # None
    <3> SUFFICES ASSUME r.pc = "match" PROVE cache'[Lowest(r.todo)'] # None
      OBVIOUS
    <3>1. r.todo # {} /\ cache[Lowest(r.todo)] # None
      BY DEF CallFits, ScanFits
    <3>2. Lowest(r.todo)' = Lowest(r.todo) /\ Lowest(r.todo) \in r.todo
      BY <2>1, <3>1, LowestStays, LowestIs
    <3>3. Lowest(r.todo) \in Artifacts
      BY <3>2, <2>1 DEF ArtifactInv
    <3> QED
      BY <3>1, <3>2, <3>3 DEF Grows
  <2>5. r.sel \subseteq committed'
    BY <2>1 DEF Grows
  <2>6. r.partial \/ \A a \in (r.sel \ r.todo) \cap Matching : <<r.hunt, a>> \in matches'
    BY DEF CallFits, ScanFits, Grows
  <2>7. Own(r.hunt)' => Uncovered' \subseteq r.todo
    BY <2>3 DEF CallFits, ScanFits
  <2> QED
    BY <2>1, <2>4, <2>5, <2>6, <2>7 DEF CallFits, ScanFits
<1> QED
  BY <1>1, <1>2, <1>3, <1>4, <1>5 DEF CallFits

\* A row whose state is not set to a final one keeps what it says.
LEMMA RowStays ==
    ASSUME ArtifactInv, RowInv, Grows, NEW h \in Hunts, state[h] # None,
           \/ state'[h] = state[h] /\ covered'[h] = covered[h]
           \/ state'[h] \in States \ {"COMPLETED", "COMPLETED_PARTIAL"},
           watermark'[h] = watermark[h]
    PROVE  RowFits(h)'
<1>1. state'[h] # None
  BY DEF Grows
<1>2. Own(h)' => Own(h) /\ active /\ Uncovered' \subseteq Uncovered
                 /\ \A wm : Above(wm) => Above(wm)'
  BY AboveStays
<1>3. RowFits(h)
  BY DEF RowInv
<1>4. active => active'
  BY DEF Grows
<1>5. state'[h] = "COMPLETED" => \A a \in covered'[h] \cap Matching : <<h, a>> \in matches'
  BY <1>3 DEF RowFits, Grows
<1>6. Own(h)' => /\ active'
                 /\ watermark'[h] # None => Above(watermark[h])'
                 /\ state'[h] \in {"COMPLETED", "COMPLETED_PARTIAL"} => Uncovered' = {}
  BY <1>2, <1>3, <1>4 DEF RowFits
<1> QED
  BY <1>1, <1>5, <1>6 DEF RowFits

LEMMA RowKept ==
    ASSUME ArtifactInv, RowInv, Grows, NEW h \in Hunts, Own(h)' => Own(h),
           state'[h] = state[h], covered'[h] = covered[h], watermark'[h] = watermark[h]
    PROVE  RowFits(h)'
<1>1. CASE state[h] = None
  <2>1. watermark[h] = None /\ ~Own(h)
    BY <1>1 DEF RowInv, RowFits
  <2> QED
    BY <1>1, <2>1, NoneApart DEF RowFits, States, Terminal
<1>2. CASE state[h] # None
  BY <1>2, RowStays
<1> QED
  BY <1>1, <1>2

(***************************************************************************)
(* finalize and forward_scan                                               *)
(***************************************************************************)
\* Steps that leave the hunts and the calls on them alone.
LEMMA ForwardStep ==
    ASSUME HuntsInv, ArtifactInv', CacheInv',
           committed \subseteq committed', \A a \in committed : seq'[a] = seq[a],
           \A a \in Artifacts : cache[a] # None => cache'[a] = cache[a],
           matches \subseteq matches', lost \subseteq lost',
           active => Uncovered' \subseteq Uncovered,
           UNCHANGED <<active, state, watermark, job, queue, reanalysis, proc, covered, raced>>
    PROVE  HuntsInv'
<1>1. ArtifactInv /\ RowInv /\ CallInv /\ HoldInv
  BY DEF HuntsInv
<1>2. \A h \in Hunts : Own(h)' => Own(h)
  BY DEF Own
<1>3. Grows
  BY <1>2 DEF Grows
<1>4. \A h \in Hunts : RowFits(h)'
  BY <1>1, <1>2, <1>3, RowKept
<1>5. Planned' = Planned
  BY DEF Planned
<1>6. RowInv'
  BY <1>1, <1>4, <1>5 DEF RowInv
<1>7. \A p \in Procs : CallFits(proc[p])'
  <2> TAKE p \in Procs
  <2>1. PICK r \in CallRec : r = proc[p]
    BY <1>1 DEF CallInv
  <2>2. CallFits(r)'
    BY <1>1, <1>3, <2>1, CallsStay DEF CallInv
  <2>3. proc'[p] = r
    BY <2>1
  <2> QED
    BY <2>2, <2>3
<1>8. CallInv'
  BY <1>1, <1>7 DEF CallInv
<1>9. HoldInv'
  BY <1>1 DEF HoldInv, HoldFits
<1> QED
  BY <1>6, <1>8, <1>9 DEF HuntsInv

LEMMA FinalizeInsertStep ==
    ASSUME HuntsInv, NEW f \in Finalizers, FinalizeInsert(f)
    PROVE  HuntsInv'
<1>1. ArtifactInv /\ CacheInv
  BY DEF HuntsInv
<1>2. PICK a \in Artifacts : a = Target[f]
  BY HuntsAssumption
<1>3. fin[f] = "insert" /\ fin' = [fin EXCEPT ![f] = "commit"]
  BY DEF FinalizeInsert
<1>4. \A g \in Finalizers : fin'[g] = IF g = f THEN "commit" ELSE fin[g]
  BY <1>1, <1>3 DEF ArtifactInv
<1>5. fin' \in [Finalizers -> FinPcs]
  BY <1>1, <1>3 DEF ArtifactInv, FinPcs
<1>6. committed' = committed /\ cache' = cache /\ lost' = lost
      /\ UNCHANGED <<active, state, watermark, job, queue, matches, reanalysis, proc, covered, raced>>
  BY DEF FinalizeInsert, huntRows, history
<1>7. ArtifactInv' /\ \A b \in committed : seq'[b] = seq[b]
  <2>1. CASE a \in committed /\ UNCHANGED <<seq, nextSeq>>
    BY <1>1, <1>2, <1>4, <1>5, <1>6, <2>1 DEF ArtifactInv
  <2>2. CASE seq[a] = None /\ seq' = [seq EXCEPT ![a] = nextSeq] /\ nextSeq' = nextSeq + 1
    <3>1. nextSeq \in Nat /\ nextSeq # None
      BY <1>1, NoneApart DEF ArtifactInv
    <3>2. \A b \in Artifacts : seq'[b] = IF b = a THEN nextSeq ELSE seq[b]
      BY <1>1, <2>2 DEF ArtifactInv
    <3>3. seq' \in [Artifacts -> Number] /\ nextSeq' \in Nat
      BY <1>1, <2>2, <3>1 DEF ArtifactInv, Number
    <3>4. a \notin committed /\ committed \subseteq Artifacts
      BY <1>1, <2>2 DEF ArtifactInv
    <3>5. \A b \in Artifacts : seq[b] # None => seq[b] \in Nat /\ seq[b] < nextSeq
      BY <1>1 DEF ArtifactInv, Number
    <3>6. \A b \in Artifacts : seq'[b] # None => seq'[b] < nextSeq'
      BY <2>2, <3>1, <3>2, <3>5
    <3>7. \A b, c \in Artifacts : seq'[b] = seq'[c] /\ seq'[b] # None => b = c
      BY <1>1, <3>1, <3>2, <3>5 DEF ArtifactInv
    <3>8. \A g \in Finalizers : fin'[g] = "commit" => seq'[Target[g]] # None
      BY <1>1, <1>2, <1>4, <3>1, <3>2, HuntsAssumption DEF ArtifactInv
    <3>9. \A g, k \in Finalizers :
            fin'[g] = "commit" /\ fin'[k] = "commit" /\ Target[g] = Target[k] /\ g # k
              => Target[g] \in committed'
      BY <1>1, <1>2, <1>4, <1>6, <2>2 DEF ArtifactInv
    <3> QED
      BY <1>1, <1>5, <1>6, <3>1, <3>2, <3>3, <3>4, <3>6, <3>7, <3>8, <3>9 DEF ArtifactInv
  <2> QED
    BY <1>2, <2>1, <2>2 DEF FinalizeInsert
<1>8. Uncovered' \subseteq Uncovered
  BY <1>3, <1>4, <1>6 DEF Uncovered, Forwarding
<1>9. CacheInv'
  BY <1>1, <1>6 DEF CacheInv
<1> QED
  BY <1>6, <1>7, <1>8, <1>9, ForwardStep

LEMMA FinalizeCommitStep ==
    ASSUME HuntsInv, NEW f \in Finalizers, FinalizeCommit(f)
    PROVE  HuntsInv'
<1>1. ArtifactInv /\ CacheInv
  BY DEF HuntsInv
<1>2. Target[f] \in Artifacts
  BY HuntsAssumption
<1>3. fin[f] = "commit" /\ fin' = [fin EXCEPT ![f] = "bundles"]
  BY DEF FinalizeCommit
<1>4. \A g \in Finalizers : fin'[g] = IF g = f THEN "bundles" ELSE fin[g]
  BY <1>1, <1>3 DEF ArtifactInv
<1>5. fin' \in [Finalizers -> FinPcs]
  BY <1>1, <1>3 DEF ArtifactInv, FinPcs
<1>6. committed' = committed \cup {Target[f]} /\ UNCHANGED <<seq, nextSeq, cache, lost>>
      /\ UNCHANGED <<active, state, watermark, job, queue, matches, reanalysis, proc, covered, raced>>
  BY DEF FinalizeCommit, huntRows, history
<1>7. ArtifactInv'
  BY <1>1, <1>2, <1>3, <1>4, <1>5, <1>6 DEF ArtifactInv
<1>8. Uncovered' \subseteq Uncovered
  <2> SUFFICES ASSUME NEW a \in Uncovered' PROVE a \in Uncovered
    OBVIOUS
  <2>1. a # Target[f]
    BY <1>4 DEF Uncovered, Forwarding
  <2>2. \A g \in Finalizers : Target[g] = a => fin'[g] = fin[g]
    BY <1>4, <2>1
  <2> QED
    BY <1>6, <2>1, <2>2 DEF Uncovered
<1>9. CacheInv'
  BY <1>1, <1>6 DEF CacheInv
<1> QED
  BY <1>6, <1>7, <1>8, <1>9, ForwardStep

\* A forward scan moves on; the artifact rows stay.
LEMMA ForwardPc ==
    ASSUME ArtifactInv, NEW f \in Finalizers, NEW pc \in FinPcs \ {"commit"},
           fin' = [fin EXCEPT ![f] = pc], UNCHANGED <<seq, committed, nextSeq>>
    PROVE  /\ ArtifactInv'
           /\ \A g \in Finalizers : fin'[g] = IF g = f THEN pc ELSE fin[g]
<1>1. \A g \in Finalizers : fin'[g] = IF g = f THEN pc ELSE fin[g]
  BY DEF ArtifactInv
<1>2. fin' \in [Finalizers -> FinPcs]
  BY DEF ArtifactInv
<1>3. \A g \in Finalizers : fin'[g] = "commit" => fin[g] = "commit"
  BY <1>1
<1> QED
  BY <1>1, <1>2, <1>3 DEF ArtifactInv

LEMMA ForwardBundlesStep ==
    ASSUME HuntsInv, NEW f \in Finalizers, ForwardBundles(f)
    PROVE  HuntsInv'
<1>1. ArtifactInv /\ CacheInv
  BY DEF HuntsInv
<1>2. PICK pc \in FinPcs \ {"commit"} : pc = IF active THEN "lookup" ELSE "done"
  BY DEF FinPcs
<1>3. fin' = [fin EXCEPT ![f] = pc] /\ UNCHANGED <<seq, committed, nextSeq, cache, matches, lost>>
      /\ UNCHANGED <<active, state, watermark, job, queue, reanalysis, proc, covered, raced>>
  BY <1>2 DEF ForwardBundles, artifacts, huntRows, history
<1>4. ArtifactInv' /\ \A g \in Finalizers : fin'[g] = IF g = f THEN pc ELSE fin[g]
  BY <1>1, <1>3, ForwardPc
<1>5. active => Uncovered' \subseteq Uncovered
  BY <1>2, <1>3, <1>4 DEF Uncovered, Forwarding
<1>6. CacheInv'
  BY <1>1, <1>3 DEF CacheInv
<1> QED
  BY <1>3, <1>4, <1>5, <1>6, ForwardStep

LEMMA ForwardLookupStep ==
    ASSUME HuntsInv, NEW f \in Finalizers, ForwardLookup(f)
    PROVE  HuntsInv'
<1>1. ArtifactInv /\ CacheInv
  BY DEF HuntsInv
<1>2. PICK pc \in FinPcs \ {"commit"} : pc = IF cache[Target[f]] # None THEN "done" ELSE "scan"
  BY DEF FinPcs
<1>3. fin' = [fin EXCEPT ![f] = pc] /\ UNCHANGED <<seq, committed, nextSeq, cache, matches, lost>>
      /\ UNCHANGED <<active, state, watermark, job, queue, reanalysis, proc, covered, raced>>
  BY <1>2 DEF ForwardLookup, artifacts, huntRows, history
<1>4. ArtifactInv' /\ \A g \in Finalizers : fin'[g] = IF g = f THEN pc ELSE fin[g]
  BY <1>1, <1>3, ForwardPc
<1>5. Uncovered' \subseteq Uncovered
  BY <1>2, <1>3, <1>4 DEF Uncovered, Forwarding
<1>6. CacheInv'
  BY <1>1, <1>3 DEF CacheInv
<1> QED
  BY <1>3, <1>4, <1>5, <1>6, ForwardStep

\* A scan's outcome goes to the cache unless there is one already.
LEMMA CommitCache ==
    ASSUME CacheInv, NEW a \in Artifacts, NEW status \in Outcomes(a),
           commit_cache_entry(a, status)
    PROVE  /\ CacheInv'
           /\ cache'[a] # None
           /\ \A b \in Artifacts : cache[b] # None => cache'[b] = cache[b]
           /\ \A b \in Artifacts : cache'[b] = None => cache[b] = None
<1>1. status \in Status /\ status # None /\ (status = "clean" => a \notin Matching)
  BY NoneApart DEF Outcomes, Status
<1>2. CASE cache[a] # None
  BY <1>2 DEF commit_cache_entry, CacheInv
<1>3. CASE cache[a] = None
  <2>1. cache' = [cache EXCEPT ![a] = status]
    BY <1>3 DEF commit_cache_entry
  <2>2. \A b \in Artifacts : cache'[b] = IF b = a THEN status ELSE cache[b]
    BY <2>1 DEF CacheInv
  <2>3. cache' \in [Artifacts -> Status \cup {None}]
    BY <1>1, <2>1 DEF CacheInv
  <2>4. \A b \in Artifacts : cache'[b] = "clean" => b \notin Matching
    BY <1>1, <2>2 DEF CacheInv
  <2> QED
    BY <1>1, <1>3, <2>2, <2>3, <2>4 DEF CacheInv
<1> QED
  BY <1>2, <1>3

LEMMA ForwardScanStep ==
    ASSUME HuntsInv, NEW f \in Finalizers, ForwardScan(f)
    PROVE  HuntsInv'
<1>1. ArtifactInv /\ CacheInv
  BY DEF HuntsInv
<1>a. PICK a \in Artifacts : a = Target[f]
  BY HuntsAssumption
<1>2. PICK status \in Outcomes(a) :
        /\ commit_cache_entry(a, status)
        /\ fin' = [fin EXCEPT ![f] = IF status = "matched" THEN "match" ELSE "done"]
  BY <1>a DEF ForwardScan
<1>3. PICK pc \in FinPcs \ {"commit"} : pc = IF status = "matched" THEN "match" ELSE "done"
  BY DEF FinPcs
<1>4. fin' = [fin EXCEPT ![f] = pc] /\ UNCHANGED <<seq, committed, nextSeq, matches, lost>>
      /\ UNCHANGED <<active, state, watermark, job, queue, reanalysis, proc, covered, raced>>
  BY <1>2, <1>3 DEF ForwardScan, artifacts, huntRows, history
<1>5. ArtifactInv' /\ \A g \in Finalizers : fin'[g] = IF g = f THEN pc ELSE fin[g]
  BY <1>1, <1>4, ForwardPc
<1>6. /\ CacheInv'
      /\ cache'[a] # None
      /\ \A b \in Artifacts : cache[b] # None => cache'[b] = cache[b]
      /\ \A b \in Artifacts : cache'[b] = None => cache[b] = None
  BY <1>1, <1>2, CommitCache
<1>7. Uncovered' \subseteq Uncovered
  <2> SUFFICES ASSUME NEW b \in Uncovered' PROVE b \in Uncovered
    OBVIOUS
  <2>1. b \in Artifacts /\ b # a
    BY <1>1, <1>4, <1>6 DEF Uncovered, ArtifactInv
  <2>2. \A g \in Finalizers : Target[g] = b => fin'[g] = fin[g]
    BY <1>5, <1>a, <2>1
  <2> QED
    BY <1>4, <1>6, <2>1, <2>2 DEF Uncovered
<1> QED
  BY <1>4, <1>5, <1>6, <1>7, ForwardStep

LEMMA ForwardMatchStep ==
    ASSUME HuntsInv, NEW f \in Finalizers, ForwardMatch(f)
    PROVE  HuntsInv'
<1>1. ArtifactInv /\ CacheInv
  BY DEF HuntsInv
<1>2. "done" \in FinPcs \ {"commit"}
  BY DEF FinPcs
<1>3. /\ fin[f] = "match" /\ fin' = [fin EXCEPT ![f] = "done"]
      /\ UNCHANGED <<seq, committed, nextSeq, cache, lost>> /\ matches \subseteq matches'
      /\ UNCHANGED <<active, state, watermark, job, queue, reanalysis, proc, covered, raced>>
  BY DEF ForwardMatch, commit_match, artifacts, history
<1>4. ArtifactInv' /\ \A g \in Finalizers : fin'[g] = IF g = f THEN "done" ELSE fin[g]
  BY <1>1, <1>2, <1>3, ForwardPc
<1>5. Uncovered' \subseteq Uncovered
  BY <1>3, <1>4 DEF Uncovered, Forwarding
<1>6. CacheInv'
  BY <1>1, <1>3 DEF CacheInv
<1> QED
  BY <1>3, <1>4, <1>5, <1>6, ForwardStep

LEMMA FinalizeAbortStep ==
    ASSUME HuntsInv, NEW f \in Finalizers, FinalizeAbort(f)
    PROVE  HuntsInv'
<1>1. ArtifactInv /\ CacheInv
  BY DEF HuntsInv
<1>2. Target[f] \in Artifacts
  BY HuntsAssumption
<1>3. /\ fin' = [fin EXCEPT ![f] = "done"] /\ lost' = lost \cup {Target[f]}
      /\ seq' = IF fin[f] = "commit" /\ Target[f] \notin committed
                THEN [seq EXCEPT ![Target[f]] = None] ELSE seq
      /\ UNCHANGED <<committed, nextSeq, cache, matches>>
      /\ UNCHANGED <<active, state, watermark, job, queue, reanalysis, proc, covered, raced>>
  BY DEF FinalizeAbort, huntRows
<1>4. \A g \in Finalizers : fin'[g] = IF g = f THEN "done" ELSE fin[g]
  BY <1>1, <1>3 DEF ArtifactInv
<1>5. fin' \in [Finalizers -> FinPcs]
  BY <1>1, <1>3 DEF ArtifactInv, FinPcs
<1>6. ArtifactInv' /\ \A b \in committed : seq'[b] = seq[b]
  <2>1. CASE ~(fin[f] = "commit" /\ Target[f] \notin committed)
    BY <1>1, <1>3, <1>4, <1>5, <2>1 DEF ArtifactInv
  <2>2. CASE fin[f] = "commit" /\ Target[f] \notin committed
    <3>1. \A b \in Artifacts : seq'[b] = IF b = Target[f] THEN None ELSE seq[b]
      BY <1>1, <1>3, <2>2 DEF ArtifactInv
    <3>2. seq' \in [Artifacts -> Number]
      BY <1>1, <1>3, <2>2 DEF ArtifactInv, Number
    <3>3. \A g \in Finalizers : fin'[g] = "commit" => seq'[Target[g]] # None
      BY <1>1, <1>2, <1>4, <2>2, <3>1, HuntsAssumption DEF ArtifactInv
    <3>4. \A b \in committed : b \in Artifacts /\ seq'[b] = seq[b]
      BY <1>1, <2>2, <3>1 DEF ArtifactInv
    <3> QED
      BY <1>1, <1>3, <1>4, <1>5, <3>1, <3>2, <3>3, <3>4 DEF ArtifactInv
  <2> QED
    BY <2>1, <2>2
<1>7. Uncovered' \subseteq Uncovered
  BY <1>3, <1>4 DEF Uncovered
<1>8. CacheInv'
  BY <1>1, <1>3 DEF CacheInv
<1> QED
  BY <1>3, <1>6, <1>7, <1>8, ForwardStep

(***************************************************************************)
(* Steps of API calls and workers                                          *)
(***************************************************************************)
\* Call p goes on as v and touches no row but that of hunt h.
RowTypes ==
    /\ state \in [Hunts -> States \cup {None}]
    /\ watermark \in [Hunts -> Number]
    /\ job \in [Hunts -> {"none", "pending", "claimed", "finished"}]
    /\ queue \in Seq(Planned)
    /\ covered \in [Hunts -> SUBSET Artifacts]
    /\ active \in BOOLEAN
Apart(r, h) == \A g \in Hunts \ {h} : ~Past(r, g) /\ ~Runs(r, g)
CallStep(p, v, h) ==
    /\ proc' = [proc EXCEPT ![p] = v]
    /\ UNCHANGED <<seq, committed, nextSeq, fin>>
    /\ CacheInv'
    /\ \A a \in Artifacts : cache[a] # None => cache'[a] = cache[a]
    /\ matches \subseteq matches' /\ lost \subseteq lost' /\ raced \subseteq raced'
    /\ active => active'
    /\ RowTypes'
    /\ \A g \in Hunts \ {h} :
          /\ state'[g] = state[g] /\ watermark'[g] = watermark[g]
          /\ job'[g] = job[g] /\ covered'[g] = covered[g]
          /\ Own(g)' => Own(g)
    /\ Apart(proc[p], h) /\ Apart(v, h)
    /\ h \in Hunts => /\ state[h] # None => state'[h] # None
                      /\ watermark[h] # None => watermark'[h] # None
                      /\ Own(h)' => Own(h) \/ state[h] = None

LEMMA CallGrows ==
    ASSUME HuntsInv, NEW p \in Procs, NEW v \in CallRec, NEW h, CallStep(p, v, h)
    PROVE  /\ ArtifactInv' /\ Grows
           /\ \A r \in CallRec : CallFits(r) => CallFits(r)'
           /\ proc[p] \in CallRec /\ CallFits(proc[p])
<1>1. ArtifactInv /\ RowInv /\ CallInv
  BY DEF HuntsInv
<1>2. ArtifactInv'
  BY <1>1 DEF ArtifactInv, CallStep
<1>3. \A a \in Artifacts : cache'[a] = None => cache[a] = None
  BY DEF CallStep
<1>4. Uncovered' \subseteq Uncovered
  <2> SUFFICES ASSUME NEW a \in Uncovered' PROVE a \in Uncovered
    OBVIOUS
  <2>1. committed' = committed /\ fin' = fin /\ lost \subseteq lost'
    BY DEF CallStep
  <2>2. a \in Artifacts
    BY <1>1, <2>1 DEF Uncovered, ArtifactInv
  <2> QED
    BY <1>3, <2>1, <2>2 DEF Uncovered
<1>5. Grows
  BY <1>4 DEF Grows, CallStep
<1>6. \A r \in CallRec : CallFits(r) => CallFits(r)'
  BY <1>1, <1>2, <1>5, CallsStay
<1> QED
  BY <1>1, <1>2, <1>5, <1>6 DEF CallInv

LEMMA CallStepKeeps ==
    ASSUME HuntsInv, NEW p \in Procs, NEW v \in CallRec, NEW h, CallStep(p, v, h),
           CallFits(v)', h \in Hunts => RowFits(h)' /\ HoldFits(h)'
    PROVE  HuntsInv'
<1>1. ArtifactInv /\ RowInv /\ CallInv /\ HoldInv
  BY DEF HuntsInv
<1>2. ArtifactInv' /\ Grows /\ \A r \in CallRec : CallFits(r) => CallFits(r)'
  BY CallGrows
<1>3. proc'[p] = v /\ (\A q \in Procs \ {p} : proc'[q] = proc[q]) /\ proc' \in [Procs -> CallRec]
  BY <1>1 DEF CallInv, CallStep
<1>4. \A q \in Procs : CallFits(proc[q])'
  <2> TAKE q \in Procs
  <2>1. CASE q = p
    BY <1>3, <2>1
  <2>2. CASE q # p
    <3>1. PICK r \in CallRec : r = proc[q] /\ CallFits(r)
      BY <1>1 DEF CallInv
    <3>2. CallFits(r)' /\ proc'[q] = r
      BY <1>2, <1>3, <2>2, <3>1
    <3> QED
      BY <3>2
  <2> QED
    BY <2>1, <2>2
<1>5. CallInv'
  BY <1>3, <1>4 DEF CallInv
<1>6. \A g \in Hunts : RowFits(g)'
  <2> TAKE g \in Hunts
  <2>1. CASE g = h
    BY <2>1
  <2>2. CASE g # h
    BY <1>1, <1>2, <2>2, RowKept DEF CallStep
  <2> QED
    BY <2>1, <2>2
<1>7. RowInv'
  BY <1>6 DEF RowInv, CallStep, RowTypes
<1>8. \A g \in Hunts : HoldFits(g)'
  <2> TAKE g \in Hunts
  <2>1. CASE g = h
    BY <2>1
  <2>2. CASE g # h
    <3>1. ~Past(proc[p], g) /\ ~Runs(proc[p], g) /\ ~Past(v, g) /\ ~Runs(v, g)
      BY <2>2 DEF CallStep, Apart
    <3>2. state'[g] = state[g] /\ job'[g] = job[g] /\ lost \subseteq lost' /\ raced \subseteq raced'
      BY <2>2 DEF CallStep
    <3>3. \A q \in Procs : /\ Past(proc'[q], g) <=> Past(proc[q], g)
                           /\ Runs(proc'[q], g) <=> Runs(proc[q], g)
                           /\ Runs(proc[q], g) => proc'[q] = proc[q]
      BY <1>3, <3>1
    <3>4. \A q \in Procs : Keeps(proc[q], g) => Keeps(proc'[q], g)
      BY <3>3 DEF Keeps
    <3>5. HoldFits(g)
      BY <1>1 DEF HoldInv
    <3> QED
      BY <3>2, <3>3, <3>4, <3>5 DEF HoldFits
  <2> QED
    BY <2>1, <2>2
<1> QED
  BY <1>2, <1>5, <1>7, <1>8 DEF HuntsInv, HoldInv, CallStep

\* A step that changes no record of an activation changes no activation's hunt.
LEMMA OwnStays ==
    ASSUME CallInv, NEW p \in Procs, NEW v, proc' = [proc EXCEPT ![p] = v],
           reanalysis' = reanalysis,
           v.pc \in EnqueuePcs /\ v.then = "enqueued" =>
              proc[p].pc \in EnqueuePcs /\ proc[p].then = "enqueued" /\ proc[p].hunt = v.hunt
    PROVE  \A g \in Hunts : Own(g)' => Own(g)
<1>1. proc'[p] = v /\ \A q \in Procs \ {p} : proc'[q] = proc[q]
  BY DEF CallInv
<1> QED
  BY <1>1 DEF Own

\* Only the call moves.
LEMMA QuietStep ==
    ASSUME HuntsInv, NEW p \in Procs, NEW v \in CallRec, NEW h,
           proc' = [proc EXCEPT ![p] = v],
           UNCHANGED <<seq, committed, nextSeq, active, cache, fin, covered>>,
           UNCHANGED <<state, watermark, job, queue, matches, reanalysis>>,
           lost \subseteq lost', raced \subseteq raced',
           Apart(proc[p], h), Apart(v, h),
           v.pc \in EnqueuePcs /\ v.then = "enqueued" =>
              proc[p].pc \in EnqueuePcs /\ proc[p].then = "enqueued" /\ proc[p].hunt = v.hunt
    PROVE  /\ CallStep(p, v, h)
           /\ h \in Hunts => RowFits(h)'
<1>1. ArtifactInv /\ CacheInv /\ RowInv /\ CallInv
  BY DEF HuntsInv
<1>2. \A g \in Hunts : Own(g)' => Own(g)
  BY <1>1, OwnStays
<1>3. Planned' = Planned
  BY DEF Planned
<1>4. RowTypes'
  BY <1>1, <1>3 DEF RowInv, RowTypes
<1>5. CacheInv'
  BY <1>1 DEF CacheInv
<1>6. CallStep(p, v, h)
  BY <1>2, <1>4, <1>5 DEF CallStep
<1>7. Grows
  BY <1>6, CallGrows
<1> QED
  BY <1>1, <1>2, <1>6, <1>7, RowKept

\* The call moves and the hunt's state, its job and the queue may change.
LEMMA RowStep ==
    ASSUME HuntsInv, NEW p \in Procs, NEW v \in CallRec, NEW h \in Hunts, state[h] # None,
           proc' = [proc EXCEPT ![p] = v],
           UNCHANGED <<seq, committed, nextSeq, active, cache, fin, covered>>,
           UNCHANGED <<watermark, matches, reanalysis, lost>>,
           NEW s \in States, s \in {"COMPLETED", "COMPLETED_PARTIAL"} => s = state[h],
           state' = [state EXCEPT ![h] = s],
           NEW j \in {"none", "pending", "claimed", "finished"}, job' = [job EXCEPT ![h] = j],
           queue' \in Seq(Planned), raced \subseteq raced',
           Apart(proc[p], h), Apart(v, h),
           v.pc \in EnqueuePcs /\ v.then = "enqueued" =>
              proc[p].pc \in EnqueuePcs /\ proc[p].then = "enqueued" /\ proc[p].hunt = v.hunt
    PROVE  /\ CallStep(p, v, h)
           /\ RowFits(h)'
           /\ state'[h] = s /\ job'[h] = j
<1>1. ArtifactInv /\ CacheInv /\ RowInv /\ CallInv
  BY DEF HuntsInv
<1>2. \A g \in Hunts : Own(g)' => Own(g)
  BY <1>1, OwnStays
<1>3. Planned' = Planned
  BY DEF Planned
<1>4. /\ state' \in [Hunts -> States \cup {None}]
      /\ job' \in [Hunts -> {"none", "pending", "claimed", "finished"}]
      /\ state'[h] = s /\ job'[h] = j
      /\ \A g \in Hunts \ {h} : state'[g] = state[g] /\ job'[g] = job[g]
  BY <1>1 DEF RowInv
<1>5. RowTypes'
  BY <1>1, <1>3, <1>4 DEF RowInv, RowTypes
<1>6. CacheInv'
  BY <1>1 DEF CacheInv
<1>7. s # None
  BY NoneApart
<1>8. CallStep(p, v, h)
  BY <1>2, <1>4, <1>5, <1>6, <1>7 DEF CallStep
<1>9. Grows
  BY <1>8, CallGrows
<1> QED
  BY <1>1, <1>4, <1>8, <1>9, RowStays

\* An enqueue call gets a new pc.
LEMMA EnqueueGoto ==
    ASSUME CallInv, NEW c \in Procs, proc[c].pc \in EnqueuePcs, NEW q \in EnqueuePcs, Goto(c, q)
    PROVE  /\ proc[c] \in EnqueueCall
           /\ \E v \in EnqueueCall :
                /\ v.pc = q /\ v.hunt = proc[c].hunt /\ v.wm = proc[c].wm /\ v.then = proc[c].then
                /\ proc' = [proc EXCEPT ![c] = v]
<1>1. proc[c] \in EnqueueCall
  BY CallShape DEF CallInv
<1> DEFINE v == [proc[c] EXCEPT !.pc = q]
<1>2. v \in EnqueueCall /\ v.pc = q /\ v.hunt = proc[c].hunt /\ v.wm = proc[c].wm /\ v.then = proc[c].then
  BY <1>1 DEF EnqueueCall
<1>3. proc' = [proc EXCEPT ![c] = v]
  BY DEF Goto
<1> QED
  BY <1>1, <1>2, <1>3

LEMMA EnqueueApart ==
    ASSUME NEW r \in EnqueueCall
    PROVE  r \in CallRec /\ r.hunt \in Hunts /\ Apart(r, r.hunt) /\ \A h : ~Runs(r, h)
  BY DEF EnqueueCall, CallRec, Apart, Past, Runs, EnqueuePcs, ExecutePcs

\* A call past the check goes on with the hunt.
LEMMA HoldPast ==
    ASSUME CallInv, HoldInv, NEW c \in Procs, NEW h \in Hunts, NEW v \in EnqueueCall,
           proc[c] \in EnqueueCall, Past(proc[c], h), Past(v, h),
           proc' = [proc EXCEPT ![c] = v], job'[h] = job[h], raced \subseteq raced'
    PROVE  HoldFits(h)'
<1>1. proc'[c] = v /\ \A q \in Procs \ {c} : proc'[q] = proc[q]
  BY DEF CallInv
<1>2. ~Runs(v, h) /\ ~Runs(proc[c], h)
  BY EnqueueApart
<1>3. HoldFits(h)
  BY DEF HoldInv
<1>4. Keeps(proc'[c], h)
  BY <1>1 DEF Keeps
<1>5. \A q \in Procs : (Past(proc'[q], h) <=> Past(proc[q], h)) /\ (Runs(proc'[q], h) <=> Runs(proc[q], h))
  BY <1>1, <1>2
<1>6. \A q \in Procs : Runs(proc'[q], h) => proc'[q] = proc[q]
  BY <1>1, <1>2
<1> QED
  BY <1>3, <1>4, <1>5, <1>6 DEF HoldFits

LEMMA FitsEnqueue ==
    ASSUME NEW v \in EnqueueCall, EnqueueFits(v)' PROVE CallFits(v)'
<1>1. v.pc \in EnqueuePcs
  BY DEF EnqueueCall
<1> QED
  BY <1>1 DEF CallFits, FindFits, ExecuteFits, ScanFits, Scanning, EnqueuePcs, ExecutePcs

LEMMA FitsIdle == CallFits(Idle)' /\ (\A h : ~Past(Idle, h) /\ ~Runs(Idle, h)) /\ \A h : Apart(Idle, h)
  BY IdleIsCall DEF CallFits, FindFits, EnqueueFits, ExecuteFits, ScanFits, Scanning, EnqueuePcs,
                    ExecutePcs, Past, Runs, Apart

(***************************************************************************)
(* enqueue_hunt                                                            *)
(***************************************************************************)
LEMMA EnqueueStateStep ==
    ASSUME HuntsInv, NEW c \in Procs,
           NEW from \in EnqueuePcs \ {"check", "record"}, NEW to \in EnqueuePcs \ {"check", "record"},
           proc[c].pc = from, <<from, to>> \in {<<"validate", "watermark">>, <<"queue", "job">>},
           NEW s \in States \ {"COMPLETED", "COMPLETED_PARTIAL"},
           set_state(proc[c].hunt, s), Goto(c, to),
           UNCHANGED <<artifacts, active, cache, watermark, job, queue, matches, reanalysis,
                       fin, history>>
    PROVE  HuntsInv'
<1>1. ArtifactInv /\ RowInv /\ CallInv /\ HoldInv
  BY DEF HuntsInv
<1>2. proc[c] \in EnqueueCall
  BY <1>1, EnqueueGoto
<1>3. PICK v \in EnqueueCall :
        /\ v.pc = to /\ v.hunt = proc[c].hunt /\ v.wm = proc[c].wm /\ v.then = proc[c].then
        /\ proc' = [proc EXCEPT ![c] = v]
  BY <1>1, EnqueueGoto
<1>4. PICK h \in Hunts : h = proc[c].hunt
  BY <1>2, EnqueueApart
<1>5. CallFits(proc[c])
  BY <1>1 DEF CallInv
<1>6. state[h] # None
  BY <1>4, <1>5 DEF CallFits, EnqueueFits
<1>7. /\ state' = [state EXCEPT ![h] = s]
      /\ UNCHANGED <<seq, committed, nextSeq, active, cache, fin, covered>>
      /\ UNCHANGED <<watermark, job, queue, matches, reanalysis, lost, raced>>
  BY <1>4 DEF set_state, artifacts, history
<1>8. PICK j \in {"none", "pending", "claimed", "finished"} : j = job[h]
  BY <1>1 DEF RowInv
<1>9. job' = [job EXCEPT ![h] = j] /\ queue' \in Seq(Planned)
  BY <1>1, <1>7, <1>8 DEF RowInv
<1>10. v \in CallRec /\ Apart(v, h) /\ Apart(proc[c], h)
  BY <1>2, <1>3, <1>4, EnqueueApart
<1>11. CallStep(c, v, h) /\ RowFits(h)'
  BY <1>2, <1>3, <1>6, <1>7, <1>9, <1>10, RowStep DEF EnqueueCall
<1>12. PICK r \in EnqueueCall : r = proc[c] /\ CallFits(r)'
  BY <1>2, <1>5, <1>10, <1>11, CallGrows, EnqueueApart
<1>13. EnqueueFits(v)'
  BY <1>3, <1>12 DEF CallFits, EnqueueFits, EnqueueCall
<1>14. CallFits(v)'
  BY <1>13, FitsEnqueue
<1>15. HoldFits(h)'
  BY <1>1, <1>2, <1>3, <1>4, <1>7, HoldPast DEF Past
<1> QED
  BY <1>10, <1>11, <1>14, <1>15, CallStepKeeps

LEMMA EnqueueValidateStep ==
    ASSUME HuntsInv, NEW c \in Procs, EnqueueValidate(c)
    PROVE  HuntsInv'
  BY EnqueueStateStep DEF EnqueueValidate, EnqueuePcs, States, Terminal

LEMMA EnqueueQueueStep ==
    ASSUME HuntsInv, NEW c \in Procs, EnqueueQueue(c)
    PROVE  HuntsInv'
  BY EnqueueStateStep DEF EnqueueQueue, EnqueuePcs, States, Terminal

\* The call sets a final state that is not a completion, and returns.
LEMMA FailStep ==
    ASSUME HuntsInv, NEW p \in Procs, NEW h \in Hunts, state[h] # None,
           set_state(h, "FAILED"), Return(p), Apart(proc[p], h),
           UNCHANGED <<artifacts, active, cache, watermark, job, queue, matches, reanalysis,
                       fin, history>>
    PROVE  HuntsInv'
<1>1. ArtifactInv /\ RowInv /\ CallInv /\ HoldInv
  BY DEF HuntsInv
<1>2. proc' = [proc EXCEPT ![p] = Idle]
  BY DEF Return
<1>3. /\ state' = [state EXCEPT ![h] = "FAILED"]
      /\ UNCHANGED <<seq, committed, nextSeq, active, cache, fin, covered>>
      /\ UNCHANGED <<watermark, job, queue, matches, reanalysis, lost, raced>>
  BY DEF set_state, artifacts, history
<1>4. PICK j \in {"none", "pending", "claimed", "finished"} : j = job[h]
  BY <1>1 DEF RowInv
<1>5. job' = [job EXCEPT ![h] = j] /\ queue' \in Seq(Planned)
  BY <1>1, <1>3, <1>4 DEF RowInv
<1>6. "FAILED" \in States /\ "FAILED" \notin {"COMPLETED", "COMPLETED_PARTIAL"}
  BY DEF States, Terminal
<1>7. Idle.pc \notin EnqueuePcs /\ Idle \in CallRec /\ Apart(Idle, h)
  BY IdleIsCall, FitsIdle DEF EnqueuePcs
<1>8. CallStep(p, Idle, h) /\ RowFits(h)' /\ state'[h] = "FAILED"
  <2>1. PICK s \in States : s = "FAILED"
    BY <1>6
  <2>2. state' = [state EXCEPT ![h] = s] /\ s \notin {"COMPLETED", "COMPLETED_PARTIAL"}
    BY <1>3, <1>6, <2>1
  <2>3. PICK v \in CallRec : v = Idle
    BY <1>7
  <2>4. proc' = [proc EXCEPT ![p] = v] /\ v.pc \notin EnqueuePcs /\ Apart(v, h)
    BY <1>2, <1>7, <2>3
  <2>5. CallStep(p, v, h) /\ RowFits(h)' /\ state'[h] = s
    BY <1>3, <1>5, <2>2, <2>4, RowStep
  <2> QED
    BY <2>1, <2>3, <2>5
<1>9. HoldFits(h)'
  <2>1. proc'[p] = Idle /\ \A q \in Procs \ {p} : proc'[q] = proc[q]
    BY <1>1, <1>2 DEF CallInv
  <2>2. HoldFits(h)
    BY <1>1 DEF HoldInv
  <2>3. "FAILED" \notin Moving
    BY DEF Moving
  <2> QED
    BY <1>3, <1>8, <2>1, <2>2, <2>3, FitsIdle DEF HoldFits
<1> QED
  BY <1>8, <1>9, FitsIdle, IdleIsCall, CallStepKeeps

LEMMA EnqueueFailStep ==
    ASSUME HuntsInv, NEW c \in Procs, EnqueueFail(c)
    PROVE  HuntsInv'
<1>1. CallInv /\ proc[c].pc = "watermark" /\ "watermark" \in EnqueuePcs
  BY DEF HuntsInv, EnqueueFail, EnqueuePcs
<1>2. proc[c] \in EnqueueCall
  BY <1>1, CallShape DEF CallInv
<1>3. proc[c].hunt \in Hunts /\ Apart(proc[c], proc[c].hunt)
  BY <1>2, EnqueueApart
<1>4. state[proc[c].hunt] # None
  BY <1>1 DEF CallInv, CallFits, EnqueueFits
<1> QED
  BY <1>3, <1>4, FailStep DEF EnqueueFail

LEMMA ExecuteShape ==
    ASSUME CallInv, NEW p \in Procs, proc[p].pc \in ExecutePcs
    PROVE  /\ proc[p] \in ExecuteCall /\ proc[p].hunt \in Hunts
           /\ Apart(proc[p], proc[p].hunt) /\ \A h : ~Past(proc[p], h)
           /\ state[proc[p].hunt] # None
<1>1. proc[p] \in ExecuteCall
  BY CallShape DEF CallInv
<1>2. proc[p].hunt \in Hunts
  BY <1>1 DEF ExecuteCall
<1>3. proc[p].pc \notin EnqueuePcs
  BY DEF ExecutePcs, EnqueuePcs
<1>4. state[proc[p].hunt] # None
  BY DEF CallInv, CallFits, ExecuteFits
<1> QED
  BY <1>1, <1>2, <1>3, <1>4 DEF Apart, Past, Runs

LEMMA ExecuteFailStep ==
    ASSUME HuntsInv, NEW p \in Procs, ExecuteFail(p)
    PROVE  HuntsInv'
<1>1. CallInv /\ proc[p].pc \in ExecutePcs
  BY DEF HuntsInv, ExecuteFail, ExecutePcs
<1> QED
  BY <1>1, ExecuteShape, FailStep DEF ExecuteFail

\* The watermark is at or above every visible number.
LEMMA MaxSeqIs ==
    ASSUME ArtifactInv
    PROVE  MaxSeq \in Nat /\ \A a \in committed : seq[a] <= MaxSeq
<1>1. CASE committed = {}
  BY <1>1 DEF MaxSeq
<1>2. CASE committed # {}
  <2> DEFINE N == {seq[a] : a \in committed}
  <2>1. \A a \in committed : seq[a] \in Nat /\ seq[a] < nextSeq
    BY DEF ArtifactInv, Number
  <2>2. N \in SUBSET Nat /\ N # {} /\ nextSeq \in Nat /\ \A n \in N : n <= nextSeq
    BY <1>2, <2>1 DEF ArtifactInv
  <2>3. PICK n \in N : \A m \in N : m <= n
    BY <2>2, LargestNumber
  <2>4. \A a \in committed : seq[a] <= n
    BY <2>3
  <2>5. MaxSeq \in N /\ \A a \in committed : seq[a] <= MaxSeq
    BY <1>2, <2>4 DEF MaxSeq
  <2> QED
    BY <2>2, <2>5
<1> QED
  BY <1>1, <1>2

LEMMA EnqueueWatermarkStep ==
    ASSUME HuntsInv, NEW c \in Procs, EnqueueWatermark(c)
    PROVE  HuntsInv'
<1>1. ArtifactInv /\ RowInv /\ CallInv /\ HoldInv
  BY DEF HuntsInv
<1>2. proc[c].pc = "watermark" /\ "watermark" \in EnqueuePcs /\ "plan" \in EnqueuePcs
  BY DEF EnqueueWatermark, EnqueuePcs
<1>3. proc[c] \in EnqueueCall
  BY <1>1, <1>2, CallShape DEF CallInv
<1>4. PICK w \in Nat : w = IF proc[c].wm = None THEN MaxSeq ELSE proc[c].wm
  BY <1>1, <1>3, MaxSeqIs DEF EnqueueCall, Number
<1>5. proc' = [proc EXCEPT ![c] = [proc[c] EXCEPT !.pc = "plan", !.wm = w]]
  BY <1>4 DEF EnqueueWatermark
<1>6. w \in Number /\ w # None
  BY NoneApart DEF Number
<1>7. PICK v \in EnqueueCall :
        /\ v.pc = "plan" /\ v.hunt = proc[c].hunt /\ v.wm = w /\ v.then = proc[c].then
        /\ proc' = [proc EXCEPT ![c] = v]
  <2> DEFINE u == [proc[c] EXCEPT !.pc = "plan", !.wm = w]
  <2>1. u \in EnqueueCall /\ u.pc = "plan" /\ u.hunt = proc[c].hunt /\ u.wm = w /\ u.then = proc[c].then
    BY <1>2, <1>3, <1>6 DEF EnqueueCall
  <2> QED
    BY <2>1, <1>5
<1>8. PICK h \in Hunts : h = proc[c].hunt
  BY <1>3, EnqueueApart
<1>9. /\ UNCHANGED <<seq, committed, nextSeq, active, cache, fin, covered>>
      /\ UNCHANGED <<state, watermark, job, queue, matches, reanalysis, lost, raced>>
  BY DEF EnqueueWatermark, artifacts, huntRows, history
<1>10. v \in CallRec /\ Apart(v, h) /\ Apart(proc[c], h)
  BY <1>3, <1>7, <1>8, EnqueueApart
<1>11. CallStep(c, v, h) /\ RowFits(h)'
  BY <1>2, <1>7, <1>9, <1>10, QuietStep
<1>12. PICK r \in EnqueueCall : r = proc[c] /\ CallFits(r)'
  BY <1>1, <1>3, <1>10, <1>11, CallGrows, EnqueueApart DEF CallInv
<1>13. Own(h)' => Above(w)'
  <2>1. CASE proc[c].wm = None
    <3>1. Uncovered' \subseteq committed /\ seq' = seq
      BY <1>9 DEF Uncovered
    <3> QED
      BY <1>1, <1>4, <2>1, <3>1, MaxSeqIs DEF Above
  <2>2. CASE proc[c].wm # None
    BY <1>2, <1>4, <1>8, <1>12, <2>2 DEF CallFits, EnqueueFits
  <2> QED
    BY <2>1, <2>2
<1>14. EnqueueFits(v)'
  BY <1>2, <1>6, <1>7, <1>8, <1>12, <1>13 DEF CallFits, EnqueueFits
<1>15. CallFits(v)'
  BY <1>14, FitsEnqueue
<1>16. HoldFits(h)'
  BY <1>1, <1>2, <1>3, <1>7, <1>8, <1>9, HoldPast DEF Past
<1> QED
  BY <1>10, <1>11, <1>15, <1>16, CallStepKeeps

LEMMA EnqueuePlanStep ==
    ASSUME HuntsInv, NEW c \in Procs, EnqueuePlan(c)
    PROVE  HuntsInv'
<1>1. ArtifactInv /\ CacheInv /\ RowInv /\ CallInv /\ HoldInv
  BY DEF HuntsInv
<1>2. proc[c].pc = "plan" /\ "plan" \in EnqueuePcs /\ "queue" \in EnqueuePcs
  BY DEF EnqueuePlan, EnqueuePcs
<1>3. proc[c] \in EnqueueCall
  BY <1>1, <1>2, CallShape DEF CallInv
<1>4. PICK v \in EnqueueCall :
        /\ v.pc = "queue" /\ v.hunt = proc[c].hunt /\ v.wm = proc[c].wm /\ v.then = proc[c].then
        /\ proc' = [proc EXCEPT ![c] = v]
  BY <1>1, <1>2, EnqueueGoto DEF EnqueuePlan
<1>5. PICK h \in Hunts : h = proc[c].hunt
  BY <1>3, EnqueueApart
<1>6. PICK w \in Number : w = proc[c].wm
  BY <1>3 DEF EnqueueCall
<1>7. CallFits(proc[c]) /\ state[h] # None /\ w # None
  BY <1>1, <1>2, <1>5, <1>6 DEF CallInv, CallFits, EnqueueFits
<1>8. /\ UNCHANGED <<seq, committed, nextSeq, active, cache, fin, covered>>
      /\ UNCHANGED <<job, queue, matches, reanalysis, lost, raced>>
      /\ state' = [state EXCEPT ![h] = "PLANNED"] /\ watermark' = [watermark EXCEPT ![h] = w]
  BY <1>5, <1>6 DEF EnqueuePlan, set_state, artifacts, history
<1>9. "PLANNED" \in States /\ "PLANNED" # None
  BY NoneApart DEF States
<1>10. /\ state' \in [Hunts -> States \cup {None}] /\ watermark' \in [Hunts -> Number]
       /\ state'[h] = "PLANNED" /\ watermark'[h] = w
       /\ \A g \in Hunts \ {h} : state'[g] = state[g] /\ watermark'[g] = watermark[g]
  BY <1>1, <1>8, <1>9 DEF RowInv
<1>11. Planned \subseteq Planned'
  BY <1>7, <1>10 DEF Planned
<1>12. queue' \in Seq(Planned')
  BY <1>1, <1>8, <1>11 DEF RowInv
<1>13. RowTypes'
  BY <1>1, <1>8, <1>10, <1>12 DEF RowInv, RowTypes
<1>14. \A g \in Hunts : Own(g)' => Own(g)
  BY <1>1, <1>2, <1>4, <1>8, OwnStays
<1>15. v \in CallRec /\ Apart(v, h) /\ Apart(proc[c], h)
  BY <1>3, <1>4, <1>5, EnqueueApart
<1>16. CacheInv'
  BY <1>1, <1>8 DEF CacheInv
<1>17. CallStep(c, v, h)
  BY <1>4, <1>7, <1>8, <1>9, <1>10, <1>13, <1>14, <1>15, <1>16 DEF CallStep
<1>18. PICK r \in EnqueueCall : r = proc[c] /\ CallFits(r)'
  BY <1>3, <1>7, <1>15, <1>17, CallGrows, EnqueueApart
<1>19. Own(h)' => Above(w)' /\ active'
  <2>1. Own(h)' => active
    BY <1>1, <1>14 DEF RowInv, RowFits
  <2> QED
    BY <1>2, <1>5, <1>6, <1>7, <1>8, <1>18, <2>1 DEF CallFits, EnqueueFits
<1>20. RowFits(h)'
  BY <1>9, <1>10, <1>19 DEF RowFits
<1>21. EnqueueFits(v)'
  BY <1>2, <1>4, <1>5, <1>7, <1>10, <1>18 DEF CallFits, EnqueueFits
<1>22. CallFits(v)'
  BY <1>21, FitsEnqueue
<1>23. HoldFits(h)'
  BY <1>1, <1>2, <1>3, <1>4, <1>5, <1>8, HoldPast DEF Past
<1> QED
  BY <1>15, <1>17, <1>20, <1>22, <1>23, CallStepKeeps

LEMMA EnqueueCheckStep ==
    ASSUME HuntsInv, NEW c \in Procs, EnqueueCheck(c)
    PROVE  HuntsInv'
<1>1. ArtifactInv /\ RowInv /\ CallInv /\ HoldInv
  BY DEF HuntsInv
<1>2. proc[c].pc = "check" /\ "check" \in EnqueuePcs /\ "validate" \in EnqueuePcs
  BY DEF EnqueueCheck, EnqueuePcs
<1>3. proc[c] \in EnqueueCall
  BY <1>1, <1>2, CallShape DEF CallInv
<1>4. PICK h \in Hunts : h = proc[c].hunt
  BY <1>3, EnqueueApart
<1>5. /\ UNCHANGED <<seq, committed, nextSeq, active, cache, fin, covered>>
      /\ UNCHANGED <<state, watermark, job, queue, matches, reanalysis, lost>>
  BY DEF EnqueueCheck, artifacts, huntRows
<1>6. Apart(proc[c], h) /\ ~Past(proc[c], h) /\ ~Runs(proc[c], h)
  BY <1>2, <1>3, <1>4, EnqueueApart DEF Past
<1>7. HoldFits(h)
  BY <1>1 DEF HoldInv
<1>8. CASE Return(c) /\ raced' = raced
  <2>1. proc' = [proc EXCEPT ![c] = Idle]
    BY <1>8 DEF Return
  <2>2. Idle \in CallRec /\ Idle.pc \notin EnqueuePcs /\ Apart(Idle, h) /\ CallFits(Idle)'
        /\ ~Past(Idle, h) /\ ~Runs(Idle, h)
    BY IdleIsCall, FitsIdle DEF EnqueuePcs
  <2>3. CallStep(c, Idle, h) /\ RowFits(h)'
    BY <1>5, <1>6, <1>8, <2>1, <2>2, QuietStep
  <2>4. proc'[c] = Idle /\ \A q \in Procs \ {c} : proc'[q] = proc[q]
    BY <1>1, <2>1 DEF CallInv
  <2>5. HoldFits(h)'
    BY <1>5, <1>6, <1>7, <1>8, <2>2, <2>4 DEF HoldFits, Keeps
  <2> QED
    BY <2>2, <2>3, <2>5, CallStepKeeps
<1>9. CASE /\ proc' = [proc EXCEPT ![c].pc = "validate", ![c].wm = watermark[h]]
           /\ raced' = raced \cup {g \in {h} : \E p \in Procs \ {c} : AtWork(p, g)}
  <2>1. PICK w \in Number : w = watermark[h]
    BY <1>1 DEF RowInv
  <2>2. proc' = [proc EXCEPT ![c] = [proc[c] EXCEPT !.pc = "validate", !.wm = w]]
    BY <1>9, <2>1
  <2>3. PICK v \in EnqueueCall :
          /\ v.pc = "validate" /\ v.hunt = proc[c].hunt /\ v.wm = w /\ v.then = proc[c].then
          /\ proc' = [proc EXCEPT ![c] = v]
    <3> DEFINE u == [proc[c] EXCEPT !.pc = "validate", !.wm = w]
    <3>1. u \in EnqueueCall /\ u.pc = "validate" /\ u.hunt = proc[c].hunt /\ u.wm = w /\ u.then = proc[c].then
      BY <1>2, <1>3, <2>1 DEF EnqueueCall
    <3> QED
      BY <3>1, <2>2
  <2>4. v \in CallRec /\ Apart(v, h) /\ ~Runs(v, h) /\ Past(v, h)
    BY <1>2, <1>4, <2>3, EnqueueApart DEF Past
  <2>5. raced \subseteq raced'
    BY <1>9
  <2>6. CallStep(c, v, h) /\ RowFits(h)'
    BY <1>2, <1>5, <1>6, <2>3, <2>4, <2>5, QuietStep
  <2>7. PICK r \in EnqueueCall : r = proc[c] /\ CallFits(r)'
    BY <1>1, <1>3, <2>4, <2>6, CallGrows, EnqueueApart DEF CallInv
  <2>8. EnqueueFits(v)'
    BY <1>2, <1>4, <1>5, <2>1, <2>3, <2>6, <2>7 DEF CallFits, EnqueueFits, RowFits
  <2>9. CallFits(v)'
    BY <2>8, FitsEnqueue
  <2>10. proc'[c] = v /\ \A q \in Procs \ {c} : proc'[q] = proc[q]
    BY <1>1, <2>3 DEF CallInv
  <2>11. HoldFits(h)'
    <3> SUFFICES ASSUME h \notin raced' PROVE HoldFits(h)'
      BY DEF HoldFits
    <3>1. \A q \in Procs \ {c} : ~AtWork(q, h)
      BY <1>9
    <3>2. \A q \in Procs \ {c} : ~Past(proc'[q], h) /\ ~Runs(proc'[q], h)
      BY <3>1, <2>10 DEF AtWork, Enqueuing, Executing, Past, Runs
    <3> QED
      BY <2>4, <2>10, <3>2 DEF HoldFits, Keeps
  <2> QED
    BY <2>4, <2>6, <2>9, <2>11, CallStepKeeps
<1> QED
  BY <1>4, <1>8, <1>9 DEF EnqueueCheck

\* A run begins.
LEMMA ExecuteFromIs ==
    ASSUME NEW h \in Hunts
    PROVE  \E v \in CallRec :
             /\ v = ExecuteFrom(h) /\ v.pc = "start" /\ v.hunt = h /\ v.wm = None
             /\ v.pc \notin EnqueuePcs /\ v.pc \in ExecutePcs
             /\ Apart(v, h) /\ ~Past(v, h) /\ Runs(v, h) /\ Keeps(v, h)
             /\ state'[h] # None /\ watermark'[h] # None => CallFits(v)'
<1> DEFINE v == ExecuteFrom(h)
<1>1. FALSE \in BOOLEAN
  OBVIOUS
<1>2. v \in ExecuteCall /\ v.pc = "start" /\ v.hunt = h /\ v.wm = None
  BY <1>1 DEF ExecuteFrom, ExecuteCall, ExecutePcs, Number
<1>3. v \in CallRec
  BY <1>2 DEF CallRec
<1> HIDE DEF v
<1>4. v.pc \notin EnqueuePcs /\ v.pc \in ExecutePcs
  BY <1>2 DEF EnqueuePcs, ExecutePcs
<1>5. Apart(v, h) /\ ~Past(v, h) /\ Runs(v, h) /\ Keeps(v, h)
  BY <1>2, <1>4 DEF Apart, Past, Runs, Keeps
<1>6. state'[h] # None /\ watermark'[h] # None => CallFits(v)'
  BY <1>2, <1>4 DEF CallFits, FindFits, EnqueueFits, ExecuteFits, ScanFits, Scanning
<1>7. v = ExecuteFrom(h)
  BY DEF v
<1> QED
  BY <1>2, <1>3, <1>4, <1>5, <1>6, <1>7

LEMMA EnqueueJobStep ==
    ASSUME HuntsInv, NEW c \in Procs, EnqueueJob(c)
    PROVE  HuntsInv'
<1>1. ArtifactInv /\ RowInv /\ CallInv /\ HoldInv
  BY DEF HuntsInv
<1>2. proc[c].pc = "job" /\ proc[c].pc \in EnqueuePcs /\ "record" \in EnqueuePcs
  BY DEF EnqueueJob, EnqueuePcs
<1>3. proc[c] \in EnqueueCall
  BY <1>1, <1>2, CallShape DEF CallInv
<1>4. PICK h \in Hunts : h = proc[c].hunt
  BY <1>3, EnqueueApart
<1>5. CallFits(proc[c]) /\ state[h] # None /\ watermark[h] # None
  BY <1>1, <1>2, <1>4 DEF CallInv, CallFits, EnqueueFits
<1>6. /\ UNCHANGED <<seq, committed, nextSeq, active, cache, fin, covered>>
      /\ UNCHANGED <<state, watermark, matches, reanalysis, lost, raced>>
      /\ job' = [job EXCEPT ![h] = "pending"] /\ queue' = Append(RemoveFirst(queue, h), h)
  BY <1>4 DEF EnqueueJob, artifacts, history
<1>7. queue' \in Seq(Planned)
  <2>1. RemoveFirst(queue, h) \in Seq(Planned)
    BY <1>1, RemoveFirstSeq DEF RowInv
  <2>2. h \in Planned
    BY <1>5 DEF Planned
  <2> QED
    BY <1>6, <2>1, <2>2
<1>8. PICK s \in States : s = state[h]
  BY <1>1, <1>5 DEF RowInv
<1>9. PICK j \in {"none", "pending", "claimed", "finished"} : j = "pending"
  OBVIOUS
<1>10. state' = [state EXCEPT ![h] = s] /\ job' = [job EXCEPT ![h] = j]
  BY <1>1, <1>6, <1>8, <1>9 DEF RowInv
<1>11. Apart(proc[c], h) /\ Past(proc[c], h)
  BY <1>2, <1>3, <1>4, EnqueueApart DEF Past
<1>12. ASSUME NEW v \in CallRec, proc' = [proc EXCEPT ![c] = v], Apart(v, h), ~Past(v, h),
              Runs(v, h) => v.pc = "start",
              v.pc \in EnqueuePcs => v.then = proc[c].then /\ v.hunt = proc[c].hunt
       PROVE  CallStep(c, v, h) /\ RowFits(h)' /\ HoldFits(h)' /\ (CallFits(v)' => HuntsInv')
  <2>1. CallStep(c, v, h) /\ RowFits(h)' /\ job'[h] = j
    BY <1>2, <1>5, <1>6, <1>7, <1>8, <1>10, <1>11, <1>12, RowStep
  <2>2. proc'[c] = v /\ \A q \in Procs \ {c} : proc'[q] = proc[q]
    BY <1>1, <1>12 DEF CallInv
  <2>3. HoldFits(h)
    BY <1>1 DEF HoldInv
  <2>4. h \notin raced => \A q \in Procs \ {c} : ~Past(proc[q], h) /\ ~Runs(proc[q], h)
    BY <1>11, <2>3 DEF HoldFits
  <2>5. HoldFits(h)'
    BY <1>6, <1>9, <1>12, <2>1, <2>2, <2>4 DEF HoldFits
  <2> QED
    BY <2>1, <2>5, CallStepKeeps
<1>13. CASE Return(c)
  <2>1. proc' = [proc EXCEPT ![c] = Idle]
    BY <1>13 DEF Return
  <2>2. Idle \in CallRec /\ Idle.pc \notin EnqueuePcs
    BY IdleIsCall DEF EnqueuePcs
  <2> QED
    BY <1>12, <2>1, <2>2, FitsIdle
<1>14. CASE proc' = [proc EXCEPT ![c] = ExecuteFrom(h)]
  <2>1. PICK v \in CallRec :
             /\ v = ExecuteFrom(h) /\ v.pc = "start"
             /\ v.pc \notin EnqueuePcs /\ Apart(v, h) /\ ~Past(v, h)
             /\ state'[h] # None /\ watermark'[h] # None => CallFits(v)'
    BY ExecuteFromIs
  <2>2. CallFits(v)'
    BY <1>5, <1>6, <2>1
  <2> QED
    BY <1>12, <1>14, <2>1, <2>2
<1>15. CASE Goto(c, "record")
  <2>1. PICK v \in EnqueueCall :
          /\ v.pc = "record" /\ v.hunt = proc[c].hunt /\ v.wm = proc[c].wm /\ v.then = proc[c].then
          /\ proc' = [proc EXCEPT ![c] = v]
    BY <1>1, <1>2, <1>15, EnqueueGoto
  <2>2. v \in CallRec /\ Apart(v, h) /\ ~Past(v, h) /\ ~Runs(v, h)
    BY <1>4, <2>1, EnqueueApart DEF Past
  <2>3. CallStep(c, v, h) /\ (CallFits(v)' => HuntsInv')
    BY <1>12, <2>1, <2>2
  <2>4. PICK r \in EnqueueCall : r = proc[c] /\ CallFits(r)'
    BY <1>3, <1>5, <2>2, <2>3, CallGrows, EnqueueApart
  <2>5. EnqueueFits(v)'
    BY <1>2, <2>1, <2>4 DEF CallFits, EnqueueFits
  <2> QED
    BY <2>3, <2>5, FitsEnqueue
<1> QED
  BY <1>4, <1>13, <1>14, <1>15 DEF EnqueueJob

LEMMA RecordStep ==
    ASSUME HuntsInv, NEW c \in Procs, insert_record(c)
    PROVE  HuntsInv'
<1>1. ArtifactInv /\ CacheInv /\ RowInv /\ CallInv /\ HoldInv
  BY DEF HuntsInv
<1>2. proc[c].pc = "record" /\ proc[c].pc \in EnqueuePcs
  BY DEF insert_record, EnqueuePcs
<1>3. proc[c] \in EnqueueCall
  BY <1>1, <1>2, CallShape DEF CallInv
<1>4. PICK h \in Hunts : h = proc[c].hunt
  BY <1>3, EnqueueApart
<1>5. /\ UNCHANGED <<seq, committed, nextSeq, active, cache, fin, covered>>
      /\ UNCHANGED <<state, watermark, job, queue, matches, lost, raced>>
      /\ reanalysis' = reanalysis \cup {<<h, proc[c].then>>}
      /\ proc' = [proc EXCEPT ![c] = Idle]
  BY <1>4 DEF insert_record, Return, artifacts, history
<1>6. proc'[c] = Idle /\ \A q \in Procs \ {c} : proc'[q] = proc[q]
  BY <1>1, <1>5 DEF CallInv
<1>7. Idle \in CallRec /\ Idle.pc \notin EnqueuePcs
  BY IdleIsCall DEF EnqueuePcs
<1>8. \A g \in Hunts : Own(g)' => Own(g)
  <2> SUFFICES ASSUME NEW g \in Hunts, Own(g)' PROVE Own(g)
    OBVIOUS
  <2>1. CASE <<g, "enqueued">> \in reanalysis'
    <3>1. CASE <<g, "enqueued">> \in reanalysis
      BY <3>1 DEF Own
    <3>2. CASE <<g, "enqueued">> = <<h, proc[c].then>>
      BY <1>2, <1>4, <3>2 DEF Own
    <3> QED
      BY <1>5, <2>1, <3>1, <3>2
  <2>2. CASE \E q \in Procs : /\ proc'[q].pc \in EnqueuePcs
                              /\ proc'[q].then = "enqueued" /\ proc'[q].hunt = g
    BY <1>6, <1>7, <2>2 DEF Own
  <2> QED
    BY <2>1, <2>2 DEF Own
<1>9. Planned' = Planned
  BY <1>5 DEF Planned
<1>10. RowTypes' /\ CacheInv'
  BY <1>1, <1>5, <1>9 DEF RowInv, RowTypes, CacheInv
<1>11. Apart(proc[c], h) /\ ~Past(proc[c], h) /\ ~Runs(proc[c], h)
  BY <1>2, <1>3, <1>4, EnqueueApart DEF Past
<1>12. CallStep(c, Idle, h)
  BY <1>5, <1>8, <1>10, <1>11, FitsIdle DEF CallStep
<1>13. RowFits(h)'
  BY <1>1, <1>5, <1>7, <1>8, <1>12, CallGrows, RowKept
<1>14. HoldFits(h)'
  <2>1. HoldFits(h)
    BY <1>1 DEF HoldInv
  <2> QED
    BY <1>5, <1>6, <1>11, <2>1, FitsIdle DEF HoldFits, Keeps
<1> QED
  BY <1>7, <1>12, <1>13, <1>14, FitsIdle, CallStepKeeps

LEMMA ClaimStep ==
    ASSUME HuntsInv, NEW w \in Procs, claim_next_job(w)
    PROVE  HuntsInv'
<1>1. ArtifactInv /\ RowInv /\ CallInv /\ HoldInv
  BY DEF HuntsInv
<1>2. proc[w] = Idle /\ queue # <<>>
  BY DEF claim_next_job
<1>3. Head(queue) \in Planned /\ Tail(queue) \in Seq(Planned)
  BY <1>1, <1>2 DEF RowInv
<1>4. PICK h \in Hunts : h = Head(queue) /\ watermark[h] # None
  BY <1>3 DEF Planned
<1>5. state[h] # None
  BY <1>1, <1>4 DEF RowInv, RowFits
<1>6. PICK s \in States : s = IF state[h] = "QUEUED" THEN "RUNNING" ELSE state[h]
  BY <1>1, <1>5 DEF RowInv, States
<1>7. PICK j \in {"none", "pending", "claimed", "finished"} : j = "claimed"
  OBVIOUS
<1>8. /\ UNCHANGED <<seq, committed, nextSeq, active, cache, fin, covered>>
      /\ UNCHANGED <<watermark, matches, reanalysis, lost>>
      /\ job' = [job EXCEPT ![h] = j] /\ queue' \in Seq(Planned)
      /\ proc' = [proc EXCEPT ![w] = ExecuteFrom(h)]
      /\ raced' = raced \cup {g \in {h} : \E p \in Procs : Enqueuing(p, g)}
  BY <1>3, <1>4, <1>7 DEF claim_next_job, artifacts
<1>9. state' = [state EXCEPT ![h] = s]
  BY <1>1, <1>4, <1>6 DEF claim_next_job, RowInv
<1>10. PICK v \in CallRec :
         /\ v = ExecuteFrom(h) /\ v.pc = "start"
         /\ v.pc \notin EnqueuePcs /\ Apart(v, h) /\ ~Past(v, h) /\ Keeps(v, h)
         /\ state'[h] # None /\ watermark'[h] # None => CallFits(v)'
  BY ExecuteFromIs
<1>11. Apart(proc[w], h) /\ raced \subseteq raced'
  BY <1>2, <1>8, FitsIdle
<1>12. s \in {"COMPLETED", "COMPLETED_PARTIAL"} => s = state[h]
  BY <1>6
<1>13. CallStep(w, v, h) /\ RowFits(h)' /\ state'[h] = s /\ job'[h] = j
  BY <1>5, <1>8, <1>9, <1>10, <1>11, <1>12, RowStep
<1>14. CallFits(v)'
  BY <1>4, <1>8, <1>10, <1>13, NoneApart
<1>15. HoldFits(h)'
  <2> SUFFICES ASSUME h \notin raced' PROVE HoldFits(h)'
    BY DEF HoldFits
  <2>1. proc'[w] = v /\ \A q \in Procs \ {w} : proc'[q] = proc[q]
    BY <1>1, <1>8, <1>10 DEF CallInv
  <2>2. \A q \in Procs : ~Enqueuing(q, h)
    BY <1>8
  <2>3. \A q \in Procs : ~Past(proc'[q], h)
    BY <1>10, <2>1, <2>2 DEF Enqueuing, Past
  <2> QED
    BY <1>7, <1>10, <1>13, <2>1, <2>3 DEF HoldFits
<1> QED
  BY <1>13, <1>14, <1>15, CallStepKeeps

(***************************************************************************)
(* API calls                                                               *)
(***************************************************************************)
\* The call moves to a point where it has no hunt in hand, from such a point.
LEMMA FreeStep ==
    ASSUME HuntsInv, NEW p \in Procs, NEW v \in CallRec,
           proc' = [proc EXCEPT ![p] = v],
           UNCHANGED <<seq, committed, nextSeq, active, cache, fin, covered>>,
           UNCHANGED <<state, watermark, job, queue, matches, reanalysis, lost, raced>>,
           proc[p].pc \notin ExecutePcs \cup (EnqueuePcs \ {"check", "record"}),
           v.pc \notin ExecutePcs \cup (EnqueuePcs \ {"check", "record"}),
           v.pc \in EnqueuePcs => v.then # "enqueued",
           CallFits(v)'
    PROVE  HuntsInv'
<1>1. Apart(proc[p], None) /\ Apart(v, None)
  BY DEF Apart, Past, Runs
<1>2. CallStep(p, v, None)
  BY <1>1, QuietStep
<1> QED
  BY <1>2, NoneApart, CallStepKeeps

LEMMA RunHuntStep ==
    ASSUME HuntsInv, NEW c \in Procs, NEW h \in Hunts, NEW sync \in BOOLEAN, RunHunt(c, h, sync)
    PROVE  HuntsInv'
<1>1. PICK t \in {"execute", "return"} : t = IF sync THEN "execute" ELSE "return"
  OBVIOUS
<1> DEFINE v == [pc |-> "check", hunt |-> h, wm |-> None, then |-> t]
<1>2. proc' = [proc EXCEPT ![c] = v] /\ proc[c] = Idle /\ state[h] # None
      /\ UNCHANGED <<seq, committed, nextSeq, active, cache, fin, covered>>
      /\ UNCHANGED <<state, watermark, job, queue, matches, reanalysis, lost, raced>>
  BY <1>1 DEF RunHunt, Call, artifacts, huntRows
<1>3. v \in EnqueueCall /\ v.pc = "check" /\ v.hunt = h /\ v.wm = None /\ v.then = t
  BY DEF EnqueueCall, EnqueuePcs, Number, Goal
<1> HIDE DEF v
<1>4. v \in CallRec /\ t # "enqueued"
  BY <1>3, EnqueueApart
<1>5. proc[c].pc \notin ExecutePcs \cup EnqueuePcs /\ v.pc \notin ExecutePcs
  BY <1>2, <1>3, IdleIsCall DEF ExecutePcs, EnqueuePcs
<1>6. EnqueueFits(v)'
  BY <1>2, <1>3, <1>4 DEF EnqueueFits
<1>7. CallFits(v)'
  BY <1>3, <1>6, FitsEnqueue
<1> QED
  BY <1>2, <1>3, <1>4, <1>5, <1>7, FreeStep

LEMMA ActivateFindStep ==
    ASSUME HuntsInv, NEW c \in Procs, ActivateFind(c)
    PROVE  HuntsInv'
<1>1. CallInv /\ RowInv /\ proc[c].pc = "find"
  BY DEF HuntsInv, ActivateFind
<1>2. proc[c] \in FindCall /\ active
  BY <1>1, CallShape DEF CallInv, CallFits, FindFits
<1>3. /\ UNCHANGED <<seq, committed, nextSeq, active, cache, fin, covered>>
      /\ UNCHANGED <<state, watermark, job, queue, matches, reanalysis, lost, raced>>
  BY DEF ActivateFind, artifacts, huntRows, history
<1>4. proc[c].pc \notin ExecutePcs \cup EnqueuePcs
  BY <1>1 DEF ExecutePcs, EnqueuePcs
<1>5. ASSUME NEW v \in CallRec, proc' = [proc EXCEPT ![c] = v],
             v.pc = "create" \/ (v.pc = "reuse" /\ state[v.hunt] # None)
      PROVE  HuntsInv'
  <2>1. v.pc \notin ExecutePcs \cup EnqueuePcs
    BY <1>5 DEF ExecutePcs, EnqueuePcs
  <2>2. CallFits(v)'
    BY <1>2, <1>3, <1>5, <2>1 DEF CallFits, FindFits, EnqueueFits, ExecuteFits, ScanFits, Scanning
  <2> QED
    BY <1>3, <1>4, <1>5, <2>1, <2>2, FreeStep
<1>6. CASE proc' = [proc EXCEPT ![c].pc = "create"]
  <2> DEFINE v == [proc[c] EXCEPT !.pc = "create"]
  <2>1. v \in CallRec /\ v.pc = "create"
    BY <1>2 DEF FindCall, CallRec
  <2>2. proc' = [proc EXCEPT ![c] = v]
    BY <1>6
  <2> QED
    BY <1>5, <2>1, <2>2
<1>7. ASSUME NEW h \in OpenHunts, proc' = [proc EXCEPT ![c] = [pc |-> "reuse", hunt |-> h]]
      PROVE  HuntsInv'
  <2> DEFINE v == [pc |-> "reuse", hunt |-> h]
  <2>1. h \in Hunts /\ state[h] # None
    BY NoneApart DEF OpenHunts
  <2>2. v \in CallRec /\ v.pc = "reuse" /\ v.hunt = h
    BY <2>1 DEF CallRec, ReuseCall
  <2> QED
    BY <1>5, <1>7, <2>1, <2>2
<1> QED
  BY <1>6, <1>7 DEF ActivateFind

LEMMA ActivateReuseStep ==
    ASSUME HuntsInv, NEW c \in Procs, ActivateReuse(c)
    PROVE  HuntsInv'
<1>1. CallInv /\ proc[c].pc = "reuse"
  BY DEF HuntsInv, ActivateReuse
<1>2. proc[c] \in ReuseCall /\ state[proc[c].hunt] # None
  BY <1>1, CallShape DEF CallInv, CallFits
<1>3. PICK h \in Hunts : h = proc[c].hunt
  BY <1>2 DEF ReuseCall
<1>4. PICK q \in {"check", "record"} : q = IF state[h] = "DRAFT" THEN "check" ELSE "record"
  OBVIOUS
<1> DEFINE v == [pc |-> q, hunt |-> h, wm |-> None, then |-> "reused"]
<1>5. proc' = [proc EXCEPT ![c] = v]
      /\ UNCHANGED <<seq, committed, nextSeq, active, cache, fin, covered>>
      /\ UNCHANGED <<state, watermark, job, queue, matches, reanalysis, lost, raced>>
  BY <1>3, <1>4 DEF ActivateReuse, artifacts, huntRows, history
<1>6. v \in EnqueueCall /\ v.pc = q /\ v.hunt = h /\ v.wm = None /\ v.then = "reused"
  BY DEF EnqueueCall, EnqueuePcs, Number, Goal
<1> HIDE DEF v
<1>7. v \in CallRec
  BY <1>6, EnqueueApart
<1>8. proc[c].pc \notin ExecutePcs \cup EnqueuePcs /\ v.pc \notin ExecutePcs
  BY <1>1, <1>6 DEF ExecutePcs, EnqueuePcs
<1>9. EnqueueFits(v)'
  BY <1>2, <1>3, <1>5, <1>6 DEF EnqueueFits
<1>10. CallFits(v)'
  BY <1>6, <1>9, FitsEnqueue
<1> QED
  BY <1>5, <1>6, <1>7, <1>8, <1>10, FreeStep

LEMMA PublishStep ==
    ASSUME HuntsInv, NEW c \in Procs, publish_bundle(c)
    PROVE  HuntsInv'
<1>1. ArtifactInv /\ CacheInv /\ RowInv /\ CallInv
  BY DEF HuntsInv
<1> DEFINE v == [pc |-> "find", hunt |-> None]
<1>2. proc' = [proc EXCEPT ![c] = v] /\ proc[c] = Idle /\ active' = TRUE
      /\ UNCHANGED <<seq, committed, nextSeq, cache, fin, covered>>
      /\ UNCHANGED <<state, watermark, job, queue, matches, reanalysis, lost, raced>>
  BY DEF publish_bundle, Call, artifacts, huntRows
<1>3. v \in CallRec /\ v.pc = "find"
  BY DEF CallRec, FindCall
<1> HIDE DEF v
<1>4. proc[c].pc \notin ExecutePcs \cup EnqueuePcs /\ v.pc \notin ExecutePcs \cup EnqueuePcs
  BY <1>2, <1>3, IdleIsCall DEF ExecutePcs, EnqueuePcs
<1>5. Apart(proc[c], None) /\ Apart(v, None)
  BY <1>4 DEF Apart, Past, Runs
<1>6. \A g \in Hunts : Own(g)' => Own(g)
  BY <1>1, <1>2, <1>4, OwnStays
<1>7. Planned' = Planned
  BY <1>2 DEF Planned
<1>8. active' \in BOOLEAN
  BY <1>2
<1>9. RowTypes' /\ CacheInv'
  BY <1>1, <1>2, <1>7, <1>8 DEF RowInv, RowTypes, CacheInv
<1>10. CallStep(c, v, None)
  BY <1>2, <1>5, <1>6, <1>9, NoneApart DEF CallStep
<1>11. CallFits(v)'
  BY <1>2, <1>3, <1>4 DEF CallFits, FindFits, EnqueueFits, ExecuteFits, ScanFits, Scanning, ExecutePcs
<1> QED
  BY <1>3, <1>10, <1>11, NoneApart, CallStepKeeps

\* A hunt row is inserted, by a call that goes on as v.
LEMMA NewHuntStep ==
    ASSUME HuntsInv, NEW p \in Procs, NEW v \in CallRec, NEW h \in Hunts, state[h] = None,
           proc' = [proc EXCEPT ![p] = v], set_state(h, "DRAFT"),
           UNCHANGED <<seq, committed, nextSeq, active, cache, fin, covered>>,
           UNCHANGED <<watermark, job, queue, matches, reanalysis, lost, raced>>,
           proc[p].pc \notin ExecutePcs \cup EnqueuePcs,
           v.pc \notin ExecutePcs \cup (EnqueuePcs \ {"check", "record"}),
           v.pc \in EnqueuePcs /\ v.then = "enqueued" => v.hunt = h /\ active,
           CallFits(v)'
    PROVE  HuntsInv'
<1>1. ArtifactInv /\ CacheInv /\ RowInv /\ CallInv /\ HoldInv
  BY DEF HuntsInv
<1>2. "DRAFT" \in States /\ "DRAFT" # None /\ "DRAFT" \notin Moving
  BY NoneApart DEF States, Moving
<1>3. /\ state' \in [Hunts -> States \cup {None}] /\ state'[h] = "DRAFT"
      /\ \A g \in Hunts \ {h} : state'[g] = state[g]
  BY <1>1, <1>2 DEF RowInv, set_state
<1>4. proc'[p] = v /\ \A q \in Procs \ {p} : proc'[q] = proc[q]
  BY <1>1 DEF CallInv
<1>5. \A g \in Hunts : Own(g)' => Own(g) \/ (g = h /\ active)
  BY <1>4 DEF Own
<1>6. Planned' = Planned
  BY DEF Planned
<1>7. RowTypes' /\ CacheInv'
  BY <1>1, <1>3, <1>6 DEF RowInv, RowTypes, CacheInv
<1>8. Apart(proc[p], h) /\ Apart(v, h) /\ ~Past(v, h) /\ ~Runs(v, h)
  BY DEF Apart, Past, Runs
<1>9. CallStep(p, v, h)
  BY <1>2, <1>3, <1>5, <1>7, <1>8 DEF CallStep
<1>10. watermark[h] = None /\ ~Own(h)
  BY <1>1 DEF RowInv, RowFits
<1>11. RowFits(h)'
  BY <1>2, <1>3, <1>5, <1>10 DEF RowFits
<1>12. HoldFits(h)'
  <2>1. HoldFits(h)
    BY <1>1 DEF HoldInv
  <2> QED
    BY <1>2, <1>3, <1>4, <1>8, <2>1 DEF HoldFits
<1> QED
  BY <1>9, <1>11, <1>12, CallStepKeeps

LEMMA CreateHuntStep ==
    ASSUME HuntsInv, NEW c \in Procs, create_hunt(c)
    PROVE  HuntsInv'
<1>1. CallInv
  BY DEF HuntsInv
<1>2. PICK h \in Hunts : state[h] = None /\ set_state(h, "DRAFT")
  BY DEF create_hunt, NewHunt
<1>3. /\ UNCHANGED <<seq, committed, nextSeq, active, cache, fin, covered>>
      /\ UNCHANGED <<watermark, job, queue, matches, reanalysis, lost, raced>>
      /\ proc[c] = Idle
  BY DEF create_hunt, Call, artifacts
<1>4. proc' = [proc EXCEPT ![c] = Idle]
  BY <1>1, <1>3 DEF create_hunt, CallInv
<1>5. Idle.pc \notin ExecutePcs \cup EnqueuePcs
  BY IdleIsCall DEF ExecutePcs, EnqueuePcs
<1> QED
  BY <1>2, <1>3, <1>4, <1>5, IdleIsCall, FitsIdle, NewHuntStep

LEMMA ActivateCreateStep ==
    ASSUME HuntsInv, NEW c \in Procs, ActivateCreate(c)
    PROVE  HuntsInv'
<1>1. CallInv /\ proc[c].pc = "create"
  BY DEF HuntsInv, ActivateCreate
<1>2. active
  BY <1>1 DEF CallInv, CallFits, FindFits
<1>3. PICK h \in Hunts :
        /\ state[h] = None /\ set_state(h, "DRAFT")
        /\ proc' = [proc EXCEPT ![c] = [pc |-> "check", hunt |-> h, wm |-> None, then |-> "enqueued"]]
  BY DEF ActivateCreate, NewHunt
<1>4. /\ UNCHANGED <<seq, committed, nextSeq, active, cache, fin, covered>>
      /\ UNCHANGED <<watermark, job, queue, matches, reanalysis, lost, raced>>
  BY DEF ActivateCreate, artifacts, history
<1> DEFINE v == [pc |-> "check", hunt |-> h, wm |-> None, then |-> "enqueued"]
<1>5. v \in EnqueueCall /\ v.pc = "check" /\ v.hunt = h /\ v.wm = None
  BY DEF EnqueueCall, EnqueuePcs, Number, Goal
<1>6. proc' = [proc EXCEPT ![c] = v]
  BY <1>3
<1> HIDE DEF v
<1>7. v \in CallRec
  BY <1>5, EnqueueApart
<1>8. proc[c].pc \notin ExecutePcs \cup EnqueuePcs
      /\ v.pc \notin ExecutePcs \cup (EnqueuePcs \ {"check", "record"})
  BY <1>1, <1>5 DEF ExecutePcs, EnqueuePcs
<1>9. state'[h] # None
  BY <1>3, NoneApart DEF set_state, States, HuntsInv, RowInv
<1>10. EnqueueFits(v)'
  BY <1>2, <1>4, <1>5, <1>9 DEF EnqueueFits
<1>11. CallFits(v)'
  BY <1>5, <1>10, FitsEnqueue
<1> QED
  BY <1>2, <1>3, <1>4, <1>5, <1>6, <1>7, <1>8, <1>11, NewHuntStep

LEMMA ProcAbortStep ==
    ASSUME HuntsInv, NEW p \in Procs, ProcAbort(p)
    PROVE  HuntsInv'
<1>1. CallInv /\ HoldInv
  BY DEF HuntsInv
<1>2. /\ UNCHANGED <<seq, committed, nextSeq, active, cache, fin, covered>>
      /\ UNCHANGED <<state, watermark, job, queue, matches, reanalysis, raced>>
      /\ lost' = lost \cup ({proc[p].hunt} \cap Hunts)
      /\ proc' = [proc EXCEPT ![p] = Idle]
  BY DEF ProcAbort, Return, artifacts, huntRows
<1>3. PICK h : h = proc[p].hunt
  OBVIOUS
<1>4. Apart(proc[p], h) /\ Idle.pc \notin EnqueuePcs
  BY <1>3, IdleIsCall DEF Apart, Past, Runs, EnqueuePcs
<1>5. CallStep(p, Idle, h) /\ (h \in Hunts => RowFits(h)')
  BY <1>2, <1>4, IdleIsCall, FitsIdle, QuietStep
<1>6. h \in Hunts => HoldFits(h)'
  <2> SUFFICES ASSUME h \in Hunts PROVE HoldFits(h)'
    OBVIOUS
  <2>1. proc'[p] = Idle /\ \A q \in Procs \ {p} : proc'[q] = proc[q]
    BY <1>1, <1>2 DEF CallInv
  <2>2. HoldFits(h) /\ h \in lost'
    BY <1>1, <1>2, <1>3 DEF HoldInv
  <2> QED
    BY <1>2, <2>1, <2>2, FitsIdle DEF HoldFits
<1> QED
  BY <1>5, <1>6, IdleIsCall, FitsIdle, CallStepKeeps

(***************************************************************************)
(* execute_hunt                                                            *)
(***************************************************************************)
Early == {"start", "running", "claim"}

LEMMA FitsExecute ==
    ASSUME NEW v \in ExecuteCall, ExecuteFits(v)', ScanFits(v)'
    PROVE  CallFits(v)'
<1>1. v.pc \in ExecutePcs
  BY DEF ExecuteCall
<1> QED
  BY <1>1 DEF CallFits, FindFits, EnqueueFits, EnqueuePcs, ExecutePcs

LEMMA ExecuteApart ==
    ASSUME NEW v \in ExecuteCall
    PROVE  /\ v \in CallRec /\ v.hunt \in Hunts /\ v.pc \in ExecutePcs /\ v.pc \notin EnqueuePcs
           /\ Apart(v, v.hunt) /\ ~Past(v, v.hunt) /\ Runs(v, v.hunt)
           /\ Keeps(v, v.hunt) <=> v.pc # "close"
<1>1. v \in CallRec /\ v.hunt \in Hunts /\ v.pc \in ExecutePcs
  BY DEF ExecuteCall, CallRec
<1>2. v.pc \notin EnqueuePcs
  BY <1>1 DEF ExecutePcs, EnqueuePcs
<1> QED
  BY <1>1, <1>2 DEF Apart, Past, Runs, Keeps

LEMMA ExecuteGoto ==
    ASSUME CallInv, NEW p \in Procs, proc[p] \in ExecuteCall, NEW q \in ExecutePcs, Goto(p, q)
    PROVE  \E v \in ExecuteCall :
             /\ v.pc = q /\ v.hunt = proc[p].hunt /\ v.wm = proc[p].wm /\ v.sel = proc[p].sel
             /\ v.todo = proc[p].todo /\ v.partial = proc[p].partial
             /\ proc' = [proc EXCEPT ![p] = v]
<1> DEFINE v == [proc[p] EXCEPT !.pc = q]
<1>1. v \in ExecuteCall
  BY DEF ExecuteCall
<1>2. /\ v.pc = q /\ v.hunt = proc[p].hunt /\ v.wm = proc[p].wm /\ v.sel = proc[p].sel
      /\ v.todo = proc[p].todo
  BY DEF ExecuteCall
<1>3. v.partial = proc[p].partial
  BY Zenon DEF ExecuteCall
<1>4. proc' = [proc EXCEPT ![p] = v]
  BY DEF Goto
<1> QED
  BY <1>1, <1>2, <1>3, <1>4

\* A run goes on with the hunt in hand, or ends it.
LEMMA HoldRuns ==
    ASSUME CallInv, HoldInv, NEW p \in Procs, NEW h \in Hunts, NEW v \in ExecuteCall,
           proc[p] \in ExecuteCall, proc[p].hunt = h, v.hunt = h,
           proc' = [proc EXCEPT ![p] = v], raced \subseteq raced',
           v.pc # "close" \/ state'[h] \notin Moving,
           \/ job'[h] = job[h] /\ (v.pc \in Early \/ proc[p].pc \notin Early)
           \/ job'[h] # "pending"
    PROVE  HoldFits(h)'
<1>1. proc'[p] = v /\ \A q \in Procs \ {p} : proc'[q] = proc[q]
  BY DEF CallInv
<1>2. ~Past(v, h) /\ Runs(v, h) /\ (Keeps(v, h) <=> v.pc # "close") /\ ~Past(proc[p], h) /\ Runs(proc[p], h)
  BY ExecuteApart
<1>3. HoldFits(h)
  BY DEF HoldInv
<1>4. \A q \in Procs : (Past(proc'[q], h) <=> Past(proc[q], h)) /\ (Runs(proc'[q], h) <=> Runs(proc[q], h))
  BY <1>1, <1>2
<1>5. ASSUME h \notin raced', NEW q \in Procs, Runs(proc'[q], h), proc'[q].pc \notin Early
      PROVE  job'[h] # "pending"
  <2>1. CASE job'[h] = job[h] /\ (v.pc \in Early \/ proc[p].pc \notin Early)
    <3>1. Runs(proc[q], h) /\ proc[q].pc \notin Early
      BY <1>1, <1>2, <1>5, <2>1
    <3> QED
      BY <1>3, <1>5, <2>1, <3>1 DEF HoldFits, Early
  <2> QED
    BY <2>1
<1>6. state'[h] \in Moving => Keeps(proc'[p], h)
  BY <1>1, <1>2
<1> QED
  BY <1>3, <1>4, <1>5, <1>6 DEF HoldFits, Early

LEMMA ExecuteStartStep ==
    ASSUME HuntsInv, NEW p \in Procs, ExecuteStart(p)
    PROVE  HuntsInv'
<1>1. ArtifactInv /\ RowInv /\ CallInv /\ HoldInv
  BY DEF HuntsInv
<1>2. proc[p].pc = "start" /\ "start" \in ExecutePcs /\ "running" \in ExecutePcs
  BY DEF ExecuteStart, ExecutePcs
<1>3. proc[p] \in ExecuteCall /\ proc[p].hunt \in Hunts /\ Apart(proc[p], proc[p].hunt)
  BY <1>1, <1>2, ExecuteShape
<1>4. PICK h \in Hunts : h = proc[p].hunt
  BY <1>3
<1>5. PICK w \in Number : w = watermark[h]
  BY <1>1 DEF RowInv
<1>6. w # None /\ CallFits(proc[p])
  BY <1>1, <1>2, <1>4, <1>5 DEF CallInv, CallFits, ExecuteFits
<1>7. PICK v \in ExecuteCall :
        v.pc = "running" /\ v.hunt = h /\ v.wm = w /\ proc' = [proc EXCEPT ![p] = v]
  <2> DEFINE u == [proc[p] EXCEPT !.pc = "running", !.wm = w]
  <2>1. u \in ExecuteCall /\ u.pc = "running" /\ u.hunt = h /\ u.wm = w
    BY <1>2, <1>3, <1>4 DEF ExecuteCall
  <2>2. proc' = [proc EXCEPT ![p] = u]
    BY <1>4, <1>5 DEF ExecuteStart
  <2> QED
    BY <2>1, <2>2
<1>9. /\ UNCHANGED <<seq, committed, nextSeq, active, cache, fin, covered>>
      /\ UNCHANGED <<state, watermark, job, queue, matches, reanalysis, lost, raced>>
  BY DEF ExecuteStart, artifacts, huntRows, history
<1>10. v \in CallRec /\ Apart(v, h) /\ v.pc \notin EnqueuePcs
  BY <1>7, ExecuteApart
<1>11. CallStep(p, v, h) /\ RowFits(h)'
  BY <1>3, <1>4, <1>7, <1>9, <1>10, QuietStep
<1>12. PICK r \in ExecuteCall : r = proc[p] /\ CallFits(r)'
  BY <1>3, <1>6, <1>10, <1>11, CallGrows, ExecuteApart
<1>13. ExecuteFits(v)'
  BY <1>2, <1>4, <1>5, <1>6, <1>7, <1>9, <1>11, <1>12 DEF CallFits, ExecuteFits, RowFits
<1>14. ScanFits(v)'
  BY <1>7 DEF ScanFits, Scanning
<1>15. CallFits(v)'
  BY <1>7, <1>13, <1>14, FitsExecute
<1>16. HoldFits(h)'
  BY <1>1, <1>3, <1>4, <1>7, <1>9, HoldRuns DEF Early
<1> QED
  BY <1>10, <1>11, <1>15, <1>16, CallStepKeeps

\* ExecuteRunning and ExecuteClaim: the row and the job change, nothing is scanned.
LEMMA ExecuteRowStep ==
    ASSUME HuntsInv, NEW p \in Procs, NEW h \in Hunts, NEW q \in {"claim", "select"},
           proc[p].pc \in ExecutePcs \ {"start"}, h = proc[p].hunt, Goto(p, q),
           UNCHANGED <<seq, committed, nextSeq, active, cache, fin, covered>>,
           UNCHANGED <<watermark, matches, reanalysis, lost, raced>>,
           NEW s \in States, s \in {"COMPLETED", "COMPLETED_PARTIAL"} => s = state[h],
           state' = [state EXCEPT ![h] = s],
           NEW j \in {"none", "pending", "claimed", "finished"}, job' = [job EXCEPT ![h] = j],
           queue' \in Seq(Planned),
           (q = "claim" /\ j = job[h]) \/ j # "pending"
    PROVE  HuntsInv'
<1>1. ArtifactInv /\ RowInv /\ CallInv /\ HoldInv
  BY DEF HuntsInv
<1>2. q \in ExecutePcs
  BY DEF ExecutePcs
<1>3. proc[p] \in ExecuteCall /\ Apart(proc[p], h) /\ state[h] # None
  BY <1>1, ExecuteShape
<1>4. PICK v \in ExecuteCall :
        /\ v.pc = q /\ v.hunt = proc[p].hunt /\ v.wm = proc[p].wm
        /\ proc' = [proc EXCEPT ![p] = v]
  BY <1>1, <1>2, <1>3, ExecuteGoto
<1>5. v \in CallRec /\ Apart(v, h) /\ v.pc \notin EnqueuePcs
  BY <1>4, ExecuteApart
<1>6. CallStep(p, v, h) /\ RowFits(h)' /\ job'[h] = j
  <2>1. raced \subseteq raced'
    OBVIOUS
  <2> HIDE <1>4
  <2>2. proc' = [proc EXCEPT ![p] = v]
    BY <1>4
  <2> QED
    BY <1>3, <1>5, <2>1, <2>2, RowStep
<1>7. PICK r \in ExecuteCall : r = proc[p] /\ CallFits(r)'
  BY <1>1, <1>3, <1>5, <1>6, CallGrows, ExecuteApart DEF CallInv
<1>8. ExecuteFits(v)'
  BY <1>2, <1>4, <1>7 DEF CallFits, ExecuteFits
<1>9. ScanFits(v)'
  BY <1>4 DEF ScanFits, Scanning
<1>10. CallFits(v)'
  BY <1>8, <1>9, FitsExecute
<1>11. HoldFits(h)'
  BY <1>1, <1>3, <1>4, <1>6, HoldRuns DEF Early
<1> QED
  BY <1>5, <1>6, <1>10, <1>11, CallStepKeeps

LEMMA ExecuteRunningStep ==
    ASSUME HuntsInv, NEW p \in Procs, ExecuteRunning(p)
    PROVE  HuntsInv'
<1>1. RowInv /\ CallInv
  BY DEF HuntsInv
<1>2. proc[p].pc \in ExecutePcs \ {"start"}
  BY DEF ExecuteRunning, ExecutePcs
<1>3. PICK h \in Hunts : h = proc[p].hunt
  BY <1>1, <1>2, ExecuteShape
<1>4. PICK s \in States : s = "RUNNING" /\ s \notin {"COMPLETED", "COMPLETED_PARTIAL"}
  BY DEF States
<1>5. PICK q \in {"claim", "select"} : q = "claim"
  OBVIOUS
<1>6. PICK j \in {"none", "pending", "claimed", "finished"} : j = job[h]
  BY <1>1 DEF RowInv
<1>7. /\ UNCHANGED <<seq, committed, nextSeq, active, cache, fin, covered>>
      /\ UNCHANGED <<watermark, matches, reanalysis, lost, raced>>
      /\ state' = [state EXCEPT ![h] = s] /\ Goto(p, q)
  BY <1>3, <1>4, <1>5 DEF ExecuteRunning, set_state, artifacts, history
<1>8. job' = [job EXCEPT ![h] = j] /\ queue' \in Seq(Planned)
  BY <1>1, <1>6 DEF ExecuteRunning, RowInv
<1> QED
  BY <1>2, <1>3, <1>4, <1>5, <1>6, <1>7, <1>8, ExecuteRowStep

LEMMA ExecuteClaimStep ==
    ASSUME HuntsInv, NEW p \in Procs, ExecuteClaim(p)
    PROVE  HuntsInv'
<1>1. RowInv /\ CallInv
  BY DEF HuntsInv
<1>2. proc[p].pc \in ExecutePcs \ {"start"} /\ proc[p].pc \in ExecutePcs
  BY DEF ExecuteClaim, ExecutePcs
<1>3. PICK h \in Hunts : h = proc[p].hunt /\ state[h] # None
  BY <1>1, <1>2, ExecuteShape
<1>4. PICK s \in States : s = state[h]
  BY <1>1, <1>3 DEF RowInv
<1>5. PICK q \in {"claim", "select"} : q = "select"
  OBVIOUS
<1>6. PICK j \in {"none", "pending", "claimed", "finished"} :
        j = IF job[h] = "pending" THEN "claimed" ELSE job[h]
  BY <1>1 DEF RowInv
<1>7. /\ UNCHANGED <<seq, committed, nextSeq, active, cache, fin, covered>>
      /\ UNCHANGED <<state, watermark, matches, reanalysis, lost, raced>>
      /\ Goto(p, q)
  BY <1>5 DEF ExecuteClaim, artifacts, history
<1>8. state' = [state EXCEPT ![h] = s]
  BY <1>1, <1>4, <1>7 DEF RowInv
<1>9. job' = [job EXCEPT ![h] = j] /\ j # "pending"
  BY <1>1, <1>3, <1>6 DEF ExecuteClaim, RowInv
<1>10. queue' \in Seq(Planned)
  <2>1. RemoveFirst(queue, h) \in Seq(Planned)
    BY <1>1, RemoveFirstSeq DEF RowInv
  <2> QED
    BY <1>3, <2>1 DEF ExecuteClaim
<1> QED
  BY <1>2, <1>3, <1>4, <1>5, <1>7, <1>8, <1>9, <1>10, ExecuteRowStep

LEMMA ExecuteSelectStep ==
    ASSUME HuntsInv, NEW p \in Procs, ExecuteSelect(p)
    PROVE  HuntsInv'
<1>1. ArtifactInv /\ RowInv /\ CallInv /\ HoldInv
  BY DEF HuntsInv
<1>2. proc[p].pc = "select" /\ "select" \in ExecutePcs /\ "next" \in ExecutePcs
  BY DEF ExecuteSelect, ExecutePcs
<1>3. proc[p] \in ExecuteCall /\ proc[p].hunt \in Hunts /\ Apart(proc[p], proc[p].hunt)
  BY <1>1, <1>2, ExecuteShape
<1>4. PICK h \in Hunts : h = proc[p].hunt
  BY <1>3
<1>5. PICK S \in SUBSET Artifacts : S = AtOrBelow(proc[p].wm) /\ S \subseteq committed
  BY <1>1 DEF AtOrBelow, ArtifactInv
<1>6. PICK v \in ExecuteCall :
        /\ v.pc = "next" /\ v.hunt = h /\ v.wm = proc[p].wm /\ v.sel = S /\ v.todo = S
        /\ proc' = [proc EXCEPT ![p] = v]
  <2> DEFINE u == [proc[p] EXCEPT !.pc = "next", !.sel = S, !.todo = S]
  <2>1. u \in ExecuteCall /\ u.pc = "next" /\ u.hunt = h /\ u.wm = proc[p].wm /\ u.sel = S /\ u.todo = S
    BY <1>2, <1>3, <1>4 DEF ExecuteCall
  <2>2. proc' = [proc EXCEPT ![p] = u]
    BY <1>5 DEF ExecuteSelect
  <2> QED
    BY <2>1, <2>2
<1>7. /\ UNCHANGED <<seq, committed, nextSeq, active, cache, fin, covered>>
      /\ UNCHANGED <<state, watermark, job, queue, matches, reanalysis, lost, raced>>
  BY DEF ExecuteSelect, artifacts, huntRows, history
<1>8. v \in CallRec /\ Apart(v, h) /\ v.pc \notin EnqueuePcs
  BY <1>6, ExecuteApart
<1>9. CallStep(p, v, h) /\ RowFits(h)'
  BY <1>3, <1>4, <1>6, <1>7, <1>8, QuietStep
<1>10. PICK r \in ExecuteCall : r = proc[p] /\ CallFits(r)'
  BY <1>1, <1>3, <1>8, <1>9, CallGrows, ExecuteApart DEF CallInv
<1>11. ExecuteFits(v)' /\ v.wm # None
  BY <1>2, <1>4, <1>6, <1>10 DEF CallFits, ExecuteFits
<1>12. Own(h)' => Uncovered' \subseteq S
  <2> SUFFICES ASSUME Own(h)', NEW a \in Uncovered' PROVE a \in S
    OBVIOUS
  <2>1. Above(v.wm)'
    BY <1>2, <1>6, <1>11 DEF ExecuteFits
  <2>2. seq[a] <= v.wm /\ a \in committed \cap Endpoint
    BY <1>7, <2>1 DEF Above, Uncovered
  <2> QED
    BY <1>5, <1>6, <2>2 DEF AtOrBelow
<1>13. ScanFits(v)'
  BY <1>5, <1>6, <1>7, <1>12 DEF ScanFits
<1>14. CallFits(v)'
  BY <1>11, <1>13, FitsExecute
<1>15. HoldFits(h)'
  BY <1>1, <1>2, <1>3, <1>4, <1>6, <1>7, HoldRuns DEF Early
<1> QED
  BY <1>8, <1>9, <1>14, <1>15, CallStepKeeps

\* The scan loop: the call moves, the cache and the matches may grow.
LEMMA ScanStep ==
    ASSUME HuntsInv, NEW p \in Procs, NEW v \in ExecuteCall, NEW h \in Hunts,
           proc[p] \in ExecuteCall, proc[p].hunt = h, v.hunt = h, v.wm = proc[p].wm,
           v.sel = proc[p].sel, proc[p].pc \in Scanning, v.pc \in Scanning,
           proc' = [proc EXCEPT ![p] = v],
           CacheInv', \A a \in Artifacts : cache[a] # None => cache'[a] = cache[a],
           matches \subseteq matches',
           UNCHANGED <<seq, committed, nextSeq, active, fin, covered>>,
           UNCHANGED <<state, watermark, job, queue, reanalysis, lost, raced>>
    PROVE  /\ CallStep(p, v, h)
           /\ ScanFits(v)' => HuntsInv'
           /\ \E r \in ExecuteCall : r = proc[p] /\ ScanFits(r)'
<1>1. ArtifactInv /\ RowInv /\ CallInv /\ HoldInv
  BY DEF HuntsInv
<1>2. v \in CallRec /\ Apart(v, h) /\ v.pc \notin EnqueuePcs /\ Apart(proc[p], h)
      /\ v.pc \in ExecutePcs /\ proc[p].pc \in ExecutePcs
  BY ExecuteApart
<1>3. \A g \in Hunts : Own(g)' => Own(g)
  BY <1>1, <1>2, OwnStays
<1>4. Planned' = Planned
  BY DEF Planned
<1>5. RowTypes'
  BY <1>1, <1>4 DEF RowInv, RowTypes
<1>6. CallStep(p, v, h)
  BY <1>2, <1>3, <1>5 DEF CallStep
<1>7. Grows /\ \A r \in CallRec : CallFits(r) => CallFits(r)'
  BY <1>2, <1>6, CallGrows
<1>8. RowFits(h)'
  BY <1>1, <1>3, <1>7, RowKept
<1>9. PICK r \in ExecuteCall : r = proc[p] /\ CallFits(r)'
  BY <1>1, <1>7, ExecuteApart DEF CallInv
<1>10. ExecuteFits(v)'
  BY <1>2, <1>9 DEF CallFits, ExecuteFits, Scanning
<1>11. HoldFits(h)'
  BY <1>1, HoldRuns DEF Early, Scanning
<1>12. ScanFits(v)' => HuntsInv'
  BY <1>2, <1>6, <1>8, <1>10, <1>11, FitsExecute, CallStepKeeps
<1> QED
  BY <1>6, <1>9, <1>12 DEF CallFits

LEMMA CurrentIs ==
    ASSUME HuntsInv, NEW p \in Procs, proc[p].pc \in Scanning, proc[p].todo # {}
    PROVE  /\ proc[p] \in ExecuteCall /\ proc[p].hunt \in Hunts
           /\ Current(p) = Lowest(proc[p].todo)
           /\ Current(p) \in proc[p].todo /\ Current(p) \in Artifacts
<1>1. ArtifactInv /\ CallInv
  BY DEF HuntsInv
<1>2. proc[p].pc \in ExecutePcs
  BY DEF Scanning, ExecutePcs
<1>3. proc[p] \in ExecuteCall /\ proc[p].hunt \in Hunts
  BY <1>1, <1>2, ExecuteShape
<1>4. proc[p].todo \in SUBSET committed
  BY <1>1 DEF CallInv, CallFits, ScanFits
<1>5. Current(p) = Lowest(proc[p].todo)
  BY DEF Current, Lowest
<1>6. Current(p) \in proc[p].todo
  BY <1>1, <1>4, <1>5, LowestIs
<1> QED
  BY <1>1, <1>3, <1>4, <1>5, <1>6 DEF ArtifactInv

\* The loop goes on to scan or to record a match: its list stays.
LEMMA ScanGoto ==
    ASSUME HuntsInv, NEW p \in Procs, proc[p].pc \in Scanning, proc[p].todo # {},
           NEW q \in {"scan", "match"}, Goto(p, q), q = "match" => cache'[Current(p)] # None,
           CacheInv', \A a \in Artifacts : cache[a] # None => cache'[a] = cache[a],
           UNCHANGED <<artifacts, active, huntRows, fin, history>>
    PROVE  HuntsInv'
<1>1. ArtifactInv /\ CallInv
  BY DEF HuntsInv
<1>2. proc[p] \in ExecuteCall /\ Current(p) = Lowest(proc[p].todo)
  BY CurrentIs
<1>3. PICK h \in Hunts : h = proc[p].hunt
  BY CurrentIs
<1>4. q \in ExecutePcs /\ q \in Scanning
  BY DEF ExecutePcs, Scanning
<1>5. PICK v \in ExecuteCall :
        /\ v.pc = q /\ v.hunt = proc[p].hunt /\ v.wm = proc[p].wm /\ v.sel = proc[p].sel
        /\ v.todo = proc[p].todo /\ v.partial = proc[p].partial
        /\ proc' = [proc EXCEPT ![p] = v]
  BY <1>1, <1>2, <1>4, ExecuteGoto
<1>6. /\ UNCHANGED <<seq, committed, nextSeq, active, fin, covered>>
      /\ UNCHANGED <<state, watermark, job, queue, reanalysis, lost, raced>>
      /\ matches' = matches
  BY DEF artifacts, huntRows, history
<1>7. (ScanFits(v)' => HuntsInv') /\ \E r \in ExecuteCall : r = proc[p] /\ ScanFits(r)'
  BY <1>2, <1>3, <1>4, <1>5, <1>6, ScanStep
<1>8. PICK r \in ExecuteCall : r = proc[p] /\ ScanFits(r)'
  BY <1>7
<1>9. Lowest(v.todo)' = Current(p)
  BY <1>2, <1>5, <1>6 DEF Lowest
<1>10. ScanFits(v)'
  BY <1>4, <1>5, <1>8, <1>9 DEF ScanFits
<1> QED
  BY <1>7, <1>10

\* The loop is done with the artifact it is at.
LEMMA AdvanceStep ==
    ASSUME HuntsInv, NEW p \in Procs, proc[p].pc \in Scanning, proc[p].todo # {},
           NEW status, Advance(p, status), cache'[Current(p)] # None,
           \/ status = "incomplete" \/ Current(p) \notin Matching
           \/ <<proc[p].hunt, Current(p)>> \in matches',
           CacheInv', \A a \in Artifacts : cache[a] # None => cache'[a] = cache[a],
           matches \subseteq matches',
           UNCHANGED <<artifacts, active, state, watermark, job, queue, reanalysis, fin, history>>
    PROVE  HuntsInv'
<1>1. ArtifactInv /\ CallInv
  BY DEF HuntsInv
<1>2. proc[p] \in ExecuteCall
  BY CurrentIs
<1>3. PICK h \in Hunts : h = proc[p].hunt
  BY CurrentIs
<1>4. PICK x \in Artifacts : x = Current(p)
  BY CurrentIs
<1>5. PICK b \in BOOLEAN : b = (proc[p].partial \/ status = "incomplete")
  BY Zenon
<1>6. PICK v \in ExecuteCall :
        /\ v.pc = "next" /\ v.hunt = h /\ v.wm = proc[p].wm /\ v.sel = proc[p].sel
        /\ v.todo = proc[p].todo \ {x} /\ v.partial = b
        /\ proc' = [proc EXCEPT ![p] = v]
  <2>1. PICK t \in SUBSET Artifacts : t = proc[p].todo \ {x}
    BY <1>2 DEF ExecuteCall
  <2>2. "next" \in ExecutePcs
    BY DEF ExecutePcs
  <2> DEFINE u == [proc[p] EXCEPT !.pc = "next", !.todo = t, !.partial = b]
  <2>3. u \in ExecuteCall
    BY <1>2, <2>2 DEF ExecuteCall
  <2>4. /\ u.pc = "next" /\ u.hunt = h /\ u.wm = proc[p].wm /\ u.sel = proc[p].sel
        /\ u.todo = t
    BY <1>2, <1>3 DEF ExecuteCall
  <2>5. u.partial = b
    BY <1>2, Zenon DEF ExecuteCall
  <2>6. proc' = [proc EXCEPT ![p] = u]
    <3>1. proc' = [proc EXCEPT ![p].pc = "next", ![p].todo = @ \ {x},
                               ![p].partial = @ \/ status = "incomplete"]
      BY <1>4 DEF Advance
    <3> QED
      BY <1>5, <2>1, <3>1
  <2> QED
    BY <2>1, <2>3, <2>4, <2>5, <2>6
<1>7. /\ UNCHANGED <<seq, committed, nextSeq, active, fin, covered>>
      /\ UNCHANGED <<state, watermark, job, queue, reanalysis, lost, raced>>
  BY DEF artifacts, history
<1>8. (ScanFits(v)' => HuntsInv') /\ \E r \in ExecuteCall : r = proc[p] /\ ScanFits(r)'
  BY <1>2, <1>3, <1>6, <1>7, ScanStep DEF Scanning
<1>9. PICK r \in ExecuteCall : r = proc[p] /\ ScanFits(r)'
  BY <1>8
<1>10. v.partial \/ \A a \in (v.sel \ v.todo) \cap Matching : <<v.hunt, a>> \in matches'
  <2> SUFFICES ASSUME ~v.partial, NEW a \in (v.sel \ v.todo) \cap Matching
               PROVE  <<h, a>> \in matches'
    BY <1>6
  <2>1. status # "incomplete" /\ ~r.partial
    BY <1>5, <1>6, <1>9
  <2>2. CASE a = x
    BY <1>3, <1>4, <2>1, <2>2
  <2>3. CASE a # x
    BY <1>3, <1>6, <1>9, <2>1, <2>3 DEF ScanFits
  <2> QED
    BY <2>2, <2>3
<1>11. Own(h)' => Uncovered' \subseteq v.todo
  <2>1. x \notin Uncovered'
    BY <1>4 DEF Uncovered
  <2> QED
    BY <1>3, <1>6, <1>9, <2>1 DEF ScanFits
<1>12. ScanFits(v)'
  BY <1>6, <1>9, <1>10, <1>11 DEF ScanFits
<1> QED
  BY <1>8, <1>12

LEMMA ExecuteLookupStep ==
    ASSUME HuntsInv, NEW p \in Procs, ExecuteLookup(p)
    PROVE  HuntsInv'
<1>1. CacheInv /\ proc[p].pc \in Scanning /\ proc[p].todo # {}
      /\ UNCHANGED <<artifacts, active, cache, huntRows, fin, history>>
  BY DEF HuntsInv, ExecuteLookup, Scanning
<1>2. PICK x \in Artifacts : x = Current(p)
  BY <1>1, CurrentIs
<1>3. cache[x] \in Status \cup {None} /\ (cache[x] = "clean" => x \notin Matching)
  BY <1>1 DEF CacheInv
<1>4. CacheInv'
  BY <1>1 DEF CacheInv
<1>5. CASE cache[x] = None
  <2>1. Goto(p, "scan")
    BY <1>2, <1>5, NoneApart DEF ExecuteLookup, Status
  <2> QED
    BY <1>1, <1>4, <2>1, ScanGoto
<1>6. CASE cache[x] = "matched"
  <2>1. Goto(p, "match")
    BY <1>2, <1>6, NoneApart DEF ExecuteLookup, Status
  <2>2. cache'[Current(p)] # None
    BY <1>1, <1>2, <1>6, NoneApart DEF Status
  <2> QED
    BY <1>1, <1>4, <2>1, <2>2, ScanGoto
<1>7. CASE cache[x] \in {"clean", "incomplete"}
  <2>1. Advance(p, cache[x])
    BY <1>2, <1>7, NoneApart DEF ExecuteLookup, Status
  <2>2. cache'[Current(p)] # None
    BY <1>1, <1>2, <1>7, NoneApart DEF Status
  <2>3. cache[x] = "incomplete" \/ Current(p) \notin Matching
    BY <1>2, <1>3, <1>7
  <2>4. matches' = matches
        /\ UNCHANGED <<artifacts, active, state, watermark, job, queue, reanalysis, fin, history>>
    BY <1>1 DEF huntRows
  <2> QED
    BY <1>1, <1>4, <2>1, <2>2, <2>3, <2>4, AdvanceStep
<1> QED
  BY <1>3, <1>5, <1>6, <1>7 DEF Status

LEMMA ExecuteScanStep ==
    ASSUME HuntsInv, NEW p \in Procs, ExecuteScan(p)
    PROVE  HuntsInv'
<1>1. CacheInv /\ CallInv /\ proc[p].pc = "scan" /\ proc[p].pc \in Scanning
      /\ UNCHANGED <<artifacts, active, huntRows, fin, history>>
  BY DEF HuntsInv, ExecuteScan, Scanning
<1>2. proc[p].todo # {}
  BY <1>1 DEF CallInv, CallFits, ScanFits
<1>3. PICK x \in Artifacts : x = Current(p)
  BY <1>1, <1>2, CurrentIs
<1>4. PICK status \in Outcomes(x) :
        /\ commit_cache_entry(x, status)
        /\ IF status = "matched" THEN Goto(p, "match") ELSE Advance(p, status)
  BY <1>3 DEF ExecuteScan
<1>5. /\ CacheInv' /\ cache'[Current(p)] # None
      /\ \A b \in Artifacts : cache[b] # None => cache'[b] = cache[b]
  BY <1>1, <1>3, <1>4, CommitCache
<1>6. CASE status = "matched"
  BY <1>1, <1>2, <1>4, <1>5, <1>6, ScanGoto
<1>7. CASE status # "matched"
  <2>1. Advance(p, status)
    BY <1>4, <1>7
  <2>2. status = "incomplete" \/ Current(p) \notin Matching
    BY <1>3, <1>7 DEF Outcomes
  <2>3. matches' = matches
        /\ UNCHANGED <<artifacts, active, state, watermark, job, queue, reanalysis, fin, history>>
    BY <1>1 DEF huntRows
  <2> QED
    BY <1>1, <1>2, <1>5, <2>1, <2>2, <2>3, AdvanceStep
<1> QED
  BY <1>6, <1>7

LEMMA ExecuteMatchStep ==
    ASSUME HuntsInv, NEW p \in Procs, ExecuteMatch(p)
    PROVE  HuntsInv'
<1>1. CacheInv /\ CallInv /\ proc[p].pc = "match" /\ proc[p].pc \in Scanning
      /\ UNCHANGED <<artifacts, active, cache, state, watermark, job, queue, reanalysis, fin, history>>
      /\ Advance(p, "matched") /\ commit_match(proc[p].hunt, Current(p))
  BY DEF HuntsInv, ExecuteMatch, Scanning
<1>2. proc[p].todo # {} /\ cache[Lowest(proc[p].todo)] # None
  BY <1>1 DEF CallInv, CallFits, ScanFits
<1>3. cache'[Current(p)] # None
  BY <1>1, <1>2, CurrentIs
<1>4. CacheInv'
  BY <1>1 DEF CacheInv
<1>5. <<proc[p].hunt, Current(p)>> \in matches' /\ matches \subseteq matches'
  BY <1>1 DEF commit_match
<1> QED
  BY <1>1, <1>2, <1>3, <1>4, <1>5, AdvanceStep

LEMMA ExecuteFinishStep ==
    ASSUME HuntsInv, NEW p \in Procs, ExecuteFinish(p)
    PROVE  HuntsInv'
<1>1. ArtifactInv /\ CacheInv /\ RowInv /\ CallInv /\ HoldInv
  BY DEF HuntsInv
<1>2. proc[p].pc = "next" /\ proc[p].todo = {} /\ "next" \in ExecutePcs /\ "close" \in ExecutePcs
  BY DEF ExecuteFinish, ExecutePcs
<1>3. proc[p] \in ExecuteCall /\ Apart(proc[p], proc[p].hunt) /\ proc[p].hunt \in Hunts
      /\ state[proc[p].hunt] # None
  BY <1>1, <1>2, ExecuteShape
<1>4. PICK h \in Hunts : h = proc[p].hunt
  BY <1>3
<1>5. PICK s \in {"COMPLETED", "COMPLETED_PARTIAL"} :
        s = IF proc[p].partial THEN "COMPLETED_PARTIAL" ELSE "COMPLETED"
  OBVIOUS
<1>6. PICK v \in ExecuteCall :
        /\ v.pc = "close" /\ v.hunt = proc[p].hunt /\ v.wm = proc[p].wm
        /\ proc' = [proc EXCEPT ![p] = v]
  BY <1>1, <1>2, <1>3, ExecuteGoto DEF ExecuteFinish
<1>7. PICK S \in SUBSET Artifacts : S = proc[p].sel
  BY <1>3 DEF ExecuteCall
<1>8. /\ UNCHANGED <<seq, committed, nextSeq, active, cache, fin>>
      /\ UNCHANGED <<watermark, job, queue, matches, reanalysis, lost, raced>>
      /\ state' = [state EXCEPT ![h] = s] /\ covered' = [covered EXCEPT ![h] = S]
  BY <1>4, <1>5, <1>7 DEF ExecuteFinish, set_state, artifacts
<1>9. s \in States /\ s # None /\ s \notin Moving
  BY NoneApart DEF States, Terminal, Moving
<1>10. /\ state' \in [Hunts -> States \cup {None}] /\ covered' \in [Hunts -> SUBSET Artifacts]
       /\ state'[h] = s /\ covered'[h] = S
       /\ \A g \in Hunts \ {h} : state'[g] = state[g] /\ covered'[g] = covered[g]
  BY <1>1, <1>8, <1>9 DEF RowInv
<1>11. Planned' = Planned
  BY <1>8 DEF Planned
<1>12. RowTypes' /\ CacheInv'
  BY <1>1, <1>8, <1>10, <1>11 DEF RowInv, RowTypes, CacheInv
<1>13. v \in CallRec /\ Apart(v, h) /\ v.pc \notin EnqueuePcs
  BY <1>4, <1>6, ExecuteApart
<1>14. \A g \in Hunts : Own(g)' => Own(g)
  BY <1>1, <1>6, <1>8, <1>13, OwnStays
<1>15. CallStep(p, v, h)
  BY <1>3, <1>4, <1>6, <1>8, <1>9, <1>10, <1>12, <1>13, <1>14 DEF CallStep
<1>16. PICK r \in ExecuteCall : r = proc[p] /\ CallFits(r)' /\ Grows
  BY <1>1, <1>3, <1>13, <1>15, CallGrows, ExecuteApart DEF CallInv
<1>17. ExecuteFits(v)'
  BY <1>2, <1>6, <1>16 DEF CallFits, ExecuteFits
<1>18. ScanFits(v)'
  BY <1>6 DEF ScanFits, Scanning
<1>19. CallFits(v)'
  BY <1>17, <1>18, FitsExecute
<1>20. RowFits(h)'
  <2>1. r.pc \in Scanning /\ ScanFits(r)'
    BY <1>2, <1>16 DEF Scanning, CallFits
  <2>2. state'[h] = "COMPLETED" => \A a \in covered'[h] \cap Matching : <<h, a>> \in matches'
    BY <1>2, <1>4, <1>5, <1>7, <1>10, <1>16, <2>1 DEF ScanFits
  <2>3. Own(h)' => Uncovered' = {}
    BY <1>2, <1>4, <1>16, <2>1 DEF ScanFits
  <2>4. Own(h)' => active' /\ (watermark'[h] # None => Above(watermark[h])')
    <3>1. RowFits(h)
      BY <1>1 DEF RowInv
    <3>2. Own(h)' => active' /\ \A wm : Above(wm) => Above(wm)'
      BY <1>1, <1>3, <1>4, <1>8, <1>16, AboveStays
    <3> QED
      BY <1>8, <1>14, <3>1, <3>2 DEF RowFits
  <2> QED
    BY <1>9, <1>10, <2>2, <2>3, <2>4 DEF RowFits
<1>21. HoldFits(h)'
  BY <1>1, <1>2, <1>3, <1>4, <1>6, <1>8, <1>9, <1>10, HoldRuns DEF Early
<1> QED
  BY <1>13, <1>15, <1>19, <1>20, <1>21, CallStepKeeps

LEMMA ExecuteCloseStep ==
    ASSUME HuntsInv, NEW p \in Procs, ExecuteClose(p)
    PROVE  HuntsInv'
<1>1. ArtifactInv /\ RowInv /\ CallInv /\ HoldInv
  BY DEF HuntsInv
<1>2. proc[p].pc = "close" /\ proc[p].pc \in ExecutePcs
  BY DEF ExecuteClose, ExecutePcs
<1>3. proc[p] \in ExecuteCall /\ proc[p].hunt \in Hunts /\ state[proc[p].hunt] # None
  BY <1>1, <1>2, ExecuteShape
<1>4. PICK h \in Hunts : h = proc[p].hunt /\ state[h] # None
  BY <1>3
<1>5. PICK s \in States : s = state[h]
  BY <1>1, <1>4 DEF RowInv
<1>6. PICK j \in {"none", "pending", "claimed", "finished"} : j = "finished"
  OBVIOUS
<1>7. /\ UNCHANGED <<seq, committed, nextSeq, active, cache, fin, covered>>
      /\ UNCHANGED <<state, watermark, matches, reanalysis, lost, raced>>
      /\ job' = [job EXCEPT ![h] = j] /\ proc' = [proc EXCEPT ![p] = Idle]
  BY <1>4, <1>6 DEF ExecuteClose, Return, artifacts, history
<1>8. state' = [state EXCEPT ![h] = s]
  BY <1>1, <1>5, <1>7 DEF RowInv
<1>9. queue' \in Seq(Planned)
  <2>1. RemoveFirst(queue, h) \in Seq(Planned)
    BY <1>1, RemoveFirstSeq DEF RowInv
  <2> QED
    BY <1>4, <2>1 DEF ExecuteClose
<1>10. Apart(proc[p], h) /\ ~Keeps(proc[p], h) /\ Runs(proc[p], h)
  BY <1>2, <1>3, <1>4, ExecuteApart
<1>11. PICK v \in CallRec : v = Idle /\ v.pc \notin EnqueuePcs
  BY IdleIsCall DEF EnqueuePcs
<1>12. CallStep(p, v, h) /\ RowFits(h)' /\ job'[h] = j
  <2>1. raced \subseteq raced' /\ proc' = [proc EXCEPT ![p] = v] /\ Apart(v, h)
    BY <1>7, <1>11, FitsIdle
  <2>2. UNCHANGED <<seq, committed, nextSeq, active, cache, fin, covered>>
        /\ UNCHANGED <<watermark, matches, reanalysis, lost>>
        /\ job' = [job EXCEPT ![h] = j]
    BY <1>7
  <2>3. state[h] # None
    BY <1>4
  <2> QED
    BY <1>5, <1>8, <1>9, <1>10, <1>11, <2>1, <2>2, <2>3, RowStep
<1>13. HoldFits(h)'
  <2>1. proc'[p] = Idle /\ \A q \in Procs \ {p} : proc'[q] = proc[q]
    BY <1>1, <1>7 DEF CallInv
  <2>2. HoldFits(h)
    BY <1>1 DEF HoldInv
  <2>3. h \notin raced => job[h] # "pending"
    BY <1>2, <1>10, <2>2 DEF HoldFits
  <2> QED
    BY <1>6, <1>7, <1>10, <1>12, <2>1, <2>2, <2>3, FitsIdle DEF HoldFits
<1> QED
  BY <1>11, <1>12, <1>13, FitsIdle, CallStepKeeps

(***************************************************************************)
(* The specification                                                       *)
(***************************************************************************)
LEMMA HuntsStep ==
    ASSUME HuntsInv, [Next]_vars
    PROVE  HuntsInv'
<1>1. CASE \E f \in Finalizers : FinalizeStep(f) \/ FinalizeAbort(f)
  BY <1>1, FinalizeInsertStep, FinalizeCommitStep, ForwardBundlesStep, ForwardLookupStep,
     ForwardScanStep, ForwardMatchStep, FinalizeAbortStep DEF FinalizeStep
<1>2. ASSUME NEW c \in Procs, EnqueueStep(c) PROVE HuntsInv'
  BY <1>2, EnqueueCheckStep, EnqueueValidateStep, EnqueueFailStep, EnqueueWatermarkStep,
     EnqueuePlanStep, EnqueueQueueStep, EnqueueJobStep, RecordStep DEF EnqueueStep
<1>3. ASSUME NEW c \in Clients,
             \/ create_hunt(c)
             \/ \E h \in Hunts, sync \in BOOLEAN : RunHunt(c, h, sync)
             \/ publish_bundle(c) \/ ActivateFind(c) \/ ActivateReuse(c) \/ ActivateCreate(c)
             \/ EnqueueStep(c)
      PROVE  HuntsInv'
  <2>1. c \in Procs
    BY DEF Procs
  <2> QED
    BY <1>2, <1>3, <2>1, CreateHuntStep, RunHuntStep, PublishStep, ActivateFindStep,
       ActivateReuseStep, ActivateCreateStep
<1>4. CASE \E w \in Workers : claim_next_job(w)
  BY <1>4, ClaimStep DEF Procs
<1>5. ASSUME NEW p \in Procs, ExecuteStep(p) PROVE HuntsInv'
  BY <1>5, ExecuteStartStep, ExecuteFailStep, ExecuteRunningStep, ExecuteClaimStep,
     ExecuteSelectStep, ExecuteLookupStep, ExecuteScanStep, ExecuteMatchStep,
     ExecuteFinishStep, ExecuteCloseStep DEF ExecuteStep
<1>6. CASE UNCHANGED vars
  <2>1. /\ UNCHANGED <<seq, committed, nextSeq, active, cache, fin, covered>>
        /\ UNCHANGED <<state, watermark, job, queue, matches, reanalysis, lost, raced, proc>>
    BY <1>6 DEF vars, artifacts, huntRows, history
  <2>2. ArtifactInv' /\ CacheInv' /\ Uncovered' = Uncovered
    BY <2>1 DEF HuntsInv, ArtifactInv, CacheInv, Uncovered
  <2> QED
    BY <2>1, <2>2, ForwardStep
<1> QED
  BY <1>1, <1>3, <1>4, <1>5, <1>6, ProcAbortStep DEF Next

LEMMA HuntsInvariant == Spec => []HuntsInv
<1>1. Init => HuntsInv
  <2> SUFFICES ASSUME Init PROVE HuntsInv
    OBVIOUS
  <2>1. ArtifactInv
    BY NoneApart DEF Init, ArtifactInv, Number, FinPcs
  <2>2. CacheInv
    BY NoneApart DEF Init, CacheInv, Status
  <2>3. proc \in [Procs -> CallRec] /\ \A p \in Procs : proc[p] = Idle
    BY IdleIsCall DEF Init
  <2>4. CallInv
    BY <2>3, IdleIsCall DEF CallInv, CallFits, FindFits, EnqueueFits, ExecuteFits, ScanFits,
       Scanning, EnqueuePcs, ExecutePcs
  <2>5. \A h \in Hunts : ~Own(h)
    BY <2>3, IdleIsCall DEF Init, Own, EnqueuePcs
  <2>6. \A h \in Hunts : RowFits(h)
    BY <2>5, NoneApart DEF Init, RowFits, States, Terminal
  <2>7. RowInv
    <3>q. queue = <<>> /\ active = FALSE
      BY DEF Init
    <3>e. <<>> \in Seq(Planned)
      BY EmptySeq
    <3>b. FALSE \in BOOLEAN
      OBVIOUS
    <3>1. queue \in Seq(Planned) /\ active \in BOOLEAN
      BY <3>q, <3>e, <3>b
    <3>2. /\ state \in [Hunts -> States \cup {None}] /\ watermark \in [Hunts -> Number]
          /\ job \in [Hunts -> {"none", "pending", "claimed", "finished"}]
          /\ covered \in [Hunts -> SUBSET Artifacts]
      BY DEF Init, Number
    <3> QED
      BY <2>6, <3>1, <3>2 DEF RowInv
  <2>8. HoldInv
    BY <2>3, IdleIsCall, NoneApart DEF Init, HoldInv, HoldFits, Past, Runs, Moving, States,
       EnqueuePcs, ExecutePcs
  <2> QED
    BY <2>1, <2>2, <2>4, <2>7, <2>8 DEF HuntsInv
<1>2. HuntsInv /\ [Next]_vars => HuntsInv'
  BY HuntsStep
<1> QED
  BY <1>1, <1>2, PTL DEF Spec

\* Theorem: a COMPLETED hunt has a match row for every matching artifact its
\* run selected, however its scans, the forward scans and other runs shared
\* the scan cache and whichever of them timed out (execute_hunt, hunts.rs).
THEOREM HuntsComplete == Spec => []NothingMissed
<1>1. HuntsInv => NothingMissed
  BY DEF HuntsInv, RowInv, RowFits, NothingMissed
<1> QED
  BY <1>1, HuntsInvariant, PTL

\* Theorem: a hunt on its way is in the hands of an enqueue call, a pending
\* job or a run, as long as no enqueue overlapped another call on it and no
\* call on it was dropped (enqueue_hunt, claim_next_job, execute_hunt).
THEOREM HuntsKept == Spec => []NoLostHunt
<1>1. ASSUME HuntsInv, NEW h \in Hunts \ raced PROVE Held(h)
  <2>1. HoldFits(h)
    BY <1>1 DEF HuntsInv, HoldInv
  <2>2. \A p \in Procs : Keeps(proc[p], h) => AtWork(p, h)
    BY DEF Keeps, Past, Runs, AtWork, Enqueuing, Executing
  <2> QED
    BY <2>1, <2>2 DEF HoldFits, Held, Moving
<1>2. HuntsInv => NoLostHunt
  BY <1>1 DEF NoLostHunt
<1> QED
  BY <1>2, HuntsInvariant, PTL

\* Theorem: once the hunt an activation enqueued is over and no finalize call
\* is under way, every endpoint artifact has been scanned with the bundle,
\* except those whose finalize call was dropped (on_bundle_activated,
\* forward_scan, enqueue_hunt's watermark).
THEOREM ActivationComplete == Spec => []ActivationCovers
<1>1. ASSUME HuntsInv, NEW h \in Hunts, <<h, "enqueued">> \in reanalysis PROVE Covers(h)
  <2> SUFFICES ASSUME state[h] \in {"COMPLETED", "COMPLETED_PARTIAL"}, Quiet,
                      NEW a \in (committed \cap Endpoint) \ lost
               PROVE  cache[a] # None
    BY DEF Covers
  <2>1. Own(h) /\ RowFits(h)
    BY <1>1 DEF Own, HuntsInv, RowInv
  <2>2. Uncovered = {}
    BY <2>1 DEF RowFits
  <2>3. \A f \in Finalizers : fin[f] \notin Forwarding
    BY DEF Quiet, Forwarding
  <2> QED
    BY <2>2, <2>3 DEF Uncovered
<1>2. HuntsInv => ActivationCovers
  BY <1>1 DEF ActivationCovers
<1> QED
  BY <1>2, HuntsInvariant, PTL
=============================================================================
