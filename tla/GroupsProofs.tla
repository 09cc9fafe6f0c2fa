---------------------------- MODULE GroupsProofs ----------------------------
(***************************************************************************)
(* Proofs for module VariantGroups, for any finite set of artifacts, any    *)
(* contents they have in common, and any number of calls that interleave    *)
(* statement by statement, fail and are dropped; and for module             *)
(* Neighborhood, for any finite graphs and limits.                          *)
(***************************************************************************)
EXTENDS VariantGroups, Neighborhood, FiniteSetTheorems, WellFoundedInduction, TLAPS

(***************************************************************************)
(* What a call is, and what it knows, as a matter of its record alone       *)
(***************************************************************************)
CallRec ==
    [pc : {"run", "link", "done"} \cup UnionPcs, art : Artifacts, todo : SUBSET Artifacts,
     step : 1..11, cands : SUBSET Artifacts, pair : SUBSET Artifacts,
     src : Nat \cup {None}, dst : Nat \cup {None}]
CleanRec == [pc : CleanPcs, art : Artifacts, step : 1..6, group : Nat \cup {None}]

SrcOf(c) == CHOOSE x \in c.pair : \A y \in c.pair : x <= y
DstOf(c) == CHOOSE x \in c.pair : \A y \in c.pair : y <= x
KeepOf(c) == IF c.src < c.dst THEN c.src ELSE c.dst
DropOf(c) == IF c.src < c.dst THEN c.dst ELSE c.src
SectionOf(c) == c.pc \in UnionPcs \cup CleanPcs
SubjectOf(c) == IF c.pc \in UnionPcs THEN CHOOSE x \in c.pair : TRUE ELSE c.art

\* The statements that look up candidates, and those whose edges unite.
LinkSteps == {4, 5, 10, 11}
\* The layers follow the rows they need; a union is for two artifacts.
CallOK(c) ==
    /\ c.pc = "run" => c.cands = {}
    /\ c.pc = "link" => c.cands # {}
    /\ c.pc \notin {"run", "done"} => c.step \in LinkSteps
    /\ c.pc = "done" => c.step = 11
    /\ c.art \notin c.cands
    /\ c.pc \in UnionPcs => \E y \in Artifacts \ {c.art} : c.pair = {c.art, y} /\ y \notin c.cands

GroupsTypeOK ==
    /\ rows \in [Artifacts -> SUBSET RowKinds]
    /\ edges \subseteq (SUBSET Artifacts) \X Types
    /\ groups \subseteq used /\ used \subseteq Nat
    /\ member \in [Artifacts -> Nat \cup {None}]
    /\ proc \in [Procs -> {Idle} \cup CallRec \cup CleanRec]
    /\ analyzed \subseteq Artifacts /\ spoiled \subseteq Artifacts /\ torn \subseteq Artifacts
    /\ ever \subseteq SUBSET Artifacts
CallsInv ==
    \A p \in Procs :
        /\ proc[p] \in CallRec => CallOK(proc[p])
        /\ proc[p].pc = "read_group" => proc[p].step = 1

(***************************************************************************)
(* Families                                                                *)
(***************************************************************************)
Strong == {"normalized_equivalent", "semantic_variant_strong"}

\* The call holds g as the group of x.
HoldsOf(c, x, g) ==
    \/ c.pc \in {"read_dst", "merge", "add_src", "add_dst", "drop_group"} /\ x = SrcOf(c) /\ g = c.src
    \/ c.pc \in {"merge", "add_src", "add_dst", "drop_group"} /\ x = DstOf(c) /\ g = c.dst
    \/ c.pc \in CleanPcs \ {"read_group"} /\ x = c.art /\ g = c.group

\* x is in g, or some call believes so.
InGroup(x, g) == member[x] = g \/ \E p \in Procs : HoldsOf(proc[p], x, g)

EverInv ==
    /\ \A p \in Procs : proc[p].pc \in UnionPcs => proc[p].pair \in ever
    /\ \A e \in edges : e[2] \in Strong =>
         e[1] \in ever /\ \E x, y \in Artifacts : x # y /\ e[1] = {x, y}
HeldInv ==
    \A p \in Procs : proc[p].pc \in {"merge", "drop_group"} =>
        proc[p].src # None /\ proc[p].dst # None /\ proc[p].src # proc[p].dst
UsedInv == \A x \in Artifacts, g \in Nat : InGroup(x, g) => g \in used
FamilyInv ==
    \A g \in Nat : \A x, y \in Artifacts : InGroup(x, g) /\ InGroup(y, g) => Connected(ever, x, y)
ForeignKeyInv == \A x \in Artifacts : member[x] # None => member[x] \in groups

(***************************************************************************)
(* Unions and cleanups one after the other                                 *)
(***************************************************************************)
\* Two that are at work in one component have torn it.
SerialInv ==
    \A p, q \in Procs :
        p # q /\ Section(p) /\ Section(q) /\ Connected(ever, Subject(p), Subject(q))
        => Component(Subject(p)) \subseteq torn

NoStrongEdge(x, E) == \A e \in E : e[2] \in Strong => x \notin e[1]
Members(g) == {x \in Artifacts : member[x] = g}
Empty(m, g) == \A x \in Artifacts : m[x] # g

\* What a union, alone in its component, has read is still so, for the members m
\* and the groups G.
UnionKnows(c, m, G) ==
    LET s == SrcOf(c)
        d == DstOf(c) IN
    /\ c.pc = "read_dst" => m[s] = c.src
    /\ c.pc = "merge" => m[s] = c.src /\ m[d] = c.dst
    /\ c.pc = "new_group" => m[s] = None /\ m[d] = None
    /\ c.pc = "add_src" =>
         /\ m[s] = None
         /\ c.src = None => c.dst # None /\ m[d] = c.dst
         /\ c.src # None => c.src = c.dst /\ c.src \in G /\ m[d] = None /\ Empty(m, c.src)
    /\ c.pc = "add_dst" => m[d] = None /\ c.src # None /\ m[s] = c.src
    /\ c.pc = "drop_group" => m[s] = KeepOf(c) /\ m[d] = KeepOf(c) /\ Empty(m, DropOf(c))

\* So is what a cleanup has read; the edges E are gone before the membership.
CleanKnows(c, m, E) ==
    /\ c.pc = "delete" => m[c.art] = c.group /\ (c.step > 4 => NoStrongEdge(c.art, E))
    /\ c.pc \in {"repair", "dissolve", "clean_group"} =>
         c.group # None /\ NoStrongEdge(c.art, E) /\ m[c.art] = None
    /\ c.pc = "dissolve" => \A x, y \in Artifacts : m[x] = c.group /\ m[y] = c.group => x = y
    /\ c.pc = "clean_group" => Empty(m, c.group)

Knows(c, m, G, E) ==
    /\ c.pc \in UnionPcs => UnionKnows(c, m, G)
    /\ c.pc \in CleanPcs => CleanKnows(c, m, E)
KnowsInv ==
    \A p \in Procs : Section(p) /\ ~(Component(Subject(p)) \subseteq torn) =>
        Knows(proc[p], member, groups, edges)

LinkedInv ==
    \A e \in edges : e[2] \in Strong /\ e[1] \cap torn = {} =>
        \/ \A x, y \in e[1] : member[x] # None /\ member[x] = member[y]
        \/ \E p \in Procs : proc[p].pc \in UnionPcs /\ proc[p].pair = e[1]

\* A call that will fill the group or take it away.
OwesOf(c, g) ==
    \/ c.pc \in {"add_src", "add_dst"} /\ c.src = g
    \/ c.pc = "drop_group" /\ DropOf(c) = g
    \/ c.pc \in {"repair", "dissolve", "clean_group"} /\ c.group = g
HollowInv ==
    torn = {} => \A g \in groups :
        \/ \E x, y \in Artifacts : x # y /\ member[x] = g /\ member[y] = g
        \/ \E p \in Procs : OwesOf(proc[p], g)

(***************************************************************************)
(* Edges of analyzed pairs                                                 *)
(***************************************************************************)
AnalysisOf(c, x) == c \in CallRec /\ c.art = x
Analyzing(p, x) == AnalysisOf(proc[p], x)
\* The call has dealt with y as a candidate of the layer of step k.
HandledOf(c, k, y) == c.step > k \/ (c.step = k /\ c.pc # "run" /\ y \notin c.cands)
Passed(x, k, y) ==
    x \in analyzed \/ \E p \in Procs : Analyzing(p, x) /\ HandledOf(proc[p], k, y)

CleanupsInv == \A p \in Procs : proc[p] \in CleanRec => proc[p].art \in spoiled
\* A row is there once a call of an unspoiled artifact is past its store.
Stored(x, k) == x \in analyzed \/ \E p \in Procs : Analyzing(p, x) /\ proc[p].step > k
RowsInv ==
    \A x \in Artifacts \ spoiled :
        /\ Stored(x, 1) => "features" \in rows[x]
        /\ Stored(x, 6) => "part" \in rows[x]
        /\ Stored(x, 7) => "function" \in rows[x]
        /\ Stored(x, 9) => "band" \in rows[x] \/ \E p \in Procs : Analyzing(p, x) /\ proc[p].step = 9
        /\ "band" \in rows[x] => "function" \in rows[x]
NormalizedInv ==
    \A x, y \in Artifacts \ spoiled :
        x # y /\ {x, y} \in Related["normalized"] /\ Passed(x, 4, y) /\ Passed(y, 4, x)
        => <<{x, y}, "normalized_equivalent">> \in edges

\* The pairs the semantic layer is sure to score: none of them over the cap.
ScoredPairs == {e \in Related["semantic"] \cap StrongPairs \cap Banded["semantic"] :
                  \A z \in e : ~Popular(z)}

\* A call has cleared its bands and has y before it.
Will(x, y) ==
    \E p \in Procs : Analyzing(p, x) /\ proc[p].step \in {9, 10} /\ ~HandledOf(proc[p], 10, y)
SemanticInv ==
    \A x, y \in Artifacts \ spoiled :
        /\ x # y /\ {x, y} \in ScoredPairs
        /\ Passed(x, 10, y) /\ Passed(y, 10, x)
        => <<{x, y}, "semantic_variant_strong">> \in edges \/ Will(x, y) \/ Will(y, x)

(***************************************************************************)
(* Components                                                              *)
(***************************************************************************)
LEMMA ConnectedSelf ==
    ASSUME NEW E, NEW x \in Artifacts
    PROVE  Connected(E, x, x)
  BY DEF Connected

LEMMA ConnectedBack ==
    ASSUME NEW E, \A e \in E : e \subseteq Artifacts, NEW x \in Artifacts, NEW y \in Artifacts, Connected(E, x, y)
    PROVE  Connected(E, y, x)
<1> SUFFICES ASSUME NEW S \in SUBSET Artifacts, y \in S, Closed(S, E), x \notin S PROVE FALSE
  BY DEF Connected
<1>1. Closed(Artifacts \ S, E)
  BY DEF Closed
<1> QED
  BY <1>1 DEF Connected

LEMMA ConnectedOn ==
    ASSUME NEW E, NEW x \in Artifacts, NEW y \in Artifacts, NEW z \in Artifacts,
           Connected(E, x, y), Connected(E, y, z)
    PROVE  Connected(E, x, z)
  BY DEF Connected

LEMMA ConnectedMore ==
    ASSUME NEW E, NEW F, E \subseteq F, NEW x \in Artifacts, NEW y \in Artifacts, Connected(E, x, y)
    PROVE  Connected(F, x, y)
  BY DEF Connected, Closed

LEMMA ConnectedPair ==
    ASSUME NEW E, NEW e \in E, NEW x \in e, NEW y \in e
    PROVE  Connected(E, x, y)
  BY DEF Connected, Closed

(***************************************************************************)
(* The calls                                                               *)
(***************************************************************************)
LEMMA ProgramFacts ==
    /\ Len(Program) = 11
    /\ \A k \in 1..11 :
         /\ Program[k].op = "link" <=> k \in LinkSteps
         /\ k \in {1, 3, 6, 7, 9} <=> Program[k].op = "store"
         /\ k \in {2, 8} <=> Program[k].op = "clear"
    /\ Program[1].arg = "features" /\ Program[2].arg = "lsh" /\ Program[3].arg = "lsh"
    /\ Program[4].arg = "normalized" /\ Program[5].arg = "byte" /\ Program[6].arg = "part"
    /\ Program[7].arg = "function" /\ Program[8].arg = "band" /\ Program[9].arg = "band"
    /\ Program[10].arg = "semantic" /\ Program[11].arg = "provenance"
<1>1. Len(Program) = 11
  BY DEF Program
<1>2. /\ Program[1] = Store("features") /\ Program[2] = Clear("lsh") /\ Program[3] = Store("lsh")
      /\ Program[4] = LinkBy("normalized") /\ Program[5] = LinkBy("byte") /\ Program[6] = Store("part")
      /\ Program[7] = Store("function") /\ Program[8] = Clear("band") /\ Program[9] = Store("band")
      /\ Program[10] = LinkBy("semantic") /\ Program[11] = LinkBy("provenance")
  BY DEF Program
<1>3. \A k \in 1..11 : k \in {1, 2, 3, 4, 5, 6, 7, 8, 9, 10, 11}
  OBVIOUS
<1> QED
  BY <1>1, <1>2, <1>3 DEF Store, Clear, LinkBy, LinkSteps

LEMMA LeastNumber ==
    ASSUME NEW S \in SUBSET Nat, S # {}
    PROVE  \E n \in S : \A m \in S : n <= m
<1>1. IsWellFoundedOn(OpToRel(<, Nat), Nat)
  BY NatLessThanWellFounded
<1>2. PICK n \in S : \A m \in S : ~(<<m, n>> \in OpToRel(<, Nat))
  BY <1>1, WFMin
<1>3. \A m \in S : ~(m < n)
  BY <1>2, Zenon DEF OpToRel
<1> QED
  BY <1>3

LEMMA FirstIn ==
    ASSUME NEW S \in SUBSET Artifacts, S # {}
    PROVE  First(S) \in S
<1> DEFINE N == {seq[x] : x \in S}
<1>1. seq \in [Artifacts -> Nat]
  BY VariantAssumption
<1>2. N \in SUBSET Nat /\ N # {}
  BY <1>1
<1> HIDE DEF N
<1>3. PICK n \in N : \A m \in N : n <= m
  BY <1>2, LeastNumber
<1>4. PICK x \in S : n = seq[x]
  BY DEF N
<1>5. \A y \in S : seq[x] <= seq[y]
  BY <1>3, <1>4 DEF N
<1> QED
  BY <1>5 DEF First

\* The two ends of an edge.
LEMMA PairEnds ==
    ASSUME NEW c, NEW a \in Artifacts, NEW b \in Artifacts, a # b, c.pair = {a, b}
    PROVE  /\ SrcOf(c) \in {a, b} /\ DstOf(c) \in {a, b} /\ SrcOf(c) # DstOf(c)
           /\ {SrcOf(c), DstOf(c)} = c.pair
           /\ (CHOOSE x \in c.pair : TRUE) \in {a, b}
<1>0. a \in Nat /\ b \in Nat
  BY VariantAssumption
<1>1. \E x \in c.pair : \A y \in c.pair : x <= y
  BY <1>0
<1>2. \E x \in c.pair : \A y \in c.pair : y <= x
  BY <1>0
<1>3. SrcOf(c) \in c.pair /\ \A y \in c.pair : SrcOf(c) <= y
  BY <1>1 DEF SrcOf
<1>4. DstOf(c) \in c.pair /\ \A y \in c.pair : y <= DstOf(c)
  BY <1>2 DEF DstOf
<1>5. (CHOOSE x \in c.pair : TRUE) \in c.pair
  OBVIOUS
<1> QED
  BY <1>0, <1>3, <1>4, <1>5

LEMMA Names ==
    ASSUME NEW p \in Procs
    PROVE  /\ src(p) = SrcOf(proc[p]) /\ dst(p) = DstOf(proc[p])
           /\ Keep(p) = KeepOf(proc[p]) /\ Drop(p) = DropOf(proc[p])
           /\ Section(p) <=> SectionOf(proc[p])
           /\ Subject(p) = SubjectOf(proc[p])
  BY DEF src, dst, SrcOf, DstOf, Keep, Drop, KeepOf, DropOf, Section, Subject, SectionOf, SubjectOf

\* Which record a call has, by its program counter.
LEMMA Kinds ==
    ASSUME GroupsTypeOK, NEW p \in Procs
    PROVE  /\ proc[p] \in {Idle} \cup CallRec \cup CleanRec
           /\ proc[p].pc \in {"run", "link", "done"} \cup UnionPcs => proc[p] \in CallRec
           /\ proc[p].pc \in CleanPcs => proc[p] \in CleanRec
           /\ proc[p] = Idle => proc[p].pc = "idle"
           /\ proc[p] \in CallRec => proc[p].pc \in {"run", "link", "done"} \cup UnionPcs
           /\ proc[p] \in CleanRec => proc[p].pc \in CleanPcs
           /\ proc[p] # Idle => proc[p].art \in Artifacts
<1>1. proc[p] \in {Idle} \cup CallRec \cup CleanRec
  BY DEF GroupsTypeOK
<1>2. /\ \A c \in CallRec : c.pc \in {"run", "link", "done"} \cup UnionPcs /\ c.art \in Artifacts
      /\ \A c \in CleanRec : c.pc \in CleanPcs /\ c.art \in Artifacts
      /\ Idle.pc = "idle"
  BY DEF CallRec, CleanRec, Idle
<1> QED
  BY <1>1, <1>2 DEF UnionPcs, CleanPcs

\* The call of p moves on and nothing else of the calls changes.
Becomes(p, c) == proc' = [proc EXCEPT ![p] = c]
Sound(c) ==
    /\ c \in {Idle} \cup CallRec \cup CleanRec
    /\ c \in CallRec => CallOK(c)
    /\ c.pc = "read_group" => c.step = 1

LEMMA BecomesSound ==
    ASSUME GroupsTypeOK, CallsInv, NEW p \in Procs, NEW c, Becomes(p, c), Sound(c)
    PROVE  /\ proc' \in [Procs -> {Idle} \cup CallRec \cup CleanRec]
           /\ CallsInv'
           /\ proc'[p] = c
           /\ \A q \in Procs : q # p => proc'[q] = proc[q]
<1>1. proc \in [Procs -> {Idle} \cup CallRec \cup CleanRec]
  BY DEF GroupsTypeOK
<1>2. proc' \in [Procs -> {Idle} \cup CallRec \cup CleanRec] /\ proc'[p] = c /\ \A q \in Procs : q # p => proc'[q] = proc[q]
  BY <1>1 DEF Becomes, Sound
<1>3. CallsInv'
  BY <1>2 DEF CallsInv, Sound
<1> QED
  BY <1>2, <1>3

LEMMA IdleSound == Sound(Idle)
<1>1. \A c \in CallRec : c.pc # "idle"
  BY DEF CallRec, UnionPcs
<1> QED
  BY <1>1 DEF Sound, Idle

\* Continue goes on with the next candidate or the next statement.
LEMMA ContinueFacts ==
    ASSUME NEW c \in CallRec, c.step \in LinkSteps \/ c.cands = {}, c.art \notin c.cands
    PROVE  /\ Continue(c) \in CallRec
           /\ Sound(Continue(c))
           /\ Continue(c).art = c.art /\ Continue(c).todo = c.todo
           /\ Continue(c).cands = c.cands
           /\ Continue(c).pc \in {"run", "link", "done"}
           /\ Continue(c).pc = "link" => c.cands # {} /\ Continue(c).step = c.step
           /\ Continue(c).pc = "done" => c.cands = {} /\ Continue(c).step = c.step /\ c.step = 11
           /\ Continue(c).pc = "run" => c.cands = {} /\ Continue(c).step = c.step + 1
<1>0. Len(Program) = 11 /\ c.step \in 1..11
  BY ProgramFacts DEF CallRec
<1>1. CASE c.cands # {}
  <2>1. Continue(c) = [c EXCEPT !.pc = "link"]
    BY <1>1 DEF Continue
  <2> QED
    BY <1>0, <1>1, <2>1 DEF CallRec, Sound, CallOK, UnionPcs
<1>2. CASE c.cands = {} /\ c.step < 11
  <2>1. PICK k \in 1..11 : k = c.step + 1
    BY <1>0, <1>2
  <2>2. Continue(c) = [c EXCEPT !.pc = "run", !.step = k]
    BY <1>0, <1>2, <2>1 DEF Continue
  <2> QED
    BY <1>0, <1>2, <2>1, <2>2 DEF CallRec, Sound, CallOK, UnionPcs
<1>3. CASE c.cands = {} /\ c.step = 11
  <2>1. Continue(c) = [c EXCEPT !.pc = "done"]
    BY <1>0, <1>3 DEF Continue
  <2> QED
    BY <1>0, <1>3, <2>1 DEF CallRec, Sound, CallOK, UnionPcs
<1> QED
  BY <1>0, <1>1, <1>2, <1>3

LEMMA CandidatesFacts ==
    ASSUME NEW k \in LinkSteps, NEW x \in Artifacts
    PROVE  Candidates(Program[k].arg, x) \subseteq SUBSET (Artifacts \ {x})
<1>0. \A kind : Having(kind, x) \subseteq Artifacts \ {x}
  BY DEF Having
<1>1. CASE k = 4
  BY <1>0, <1>1, ProgramFacts DEF Candidates
<1>2. CASE k = 5
  <2>1. Candidates(Program[k].arg, x) =
          IF Indexed("byte", "lsh", x) # {}
          THEN {T \cap Having("features", x) : T \in Capped(Indexed("byte", "lsh", x), CANDIDATE_CAP)}
          ELSE {Having("features", x)}
    BY <1>2, ProgramFacts DEF Candidates
  <2> QED
    BY <1>0, <2>1
<1>3. CASE k = 10
  <2>1. Candidates(Program[k].arg, x) =
          IF Indexed("semantic", "band", x) # {}
          THEN Capped(Indexed("semantic", "band", x), FUNC_CANDIDATE_CAP)
          ELSE {Having("part", x)}
    BY <1>3, ProgramFacts DEF Candidates
  <2>2. \A S, cap : Capped(S, cap) \subseteq SUBSET S
    BY DEF Capped
  <2>3. Indexed("semantic", "band", x) \subseteq Artifacts \ {x}
    BY <1>0 DEF Indexed
  <2> QED
    BY <1>0, <2>1, <2>2, <2>3
<1>4. CASE k = 11
  BY <1>0, <1>4, ProgramFacts DEF Candidates
<1> QED
  BY <1>1, <1>2, <1>3, <1>4 DEF LinkSteps

LEMMA VerdictsFacts ==
    ASSUME NEW k \in LinkSteps, NEW x \in Artifacts, NEW y \in Artifacts,
           NEW type \in Verdicts(Program[k].arg, x, y)
    PROVE  /\ type \in Types \cup {None}
           /\ k = 4 => type = "normalized_equivalent"
           /\ /\ k = 10 /\ "function" \in rows[y]
              /\ {x, y} \in Related["semantic"] \cap StrongPairs
              => type = "semantic_variant_strong"
<1>1. CASE k = 4
  BY <1>1, ProgramFacts DEF Verdicts, Types
<1>2. CASE k = 5
  BY <1>2, ProgramFacts DEF Verdicts, Types
<1>3. CASE k = 10
  <2>1. Program[k].arg = "semantic"
    BY <1>3, ProgramFacts
  <2> QED
    BY <1>3, <2>1 DEF Verdicts, Types
<1>4. CASE k = 11
  BY <1>4, ProgramFacts DEF Verdicts, Types
<1> QED
  BY <1>1, <1>2, <1>3, <1>4 DEF LinkSteps

LEMMA AnalysisSound ==
    ASSUME NEW x \in Artifacts, NEW S \in SUBSET Artifacts
    PROVE  /\ Analysis(x, S) \in CallRec /\ Sound(Analysis(x, S))
           /\ Analysis(x, S).pc = "run" /\ Analysis(x, S).art = x /\ Analysis(x, S).step = 1
  BY DEF Analysis, CallRec, Sound, CallOK, UnionPcs

LEMMA AnalyzeAllSound ==
    ASSUME NEW S \in SUBSET Artifacts
    PROVE  /\ Sound(AnalyzeAll(S))
           /\ AnalyzeAll(S).pc \in {"idle", "run"}
           /\ AnalyzeAll(S) # Idle => AnalyzeAll(S) \in CallRec /\ AnalyzeAll(S).step = 1 /\ AnalyzeAll(S).pc = "run"
<1>1. CASE S = {}
  BY <1>1, IdleSound DEF AnalyzeAll, Idle
<1>2. CASE S # {}
  <2>1. First(S) \in S
    BY <1>2, FirstIn
  <2>2. PICK x \in Artifacts, T \in SUBSET Artifacts : x = First(S) /\ T = S \ {First(S)}
    BY <2>1
  <2>3. AnalyzeAll(S) = Analysis(x, T)
    BY <1>2, <2>2 DEF AnalyzeAll
  <2> QED
    BY <2>3, AnalysisSound
<1> QED
  BY <1>1, <1>2

(***************************************************************************)
(* What the steps do to the calls                                          *)
(***************************************************************************)
Quiet == {"idle", "run", "link", "done"}

\* Analyses outside union_groups.
LEMMA QuietSteps ==
    ASSUME GroupsTypeOK, CallsInv, NEW p \in Procs,
           \/ \E x \in Artifacts : analyze_new_artifact(p, x)
           \/ backfill(p) \/ store_features(p) \/ Lookup(p) \/ Finish(p)
    PROVE  /\ \E c : Becomes(p, c) /\ Sound(c) /\ c.pc \in Quiet
           /\ proc[p].pc \in Quiet
           /\ UNCHANGED <<edges, groups, member, ever, used, torn, spoiled>>
           /\ GroupsTypeOK'
           /\ CallsInv'
<1>p. proc \in [Procs -> {Idle} \cup CallRec \cup CleanRec]
  BY DEF GroupsTypeOK
<1>1. ASSUME NEW x \in Artifacts, analyze_new_artifact(p, x)
      PROVE  /\ \E c : Becomes(p, c) /\ Sound(c) /\ c.pc \in Quiet
             /\ proc[p].pc \in Quiet
             /\ UNCHANGED <<rows, analyzed>>
             /\ UNCHANGED <<edges, groups, member, ever, used, torn, spoiled>>
  <2>1. PICK T \in SUBSET Artifacts : T = {}
    OBVIOUS
  <2>2. Becomes(p, Analysis(x, T))
    BY <1>1, <2>1 DEF analyze_new_artifact, Becomes
  <2>3. proc[p].pc = "idle"
    BY <1>1 DEF analyze_new_artifact, Call, Idle
  <2> QED
    BY <1>1, <2>2, <2>3, AnalysisSound DEF analyze_new_artifact, Quiet, tables, history
<1>2. ASSUME backfill(p)
      PROVE  /\ \E c : Becomes(p, c) /\ Sound(c) /\ c.pc \in Quiet
             /\ proc[p].pc \in Quiet
             /\ UNCHANGED <<rows, analyzed>>
             /\ UNCHANGED <<edges, groups, member, ever, used, torn, spoiled>>
  <2>1. PICK T \in SUBSET Artifacts : T = {x \in Artifacts : "features" \notin rows[x]}
    OBVIOUS
  <2>2. Becomes(p, AnalyzeAll(T))
    BY <1>2, <2>1 DEF backfill, Becomes
  <2>3. proc[p].pc = "idle"
    BY <1>2 DEF backfill, Call, Idle
  <2> QED
    BY <1>2, <2>2, <2>3, AnalyzeAllSound DEF backfill, Quiet, tables, history
<1>3. ASSUME store_features(p)
      PROVE  /\ \E c : Becomes(p, c) /\ Sound(c) /\ c.pc \in Quiet
             /\ proc[p].pc \in Quiet
             /\ rows' \in [Artifacts -> SUBSET RowKinds] /\ UNCHANGED analyzed
             /\ UNCHANGED <<edges, groups, member, ever, used, torn, spoiled>>
  <2>1. proc[p].pc = "run" /\ Program[proc[p].step].op \in {"store", "clear"}
    BY <1>3 DEF store_features, Running
  <2>2. proc[p] \in CallRec /\ CallOK(proc[p])
    BY <2>1, Kinds DEF CallsInv
  <2>3. proc[p].step \in 1..11 /\ proc[p].art \in Artifacts
    BY <2>2 DEF CallRec
  <2>4. Arg(p) \in RowKinds
    BY <2>1, <2>3, ProgramFacts DEF Arg, RowKinds, LinkSteps
  <2>5. rows' \in [Artifacts -> SUBSET RowKinds]
    <3>1. rows \in [Artifacts -> SUBSET RowKinds]
      BY DEF GroupsTypeOK
    <3>2. CASE rows' = [rows EXCEPT ![proc[p].art] = @ \cup {Arg(p)}]
      BY <2>3, <2>4, <3>1, <3>2
    <3>3. CASE rows' = [rows EXCEPT ![proc[p].art] = @ \ {Arg(p)}]
      BY <2>3, <2>4, <3>1, <3>3
    <3> QED
      BY <1>3, <3>2, <3>3 DEF store_features
  <2>6. proc[p].cands = {}
    BY <2>1, <2>2 DEF CallOK
  <2>7. Becomes(p, Continue(proc[p]))
    BY <1>3, <1>p DEF store_features, Becomes
  <2>8. Sound(Continue(proc[p])) /\ Continue(proc[p]).pc \in Quiet
    BY <2>2, <2>6, ContinueFacts DEF Quiet
  <2> QED
    BY <1>3, <2>1, <2>5, <2>7, <2>8 DEF store_features, Quiet, tables, history
<1>4. ASSUME Lookup(p)
      PROVE  /\ \E c : Becomes(p, c) /\ Sound(c) /\ c.pc \in Quiet
             /\ proc[p].pc \in Quiet
             /\ UNCHANGED <<rows, analyzed>>
             /\ UNCHANGED <<edges, groups, member, ever, used, torn, spoiled>>
  <2>1. proc[p].pc = "run" /\ Program[proc[p].step].op = "link"
    BY <1>4 DEF Lookup, Running
  <2>2. proc[p] \in CallRec /\ CallOK(proc[p])
    BY <2>1, Kinds DEF CallsInv
  <2>3. proc[p].step \in LinkSteps /\ proc[p].art \in Artifacts
    BY <2>1, <2>2, ProgramFacts DEF CallRec
  <2>c. PICK found \in Candidates(Arg(p), proc[p].art) :
          proc' = [proc EXCEPT ![p] = Continue([proc[p] EXCEPT !.cands = found])]
    BY <1>4 DEF Lookup
  <2>4. found \in SUBSET Artifacts /\ proc[p].art \notin found
    BY <2>3, CandidatesFacts DEF Arg
  <2>5. PICK d \in CallRec : d = [proc[p] EXCEPT !.cands = found]
    BY <2>2, <2>4 DEF CallRec
  <2>6. d.step = proc[p].step /\ d.cands = found /\ d.art = proc[p].art
    BY <2>2, <2>5 DEF CallRec
  <2>7. Becomes(p, Continue(d))
    BY <1>p, <2>c, <2>5 DEF Becomes
  <2>8. Sound(Continue(d)) /\ Continue(d).pc \in Quiet
    BY <2>3, <2>4, <2>6, ContinueFacts DEF Quiet
  <2> QED
    BY <1>4, <2>1, <2>7, <2>8 DEF Lookup, Quiet, tables, history
<1>5. ASSUME Finish(p)
      PROVE  /\ \E c : Becomes(p, c) /\ Sound(c) /\ c.pc \in Quiet
             /\ proc[p].pc \in Quiet
             /\ UNCHANGED rows /\ analyzed' \subseteq Artifacts
             /\ UNCHANGED <<edges, groups, member, ever, used, torn, spoiled>>
  <2>1. proc[p].pc = "done" /\ proc[p] \in CallRec
    BY <1>5, Kinds DEF Finish
  <2>2. PICK T \in SUBSET Artifacts : T = proc[p].todo
    BY <2>1 DEF CallRec
  <2>3. Becomes(p, AnalyzeAll(T))
    BY <1>5, <1>p, <2>2 DEF Finish, Becomes
  <2>4. analyzed' \subseteq Artifacts
    BY <1>5, <2>1 DEF Finish, GroupsTypeOK, CallRec
  <2> QED
    BY <1>5, <2>1, <2>3, <2>4, AnalyzeAllSound DEF Finish, Quiet, tables
<1>6. /\ \E c : Becomes(p, c) /\ Sound(c) /\ c.pc \in Quiet
      /\ proc[p].pc \in Quiet
      /\ rows' \in [Artifacts -> SUBSET RowKinds] /\ analyzed' \subseteq Artifacts
      /\ UNCHANGED <<edges, groups, member, ever, used, torn, spoiled>>
  <2>1. rows \in [Artifacts -> SUBSET RowKinds] /\ analyzed \subseteq Artifacts
    BY DEF GroupsTypeOK
  <2>2. CASE \E x \in Artifacts : analyze_new_artifact(p, x)
    BY <1>1, <2>1, <2>2
  <2> QED
    BY <1>2, <1>3, <1>4, <1>5, <2>1, <2>2
<1>7. proc' \in [Procs -> {Idle} \cup CallRec \cup CleanRec] /\ CallsInv'
  BY <1>6, BecomesSound
<1>8. GroupsTypeOK'
  BY <1>6, <1>7 DEF GroupsTypeOK
<1> QED
  BY <1>6, <1>7, <1>8

\* The same call at the same candidate of the same statement.
Same(c, d) == c.art = d.art /\ c.step = d.step /\ c.cands = d.cands /\ c.pair = d.pair

\* insert_edge for the candidate y: no edge, an edge that unites nothing, or one
\* that does.
Inserted(p, y, type, c) ==
    /\ proc[p] \in CallRec /\ CallOK(proc[p]) /\ proc[p].pc = "link"
    /\ y \in proc[p].cands /\ y \in Artifacts /\ y # proc[p].art
    /\ type \in Verdicts(Program[proc[p].step].arg, proc[p].art, y) /\ type \in Types \cup {None}
    /\ c \in CallRec /\ c.art = proc[p].art /\ Becomes(p, c) /\ Sound(c)
    /\ UNCHANGED <<rows, groups, member, analyzed, spoiled, used>>
InsertedQuiet(p, y, type, c) ==
    /\ \E d \in CallRec :
         c = Continue(d) /\ d.art = proc[p].art /\ d.step = proc[p].step /\ d.cands = proc[p].cands \ {y}
    /\ c.pc \in Quiet
    /\ edges \subseteq edges' /\ \A e \in edges' : e \in edges \/ e[2] \notin Strong
    /\ type = None \/ <<{proc[p].art, y}, type>> \in edges'
    /\ UNCHANGED <<ever, torn>>
InsertedUnion(p, y, type, c) ==
    /\ c.pc = "read_src" /\ c.pair = {proc[p].art, y}
    /\ c.step = proc[p].step /\ c.cands = proc[p].cands \ {y}
    /\ type \in Strong
    /\ edges' = edges \cup {<<{proc[p].art, y}, type>>}
    /\ ever' = ever \cup {{proc[p].art, y}}
    /\ torn' = torn \cup Overlap(p, y, ever')

LEMMA InsertStep ==
    ASSUME GroupsTypeOK, CallsInv, NEW p \in Procs, insert_edge(p)
    PROVE  /\ \E y, type, c : Inserted(p, y, type, c) /\ (InsertedQuiet(p, y, type, c) \/ InsertedUnion(p, y, type, c))
           /\ GroupsTypeOK'
           /\ CallsInv'
<1>p. proc \in [Procs -> {Idle} \cup CallRec \cup CleanRec]
  BY DEF GroupsTypeOK
<1>1. proc[p].pc = "link" /\ proc[p] \in CallRec /\ CallOK(proc[p])
  BY Kinds DEF insert_edge, CallsInv
<1>2. /\ proc[p].art \in Artifacts /\ proc[p].cands \in SUBSET Artifacts
      /\ proc[p].art \notin proc[p].cands /\ proc[p].step \in LinkSteps
  BY <1>1 DEF CallRec, CallOK
<1>3. PICK y \in proc[p].cands : \E type \in Verdicts(Arg(p), proc[p].art, y) :
          LET pair  == {proc[p].art, y}
              new   == type # None /\ <<pair, type>> \notin edges
              union == new /\ merges_groups(type)
              rest  == [proc[p] EXCEPT !.cands = @ \ {y}, !.pair = pair]
          IN /\ edges' = IF new THEN edges \cup {<<pair, type>>} ELSE edges
             /\ proc' = [proc EXCEPT ![p] =
                   IF union THEN [rest EXCEPT !.pc = "read_src"] ELSE Continue(rest)]
             /\ ever' = IF new /\ type \in {"normalized_equivalent", "semantic_variant_strong"}
                        THEN ever \cup {pair} ELSE ever
             /\ torn' = IF union THEN torn \cup Overlap(p, y, ever') ELSE torn
  BY DEF insert_edge
<1> DEFINE x    == proc[p].art
           pair == {x, y}
<1>4. PICK type \in Verdicts(Arg(p), x, y) :
          LET new   == type # None /\ <<pair, type>> \notin edges
              union == new /\ merges_groups(type)
              rest  == [proc[p] EXCEPT !.cands = @ \ {y}, !.pair = pair]
          IN /\ edges' = IF new THEN edges \cup {<<pair, type>>} ELSE edges
             /\ proc' = [proc EXCEPT ![p] =
                   IF union THEN [rest EXCEPT !.pc = "read_src"] ELSE Continue(rest)]
             /\ ever' = IF new /\ type \in {"normalized_equivalent", "semantic_variant_strong"}
                        THEN ever \cup {pair} ELSE ever
             /\ torn' = IF union THEN torn \cup Overlap(p, y, ever') ELSE torn
  BY <1>3
<1>5. y \in Artifacts /\ y # x
  BY <1>2
<1>6. type \in Verdicts(Program[proc[p].step].arg, x, y) /\ type \in Types \cup {None}
  BY <1>2, <1>4, <1>5, VerdictsFacts DEF Arg
<1>7. PICK C \in SUBSET Artifacts, P \in SUBSET Artifacts : C = proc[p].cands \ {y} /\ P = pair
  BY <1>2, <1>5
<1>8. PICK d \in CallRec : d = [proc[p] EXCEPT !.cands = C, !.pair = P]
  BY <1>1, <1>7 DEF CallRec
<1>9. d = [proc[p] EXCEPT !.cands = @ \ {y}, !.pair = pair] /\ d.art = x /\ d.step = proc[p].step /\ d.cands = C /\ d.pair = P
  BY <1>1, <1>7, <1>8 DEF CallRec
<1>10. merges_groups(type) <=> type \in Strong
  BY <1>6, VariantAssumption DEF merges_groups, Strong, Types
<1>11. UNCHANGED <<rows, groups, member, analyzed, spoiled, used>>
  BY DEF insert_edge
<1>12. type \in Strong => type # None
  BY VariantAssumption DEF Strong, Types
<1>13. CASE type \in Strong /\ <<pair, type>> \notin edges
  <2>1. PICK c \in CallRec : c = [d EXCEPT !.pc = "read_src"]
    BY <1>8 DEF CallRec, UnionPcs
  <2>2. c.pc = "read_src" /\ c.art = x /\ c.step = proc[p].step /\ c.cands = C /\ c.pair = P
    BY <1>8, <1>9, <2>1 DEF CallRec
  <2>3. Becomes(p, c)
    BY <1>4, <1>9, <1>10, <1>12, <1>13, <2>1 DEF Becomes
  <2>4. Sound(c)
    <3>1. \E z \in Artifacts \ {c.art} : c.pair = {c.art, z} /\ z \notin c.cands
      BY <1>5, <1>7, <2>2
    <3> QED
      BY <1>2, <1>7, <2>2, <3>1 DEF Sound, CallOK, UnionPcs
  <2>5. edges' = edges \cup {<<pair, type>>} /\ ever' = ever \cup {pair} /\ torn' = torn \cup Overlap(p, y, ever')
    BY <1>4, <1>10, <1>12, <1>13 DEF Strong
  <2>6. Inserted(p, y, type, c) /\ InsertedUnion(p, y, type, c)
    BY <1>1, <1>5, <1>6, <1>7, <1>11, <1>13, <2>2, <2>3, <2>4, <2>5 DEF Inserted, InsertedUnion
  <2>7. proc' \in [Procs -> {Idle} \cup CallRec \cup CleanRec] /\ CallsInv'
    BY <2>3, <2>4, BecomesSound
  <2>8. edges' \subseteq (SUBSET Artifacts) \X Types /\ ever' \subseteq SUBSET Artifacts
    BY <1>2, <1>5, <1>13, <2>5 DEF GroupsTypeOK, Strong, Types
  <2>9. torn' \subseteq Artifacts
    BY <2>5 DEF GroupsTypeOK, Overlap
  <2>10. GroupsTypeOK'
    BY <1>11, <2>7, <2>8, <2>9 DEF GroupsTypeOK
  <2> QED
    BY <2>6, <2>7, <2>10
<1>14. CASE ~(type \in Strong /\ <<pair, type>> \notin edges)
  <2>1. Becomes(p, Continue(d))
    BY <1>4, <1>9, <1>10, <1>12, <1>14 DEF Becomes
  <2>2. /\ Continue(d) \in CallRec /\ Sound(Continue(d)) /\ Continue(d).art = x
        /\ Continue(d).pc \in Quiet
    BY <1>2, <1>7, <1>9, ContinueFacts DEF Quiet
  <2>3. UNCHANGED <<ever, torn>>
    BY <1>4, <1>10, <1>12, <1>14 DEF Strong
  <2>4. edges' = edges \/ (edges' = edges \cup {<<pair, type>>} /\ type \notin Strong /\ type # None)
    BY <1>4, <1>14
  <2>5. type = None \/ <<pair, type>> \in edges'
    BY <1>4, <1>14
  <2>6. edges \subseteq edges' /\ \A e \in edges' : e \in edges \/ e[2] \notin Strong
    BY <2>4
  <2>7. PICK c : c = Continue(d)
    OBVIOUS
  <2>8. Inserted(p, y, type, c) /\ InsertedQuiet(p, y, type, c)
    BY <1>1, <1>5, <1>6, <1>7, <1>9, <1>11, <2>1, <2>2, <2>3, <2>5, <2>6, <2>7 DEF Inserted, InsertedQuiet
  <2>9. proc' \in [Procs -> {Idle} \cup CallRec \cup CleanRec] /\ CallsInv'
    BY <2>1, <2>2, BecomesSound
  <2>10. edges' \subseteq (SUBSET Artifacts) \X Types
    BY <1>2, <1>5, <1>6, <2>4 DEF GroupsTypeOK
  <2>11. GroupsTypeOK'
    BY <1>11, <2>3, <2>9, <2>10 DEF GroupsTypeOK
  <2> QED
    BY <2>8, <2>9, <2>11
<1> QED
  BY <1>13, <1>14

\* A union: its two ends, and its subject is one of them.
LEMMA UnionFacts ==
    ASSUME GroupsTypeOK, CallsInv, NEW p \in Procs, proc[p].pc \in UnionPcs
    PROVE  /\ proc[p] \in CallRec /\ CallOK(proc[p]) /\ proc[p].step \in LinkSteps
           /\ proc[p].art \in Artifacts /\ proc[p].art \notin proc[p].cands
           /\ SrcOf(proc[p]) \in Artifacts /\ DstOf(proc[p]) \in Artifacts
           /\ SrcOf(proc[p]) # DstOf(proc[p])
           /\ proc[p].pair = {SrcOf(proc[p]), DstOf(proc[p])}
           /\ SubjectOf(proc[p]) \in proc[p].pair /\ proc[p].art \in proc[p].pair
           /\ proc[p].src \in Nat \cup {None} /\ proc[p].dst \in Nat \cup {None}
           /\ KeepOf(proc[p]) \in Nat \cup {None} /\ DropOf(proc[p]) \in Nat \cup {None}
<1>1. proc[p] \in CallRec /\ CallOK(proc[p])
  BY Kinds DEF CallsInv
<1>2. proc[p].step \in LinkSteps
  BY <1>1 DEF CallOK, UnionPcs
<1>3. PICK y \in Artifacts \ {proc[p].art} : proc[p].pair = {proc[p].art, y}
  BY <1>1 DEF CallOK
<1>4. proc[p].art \in Artifacts /\ proc[p].src \in Nat \cup {None} /\ proc[p].dst \in Nat \cup {None}
  BY <1>1 DEF CallRec
<1>5. /\ SrcOf(proc[p]) \in {proc[p].art, y} /\ DstOf(proc[p]) \in {proc[p].art, y} /\ SrcOf(proc[p]) # DstOf(proc[p])
      /\ {SrcOf(proc[p]), DstOf(proc[p])} = proc[p].pair
      /\ (CHOOSE x \in proc[p].pair : TRUE) \in {proc[p].art, y}
  BY <1>3, <1>4, PairEnds
<1>6. SubjectOf(proc[p]) \in proc[p].pair
  BY <1>3, <1>5 DEF SubjectOf
<1> QED
  BY <1>1, <1>2, <1>3, <1>4, <1>5, <1>6 DEF KeepOf, DropOf, CallOK

\* A union moves on, ends, or its call is dropped or fails.
UnionMove(p, c) ==
    c \in CallRec /\ c.pc \in UnionPcs /\ Same(c, proc[p]) /\ Becomes(p, c) /\ Sound(c)
UnionEnd(p, c) ==
    /\ c = Continue(proc[p]) /\ c \in CallRec /\ c.pc \in Quiet /\ Becomes(p, c) /\ Sound(c)
Dropped(p) ==
    /\ Becomes(p, Idle) /\ proc[p] # Idle
    /\ torn \subseteq torn' /\ (Section(p) => Component(Subject(p)) \subseteq torn')
    /\ spoiled' = spoiled \cup {proc[p].art}
    /\ UNCHANGED <<rows, edges, groups, member, analyzed, ever, used>>
Kept == UNCHANGED <<rows, edges, analyzed, spoiled, ever, torn>>

LEMMA UnionEndFacts ==
    ASSUME GroupsTypeOK, CallsInv, NEW p \in Procs, proc[p].pc \in UnionPcs,
           proc' = [proc EXCEPT ![p] = Continue(proc[p])]
    PROVE  \E c : UnionEnd(p, c)
<1>1. /\ proc[p] \in CallRec /\ CallOK(proc[p]) /\ proc[p].step \in LinkSteps
      /\ proc[p].art \notin proc[p].cands
  BY UnionFacts
<1>2. /\ Continue(proc[p]) \in CallRec /\ Sound(Continue(proc[p]))
      /\ Continue(proc[p]).pc \in {"run", "link", "done"}
  BY <1>1, ContinueFacts
<1> QED
  BY <1>2 DEF UnionEnd, Quiet, Becomes

LEMMA UnionMoveFacts ==
    ASSUME GroupsTypeOK, CallsInv, NEW p \in Procs, proc[p].pc \in UnionPcs,
           NEW c \in CallRec, c.pc \in UnionPcs, Same(c, proc[p]),
           proc' = [proc EXCEPT ![p] = c]
    PROVE  UnionMove(p, c)
<1>1. proc[p] \in CallRec /\ CallOK(proc[p]) /\ proc[p].step \in LinkSteps
  BY UnionFacts
<1>2. CallOK(c)
  BY <1>1 DEF CallOK, Same, UnionPcs
<1> QED
  BY <1>2 DEF UnionMove, Becomes, Sound, UnionPcs

LEMMA ComponentTypes == ASSUME NEW x PROVE Component(x) \in SUBSET Artifacts
  BY DEF Component

LEMMA DroppedTypes ==
    ASSUME GroupsTypeOK, CallsInv, NEW p \in Procs, Dropped(p), torn' \subseteq Artifacts
    PROVE  GroupsTypeOK' /\ CallsInv'
<1>1. proc' \in [Procs -> {Idle} \cup CallRec \cup CleanRec] /\ CallsInv'
  BY IdleSound, BecomesSound DEF Dropped
<1>2. proc[p].art \in Artifacts
  BY Kinds DEF Dropped
<1>3. spoiled' \subseteq Artifacts
  BY <1>2 DEF Dropped, GroupsTypeOK
<1> QED
  BY <1>1, <1>3 DEF GroupsTypeOK, Dropped

LEMMA FailStep ==
    ASSUME GroupsTypeOK, CallsInv, NEW p \in Procs, proc[p] # Idle, Fail(p),
           UNCHANGED <<rows, edges, groups, member, analyzed, ever, used>>
    PROVE  Dropped(p) /\ GroupsTypeOK' /\ CallsInv'
<1>1. Dropped(p)
  BY DEF Dropped, Fail, Becomes
<1>2. torn' \subseteq Artifacts
  BY ComponentTypes DEF Fail, GroupsTypeOK
<1> QED
  BY <1>1, <1>2, DroppedTypes

LEMMA AbortStep ==
    ASSUME GroupsTypeOK, CallsInv, NEW p \in Procs, Abort(p)
    PROVE  Dropped(p) /\ GroupsTypeOK' /\ CallsInv'
<1>1. Dropped(p)
  BY DEF Dropped, Abort, Becomes, tables
<1>2. torn' \subseteq Artifacts
  BY ComponentTypes DEF Abort, GroupsTypeOK
<1> QED
  BY <1>1, <1>2, DroppedTypes

\* union_groups reads the groups of the two ends ...
DidReadSrc(p, c) ==
    /\ proc[p].pc = "read_src" /\ UnionMove(p, c)
    /\ c.pc = "read_dst" /\ c.src = member[SrcOf(proc[p])]
    /\ Kept /\ UNCHANGED <<groups, member, used>>
DidReadDst(p, c) ==
    /\ proc[p].pc = "read_dst"
    /\ Kept /\ UNCHANGED <<groups, member, used>>
    /\ \/ proc[p].src # None /\ proc[p].src = member[DstOf(proc[p])] /\ UnionEnd(p, c)
       \/ /\ UnionMove(p, c) /\ c.src = proc[p].src /\ c.dst = member[DstOf(proc[p])]
          /\ \/ c.pc = "merge" /\ c.src # None /\ c.dst # None /\ c.src # c.dst
             \/ c.pc = "add_dst" /\ c.src # None /\ c.dst = None
             \/ c.pc = "add_src" /\ c.src = None /\ c.dst # None
             \/ c.pc = "new_group" /\ c.src = None /\ c.dst = None
\* ... merges them ...
DidMerge(p, c) ==
    /\ proc[p].pc = "merge" /\ UnionMove(p, c)
    /\ c.pc = "drop_group" /\ c.src = proc[p].src /\ c.dst = proc[p].dst
    /\ (\E x \in Artifacts : member[x] = DropOf(proc[p])) => KeepOf(proc[p]) \in groups
    /\ member' = [x \in Artifacts |-> IF member[x] = DropOf(proc[p]) THEN KeepOf(proc[p]) ELSE member[x]]
    /\ Kept /\ UNCHANGED <<groups, used>>
DidDrop(p, c) ==
    /\ proc[p].pc = "drop_group" /\ UnionEnd(p, c)
    /\ \A x \in Artifacts : member[x] # DropOf(proc[p])
    /\ groups' = groups \ {DropOf(proc[p])}
    /\ Kept /\ UNCHANGED <<member, used>>
\* ... or makes one of them a member.
DidNew(p, g, c) ==
    /\ proc[p].pc = "new_group" /\ UnionMove(p, c)
    /\ g \in Nat \ used /\ groups' = groups \cup {g} /\ used' = used \cup {g}
    /\ c.pc = "add_src" /\ c.src = g /\ c.dst = g
    /\ Kept /\ UNCHANGED member
Added(x, g) ==
    \/ member[x] # None /\ UNCHANGED member
    \/ member[x] = None /\ g \in groups /\ member' = [member EXCEPT ![x] = g]
DidAddSrc(p, c) ==
    /\ proc[p].pc = "add_src" /\ Added(SrcOf(proc[p]), proc[p].dst)
    /\ \/ proc[p].src = None /\ UnionEnd(p, c)
       \/ /\ proc[p].src # None /\ UnionMove(p, c)
          /\ c.pc = "add_dst" /\ c.src = proc[p].src /\ c.dst = proc[p].dst
    /\ Kept /\ UNCHANGED <<groups, used>>
DidAddDst(p, c) ==
    /\ proc[p].pc = "add_dst" /\ Added(DstOf(proc[p]), proc[p].src) /\ UnionEnd(p, c)
    /\ Kept /\ UNCHANGED <<groups, used>>

LEMMA ReadSrcStep ==
    ASSUME GroupsTypeOK, CallsInv, NEW p \in Procs, group_of_src(p)
    PROVE  \E c : DidReadSrc(p, c)
<1>0. proc[p].pc = "read_src" /\ proc[p].pc \in UnionPcs
  BY DEF group_of_src, UnionPcs
<1>1. proc[p] \in CallRec /\ SrcOf(proc[p]) \in Artifacts
  BY <1>0, UnionFacts
<1>2. PICK g \in Nat \cup {None} : g = member[SrcOf(proc[p])]
  BY <1>1 DEF GroupsTypeOK
<1>3. PICK c \in CallRec : c = [proc[p] EXCEPT !.pc = "read_dst", !.src = g]
  BY <1>1 DEF CallRec, UnionPcs
<1>4. c.pc = "read_dst" /\ c.src = g /\ Same(c, proc[p])
  BY <1>1, <1>3 DEF CallRec, Same
<1>5. proc' = [proc EXCEPT ![p] = c]
  BY <1>2, <1>3, Names DEF group_of_src, GroupsTypeOK
<1>6. UnionMove(p, c)
  BY <1>0, <1>4, <1>5, UnionMoveFacts DEF UnionPcs
<1> QED
  BY <1>0, <1>2, <1>4, <1>6 DEF DidReadSrc, group_of_src, Kept, tables, history

LEMMA ReadDstStep ==
    ASSUME GroupsTypeOK, CallsInv, NEW p \in Procs, group_of_dst(p)
    PROVE  \E c : DidReadDst(p, c)
<1>0. proc[p].pc = "read_dst" /\ proc[p].pc \in UnionPcs
  BY DEF group_of_dst, UnionPcs
<1>1. proc[p] \in CallRec /\ DstOf(proc[p]) \in Artifacts /\ proc[p].src \in Nat \cup {None}
  BY <1>0, UnionFacts
<1>2. PICK h \in Nat \cup {None} : h = member[DstOf(proc[p])]
  BY <1>1 DEF GroupsTypeOK
<1>3. PICK g \in Nat \cup {None} : g = proc[p].src
  BY <1>1
<1>4. Kept /\ UNCHANGED <<groups, member, used>>
  BY DEF group_of_dst, Kept, tables, history
<1>5. proc' = [proc EXCEPT ![p] =
             IF g # None /\ g = h THEN Continue(proc[p])
             ELSE [proc[p] EXCEPT !.dst = h,
                            !.pc = CASE g # None /\ h # None -> "merge"
                                     [] g # None /\ h = None -> "add_dst"
                                     [] g = None /\ h # None -> "add_src"
                                     [] g = None /\ h = None -> "new_group"]]
  BY <1>2, <1>3, Names DEF group_of_dst, GroupsTypeOK
<1>6. CASE g # None /\ g = h
  <2>1. PICK c : UnionEnd(p, c)
    BY <1>0, <1>5, <1>6, UnionEndFacts
  <2> QED
    BY <1>0, <1>2, <1>3, <1>4, <1>6, <2>1 DEF DidReadDst
<1>7. CASE ~(g # None /\ g = h)
  <2>1. PICK k \in {"merge", "add_dst", "add_src", "new_group"} :
           /\ k = CASE g # None /\ h # None -> "merge"
                    [] g # None /\ h = None -> "add_dst"
                    [] g = None /\ h # None -> "add_src"
                    [] g = None /\ h = None -> "new_group"
           /\ \/ k = "merge" /\ g # None /\ h # None /\ g # h
              \/ k = "add_dst" /\ g # None /\ h = None
              \/ k = "add_src" /\ g = None /\ h # None
              \/ k = "new_group" /\ g = None /\ h = None
    <3>1. CASE g # None /\ h # None
      BY <1>7, <3>1
    <3>2. CASE g # None /\ h = None
      BY <1>7, <3>2
    <3>3. CASE g = None /\ h # None
      BY <1>7, <3>3
    <3>4. CASE g = None /\ h = None
      BY <1>7, <3>4
    <3> QED
      BY <3>1, <3>2, <3>3, <3>4
  <2>2. k \in UnionPcs
    BY DEF UnionPcs
  <2>3. PICK c \in CallRec : c = [proc[p] EXCEPT !.dst = h, !.pc = k]
    BY <1>1, <2>2 DEF CallRec
  <2>4. c.pc = k /\ c.src = g /\ c.dst = h /\ Same(c, proc[p])
    BY <1>1, <1>3, <2>3 DEF CallRec, Same
  <2>5. proc' = [proc EXCEPT ![p] = c]
    BY <1>5, <1>7, <2>1, <2>3
  <2>6. UnionMove(p, c)
    BY <1>0, <2>2, <2>4, <2>5, UnionMoveFacts
  <2> QED
    BY <1>0, <1>2, <1>3, <1>4, <2>1, <2>4, <2>6 DEF DidReadDst
<1> QED
  BY <1>6, <1>7

LEMMA MergeStep ==
    ASSUME GroupsTypeOK, CallsInv, NEW p \in Procs, Merge(p)
    PROVE  (Dropped(p) /\ GroupsTypeOK' /\ CallsInv') \/ \E c : DidMerge(p, c)
<1>0. proc[p].pc = "merge" /\ proc[p].pc \in UnionPcs /\ proc[p] # Idle
  BY DEF Merge, UnionPcs, Idle
<1>1. proc[p] \in CallRec
  BY <1>0, UnionFacts
<1> DEFINE moved == {x \in Artifacts : member[x] = DropOf(proc[p])}
<1>2. CASE moved # {} /\ KeepOf(proc[p]) \notin groups
  <2>1. Fail(p) /\ UNCHANGED <<rows, edges, groups, member, analyzed, ever, used>>
    BY <1>2, Names DEF Merge
  <2> QED
    BY <1>0, <2>1, FailStep
<1>3. CASE ~(moved # {} /\ KeepOf(proc[p]) \notin groups)
  <2>1. /\ member' = [x \in Artifacts |-> IF x \in moved THEN KeepOf(proc[p]) ELSE member[x]]
        /\ proc' = [proc EXCEPT ![p].pc = "drop_group"]
        /\ UNCHANGED <<spoiled, torn>>
    BY <1>3, Names DEF Merge
  <2>2. PICK c \in CallRec : c = [proc[p] EXCEPT !.pc = "drop_group"]
    BY <1>1 DEF CallRec, UnionPcs
  <2>3. c.pc = "drop_group" /\ c.src = proc[p].src /\ c.dst = proc[p].dst /\ Same(c, proc[p])
    BY <1>1, <2>2 DEF CallRec, Same
  <2>4. proc' = [proc EXCEPT ![p] = c]
    BY <2>1, <2>2 DEF GroupsTypeOK
  <2>5. UnionMove(p, c)
    BY <1>0, <2>3, <2>4, UnionMoveFacts DEF UnionPcs
  <2>6. member' = [x \in Artifacts |-> IF member[x] = DropOf(proc[p]) THEN KeepOf(proc[p]) ELSE member[x]]
    BY <2>1
  <2> QED
    BY <1>0, <1>3, <2>1, <2>3, <2>5, <2>6 DEF DidMerge, Merge, Kept
<1> QED
  BY <1>2, <1>3

LEMMA DropStep ==
    ASSUME GroupsTypeOK, CallsInv, NEW p \in Procs, drop_group(p)
    PROVE  (Dropped(p) /\ GroupsTypeOK' /\ CallsInv') \/ \E c : DidDrop(p, c)
<1>0. proc[p].pc = "drop_group" /\ proc[p].pc \in UnionPcs /\ proc[p] # Idle
  BY DEF drop_group, UnionPcs, Idle
<1>1. CASE \E x \in Artifacts : member[x] = DropOf(proc[p])
  <2>1. Fail(p) /\ UNCHANGED <<rows, edges, groups, member, analyzed, ever, used>>
    BY <1>1, Names DEF drop_group, Delete
  <2> QED
    BY <1>0, <2>1, FailStep
<1>2. CASE ~\E x \in Artifacts : member[x] = DropOf(proc[p])
  <2>1. /\ groups' = groups \ {DropOf(proc[p])} /\ proc' = [proc EXCEPT ![p] = Continue(proc[p])]
        /\ UNCHANGED <<spoiled, torn>>
    BY <1>2, Names DEF drop_group, Delete
  <2>2. PICK c : UnionEnd(p, c)
    BY <1>0, <2>1, UnionEndFacts
  <2> QED
    BY <1>0, <1>2, <2>1, <2>2 DEF DidDrop, drop_group, Kept
<1> QED
  BY <1>1, <1>2

LEMMA NewStep ==
    ASSUME GroupsTypeOK, CallsInv, NEW p \in Procs, new_group(p)
    PROVE  \E g, c : DidNew(p, g, c)
<1>0. proc[p].pc = "new_group" /\ proc[p].pc \in UnionPcs
  BY DEF new_group, UnionPcs
<1>1. proc[p] \in CallRec
  BY <1>0, UnionFacts
<1>2. PICK g \in Groups \ used :
          /\ groups' = groups \cup {g}
          /\ used' = used \cup {g}
          /\ proc' = [proc EXCEPT ![p].pc = "add_src", ![p].src = g, ![p].dst = g]
  BY DEF new_group
<1>3. g \in Nat \ used
  BY VariantAssumption
<1>4. PICK c \in CallRec : c = [proc[p] EXCEPT !.pc = "add_src", !.src = g, !.dst = g]
  BY <1>1, <1>3 DEF CallRec, UnionPcs
<1>5. c.pc = "add_src" /\ c.src = g /\ c.dst = g /\ Same(c, proc[p])
  BY <1>1, <1>4 DEF CallRec, Same
<1>6. proc' = [proc EXCEPT ![p] = c]
  BY <1>2, <1>4 DEF GroupsTypeOK
<1>7. UnionMove(p, c)
  BY <1>0, <1>5, <1>6, UnionMoveFacts DEF UnionPcs
<1> QED
  BY <1>0, <1>2, <1>3, <1>5, <1>7 DEF DidNew, new_group, Kept

LEMMA AddSrcStep ==
    ASSUME GroupsTypeOK, CallsInv, NEW p \in Procs, AddSrc(p)
    PROVE  (Dropped(p) /\ GroupsTypeOK' /\ CallsInv') \/ \E c : DidAddSrc(p, c)
<1>0. proc[p].pc = "add_src" /\ proc[p].pc \in UnionPcs /\ proc[p] # Idle
  BY DEF AddSrc, UnionPcs, Idle
<1>1. proc[p] \in CallRec /\ src(p) = SrcOf(proc[p])
  BY <1>0, UnionFacts, Names
<1>2. CASE member[src(p)] = None /\ proc[p].dst \notin groups
  <2>1. Fail(p) /\ UNCHANGED <<rows, edges, groups, member, analyzed, ever, used>>
    BY <1>2 DEF AddSrc, add_member
  <2> QED
    BY <1>0, <2>1, FailStep
<1>3. CASE ~(member[src(p)] = None /\ proc[p].dst \notin groups)
  <2>1. /\ Added(SrcOf(proc[p]), proc[p].dst) /\ UNCHANGED <<spoiled, torn>>
        /\ proc' = [proc EXCEPT ![p] =
                      IF proc[p].src # None THEN [proc[p] EXCEPT !.pc = "add_dst"] ELSE Continue(proc[p])]
    BY <1>1, <1>3 DEF AddSrc, add_member, Added
  <2>2. Kept /\ UNCHANGED <<groups, used>>
    BY <2>1 DEF AddSrc, Kept
  <2>3. CASE proc[p].src = None
    <3>1. PICK c : UnionEnd(p, c)
      BY <1>0, <2>1, <2>3, UnionEndFacts
    <3> QED
      BY <1>0, <2>1, <2>2, <2>3, <3>1 DEF DidAddSrc
  <2>4. CASE proc[p].src # None
    <3>1. PICK c \in CallRec : c = [proc[p] EXCEPT !.pc = "add_dst"]
      BY <1>1 DEF CallRec, UnionPcs
    <3>2. c.pc = "add_dst" /\ c.src = proc[p].src /\ c.dst = proc[p].dst /\ Same(c, proc[p])
      BY <1>1, <3>1 DEF CallRec, Same
    <3>3. proc' = [proc EXCEPT ![p] = c]
      BY <2>1, <2>4, <3>1
    <3>4. UnionMove(p, c)
      BY <1>0, <3>2, <3>3, UnionMoveFacts DEF UnionPcs
    <3> QED
      BY <1>0, <2>1, <2>2, <2>4, <3>2, <3>4 DEF DidAddSrc
  <2> QED
    BY <2>3, <2>4
<1> QED
  BY <1>2, <1>3

LEMMA AddDstStep ==
    ASSUME GroupsTypeOK, CallsInv, NEW p \in Procs, AddDst(p)
    PROVE  (Dropped(p) /\ GroupsTypeOK' /\ CallsInv') \/ \E c : DidAddDst(p, c)
<1>0. proc[p].pc = "add_dst" /\ proc[p].pc \in UnionPcs /\ proc[p] # Idle
  BY DEF AddDst, UnionPcs, Idle
<1>1. proc[p] \in CallRec /\ dst(p) = DstOf(proc[p])
  BY <1>0, UnionFacts, Names
<1>2. CASE member[dst(p)] = None /\ proc[p].src \notin groups
  <2>1. Fail(p) /\ UNCHANGED <<rows, edges, groups, member, analyzed, ever, used>>
    BY <1>2 DEF AddDst, add_member
  <2> QED
    BY <1>0, <2>1, FailStep
<1>3. CASE ~(member[dst(p)] = None /\ proc[p].src \notin groups)
  <2>1. /\ Added(DstOf(proc[p]), proc[p].src) /\ UNCHANGED <<spoiled, torn>>
        /\ proc' = [proc EXCEPT ![p] = Continue(proc[p])]
    BY <1>1, <1>3 DEF AddDst, add_member, Added
  <2>2. PICK c : UnionEnd(p, c)
    BY <1>0, <2>1, UnionEndFacts
  <2> QED
    BY <1>0, <2>1, <2>2 DEF DidAddDst, AddDst, Kept
<1> QED
  BY <1>2, <1>3

\* cleanup_artifact and repair_group.
CleanMove(p, c) ==
    c \in CleanRec /\ c.art = proc[p].art /\ c.group = proc[p].group /\ Becomes(p, c) /\ Sound(c)
DidClean(p, x, c) ==
    /\ proc[p] = Idle
    /\ c \in CleanRec /\ Becomes(p, c) /\ Sound(c)
    /\ c.pc = "read_group" /\ c.art = x /\ c.group = None
    /\ spoiled' = spoiled \cup {x} /\ torn' = torn \cup Overlap(p, x, ever)
    /\ UNCHANGED <<rows, edges, groups, member, analyzed, ever, used>>
DidReadGroup(p, c) ==
    /\ proc[p].pc = "read_group" /\ c \in CleanRec /\ Becomes(p, c) /\ Sound(c)
    /\ c.pc = "delete" /\ c.art = proc[p].art /\ c.step = 1 /\ c.group = member[proc[p].art]
    /\ Kept /\ UNCHANGED <<groups, member, used>>
DidDelete(p, c) ==
    /\ proc[p].pc = "delete" /\ proc[p] \in CleanRec
    /\ rows' \in [Artifacts -> SUBSET RowKinds]
    /\ \A y \in Artifacts : y # proc[p].art => rows'[y] = rows[y]
    /\ edges' = IF proc[p].step = 4 THEN {e \in edges : proc[p].art \notin e[1]} ELSE edges
    /\ member' = IF proc[p].step = 6 THEN [member EXCEPT ![proc[p].art] = None] ELSE member
    /\ \/ proc[p].step < 6 /\ CleanMove(p, c) /\ c.pc = "delete" /\ c.step = proc[p].step + 1
       \/ proc[p].step = 6 /\ proc[p].group # None /\ CleanMove(p, c) /\ c.pc = "repair"
       \/ proc[p].step = 6 /\ proc[p].group = None /\ Becomes(p, c) /\ c = Idle
    /\ UNCHANGED <<groups, analyzed, spoiled, ever, used, torn>>
DidRepair(p, c) ==
    /\ proc[p].pc = "repair" /\ proc[p] \in CleanRec
    /\ \/ Cardinality(Members(proc[p].group)) <= 1 /\ CleanMove(p, c) /\ c.pc = "dissolve"
       \/ ~(Cardinality(Members(proc[p].group)) <= 1) /\ Becomes(p, c) /\ c = Idle
    /\ Kept /\ UNCHANGED <<groups, member, used>>
DidDissolve(p, c) ==
    /\ proc[p].pc = "dissolve" /\ proc[p] \in CleanRec
    /\ member' = [x \in Artifacts |-> IF member[x] = proc[p].group THEN None ELSE member[x]]
    /\ CleanMove(p, c) /\ c.pc = "clean_group"
    /\ Kept /\ UNCHANGED <<groups, used>>
DidCleanGroup(p) ==
    /\ proc[p].pc = "clean_group" /\ proc[p] \in CleanRec /\ Becomes(p, Idle)
    /\ \A x \in Artifacts : member[x] # proc[p].group
    /\ groups' = groups \ {proc[p].group}
    /\ Kept /\ UNCHANGED <<member, used>>

LEMMA CleanSound == ASSUME NEW c \in CleanRec, c.pc # "read_group" PROVE Sound(c)
<1>1. c.pc \in CleanPcs
  BY DEF CleanRec
<1>2. c \notin CallRec
  BY <1>1 DEF CallRec, UnionPcs, CleanPcs
<1> QED
  BY <1>2 DEF Sound

LEMMA CleanStep ==
    ASSUME GroupsTypeOK, CallsInv, NEW p \in Procs, NEW x \in Artifacts, cleanup_artifact(p, x)
    PROVE  \E c : DidClean(p, x, c)
<1>1. PICK c : c = [pc |-> "read_group", art |-> x, step |-> 1, group |-> None]
  OBVIOUS
<1>2. c \in CleanRec /\ c.pc = "read_group" /\ c.art = x /\ c.step = 1 /\ c.group = None
  BY <1>1 DEF CleanRec, CleanPcs
<1>3. c \notin CallRec
  BY <1>2 DEF CallRec, UnionPcs
<1>4. Sound(c)
  BY <1>2, <1>3 DEF Sound
<1>5. Becomes(p, c)
  BY <1>1 DEF cleanup_artifact, Becomes
<1> QED
  BY <1>2, <1>4, <1>5 DEF DidClean, cleanup_artifact, Call, tables

LEMMA ReadGroupStep ==
    ASSUME GroupsTypeOK, CallsInv, NEW p \in Procs, CleanReadGroup(p)
    PROVE  \E c : DidReadGroup(p, c)
<1>0. proc[p].pc = "read_group" /\ proc[p] \in CleanRec /\ proc[p].step = 1
  BY Kinds DEF CleanReadGroup, CleanPcs, CallsInv
<1>1. PICK g \in Nat \cup {None} : g = member[proc[p].art]
  BY <1>0 DEF CleanRec, GroupsTypeOK
<1>2. PICK c \in CleanRec : c = [proc[p] EXCEPT !.pc = "delete", !.group = g]
  BY <1>0 DEF CleanRec, CleanPcs
<1>3. c.pc = "delete" /\ c.art = proc[p].art /\ c.step = 1 /\ c.group = g
  BY <1>0, <1>2 DEF CleanRec
<1>4. Becomes(p, c)
  BY <1>1, <1>2 DEF CleanReadGroup, Becomes, GroupsTypeOK
<1>5. Sound(c)
  BY <1>3, CleanSound
<1> QED
  BY <1>0, <1>1, <1>3, <1>4, <1>5 DEF DidReadGroup, CleanReadGroup, Kept, tables, history

LEMMA DeleteStep ==
    ASSUME GroupsTypeOK, CallsInv, NEW p \in Procs, CleanDelete(p)
    PROVE  \E c : DidDelete(p, c)
<1>0. proc[p].pc = "delete" /\ proc[p] \in CleanRec
  BY Kinds DEF CleanDelete, CleanPcs
<1>1. PICK k \in 1..6 : k = proc[p].step
  BY <1>0 DEF CleanRec
<1>2. PICK x \in Artifacts : x = proc[p].art
  BY <1>0 DEF CleanRec
<1>3. PICK g \in Nat \cup {None} : g = proc[p].group
  BY <1>0 DEF CleanRec
<1>4. Len(Deletes) = 6 /\ (Deletes[k] = "edges" <=> k = 4) /\ (Deletes[k] = "member" <=> k = 6)
  <2>1. /\ Deletes[1] = "features" /\ Deletes[2] = "functions" /\ Deletes[3] = "band"
        /\ Deletes[4] = "edges" /\ Deletes[5] = "lsh" /\ Deletes[6] = "member"
    BY DEF Deletes
  <2>2. Len(Deletes) = 6
    BY DEF Deletes
  <2>3. k \in {1, 2, 3, 4, 5, 6}
    OBVIOUS
  <2> QED
    BY <2>1, <2>2, <2>3
<1>5. PICK R : R = RowsOf(Deletes[k])
  OBVIOUS
<1>6. rows' = [rows EXCEPT ![x] = @ \ R]
  BY <1>1, <1>2, <1>5 DEF CleanDelete
<1>7. rows' \in [Artifacts -> SUBSET RowKinds] /\ \A y \in Artifacts : y # x => rows'[y] = rows[y]
  <2>1. rows \in [Artifacts -> SUBSET RowKinds]
    BY DEF GroupsTypeOK
  <2> QED
    BY <1>6, <2>1
<1>8. /\ edges' = IF k = 4 THEN {e \in edges : x \notin e[1]} ELSE edges
      /\ member' = IF k = 6 THEN [member EXCEPT ![x] = None] ELSE member
      /\ UNCHANGED <<groups, analyzed, spoiled, ever, used, torn>>
  BY <1>1, <1>2, <1>4 DEF CleanDelete, history
<1>9. proc' = [proc EXCEPT ![p] =
          CASE k < 6 -> [proc[p] EXCEPT !.step = k + 1]
            [] k = 6 /\ g # None -> [proc[p] EXCEPT !.pc = "repair"]
            [] k = 6 /\ g = None -> Idle]
  BY <1>1, <1>3, <1>4 DEF CleanDelete, GroupsTypeOK
<1>10. CASE k < 6
  <2>1. PICK m \in 1..6 : m = k + 1
    BY <1>10
  <2>2. PICK c \in CleanRec : c = [proc[p] EXCEPT !.step = m]
    BY <1>0 DEF CleanRec
  <2>3. c.pc = "delete" /\ c.art = x /\ c.group = g /\ c.step = k + 1
    BY <1>0, <1>2, <1>3, <2>1, <2>2 DEF CleanRec
  <2>4. Becomes(p, c) /\ Sound(c)
    <3>0. proc' = [proc EXCEPT ![p] = [proc[p] EXCEPT !.step = k + 1]]
      <4>1. k # 6
        BY <1>10
      <4>2. PICK r : r = [proc[p] EXCEPT !.step = k + 1]
        OBVIOUS
      <4>3. proc' = [proc EXCEPT ![p] =
                CASE k < 6 -> r
                  [] k = 6 /\ g # None -> [proc[p] EXCEPT !.pc = "repair"]
                  [] k = 6 /\ g = None -> Idle]
        BY <1>9, <4>2
      <4> QED
        BY <1>10, <4>1, <4>2, <4>3
    <3>1. Becomes(p, c)
      BY <2>1, <2>2, <3>0 DEF Becomes
    <3>2. Sound(c)
      BY <2>3, CleanSound
    <3> QED
      BY <3>1, <3>2
  <2> QED
    BY <1>0, <1>1, <1>2, <1>3, <1>7, <1>8, <1>10, <2>3, <2>4 DEF DidDelete, CleanMove
<1>11. CASE k = 6 /\ g # None
  <2>1. PICK c \in CleanRec : c = [proc[p] EXCEPT !.pc = "repair"]
    BY <1>0 DEF CleanRec, CleanPcs
  <2>2. c.pc = "repair" /\ c.art = x /\ c.group = g
    BY <1>0, <1>2, <1>3, <2>1 DEF CleanRec
  <2>3. Becomes(p, c) /\ Sound(c)
    <3>1. Becomes(p, c)
      BY <1>9, <1>11, <2>1 DEF Becomes
    <3>2. Sound(c)
      BY <2>2, CleanSound
    <3> QED
      BY <3>1, <3>2
  <2> QED
    BY <1>0, <1>1, <1>2, <1>3, <1>7, <1>8, <1>11, <2>2, <2>3 DEF DidDelete, CleanMove
<1>12. CASE k = 6 /\ g = None
  <2>1. Becomes(p, Idle)
    BY <1>9, <1>12 DEF Becomes
  <2> QED
    BY <1>0, <1>1, <1>2, <1>3, <1>7, <1>8, <1>12, <2>1 DEF DidDelete
<1> QED
  BY <1>10, <1>11, <1>12

LEMMA RepairStep ==
    ASSUME GroupsTypeOK, CallsInv, NEW p \in Procs, repair_group(p)
    PROVE  \E c : DidRepair(p, c)
<1>0. proc[p].pc = "repair" /\ proc[p] \in CleanRec
  BY Kinds DEF repair_group, CleanPcs
<1>1. Left(p) = Members(proc[p].group)
  BY DEF Left, Members
<1>2. Kept /\ UNCHANGED <<groups, member, used>>
  BY DEF repair_group, Kept, tables, history
<1>3. proc' = [proc EXCEPT ![p] =
          IF Cardinality(Members(proc[p].group)) <= 1 THEN [proc[p] EXCEPT !.pc = "dissolve"] ELSE Idle]
  BY <1>1 DEF repair_group, GroupsTypeOK
<1>4. CASE Cardinality(Members(proc[p].group)) <= 1
  <2>1. PICK c \in CleanRec : c = [proc[p] EXCEPT !.pc = "dissolve"]
    BY <1>0 DEF CleanRec, CleanPcs
  <2>2. c.pc = "dissolve" /\ c.art = proc[p].art /\ c.group = proc[p].group
    BY <1>0, <2>1 DEF CleanRec
  <2>3. Becomes(p, c) /\ Sound(c)
    BY <1>3, <1>4, <2>1, <2>2, CleanSound DEF Becomes
  <2> QED
    BY <1>0, <1>2, <1>4, <2>2, <2>3 DEF DidRepair, CleanMove
<1>5. CASE ~(Cardinality(Members(proc[p].group)) <= 1)
  BY <1>0, <1>2, <1>3, <1>5 DEF DidRepair, Becomes
<1> QED
  BY <1>4, <1>5

LEMMA DissolveStep ==
    ASSUME GroupsTypeOK, CallsInv, NEW p \in Procs, Dissolve(p)
    PROVE  \E c : DidDissolve(p, c)
<1>0. proc[p].pc = "dissolve" /\ proc[p] \in CleanRec
  BY Kinds DEF Dissolve, CleanPcs
<1>1. PICK c \in CleanRec : c = [proc[p] EXCEPT !.pc = "clean_group"]
  BY <1>0 DEF CleanRec, CleanPcs
<1>2. c.pc = "clean_group" /\ c.art = proc[p].art /\ c.group = proc[p].group
  BY <1>0, <1>1 DEF CleanRec
<1>3. Becomes(p, c)
  BY <1>1 DEF Dissolve, Becomes, GroupsTypeOK
<1>4. Sound(c)
  BY <1>2, CleanSound
<1>5. member' = [x \in Artifacts |-> IF member[x] = proc[p].group THEN None ELSE member[x]]
  BY DEF Dissolve, Left
<1> QED
  BY <1>0, <1>2, <1>3, <1>4, <1>5 DEF DidDissolve, CleanMove, Dissolve, Kept, history

LEMMA CleanGroupStep ==
    ASSUME GroupsTypeOK, CallsInv, NEW p \in Procs, clean_group(p)
    PROVE  (Dropped(p) /\ GroupsTypeOK' /\ CallsInv') \/ DidCleanGroup(p)
<1>0. proc[p].pc = "clean_group" /\ proc[p] \in CleanRec /\ proc[p] # Idle
  BY Kinds DEF clean_group, CleanPcs, Idle
<1>1. CASE \E x \in Artifacts : member[x] = proc[p].group
  <2>1. Fail(p) /\ UNCHANGED <<rows, edges, groups, member, analyzed, ever, used>>
    BY <1>1 DEF clean_group, Delete
  <2> QED
    BY <1>0, <2>1, FailStep
<1>2. CASE ~\E x \in Artifacts : member[x] = proc[p].group
  BY <1>0, <1>2 DEF DidCleanGroup, clean_group, Delete, Kept, Becomes
<1> QED
  BY <1>1, <1>2

(***************************************************************************)
(* The steps of the specification, in these terms                          *)
(***************************************************************************)
QuietStep(p) ==
    \/ \E x \in Artifacts : analyze_new_artifact(p, x)
    \/ backfill(p) \/ store_features(p) \/ Lookup(p) \/ Finish(p)
UnionStep(p, c) ==
    \/ DidReadSrc(p, c) \/ DidReadDst(p, c) \/ DidMerge(p, c) \/ DidDrop(p, c)
    \/ (\E g : DidNew(p, g, c)) \/ DidAddSrc(p, c) \/ DidAddDst(p, c)
Cleaning(p, c) ==
    \/ \E x \in Artifacts : DidClean(p, x, c)
    \/ DidReadGroup(p, c) \/ DidDelete(p, c) \/ DidRepair(p, c) \/ DidDissolve(p, c)
    \/ DidCleanGroup(p) /\ c = Idle
Happens(p) ==
    \/ QuietStep(p)
    \/ \E y, type, c : Inserted(p, y, type, c) /\ InsertedQuiet(p, y, type, c)
    \/ \E y, type, c : Inserted(p, y, type, c) /\ InsertedUnion(p, y, type, c)
    \/ \E c : UnionStep(p, c)
    \/ \E c : Cleaning(p, c)
    \/ Dropped(p)

LEMMA UnionStepFacts ==
    ASSUME GroupsTypeOK, CallsInv, NEW p \in Procs, NEW c, UnionStep(p, c)
    PROVE  /\ proc[p].pc \in UnionPcs
           /\ UnionMove(p, c) \/ UnionEnd(p, c)
           /\ Becomes(p, c) /\ Sound(c) /\ c \in CallRec /\ Kept
           /\ GroupsTypeOK' /\ CallsInv'
<1>1. /\ proc[p].pc \in UnionPcs
      /\ UnionMove(p, c) \/ UnionEnd(p, c)
      /\ Kept
  BY DEF UnionStep, DidReadSrc, DidReadDst, DidMerge, DidDrop, DidNew, DidAddSrc, DidAddDst, UnionPcs
<1>2. Becomes(p, c) /\ Sound(c) /\ c \in CallRec
  BY <1>1 DEF UnionMove, UnionEnd
<1>3. proc' \in [Procs -> {Idle} \cup CallRec \cup CleanRec] /\ CallsInv'
  BY <1>2, BecomesSound
<1>4. /\ proc[p].src \in Nat \cup {None} /\ proc[p].dst \in Nat \cup {None} /\ KeepOf(proc[p]) \in Nat \cup {None}
      /\ SrcOf(proc[p]) \in Artifacts /\ DstOf(proc[p]) \in Artifacts
  BY <1>1, UnionFacts
<1>5. groups \subseteq used /\ used \subseteq Nat /\ member \in [Artifacts -> Nat \cup {None}]
  BY DEF GroupsTypeOK
<1>6. groups' \subseteq used' /\ used' \subseteq Nat
  BY <1>5 DEF UnionStep, DidReadSrc, DidReadDst, DidMerge, DidDrop, DidNew, DidAddSrc, DidAddDst
<1>7. ASSUME NEW x \in Artifacts, NEW g \in Nat \cup {None}, Added(x, g)
      PROVE  member' \in [Artifacts -> Nat \cup {None}]
  BY <1>5, <1>7 DEF Added
<1>8. member' \in [Artifacts -> Nat \cup {None}]
  <2>1. CASE DidMerge(p, c)
    BY <1>4, <1>5, <2>1 DEF DidMerge
  <2>2. CASE DidAddSrc(p, c) \/ DidAddDst(p, c)
    BY <1>4, <1>7, <2>2 DEF DidAddSrc, DidAddDst
  <2>3. CASE UNCHANGED member
    BY <1>5, <2>3
  <2> QED
    BY <2>1, <2>2, <2>3 DEF UnionStep, DidReadSrc, DidReadDst, DidDrop, DidNew
<1>9. GroupsTypeOK'
  BY <1>1, <1>3, <1>6, <1>8 DEF GroupsTypeOK, Kept
<1> QED
  BY <1>1, <1>2, <1>3, <1>9

LEMMA CleaningFacts ==
    ASSUME GroupsTypeOK, CallsInv, NEW p \in Procs, NEW c, Cleaning(p, c)
    PROVE  /\ proc[p] = Idle \/ (proc[p].pc \in CleanPcs /\ proc[p] \in CleanRec)
           /\ c = Idle \/ c \in CleanRec
           /\ c # Idle /\ proc[p] # Idle => c.art = proc[p].art
           /\ Becomes(p, c) /\ Sound(c) /\ UNCHANGED <<ever, analyzed, used>>
           /\ spoiled \subseteq spoiled' /\ edges' \subseteq edges
           /\ GroupsTypeOK' /\ CallsInv'
<1>1. proc[p] = Idle \/ (proc[p].pc \in CleanPcs /\ proc[p] \in CleanRec)
  BY Kinds DEF Cleaning, DidClean, DidReadGroup, DidDelete, DidRepair, DidDissolve, DidCleanGroup, CleanPcs
<1>2. Becomes(p, c) /\ Sound(c) /\ (c = Idle \/ c \in CleanRec) /\ (c # Idle /\ proc[p] # Idle => c.art = proc[p].art)
  BY IdleSound DEF Cleaning, DidClean, DidReadGroup, DidDelete, DidRepair, DidDissolve, DidCleanGroup, CleanMove
<1>3. proc' \in [Procs -> {Idle} \cup CallRec \cup CleanRec] /\ CallsInv'
  BY <1>2, BecomesSound
<1>4. UNCHANGED <<ever, analyzed, used>> /\ groups' \subseteq groups
  BY DEF Cleaning, DidClean, DidReadGroup, DidDelete, DidRepair, DidDissolve, DidCleanGroup, Kept
<1>5. rows' \in [Artifacts -> SUBSET RowKinds]
  BY DEF Cleaning, DidClean, DidReadGroup, DidDelete, DidRepair, DidDissolve, DidCleanGroup, Kept, GroupsTypeOK
<1>6. edges' \subseteq edges
  BY DEF Cleaning, DidClean, DidReadGroup, DidDelete, DidRepair, DidDissolve, DidCleanGroup, Kept
<1>7. spoiled' \subseteq Artifacts /\ spoiled \subseteq spoiled' /\ torn' \subseteq Artifacts
  <2>1. \A x \in Artifacts : Overlap(p, x, ever) \subseteq Artifacts
    BY DEF Overlap
  <2> QED
    BY <2>1 DEF Cleaning, DidClean, DidReadGroup, DidDelete, DidRepair, DidDissolve, DidCleanGroup, Kept, GroupsTypeOK
<1>8. member' \in [Artifacts -> Nat \cup {None}]
  <2>0. member \in [Artifacts -> Nat \cup {None}]
    BY DEF GroupsTypeOK
  <2>1. CASE DidDelete(p, c)
    BY <2>0, <2>1 DEF DidDelete, CleanRec
  <2>2. CASE DidDissolve(p, c)
    BY <2>0, <2>2 DEF DidDissolve
  <2>3. CASE UNCHANGED member
    BY <2>0, <2>3
  <2> QED
    BY <2>1, <2>2, <2>3 DEF Cleaning, DidClean, DidReadGroup, DidRepair, DidCleanGroup
<1>9. GroupsTypeOK'
  BY <1>3, <1>4, <1>5, <1>6, <1>7, <1>8 DEF GroupsTypeOK
<1> QED
  BY <1>1, <1>2, <1>3, <1>4, <1>6, <1>7, <1>9

LEMMA StepTaken ==
    ASSUME GroupsTypeOK, CallsInv, NEW p \in Procs,
           \/ \E x \in Artifacts : analyze_new_artifact(p, x) \/ cleanup_artifact(p, x)
           \/ backfill(p) \/ store_features(p) \/ Lookup(p) \/ insert_edge(p) \/ Finish(p)
           \/ group_of_src(p) \/ group_of_dst(p) \/ Merge(p) \/ drop_group(p)
           \/ new_group(p) \/ AddSrc(p) \/ AddDst(p)
           \/ CleanReadGroup(p) \/ CleanDelete(p) \/ repair_group(p) \/ Dissolve(p)
           \/ clean_group(p)
           \/ Abort(p)
    PROVE  Happens(p) /\ GroupsTypeOK' /\ CallsInv'
<1>1. CASE QuietStep(p)
  BY <1>1, QuietSteps DEF QuietStep, Happens
<1>2. CASE insert_edge(p)
  BY <1>2, InsertStep, Zenon DEF Happens
<1>3. CASE group_of_src(p) \/ group_of_dst(p) \/ Merge(p) \/ drop_group(p) \/ new_group(p) \/ AddSrc(p) \/ AddDst(p)
  <2>1. (Dropped(p) /\ GroupsTypeOK' /\ CallsInv') \/ \E c : UnionStep(p, c)
    BY <1>3, ReadSrcStep, ReadDstStep, MergeStep, DropStep, NewStep, AddSrcStep, AddDstStep, Zenon DEF UnionStep
  <2> QED
    BY <2>1, UnionStepFacts, Zenon DEF Happens
<1>4. CASE \/ \E x \in Artifacts : cleanup_artifact(p, x)
           \/ CleanReadGroup(p) \/ CleanDelete(p) \/ repair_group(p) \/ Dissolve(p) \/ clean_group(p)
  <2>1. (Dropped(p) /\ GroupsTypeOK' /\ CallsInv') \/ \E c : Cleaning(p, c)
    BY <1>4, CleanStep, ReadGroupStep, DeleteStep, RepairStep, DissolveStep, CleanGroupStep, Zenon DEF Cleaning
  <2> QED
    BY <2>1, CleaningFacts, Zenon DEF Happens
<1>5. CASE Abort(p)
  BY <1>5, AbortStep DEF Happens
<1> QED
  BY <1>1, <1>2, <1>3, <1>4, <1>5 DEF QuietStep

(***************************************************************************)
(* Families: what shares a group is connected                              *)
(***************************************************************************)
\* Every step is one of a call that becomes another sound call.
LEMMA CallChanges ==
    ASSUME GroupsTypeOK, CallsInv, NEW p \in Procs, Happens(p)
    PROVE  \E c : Becomes(p, c) /\ Sound(c)
<1>1. CASE QuietStep(p)
  BY <1>1, QuietSteps DEF QuietStep
<1>2. CASE \E y, type, c : Inserted(p, y, type, c)
  BY <1>2 DEF Inserted
<1>3. CASE \E c : UnionStep(p, c)
  BY <1>3, UnionStepFacts
<1>4. CASE \E c : Cleaning(p, c)
  BY <1>4, CleaningFacts
<1>5. CASE Dropped(p)
  BY <1>5, IdleSound DEF Dropped
<1> QED
  BY <1>1, <1>2, <1>3, <1>4, <1>5 DEF Happens

LEMMA EverKept ==
    ASSUME GroupsTypeOK, CallsInv, EverInv, NEW p \in Procs, Happens(p)
    PROVE  ever \subseteq ever' /\ EverInv'
<1>1. ASSUME NEW c, Becomes(p, c), Sound(c), ever \subseteq ever', c.pc \in UnionPcs => c.pair \in ever',
             \A e \in edges' : e \in edges \/ e[2] \notin Strong
                               \/ (e[1] \in ever' /\ \E x, y \in Artifacts : x # y /\ e[1] = {x, y})
      PROVE  ever \subseteq ever' /\ EverInv'
  <2>1. proc'[p] = c /\ \A q \in Procs : q # p => proc'[q] = proc[q]
    BY <1>1, BecomesSound
  <2>2. (\A q \in Procs : proc[q].pc \in UnionPcs => proc[q].pair \in ever)'
    BY <1>1, <2>1 DEF EverInv
  <2>3. (\A e \in edges : e[2] \in Strong =>
             e[1] \in ever /\ \E x, y \in Artifacts : x # y /\ e[1] = {x, y})'
    BY <1>1 DEF EverInv
  <2> QED
    BY <1>1, <2>2, <2>3 DEF EverInv
<1>0. \A c : c.pc \in Quiet => c.pc \notin UnionPcs
  BY DEF Quiet, UnionPcs
<1>2. CASE QuietStep(p)
  <2>1. PICK c : Becomes(p, c) /\ Sound(c) /\ c.pc \in Quiet
    BY <1>2, QuietSteps DEF QuietStep
  <2>2. UNCHANGED <<edges, ever>>
    BY <1>2, QuietSteps DEF QuietStep
  <2> QED
    BY <1>0, <1>1, <2>1, <2>2
<1>3. ASSUME NEW y, NEW type, NEW c, Inserted(p, y, type, c), InsertedQuiet(p, y, type, c)
      PROVE  ever \subseteq ever' /\ EverInv'
  BY <1>0, <1>1, <1>3 DEF Inserted, InsertedQuiet
<1>4. ASSUME NEW y, NEW type, NEW c, Inserted(p, y, type, c), InsertedUnion(p, y, type, c)
      PROVE  ever \subseteq ever' /\ EverInv'
  <2>1. proc[p].art \in Artifacts /\ y \in Artifacts /\ y # proc[p].art
    BY <1>4 DEF Inserted, CallRec
  <2>2. PICK e : e = <<{proc[p].art, y}, type>>
    OBVIOUS
  <2>3. e[1] = {proc[p].art, y} /\ edges' = edges \cup {e} /\ ever' = ever \cup {{proc[p].art, y}}
    BY <1>4, <2>2 DEF InsertedUnion
  <2> QED
    BY <1>1, <1>4, <2>1, <2>3 DEF Inserted, InsertedUnion
<1>5. ASSUME NEW c, UnionStep(p, c) PROVE ever \subseteq ever' /\ EverInv'
  <2>1. /\ proc[p].pc \in UnionPcs /\ (UnionMove(p, c) \/ UnionEnd(p, c)) /\ Kept
        /\ Becomes(p, c) /\ Sound(c)
    BY <1>5, UnionStepFacts
  <2>2. c.pc \in UnionPcs => c.pair = proc[p].pair
    BY <1>0, <2>1 DEF UnionMove, UnionEnd, Same
  <2> QED
    BY <1>1, <2>1, <2>2 DEF Kept, EverInv
<1>6. ASSUME NEW c, Cleaning(p, c) PROVE ever \subseteq ever' /\ EverInv'
  <2>1. Becomes(p, c) /\ Sound(c) /\ (c = Idle \/ c \in CleanRec) /\ edges' \subseteq edges /\ UNCHANGED ever
    BY <1>6, CleaningFacts
  <2>2. c.pc \notin UnionPcs
    BY <2>1 DEF CleanRec, CleanPcs, UnionPcs, Idle
  <2> QED
    BY <1>1, <2>1, <2>2
<1>7. CASE Dropped(p)
  <2>1. Idle.pc \notin UnionPcs
    BY DEF Idle, UnionPcs
  <2> QED
    BY <1>1, <1>7, <2>1, IdleSound DEF Dropped
<1> QED
  BY <1>2, <1>3, <1>4, <1>5, <1>6, <1>7 DEF Happens

\* A merge is of two groups.
LEMMA HeldKept ==
    ASSUME GroupsTypeOK, CallsInv, HeldInv, NEW p \in Procs, Happens(p)
    PROVE  HeldInv'
<1>1. ASSUME NEW c, Becomes(p, c), Sound(c),
             c.pc \in {"merge", "drop_group"} => c.src # None /\ c.dst # None /\ c.src # c.dst
      PROVE  HeldInv'
  <2>1. proc'[p] = c /\ \A q \in Procs : q # p => proc'[q] = proc[q]
    BY <1>1, BecomesSound
  <2> QED
    BY <1>1, <2>1 DEF HeldInv
<1>2. CASE QuietStep(p)
  BY <1>1, <1>2, QuietSteps DEF QuietStep, Quiet
<1>3. ASSUME NEW y, NEW type, NEW c, Inserted(p, y, type, c), InsertedQuiet(p, y, type, c) \/ InsertedUnion(p, y, type, c)
      PROVE  HeldInv'
  BY <1>1, <1>3 DEF Inserted, InsertedQuiet, InsertedUnion, Quiet
<1>4. ASSUME NEW c, UnionStep(p, c) PROVE HeldInv'
  <2>1. Becomes(p, c) /\ Sound(c)
    BY <1>4, UnionStepFacts
  <2>2. UnionEnd(p, c) => c.pc \notin {"merge", "drop_group"}
    BY DEF UnionEnd, Quiet
  <2>3. c.pc \in {"merge", "drop_group"} => c.src # None /\ c.dst # None /\ c.src # c.dst
    BY <1>4, <2>2 DEF UnionStep, DidReadSrc, DidReadDst, DidMerge, DidDrop, DidNew, DidAddSrc, DidAddDst, HeldInv
  <2> QED
    BY <1>1, <2>1, <2>3
<1>5. ASSUME NEW c, Cleaning(p, c) PROVE HeldInv'
  <2>1. Becomes(p, c) /\ Sound(c) /\ (c = Idle \/ c \in CleanRec)
    BY <1>5, CleaningFacts
  <2> QED
    BY <1>1, <2>1 DEF CleanRec, CleanPcs, Idle
<1>6. CASE Dropped(p)
  BY <1>1, <1>6, IdleSound DEF Dropped, Idle
<1> QED
  BY <1>2, <1>3, <1>4, <1>5, <1>6 DEF Happens

LEMMA InGroupAfter ==
    ASSUME GroupsTypeOK, CallsInv, NEW p \in Procs, NEW c, Becomes(p, c), Sound(c),
           NEW x \in Artifacts, NEW g \in Nat, InGroup(x, g)'
    PROVE  member'[x] = g \/ HoldsOf(c, x, g) \/ InGroup(x, g)
<1>1. proc'[p] = c /\ \A q \in Procs : q # p => proc'[q] = proc[q]
  BY BecomesSound
<1>2. member'[x] = g \/ \E q \in Procs : HoldsOf(proc'[q], x, g)
  BY DEF InGroup, HoldsOf, SrcOf, DstOf
<1> QED
  BY <1>1, <1>2 DEF InGroup

LEMMA QuietHolds == ASSUME NEW c, c.pc \in Quiet \cup {"read_src", "new_group", "read_group"}, NEW x, NEW g
                    PROVE  ~HoldsOf(c, x, g)
  BY DEF HoldsOf, Quiet, CleanPcs

\* Whoever comes into a group is connected to one that was in it, unless the
\* group is new; then the two ends of an edge come into it.
LEMMA Traced ==
    ASSUME GroupsTypeOK, CallsInv, EverInv, HeldInv, FamilyInv, NEW p \in Procs, Happens(p),
           NEW x \in Artifacts, NEW g \in Nat, InGroup(x, g)'
    PROVE  \/ \E z \in Artifacts : InGroup(z, g) /\ Connected(ever', z, x)
           \/ g \notin used /\ g \in used' /\ x \in proc[p].pair /\ proc[p].pair \in ever
<1> DEFINE Goal == \/ \E z \in Artifacts : InGroup(z, g) /\ Connected(ever', z, x)
                   \/ g \notin used /\ g \in used' /\ x \in proc[p].pair /\ proc[p].pair \in ever
<1>0. None \notin Nat
  BY VariantAssumption
<1>1. ASSUME InGroup(x, g) PROVE Goal
  BY <1>1, ConnectedSelf
<1>2. CASE QuietStep(p)
  <2>1. PICK c : Becomes(p, c) /\ Sound(c) /\ c.pc \in Quiet
    BY <1>2, QuietSteps DEF QuietStep
  <2>2. UNCHANGED member
    BY <1>2, QuietSteps DEF QuietStep
  <2>3. ~HoldsOf(c, x, g)
    BY <2>1, QuietHolds
  <2> QED
    BY <1>1, <2>1, <2>2, <2>3, InGroupAfter DEF InGroup
<1>3. ASSUME NEW y, NEW type, NEW c, Inserted(p, y, type, c), InsertedQuiet(p, y, type, c) \/ InsertedUnion(p, y, type, c)
      PROVE  Goal
  <2>1. Becomes(p, c) /\ Sound(c) /\ UNCHANGED member /\ c.pc \in Quiet \cup {"read_src"}
    BY <1>3 DEF Inserted, InsertedQuiet, InsertedUnion
  <2>2. ~HoldsOf(c, x, g)
    BY <2>1, QuietHolds
  <2> QED
    BY <1>1, <2>1, <2>2, InGroupAfter DEF InGroup
<1>4. ASSUME NEW c, UnionStep(p, c) PROVE Goal
  <2> DEFINE u == proc[p]
             s == SrcOf(u)
             d == DstOf(u)
  <2>1. /\ u.pc \in UnionPcs /\ (UnionMove(p, c) \/ UnionEnd(p, c)) /\ Kept
        /\ Becomes(p, c) /\ Sound(c)
    BY <1>4, UnionStepFacts
  <2>2. /\ s \in Artifacts /\ d \in Artifacts /\ u.pair = {s, d}
        /\ u.src \in Nat \cup {None} /\ u.dst \in Nat \cup {None}
    BY <2>1, UnionFacts
  <2>3. u.pair \in ever /\ ever' = ever
    BY <2>1 DEF EverInv, Kept
  <2>4. \A a, b \in {s, d} : Connected(ever, a, b)
    BY <2>2, <2>3, ConnectedPair
  <2>5. UnionMove(p, c) => SrcOf(c) = s /\ DstOf(c) = d
    BY DEF UnionMove, Same, SrcOf, DstOf
  <2>6. UnionEnd(p, c) => ~HoldsOf(c, x, g)
    BY QuietHolds DEF UnionEnd
  <2>7. CASE DidReadSrc(p, c)
    <3>1. HoldsOf(c, x, g) => member[x] = g
      BY <2>5, <2>7 DEF DidReadSrc, HoldsOf, CleanPcs
    <3> QED
      BY <1>1, <2>1, <2>7, <3>1, InGroupAfter DEF InGroup, DidReadSrc
  <2>8. CASE DidReadDst(p, c)
    <3>1. HoldsOf(c, x, g) => member[x] = g \/ HoldsOf(u, x, g)
      BY <2>5, <2>6, <2>8 DEF DidReadDst, HoldsOf, CleanPcs
    <3> QED
      BY <1>1, <2>1, <2>8, <3>1, InGroupAfter DEF InGroup, DidReadDst
  <2>9. CASE DidMerge(p, c)
    <3>1. HoldsOf(c, x, g) => HoldsOf(u, x, g)
      BY <2>5, <2>9 DEF DidMerge, HoldsOf, CleanPcs
    <3>2. ASSUME member'[x] = g, member[x] # g PROVE Goal
      <4>1. g = KeepOf(u) /\ member[x] = DropOf(u)
        BY <2>9, <3>2 DEF DidMerge
      <4>2. HoldsOf(u, s, u.src) /\ HoldsOf(u, d, u.dst)
        BY <2>9 DEF DidMerge, HoldsOf
      <4>3. PICK a \in {s, d}, b \in {s, d} : HoldsOf(u, a, KeepOf(u)) /\ HoldsOf(u, b, DropOf(u))
        BY <4>2 DEF KeepOf, DropOf
      <4>4. DropOf(u) \in Nat
        BY <2>2, <2>9 DEF DidMerge, HeldInv, DropOf
      <4>5. InGroup(b, DropOf(u)) /\ InGroup(x, DropOf(u)) /\ InGroup(a, g) /\ a \in Artifacts /\ b \in Artifacts
        BY <2>2, <4>1, <4>3 DEF InGroup
      <4>6. Connected(ever, b, x) /\ Connected(ever, a, b)
        BY <2>4, <4>4, <4>5 DEF FamilyInv
      <4>7. Connected(ever', a, x)
        BY <2>3, <4>5, <4>6, ConnectedOn
      <4> QED
        BY <4>5, <4>7
    <3> QED
      BY <1>1, <2>1, <3>1, <3>2, InGroupAfter DEF InGroup
  <2>10. CASE DidDrop(p, c)
    BY <1>1, <2>1, <2>6, <2>10, InGroupAfter DEF InGroup, DidDrop
  <2>11. ASSUME NEW h, DidNew(p, h, c) PROVE Goal
    <3>1. HoldsOf(c, x, g) => g = h /\ x \in {s, d}
      BY <2>5, <2>11 DEF DidNew, HoldsOf, CleanPcs
    <3>2. h \notin used /\ h \in used' /\ UNCHANGED member
      BY <2>11 DEF DidNew
    <3> QED
      BY <1>1, <2>1, <2>2, <2>3, <3>1, <3>2, InGroupAfter DEF InGroup
  <2>12. ASSUME NEW a \in {s, d}, NEW b \in {s, d}, NEW h, Added(a, h), HoldsOf(u, b, h), HoldsOf(c, x, g) => InGroup(x, g)
         PROVE  Goal
    <3>1. member'[x] = g => InGroup(x, g) \/ (x = a /\ g = h)
      BY <2>12 DEF Added, InGroup, GroupsTypeOK
    <3>2. ASSUME x = a, g = h PROVE Goal
      <4>1. InGroup(b, g) /\ b \in Artifacts
        BY <2>2, <2>12, <3>2 DEF InGroup
      <4>2. Connected(ever', b, x)
        BY <2>3, <2>4, <3>2
      <4> QED
        BY <4>1, <4>2
    <3> QED
      BY <1>1, <2>1, <2>12, <3>1, <3>2, InGroupAfter
  <2>13. CASE DidAddSrc(p, c)
    <3>1. HoldsOf(u, d, u.dst)
      BY <2>13 DEF DidAddSrc, HoldsOf
    <3>2. HoldsOf(c, x, g) => HoldsOf(u, x, g)
      BY <2>5, <2>6, <2>13 DEF DidAddSrc, HoldsOf, CleanPcs
    <3>3. Added(s, u.dst)
      BY <2>13 DEF DidAddSrc
    <3> QED
      BY <2>12, <3>1, <3>2, <3>3 DEF InGroup
  <2>14. CASE DidAddDst(p, c)
    <3>1. HoldsOf(u, s, u.src)
      BY <2>14 DEF DidAddDst, HoldsOf
    <3>2. ~HoldsOf(c, x, g)
      BY <2>6, <2>14 DEF DidAddDst
    <3>3. Added(d, u.src)
      BY <2>14 DEF DidAddDst
    <3> QED
      BY <2>12, <3>1, <3>2, <3>3
  <2> QED
    BY <1>4, <2>7, <2>8, <2>9, <2>10, <2>11, <2>13, <2>14 DEF UnionStep
<1>5. ASSUME NEW c, Cleaning(p, c) PROVE Goal
  <2> DEFINE u == proc[p]
  <2>1. Becomes(p, c) /\ Sound(c)
    BY <1>5, CleaningFacts
  <2>2. member'[x] = g => member[x] = g
    BY <1>0, <1>5 DEF Cleaning, DidClean, DidReadGroup, DidDelete, DidRepair, DidDissolve, DidCleanGroup, Kept, GroupsTypeOK
  <2>3. HoldsOf(c, x, g) => member[x] = g \/ HoldsOf(u, x, g)
    <3>0. c = Idle => ~HoldsOf(c, x, g)
      BY QuietHolds DEF Idle, Quiet
    <3>1. ASSUME c \in CleanRec PROVE HoldsOf(c, x, g) => x = c.art /\ g = c.group
      BY <3>1 DEF HoldsOf, CleanRec, CleanPcs
    <3>2. CASE \E y \in Artifacts : DidClean(p, y, c)
      BY <3>2, QuietHolds DEF DidClean
    <3>3. CASE DidReadGroup(p, c)
      BY <3>1, <3>3 DEF DidReadGroup
    <3>4. ASSUME u.pc \in CleanPcs \ {"read_group"}, CleanMove(p, c) PROVE HoldsOf(c, x, g) => HoldsOf(u, x, g)
      BY <3>1, <3>4 DEF CleanMove, HoldsOf
    <3>5. CASE DidDelete(p, c) \/ DidRepair(p, c) \/ DidDissolve(p, c)
      BY <3>0, <3>4, <3>5 DEF DidDelete, DidRepair, DidDissolve, CleanPcs
    <3> QED
      BY <1>5, <3>0, <3>2, <3>3, <3>5 DEF Cleaning
  <2> QED
    BY <1>1, <2>1, <2>2, <2>3, InGroupAfter DEF InGroup
<1>6. CASE Dropped(p)
  <2>1. ~HoldsOf(Idle, x, g)
    BY QuietHolds DEF Idle, Quiet
  <2> QED
    BY <1>1, <1>6, <2>1, IdleSound, InGroupAfter DEF InGroup, Dropped
<1> QED
  BY <1>2, <1>3, <1>4, <1>5, <1>6 DEF Happens

LEMMA FamilyKept ==
    ASSUME GroupsTypeOK, CallsInv, EverInv, HeldInv, UsedInv, FamilyInv, NEW p \in Procs, Happens(p),
           GroupsTypeOK', ever \subseteq ever', used \subseteq used'
    PROVE  UsedInv' /\ FamilyInv'
<1>1. UsedInv'
  <2> SUFFICES ASSUME NEW x \in Artifacts, NEW g \in Nat, InGroup(x, g)' PROVE g \in used'
    BY DEF UsedInv
  <2> QED
    BY Traced DEF UsedInv
<1>2. FamilyInv'
  <2> SUFFICES ASSUME NEW g \in Nat, NEW x \in Artifacts, NEW y \in Artifacts, InGroup(x, g)', InGroup(y, g)'
               PROVE  Connected(ever', x, y)
    BY DEF FamilyInv
  <2>0. \A e \in ever' : e \subseteq Artifacts
    BY DEF GroupsTypeOK
  <2>1. CASE g \in used
    <3>1. PICK a \in Artifacts : InGroup(a, g) /\ Connected(ever', a, x)
      BY <2>1, Traced
    <3>2. PICK b \in Artifacts : InGroup(b, g) /\ Connected(ever', b, y)
      BY <2>1, Traced
    <3>3. Connected(ever, a, b)
      BY <3>1, <3>2 DEF FamilyInv
    <3>4. Connected(ever', a, b) /\ Connected(ever', x, a)
      BY <2>0, <3>1, <3>3, ConnectedMore, ConnectedBack
    <3>5. Connected(ever', x, b)
      BY <3>4, ConnectedOn
    <3> QED
      BY <3>2, <3>5, ConnectedOn
  <2>2. CASE g \notin used
    <3>1. x \in proc[p].pair /\ y \in proc[p].pair /\ proc[p].pair \in ever
      BY <2>2, Traced DEF UsedInv
    <3>2. Connected(ever, x, y)
      BY <3>1, ConnectedPair
    <3> QED
      BY <3>2, ConnectedMore
  <2> QED
    BY <2>1, <2>2
<1> QED
  BY <1>1, <1>2

LEMMA UsedGrows ==
    ASSUME GroupsTypeOK, CallsInv, NEW p \in Procs, Happens(p)
    PROVE  used \subseteq used'
<1>1. CASE QuietStep(p)
  BY <1>1, QuietSteps DEF QuietStep
<1>2. CASE \E y, type, c : Inserted(p, y, type, c)
  BY <1>2 DEF Inserted
<1>3. CASE \E c : UnionStep(p, c)
  BY <1>3 DEF UnionStep, DidReadSrc, DidReadDst, DidMerge, DidDrop, DidNew, DidAddSrc, DidAddDst
<1>4. CASE \E c : Cleaning(p, c)
  BY <1>4, CleaningFacts
<1>5. CASE Dropped(p)
  BY <1>5 DEF Dropped
<1> QED
  BY <1>1, <1>2, <1>3, <1>4, <1>5 DEF Happens

\* A group is deleted only when nobody is in it, and joined only when it is there.
LEMMA ForeignKeyKept ==
    ASSUME GroupsTypeOK, CallsInv, ForeignKeyInv, NEW p \in Procs, Happens(p)
    PROVE  ForeignKeyInv'
<1>0. member \in [Artifacts -> Nat \cup {None}]
  BY DEF GroupsTypeOK
<1>1. CASE UNCHANGED <<member, groups>>
  BY <1>1 DEF ForeignKeyInv
<1>2. CASE QuietStep(p)
  BY <1>1, <1>2, QuietSteps DEF QuietStep
<1>3. CASE \E y, type, c : Inserted(p, y, type, c)
  BY <1>1, <1>3 DEF Inserted
<1>4. ASSUME NEW c, UnionStep(p, c) PROVE ForeignKeyInv'
  <2>1. CASE DidMerge(p, c)
    BY <2>1 DEF DidMerge, ForeignKeyInv
  <2>2. CASE DidDrop(p, c)
    BY <2>2 DEF DidDrop, ForeignKeyInv
  <2>3. CASE \E g : DidNew(p, g, c)
    BY <2>3 DEF DidNew, ForeignKeyInv
  <2>4. ASSUME NEW x, NEW g, Added(x, g), UNCHANGED groups PROVE ForeignKeyInv'
    BY <1>0, <2>4 DEF Added, ForeignKeyInv
  <2> QED
    BY <1>1, <1>4, <2>1, <2>2, <2>3, <2>4 DEF UnionStep, DidReadSrc, DidReadDst, DidAddSrc, DidAddDst
<1>5. ASSUME NEW c, Cleaning(p, c) PROVE ForeignKeyInv'
  <2>1. CASE DidDelete(p, c)
    BY <1>0, <2>1 DEF DidDelete, ForeignKeyInv
  <2>2. CASE DidDissolve(p, c)
    BY <2>2 DEF DidDissolve, ForeignKeyInv
  <2>3. CASE DidCleanGroup(p)
    BY <2>3 DEF DidCleanGroup, ForeignKeyInv
  <2> QED
    BY <1>1, <1>5, <2>1, <2>2, <2>3 DEF Cleaning, DidClean, DidReadGroup, DidRepair
<1>6. CASE Dropped(p)
  BY <1>1, <1>6 DEF Dropped
<1> QED
  BY <1>2, <1>3, <1>4, <1>5, <1>6 DEF Happens

(***************************************************************************)
(* The invariant of the tables                                             *)
(***************************************************************************)
TablesInv ==
    GroupsTypeOK /\ CallsInv /\ EverInv /\ HeldInv /\ UsedInv /\ FamilyInv /\ ForeignKeyInv

LEMMA InitCalls == ASSUME Init, NEW p \in Procs PROVE proc[p] = Idle /\ proc[p].pc = "idle"
  BY DEF Init, Idle

LEMMA InitTables == Init => TablesInv
<1> SUFFICES ASSUME Init PROVE TablesInv
  OBVIOUS
<1>0. \A p \in Procs : proc[p] = Idle /\ proc[p].pc = "idle"
  BY InitCalls
<1>1. GroupsTypeOK
  BY DEF Init, GroupsTypeOK
<1>2. CallsInv /\ EverInv /\ HeldInv
  <2>1. Idle \notin CallRec
    BY DEF Idle, CallRec, UnionPcs
  <2> QED
    BY <1>0, <2>1 DEF Init, CallsInv, EverInv, HeldInv, UnionPcs
<1>3. \A x \in Artifacts, g \in Nat : ~InGroup(x, g)
  <2>1. \A x, g : \A p \in Procs : ~HoldsOf(proc[p], x, g)
    BY <1>0, QuietHolds DEF Quiet
  <2>2. \A x \in Artifacts : member[x] = None
    BY DEF Init
  <2> QED
    BY <2>1, <2>2, VariantAssumption DEF InGroup
<1>4. UsedInv /\ FamilyInv
  BY <1>3 DEF UsedInv, FamilyInv
<1>5. ForeignKeyInv
  BY DEF Init, ForeignKeyInv
<1> QED
  BY <1>1, <1>2, <1>4, <1>5 DEF TablesInv

LEMMA NextTaken ==
    ASSUME GroupsTypeOK, CallsInv, Next
    PROVE  \E p \in Procs : Happens(p) /\ GroupsTypeOK' /\ CallsInv'
<1>1. PICK p \in Procs :
           \/ \E x \in Artifacts : analyze_new_artifact(p, x) \/ cleanup_artifact(p, x)
           \/ backfill(p) \/ store_features(p) \/ Lookup(p) \/ insert_edge(p) \/ Finish(p)
           \/ group_of_src(p) \/ group_of_dst(p) \/ Merge(p) \/ drop_group(p)
           \/ new_group(p) \/ AddSrc(p) \/ AddDst(p)
           \/ CleanReadGroup(p) \/ CleanDelete(p) \/ repair_group(p) \/ Dissolve(p)
           \/ clean_group(p)
           \/ Abort(p)
  BY Zenon DEF Next
<1>2. Happens(p) /\ GroupsTypeOK' /\ CallsInv'
  BY <1>1, StepTaken, Zenon
<1> QED
  BY <1>2

LEMMA TablesStep == TablesInv /\ [Next]_vars => TablesInv'
<1> SUFFICES ASSUME TablesInv, [Next]_vars PROVE TablesInv'
  OBVIOUS
<1>0. GroupsTypeOK /\ CallsInv /\ EverInv /\ HeldInv /\ UsedInv /\ FamilyInv /\ ForeignKeyInv
  BY DEF TablesInv
<1>1. CASE Next
  <2>1. PICK p \in Procs : Happens(p) /\ GroupsTypeOK' /\ CallsInv'
    BY <1>0, <1>1, NextTaken
  <2>2. ever \subseteq ever' /\ EverInv' /\ HeldInv' /\ used \subseteq used' /\ ForeignKeyInv'
    BY <1>0, <2>1, EverKept, HeldKept, UsedGrows, ForeignKeyKept
  <2>3. UsedInv' /\ FamilyInv'
    BY <1>0, <2>1, <2>2, FamilyKept
  <2> QED
    BY <2>1, <2>2, <2>3 DEF TablesInv
<1>2. CASE UNCHANGED vars
  <2>1. UNCHANGED <<rows, edges, groups, member, proc, analyzed, spoiled, ever, used, torn>>
    BY <1>2 DEF vars, tables, history
  <2>2. GroupsTypeOK' /\ CallsInv' /\ EverInv' /\ HeldInv' /\ ForeignKeyInv'
    BY <1>0, <2>1 DEF GroupsTypeOK, CallsInv, EverInv, HeldInv, ForeignKeyInv
  <2>3. \A x, g : InGroup(x, g)' <=> InGroup(x, g)
    BY <2>1 DEF InGroup
  <2>4. UsedInv' /\ FamilyInv'
    BY <1>0, <2>1, <2>3 DEF UsedInv, FamilyInv
  <2> QED
    BY <2>2, <2>4 DEF TablesInv
<1> QED
  BY <1>1, <1>2

LEMMA TablesAlways == Spec => []TablesInv
  BY InitTables, TablesStep, PTL DEF Spec

\* union_groups, cleanup_artifact: however unions, merges, cleanups and repairs
\* interleave, fail and are dropped, two artifacts are in one group only if a
\* chain of strong edges has linked them at some time.
THEOREM FamiliesSafe == Spec => []GroupsJustified
<1>1. TablesInv => GroupsJustified
  <2> SUFFICES ASSUME TablesInv, NEW x \in Artifacts, NEW y \in Artifacts, member[x] # None, member[x] = member[y]
               PROVE  Connected(ever, x, y)
    BY DEF GroupsJustified
  <2>1. member[x] \in Nat
    BY DEF TablesInv, GroupsTypeOK
  <2> QED
    BY <2>1 DEF TablesInv, FamilyInv, InGroup
<1> QED
  BY <1>1, TablesAlways, PTL

(***************************************************************************)
(* Unions and cleanups that come one after the other                       *)
(***************************************************************************)
LEMMA ComponentSame ==
    ASSUME GroupsTypeOK, NEW x \in Artifacts, NEW y \in Artifacts, Connected(ever, x, y)
    PROVE  Component(x) = Component(y) /\ x \in Component(x) /\ x \in Component(y)
<1>1. Connected(ever, y, x)
  BY ConnectedBack DEF GroupsTypeOK
<1>2. ASSUME NEW z \in Artifacts PROVE Connected(ever, x, z) <=> Connected(ever, y, z)
  BY <1>1, ConnectedOn
<1> QED
  BY <1>1, <1>2, ConnectedSelf DEF Component

\* A new edge changes only the component it is in.
LEMMA ComponentElsewhere ==
    ASSUME NEW E, NEW F, NEW x, NEW y \in Artifacts, NEW a \in Artifacts, NEW b \in Artifacts,
           F = E \cup {{x, y}}, Connected(F, a, b), ~Connected(F, a, y)
    PROVE  Connected(E, a, b)
<1>1. PICK S \in SUBSET Artifacts : a \in S /\ Closed(S, F) /\ y \notin S
  BY DEF Connected
<1>2. x \notin S
  <2>1. PICK e : e = {x, y}
    OBVIOUS
  <2>2. e \cap S # {} => e \subseteq S
    BY <1>1, <2>1 DEF Closed
  <2> QED
    BY <1>1, <2>1, <2>2
<1> SUFFICES ASSUME NEW T \in SUBSET Artifacts, a \in T, Closed(T, E) PROVE b \in T
  BY DEF Connected
<1>3. Closed(S \cap T, F)
  BY <1>1, <1>2 DEF Closed
<1>4. S \cap T \in SUBSET Artifacts /\ a \in S \cap T
  BY <1>1
<1> QED
  BY <1>3, <1>4 DEF Connected

LEMMA NamesAfter ==
    ASSUME NEW q \in Procs
    PROVE  (Section(q)' <=> SectionOf(proc'[q])) /\ Subject(q)' = SubjectOf(proc'[q])
  BY DEF Section, SectionOf, Subject, SubjectOf

LEMMA SubjectIn ==
    ASSUME GroupsTypeOK, CallsInv, EverInv, NEW p \in Procs, Section(p)
    PROVE  /\ Subject(p) \in Artifacts /\ Subject(p) \in Component(Subject(p))
           /\ proc[p].pc \in UnionPcs =>
                /\ Subject(p) \in proc[p].pair
                /\ \A x \in proc[p].pair : x \in Artifacts /\ Connected(ever, Subject(p), x)
           /\ proc[p].pc \in CleanPcs => Subject(p) = proc[p].art /\ proc[p] \in CleanRec
<1>1. CASE proc[p].pc \in UnionPcs
  <2>1. /\ SubjectOf(proc[p]) \in proc[p].pair /\ proc[p].pair = {SrcOf(proc[p]), DstOf(proc[p])}
        /\ SrcOf(proc[p]) \in Artifacts /\ DstOf(proc[p]) \in Artifacts
    BY <1>1, UnionFacts
  <2>2. proc[p].pair \in ever
    BY <1>1 DEF EverInv
  <2>3. Subject(p) = SubjectOf(proc[p])
    BY Names
  <2>4. \A x \in proc[p].pair : x \in Artifacts /\ Connected(ever, Subject(p), x)
    BY <2>1, <2>2, <2>3, ConnectedPair
  <2> QED
    BY <1>1, <2>1, <2>3, <2>4, ConnectedSelf DEF Component, UnionPcs, CleanPcs
<1>2. CASE proc[p].pc \in CleanPcs
  <2>1. proc[p] \in CleanRec /\ proc[p].art \in Artifacts
    BY <1>2, Kinds DEF CleanRec
  <2>2. Subject(p) = proc[p].art
    BY <1>2 DEF Subject, UnionPcs, CleanPcs
  <2> QED
    BY <1>2, <2>1, <2>2, ConnectedSelf DEF Component, UnionPcs, CleanPcs
<1> QED
  BY <1>1, <1>2 DEF Section

\* What a call holds as the group of an artifact is of its own component.
LEMMA HoldsNear ==
    ASSUME GroupsTypeOK, CallsInv, EverInv, NEW p \in Procs, NEW a, NEW g, HoldsOf(proc[p], a, g)
    PROVE  Section(p) /\ a \in Artifacts /\ Connected(ever, Subject(p), a)
<1>1. CASE proc[p].pc \in {"read_dst", "merge", "add_src", "add_dst", "drop_group"}
  <2>1. proc[p].pc \in UnionPcs /\ Section(p)
    BY <1>1 DEF UnionPcs, Section
  <2>2. a \in proc[p].pair
    <3>1. proc[p].pair = {SrcOf(proc[p]), DstOf(proc[p])}
      BY <2>1, UnionFacts
    <3> QED
      BY <1>1, <3>1 DEF HoldsOf, CleanPcs
  <2> QED
    BY <2>1, <2>2, SubjectIn
<1>2. CASE proc[p].pc \in CleanPcs
  <2>1. Section(p) /\ a = proc[p].art
    BY <1>2 DEF Section, HoldsOf, CleanPcs
  <2> QED
    BY <1>2, <2>1, SubjectIn, ConnectedSelf
<1> QED
  BY <1>1, <1>2 DEF HoldsOf

\* A step moves only artifacts of its own component, between groups that are
\* held or belong there, and deletes only a group that is held there.
Touches(p, g) == \E b \in Artifacts : InGroup(b, g) /\ Connected(ever, Subject(p), b)
Footprint(p) ==
    /\ \A x \in Artifacts : member'[x] # member[x] =>
         /\ Section(p) /\ Connected(ever, Subject(p), x)
         /\ member'[x] # None => Touches(p, member'[x])
    /\ \A g \in groups \ groups' : Section(p) /\ Touches(p, g)

LEMMA HeldTouches ==
    ASSUME GroupsTypeOK, CallsInv, EverInv, NEW p \in Procs, NEW a, NEW g, HoldsOf(proc[p], a, g)
    PROVE  Touches(p, g)
<1>1. a \in Artifacts /\ Connected(ever, Subject(p), a)
  BY HoldsNear
<1> QED
  BY <1>1 DEF Touches, InGroup

LEMMA StepFootprint ==
    ASSUME TablesInv, NEW p \in Procs, Happens(p)
    PROVE  Footprint(p)
<1>0. GroupsTypeOK /\ CallsInv /\ EverInv /\ HeldInv /\ FamilyInv
  BY DEF TablesInv
<1>f. ASSUME UNCHANGED member, groups \subseteq groups' PROVE Footprint(p)
  BY <1>f DEF Footprint
<1>1. CASE QuietStep(p)
  BY <1>0, <1>1, <1>f, QuietSteps DEF QuietStep
<1>2. CASE \E y, type, c : Inserted(p, y, type, c)
  BY <1>2, <1>f DEF Inserted
<1>3. CASE Dropped(p)
  BY <1>3, <1>f DEF Dropped
<1>4. ASSUME NEW c, UnionStep(p, c) PROVE Footprint(p)
  <2> DEFINE u == proc[p]
  <2>1. u.pc \in UnionPcs /\ Section(p)
    BY <1>0, <1>4, UnionStepFacts DEF Section
  <2>2. /\ SrcOf(u) \in Artifacts /\ DstOf(u) \in Artifacts /\ u.pair = {SrcOf(u), DstOf(u)}
        /\ u.src \in Nat \cup {None} /\ u.dst \in Nat \cup {None}
    BY <1>0, <2>1, UnionFacts
  <2>3. Connected(ever, Subject(p), SrcOf(u)) /\ Connected(ever, Subject(p), DstOf(u)) /\ Subject(p) \in Artifacts
    BY <1>0, <2>1, <2>2, SubjectIn
  <2>4. CASE DidMerge(p, c)
    <3>1. HoldsOf(u, SrcOf(u), u.src) /\ HoldsOf(u, DstOf(u), u.dst)
      BY <2>4 DEF DidMerge, HoldsOf
    <3>2. PICK a \in {SrcOf(u), DstOf(u)}, b \in {SrcOf(u), DstOf(u)} :
             HoldsOf(u, a, KeepOf(u)) /\ HoldsOf(u, b, DropOf(u))
      BY <3>1 DEF KeepOf, DropOf
    <3>3. Touches(p, KeepOf(u)) /\ DropOf(u) \in Nat
      <4>1. Touches(p, KeepOf(u))
        BY <1>0, <3>2, HeldTouches
      <4>2. DropOf(u) \in Nat
        BY <1>0, <2>2, <2>4 DEF DidMerge, HeldInv, DropOf
      <4> QED
        BY <4>1, <4>2
    <3>4. ASSUME NEW x \in Artifacts, member'[x] # member[x]
          PROVE  member'[x] = KeepOf(u) /\ Connected(ever, Subject(p), x)
      <4>1. member'[x] = KeepOf(u) /\ member[x] = DropOf(u)
        BY <2>4, <3>4 DEF DidMerge
      <4>2. InGroup(b, DropOf(u)) /\ InGroup(x, DropOf(u)) /\ b \in Artifacts
        BY <2>2, <3>2, <4>1 DEF InGroup
      <4>3. Connected(ever, b, x) /\ Connected(ever, Subject(p), b)
        BY <1>0, <2>3, <3>3, <4>2 DEF FamilyInv
      <4> QED
        BY <2>3, <4>1, <4>2, <4>3, ConnectedOn
    <3>5. groups' = groups
      BY <2>4 DEF DidMerge
    <3> QED
      BY <2>1, <3>3, <3>4, <3>5 DEF Footprint
  <2>5. CASE DidDrop(p, c)
    <3>1. HoldsOf(u, SrcOf(u), u.src) /\ HoldsOf(u, DstOf(u), u.dst)
      BY <2>5 DEF DidDrop, HoldsOf
    <3>2. PICK b : HoldsOf(u, b, DropOf(u))
      BY <3>1 DEF DropOf
    <3>3. Touches(p, DropOf(u))
      BY <1>0, <3>2, HeldTouches
    <3> QED
      BY <2>1, <2>5, <3>3 DEF DidDrop, Footprint
  <2>6. ASSUME NEW x \in {SrcOf(u), DstOf(u)}, NEW b, NEW g, Added(x, g), HoldsOf(u, b, g), UNCHANGED groups
        PROVE  Footprint(p)
    <3>1. Touches(p, g)
      BY <1>0, <2>6, HeldTouches
    <3>2. \A y \in Artifacts : member'[y] # member[y] => y = x /\ member'[y] = g
      BY <1>0, <2>6 DEF Added, GroupsTypeOK
    <3> QED
      BY <2>1, <2>3, <2>6, <3>1, <3>2 DEF Footprint
  <2>7. CASE DidAddSrc(p, c)
    <3>1. HoldsOf(u, DstOf(u), u.dst) /\ Added(SrcOf(u), u.dst) /\ UNCHANGED groups
      BY <2>7 DEF DidAddSrc, HoldsOf
    <3> QED
      BY <2>6, <3>1
  <2>8. CASE DidAddDst(p, c)
    <3>1. HoldsOf(u, SrcOf(u), u.src) /\ Added(DstOf(u), u.src) /\ UNCHANGED groups
      BY <2>8 DEF DidAddDst, HoldsOf
    <3> QED
      BY <2>6, <3>1
  <2> QED
    BY <1>4, <1>f, <2>4, <2>5, <2>7, <2>8 DEF UnionStep, DidReadSrc, DidReadDst, DidNew
<1>5. ASSUME NEW c, Cleaning(p, c) PROVE Footprint(p)
  <2> DEFINE u == proc[p]
  <2>1. ASSUME u \in CleanRec PROVE Section(p) /\ Subject(p) = u.art /\ u.art \in Artifacts
    <3>1. u.pc \in CleanPcs
      BY <2>1 DEF CleanRec
    <3> QED
      BY <1>0, <3>1, SubjectIn DEF Section
  <2>2. CASE DidDelete(p, c)
    <3>1. \A x \in Artifacts : member'[x] # member[x] => x = u.art /\ member'[x] = None
      BY <1>0, <2>2 DEF DidDelete, GroupsTypeOK
    <3>2. groups' = groups /\ Section(p) /\ Subject(p) = u.art /\ u.art \in Artifacts
      BY <2>1, <2>2 DEF DidDelete
    <3> QED
      BY <3>1, <3>2, ConnectedSelf DEF Footprint
  <2>3. CASE DidDissolve(p, c)
    <3>1. Section(p) /\ Subject(p) = u.art /\ u.art \in Artifacts /\ groups' = groups
      BY <2>1, <2>3 DEF DidDissolve
    <3>2. HoldsOf(u, u.art, u.group)
      BY <2>3 DEF DidDissolve, HoldsOf, CleanPcs
    <3>3. ASSUME NEW x \in Artifacts, member'[x] # member[x]
          PROVE  member'[x] = None /\ Connected(ever, u.art, x)
      <4>1. member'[x] = None /\ member[x] = u.group /\ member[x] \in Nat
        BY <1>0, <2>3, <3>3 DEF DidDissolve, GroupsTypeOK
      <4>2. InGroup(u.art, u.group) /\ InGroup(x, u.group)
        BY <3>2, <4>1 DEF InGroup
      <4> QED
        BY <1>0, <3>1, <4>1, <4>2 DEF FamilyInv
    <3> QED
      BY <3>1, <3>3 DEF Footprint
  <2>4. CASE DidCleanGroup(p)
    <3>1. HoldsOf(u, u.art, u.group)
      BY <2>4 DEF DidCleanGroup, HoldsOf, CleanPcs
    <3>2. Touches(p, u.group) /\ Section(p)
      BY <1>0, <2>1, <2>4, <3>1, HeldTouches DEF DidCleanGroup
    <3> QED
      BY <2>4, <3>2 DEF DidCleanGroup, Footprint
  <2> QED
    BY <1>5, <1>f, <2>2, <2>3, <2>4 DEF Cleaning, DidClean, DidReadGroup, DidRepair
<1> QED
  BY <1>1, <1>2, <1>3, <1>4, <1>5 DEF Happens

CompOf(E, x) == {y \in Artifacts : Connected(E, x, y)}

LEMMA CompNames ==
    ASSUME NEW q \in Procs
    PROVE  /\ Component(Subject(q)) = CompOf(ever, SubjectOf(proc[q]))
           /\ Component(Subject(q))' = CompOf(ever', SubjectOf(proc'[q]))
<1>1. Subject(q) = SubjectOf(proc[q]) /\ Subject(q)' = SubjectOf(proc'[q])
  BY Names, NamesAfter
<1> QED
  BY <1>1 DEF Component, CompOf

LEMMA CompSame ==
    ASSUME NEW E, \A e \in E : e \subseteq Artifacts, NEW x \in Artifacts, NEW y \in Artifacts, Connected(E, x, y)
    PROVE  CompOf(E, x) = CompOf(E, y) /\ x \in CompOf(E, y) /\ Connected(E, y, x)
<1>1. Connected(E, y, x)
  BY ConnectedBack
<1>2. ASSUME NEW z \in Artifacts PROVE Connected(E, x, z) <=> Connected(E, y, z)
  BY <1>1, ConnectedOn
<1> QED
  BY <1>1, <1>2 DEF CompOf

\* A step keeps the section its call is in, or leaves it ...
Steady(p, c) ==
    /\ ever' = ever /\ (SectionOf(c) => Section(p) /\ SubjectOf(c) = Subject(p))
    /\ \A e \in edges' : e \in edges \/ e[2] \notin Strong
\* ... or enters one for y.
Enters(p, c, y) ==
    /\ ~Section(p) /\ c.pc \in {"read_src", "read_group"}
    /\ y \in Artifacts /\ SubjectOf(c) \in Artifacts /\ Connected(ever', y, SubjectOf(c))
    /\ torn' = torn \cup Overlap(p, y, ever')
    /\ ever' = ever \/ \E x \in Artifacts : ever' = ever \cup {{x, y}}
    /\ UNCHANGED <<member, groups>>
    /\ \A e \in edges' : e \in edges \/ y \in e[1]

LEMMA StepShape ==
    ASSUME TablesInv, NEW p \in Procs, Happens(p)
    PROVE  /\ torn \subseteq torn'
           /\ \E c : Becomes(p, c) /\ Sound(c) /\ (Steady(p, c) \/ \E y : Enters(p, c, y))
<1>0. GroupsTypeOK /\ CallsInv /\ EverInv
  BY DEF TablesInv
<1>q. ASSUME NEW c, c.pc \in Quiet, ever' = ever, \A e \in edges' : e \in edges \/ e[2] \notin Strong
      PROVE  Steady(p, c)
  BY <1>q DEF Steady, SectionOf, UnionPcs, CleanPcs, Quiet
<1>i. Idle.pc \in Quiet
  BY DEF Idle, Quiet
<1>1. CASE QuietStep(p)
  <2>1. PICK c : Becomes(p, c) /\ Sound(c) /\ c.pc \in Quiet
    BY <1>0, <1>1, QuietSteps DEF QuietStep
  <2>2. UNCHANGED <<ever, torn, edges>>
    BY <1>0, <1>1, QuietSteps DEF QuietStep
  <2> QED
    BY <1>q, <2>1, <2>2
<1>2. ASSUME NEW y, NEW type, NEW c, Inserted(p, y, type, c), InsertedQuiet(p, y, type, c)
      PROVE  torn \subseteq torn' /\ Becomes(p, c) /\ Sound(c) /\ Steady(p, c)
  BY <1>q, <1>2 DEF Inserted, InsertedQuiet
<1>3. ASSUME NEW y, NEW type, NEW c, Inserted(p, y, type, c), InsertedUnion(p, y, type, c)
      PROVE  torn \subseteq torn' /\ Becomes(p, c) /\ Sound(c) /\ Enters(p, c, y)
  <2>1. /\ Becomes(p, c) /\ Sound(c) /\ c \in CallRec /\ y \in Artifacts /\ proc[p].art \in Artifacts
        /\ proc[p].pc = "link" /\ UNCHANGED <<member, groups>> /\ y # proc[p].art
    BY <1>3 DEF Inserted, CallRec
  <2>2. c.pc = "read_src" /\ c.pair = {proc[p].art, y} /\ ever' = ever \cup {{proc[p].art, y}} /\ torn' = torn \cup Overlap(p, y, ever')
    BY <1>3 DEF InsertedUnion
  <2>3. SubjectOf(c) \in {proc[p].art, y}
    <3>1. (CHOOSE x \in c.pair : TRUE) \in c.pair
      BY <2>2
    <3> QED
      BY <2>2, <3>1 DEF SubjectOf, UnionPcs
  <2>4. Connected(ever', y, SubjectOf(c))
    <3>1. PICK e : e = {proc[p].art, y}
      OBVIOUS
    <3>2. e \in ever' /\ y \in e /\ SubjectOf(c) \in e
      BY <2>2, <2>3, <3>1
    <3> QED
      BY <3>2, ConnectedPair
  <2>5. ~Section(p)
    BY <2>1 DEF Section, UnionPcs, CleanPcs
  <2>6. \A e \in edges' : e \in edges \/ y \in e[1]
    <3>1. PICK e : e = <<{proc[p].art, y}, type>>
      OBVIOUS
    <3>2. y \in e[1] /\ edges' = edges \cup {e}
      BY <1>3, <3>1 DEF InsertedUnion
    <3> QED
      BY <3>2
  <2> QED
    BY <2>1, <2>2, <2>3, <2>4, <2>5, <2>6 DEF Enters
<1>4. ASSUME NEW c, UnionStep(p, c)
      PROVE  torn \subseteq torn' /\ Becomes(p, c) /\ Sound(c) /\ Steady(p, c)
  <2>1. /\ proc[p].pc \in UnionPcs /\ (UnionMove(p, c) \/ UnionEnd(p, c)) /\ Kept
        /\ Becomes(p, c) /\ Sound(c)
    BY <1>0, <1>4, UnionStepFacts
  <2>2. CASE UnionEnd(p, c)
    BY <1>q, <2>1, <2>2 DEF UnionEnd, Kept
  <2>3. CASE UnionMove(p, c)
    <3>1. SubjectOf(c) = Subject(p) /\ Section(p)
      BY <2>1, <2>3 DEF UnionMove, Same, SubjectOf, Subject, Section
    <3> QED
      BY <2>1, <3>1 DEF Steady, Kept
  <2> QED
    BY <2>1, <2>2, <2>3 DEF Kept
<1>5. ASSUME NEW c, NEW x \in Artifacts, DidClean(p, x, c)
      PROVE  torn \subseteq torn' /\ Becomes(p, c) /\ Sound(c) /\ Enters(p, c, x)
  <2>1. SubjectOf(c) = x /\ c.pc = "read_group"
    BY <1>5 DEF DidClean, SubjectOf, UnionPcs
  <2>2. ~Section(p)
    BY <1>5 DEF DidClean, Section, Idle, UnionPcs, CleanPcs
  <2>3. Connected(ever', x, x)
    BY ConnectedSelf
  <2> QED
    BY <1>5, <2>1, <2>2, <2>3 DEF DidClean, Enters
<1>6. ASSUME NEW c, DidReadGroup(p, c) \/ DidDelete(p, c) \/ DidRepair(p, c) \/ DidDissolve(p, c)
                    \/ (DidCleanGroup(p) /\ c = Idle)
      PROVE  torn \subseteq torn' /\ Becomes(p, c) /\ Sound(c) /\ Steady(p, c)
  <2>1. Cleaning(p, c)
    BY <1>6 DEF Cleaning
  <2>2. torn' = torn /\ proc[p] # Idle
    <3>1. proc[p].pc \in CleanPcs
      BY <1>6 DEF DidReadGroup, DidDelete, DidRepair, DidDissolve, DidCleanGroup, CleanPcs
    <3>2. torn' = torn
      BY <1>6 DEF DidReadGroup, DidDelete, DidRepair, DidDissolve, DidCleanGroup, Kept
    <3> QED
      BY <3>1, <3>2 DEF CleanPcs, Idle
  <2>3. /\ Becomes(p, c) /\ Sound(c) /\ ever' = ever /\ proc[p].pc \in CleanPcs /\ edges' \subseteq edges
        /\ c = Idle \/ (c \in CleanRec /\ c.art = proc[p].art)
    BY <1>0, <2>1, <2>2, CleaningFacts
  <2>4. ASSUME c \in CleanRec, c.art = proc[p].art PROVE Section(p) /\ SubjectOf(c) = Subject(p)
    BY <2>3, <2>4 DEF CleanRec, SubjectOf, Subject, Section, UnionPcs, CleanPcs
  <2> QED
    BY <1>i, <1>q, <2>2, <2>3, <2>4 DEF Steady
<1>7. CASE Dropped(p)
  BY <1>i, <1>q, <1>7, IdleSound DEF Dropped
<1> QED
  BY <1>1, <1>2, <1>3, <1>4, <1>5, <1>6, <1>7, Zenon DEF Happens, Cleaning

\* Who is at work elsewhere when a section is entered: its component is torn, or
\* is as it was.
LEMMA EnterOther ==
    ASSUME GroupsTypeOK, GroupsTypeOK', CallsInv, EverInv, NEW p \in Procs, NEW c, NEW y, Enters(p, c, y),
           NEW q \in Procs, q # p, Section(q)
    PROVE  \/ CompOf(ever', Subject(q)) \subseteq torn' /\ CompOf(ever', y) \subseteq torn'
           \/ ~Connected(ever', Subject(q), y) /\ CompOf(ever', Subject(q)) = CompOf(ever, Subject(q))
<1>0. Subject(q) \in Artifacts /\ y \in Artifacts
  BY SubjectIn DEF Enters
<1>1. \A e \in ever' : e \subseteq Artifacts
  BY DEF GroupsTypeOK
<1>2. CASE Connected(ever', Subject(q), y)
  <2>1. Connected(ever', y, Subject(q)) /\ CompOf(ever', Subject(q)) = CompOf(ever', y)
    BY <1>0, <1>1, <1>2, CompSame
  <2>2. CompOf(ever', y) \subseteq Overlap(p, y, ever')
    BY <2>1 DEF Overlap, CompOf
  <2> QED
    BY <2>1, <2>2 DEF Enters
<1>3. CASE ~Connected(ever', Subject(q), y)
  <2>1. ASSUME NEW z \in Artifacts PROVE Connected(ever', Subject(q), z) <=> Connected(ever, Subject(q), z)
    <3>1. Connected(ever, Subject(q), z) => Connected(ever', Subject(q), z)
      <4>1. ever \subseteq ever'
        BY DEF Enters
      <4> QED
        BY <1>0, <4>1, ConnectedMore
    <3>2. Connected(ever', Subject(q), z) => Connected(ever, Subject(q), z)
      <4>1. CASE ever' = ever
        BY <4>1
      <4>2. ASSUME NEW x \in Artifacts, ever' = ever \cup {{x, y}}, Connected(ever', Subject(q), z)
            PROVE  Connected(ever, Subject(q), z)
        <5>1. PICK a \in Artifacts : a = Subject(q)
          BY <1>0
        <5>2. Connected(ever', a, z) /\ ~Connected(ever', a, y)
          BY <1>3, <4>2, <5>1
        <5>3. Connected(ever, a, z)
          BY <1>0, <4>2, <5>2, ComponentElsewhere
        <5> QED
          BY <5>1, <5>3
      <4> QED
        BY <4>1, <4>2 DEF Enters
    <3> QED
      BY <3>1, <3>2
  <2> QED
    BY <1>3, <2>1 DEF CompOf
<1> QED
  BY <1>2, <1>3

LEMMA SerialKept ==
    ASSUME TablesInv, TablesInv', SerialInv, NEW p \in Procs, Happens(p)
    PROVE  SerialInv'
<1>0. GroupsTypeOK /\ GroupsTypeOK' /\ CallsInv /\ CallsInv' /\ EverInv /\ EverInv'
  BY DEF TablesInv
<1> SUFFICES ASSUME NEW q \in Procs, NEW r \in Procs, q # r, Section(q)', Section(r)',
                    Connected(ever', Subject(q)', Subject(r)')
             PROVE  Component(Subject(q))' \subseteq torn'
  BY DEF SerialInv
<1>1. torn \subseteq torn'
  BY StepShape
<1>2. PICK c : Becomes(p, c) /\ Sound(c) /\ (Steady(p, c) \/ \E y : Enters(p, c, y))
  BY StepShape
<1>3. proc'[p] = c /\ \A o \in Procs : o # p => proc'[o] = proc[o]
  BY <1>0, <1>2, BecomesSound
<1>4. \A o \in Procs : o # p => (Section(o)' <=> Section(o)) /\ Subject(o)' = Subject(o)
  BY <1>3, Names, NamesAfter
<1>5. (Section(p)' <=> SectionOf(c)) /\ Subject(p)' = SubjectOf(c)
  BY <1>3, NamesAfter
<1>6. Component(Subject(q))' = CompOf(ever', Subject(q)')
  BY DEF Component, CompOf
<1>7. CASE Steady(p, c)
  <2>1. ever' = ever /\ \A o \in Procs : Section(o)' => Section(o) /\ Subject(o)' = Subject(o)
    BY <1>4, <1>5, <1>7 DEF Steady
  <2>2. Component(Subject(q)) \subseteq torn
    BY <2>1 DEF SerialInv
  <2> QED
    BY <1>1, <1>6, <2>1, <2>2 DEF Component, CompOf
<1>8. ASSUME NEW y, Enters(p, c, y) PROVE Component(Subject(q))' \subseteq torn'
  <2>0. \A e \in ever' : e \subseteq Artifacts
    BY <1>0 DEF GroupsTypeOK
  <2>1. y \in Artifacts /\ SubjectOf(c) \in Artifacts /\ Connected(ever', y, SubjectOf(c))
    BY <1>8 DEF Enters
  <2>2. \A o \in Procs : o # p /\ Section(o) => Subject(o) \in Artifacts
    BY <1>0, SubjectIn
  <2>3. CASE q = p
    <3>1. r # p /\ Section(r) /\ Subject(r)' = Subject(r) /\ Subject(r) \in Artifacts
      BY <1>4, <2>2, <2>3
    <3>2. Connected(ever', y, Subject(r))
      BY <1>5, <2>1, <2>3, <3>1, ConnectedOn
    <3>3. Connected(ever', Subject(r), y) /\ CompOf(ever', y) = CompOf(ever', SubjectOf(c))
      BY <2>0, <2>1, <3>1, <3>2, CompSame
    <3> QED
      BY <1>0, <1>5, <1>6, <1>8, <2>3, <3>1, <3>3, EnterOther
  <2>4. CASE q # p
    <3>1. Section(q) /\ Subject(q)' = Subject(q) /\ Subject(q) \in Artifacts
      BY <1>4, <2>2, <2>4
    <3>2. CASE CompOf(ever', Subject(q)) \subseteq torn'
      BY <1>6, <3>1, <3>2
    <3>3. CASE ~Connected(ever', Subject(q), y) /\ CompOf(ever', Subject(q)) = CompOf(ever, Subject(q))
      <4>1. r # p
        <5> SUFFICES ASSUME r = p PROVE FALSE
          OBVIOUS
        <5>1. Connected(ever', Subject(q), SubjectOf(c)) /\ Connected(ever', SubjectOf(c), y)
          BY <1>5, <2>0, <2>1, <3>1, CompSame
        <5> QED
          BY <2>1, <3>1, <3>3, <5>1, ConnectedOn
      <4>2. Section(r) /\ Subject(r)' = Subject(r) /\ Subject(r) \in Artifacts
        BY <1>4, <2>2, <4>1
      <4>3. Connected(ever, Subject(q), Subject(r))
        BY <3>1, <3>3, <4>2 DEF CompOf
      <4>4. Component(Subject(q)) \subseteq torn
        BY <3>1, <4>2, <4>3 DEF SerialInv
      <4> QED
        BY <1>1, <1>6, <3>1, <3>3, <4>4 DEF Component, CompOf
    <3> QED
      BY <1>0, <1>8, <2>4, <3>1, <3>2, <3>3, EnterOther
  <2> QED
    BY <2>3, <2>4
<1> QED
  BY <1>2, <1>7, <1>8

\* What a call that is alone in its component knows survives the steps of others.
LEMMA KnowsElsewhere ==
    ASSUME TablesInv, TablesInv', SerialInv, KnowsInv, NEW p \in Procs, Happens(p),
           NEW q \in Procs, q # p, Section(q)', ~(Component(Subject(q))' \subseteq torn')
    PROVE  /\ proc'[q] = proc[q] /\ Section(q)
           /\ Knows(proc[q], member', groups', edges')
<1>0. GroupsTypeOK /\ GroupsTypeOK' /\ CallsInv /\ EverInv /\ EverInv' /\ FamilyInv
  BY DEF TablesInv
<1>1. torn \subseteq torn'
  BY StepShape
<1>2. PICK c : Becomes(p, c) /\ Sound(c) /\ (Steady(p, c) \/ \E y : Enters(p, c, y))
  BY StepShape
<1>3. proc'[q] = proc[q] /\ Section(q) /\ Subject(q)' = Subject(q)
  BY <1>0, <1>2, BecomesSound, Names, NamesAfter
<1>4. Component(Subject(q)) = CompOf(ever, Subject(q)) /\ Component(Subject(q))' = CompOf(ever', Subject(q))
  BY <1>3 DEF Component, CompOf
<1>5. Subject(q) \in Artifacts
  BY <1>0, <1>3, SubjectIn
<1>6. /\ ~(Component(Subject(q)) \subseteq torn)
      /\ \A e \in edges' : e \in edges \/ e[2] \notin Strong \/ Subject(q) \notin e[1]
  <2>1. CASE Steady(p, c)
    BY <1>1, <1>4, <2>1 DEF Steady
  <2>2. ASSUME NEW y, Enters(p, c, y)
        PROVE  /\ ~(Component(Subject(q)) \subseteq torn)
               /\ \A e \in edges' : e \in edges \/ e[2] \notin Strong \/ Subject(q) \notin e[1]
    <3>1. ~Connected(ever', Subject(q), y) /\ CompOf(ever', Subject(q)) = CompOf(ever, Subject(q))
      BY <1>0, <1>3, <1>4, <2>2, EnterOther
    <3>2. ASSUME NEW e \in edges', e \notin edges, e[2] \in Strong, Subject(q) \in e[1] PROVE FALSE
      <4>1. y \in e[1]
        BY <2>2, <3>2 DEF Enters
      <4>2. e[1] \in ever'
        BY <1>0, <3>2 DEF EverInv
      <4>3. PICK f \in ever' : f = e[1]
        BY <4>2
      <4> QED
        BY <3>1, <3>2, <4>1, <4>3, ConnectedPair
    <3> QED
      BY <1>1, <1>4, <3>1, <3>2
  <2> QED
    BY <1>2, <2>1, <2>2
<1>7. Knows(proc[q], member, groups, edges)
  BY <1>3, <1>6 DEF KnowsInv
<1>8. ASSUME Section(p) PROVE ~Connected(ever, Subject(p), Subject(q))
  <2> SUFFICES ASSUME Connected(ever, Subject(p), Subject(q)) PROVE FALSE
    OBVIOUS
  <2>1. Subject(p) \in Artifacts
    BY <1>0, <1>8, SubjectIn
  <2>2. Component(Subject(p)) = Component(Subject(q))
    BY <1>0, <1>5, <2>1, ComponentSame
  <2> QED
    BY <1>3, <1>6, <1>8, <2>2 DEF SerialInv
<1>9. Footprint(p)
  BY StepFootprint
<1>10. \A e \in ever : e \subseteq Artifacts
  BY <1>0 DEF GroupsTypeOK
<1>11. ASSUME NEW x \in Artifacts, Connected(ever, Subject(q), x) PROVE member'[x] = member[x]
  <2> SUFFICES ASSUME member'[x] # member[x] PROVE FALSE
    OBVIOUS
  <2>1. Section(p) /\ Connected(ever, Subject(p), x) /\ Subject(p) \in Artifacts
    BY <1>0, <1>9, SubjectIn DEF Footprint
  <2>2. Connected(ever, x, Subject(q))
    BY <1>5, <1>10, <1>11, ConnectedBack
  <2> QED
    BY <1>5, <1>8, <2>1, <2>2, ConnectedOn
<1>12. ASSUME NEW a, NEW g \in Nat, HoldsOf(proc[q], a, g), Section(p), Touches(p, g) PROVE FALSE
  <2>1. a \in Artifacts /\ Connected(ever, Subject(q), a)
    BY <1>0, <1>12, HoldsNear
  <2>2. PICK b \in Artifacts : InGroup(b, g) /\ Connected(ever, Subject(p), b)
    BY <1>12 DEF Touches
  <2>3. InGroup(a, g)
    BY <1>12 DEF InGroup
  <2>4. Connected(ever, b, a)
    BY <1>0, <2>1, <2>2, <2>3 DEF FamilyInv
  <2>5. Subject(p) \in Artifacts
    BY <1>0, <1>12, SubjectIn
  <2>6. Connected(ever, Subject(p), a) /\ Connected(ever, a, Subject(q))
    BY <1>5, <1>10, <2>1, <2>2, <2>4, <2>5, ConnectedOn, ConnectedBack
  <2> QED
    BY <1>5, <1>8, <1>12, <2>1, <2>5, <2>6, ConnectedOn
<1>13. ASSUME NEW a, NEW g \in Nat, HoldsOf(proc[q], a, g)
       PROVE  /\ \A x \in Artifacts : member'[x] = g <=> member[x] = g
              /\ g \in groups => g \in groups'
  <2>1. None \notin Nat
    BY VariantAssumption
  <2>2. ASSUME NEW x \in Artifacts, member'[x] # member[x], member'[x] = g PROVE FALSE
    BY <1>9, <1>12, <1>13, <2>1, <2>2 DEF Footprint
  <2>3. ASSUME NEW x \in Artifacts, member'[x] # member[x], member[x] = g PROVE FALSE
    <3>1. Section(p) /\ Touches(p, g)
      BY <1>9, <2>3 DEF Footprint, Touches, InGroup
    <3> QED
      BY <1>12, <1>13, <3>1
  <2>4. ASSUME g \in groups, g \notin groups' PROVE FALSE
    BY <1>9, <1>12, <1>13, <2>4 DEF Footprint
  <2> QED
    BY <2>2, <2>3, <2>4
<1>14. ASSUME proc[q].pc \in UnionPcs PROVE UnionKnows(proc[q], member', groups')
  <2> DEFINE u == proc[q]
             s == SrcOf(u)
             d == DstOf(u)
  <2>1. /\ s \in Artifacts /\ d \in Artifacts /\ u.pair = {s, d}
        /\ u.src \in Nat \cup {None} /\ u.dst \in Nat \cup {None}
    BY <1>0, <1>14, UnionFacts
  <2>2. member'[s] = member[s] /\ member'[d] = member[d]
    BY <1>0, <1>3, <1>11, <1>14, <2>1, SubjectIn
  <2>3. UnionKnows(u, member, groups)
    BY <1>7, <1>14 DEF Knows
  <2>4. u.pc = "add_src" /\ u.src # None => HoldsOf(u, s, u.src)
    BY DEF HoldsOf
  <2>5. ASSUME u.pc = "add_src", u.src # None, Empty(member, u.src), u.src \in groups
        PROVE  Empty(member', u.src) /\ u.src \in groups'
    BY <1>13, <2>1, <2>4, <2>5 DEF Empty
  <2>6. ASSUME u.pc = "drop_group", Empty(member, DropOf(u)) PROVE Empty(member', DropOf(u))
    <3>1. HoldsOf(u, s, u.src) /\ HoldsOf(u, d, u.dst)
      BY <2>6 DEF HoldsOf
    <3>2. PICK b : HoldsOf(u, b, DropOf(u))
      BY <3>1 DEF DropOf
    <3>3. DropOf(u) \in Nat
      BY <2>1, <2>6 DEF TablesInv, HeldInv, DropOf
    <3> QED
      BY <1>13, <2>6, <3>2, <3>3 DEF Empty
  <2> QED
    BY <2>2, <2>3, <2>5, <2>6 DEF UnionKnows
<1>15. ASSUME proc[q].pc \in CleanPcs PROVE CleanKnows(proc[q], member', edges')
  <2> DEFINE u == proc[q]
  <2>1. u \in CleanRec /\ Subject(q) = u.art /\ u.art \in Artifacts /\ u.group \in Nat \cup {None}
    BY <1>0, <1>3, <1>15, SubjectIn DEF CleanRec
  <2>2. member'[u.art] = member[u.art]
    BY <1>11, <2>1, ConnectedSelf
  <2>3. CleanKnows(u, member, edges)
    BY <1>7, <1>15 DEF Knows
  <2>4. NoStrongEdge(u.art, edges) => NoStrongEdge(u.art, edges')
    BY <1>6, <2>1 DEF NoStrongEdge
  <2>5. u.pc \in {"dissolve", "clean_group"} => HoldsOf(u, u.art, u.group)
    BY DEF HoldsOf, CleanPcs
  <2>6. ASSUME u.pc \in {"dissolve", "clean_group"}, u.group # None
        PROVE  \A x \in Artifacts : member'[x] = u.group <=> member[x] = u.group
    BY <1>13, <2>1, <2>5, <2>6
  <2> QED
    BY <2>2, <2>3, <2>4, <2>6 DEF CleanKnows, Empty
<1> QED
  BY <1>3, <1>14, <1>15 DEF Knows

\* What it knows after a step of its own.
LEMMA KnowsOwn ==
    ASSUME TablesInv, NEW p \in Procs, Happens(p), SectionOf(proc'[p]),
           Section(p) => Knows(proc[p], member, groups, edges)
    PROVE  Knows(proc'[p], member', groups', edges')
<1>0. GroupsTypeOK /\ CallsInv /\ HeldInv /\ UsedInv
  BY DEF TablesInv
<1>q. ASSUME NEW c, Becomes(p, c), Sound(c) PROVE proc'[p] = c /\ SectionOf(c) /\ c.pc \notin Quiet
  <2>1. proc'[p] = c
    BY <1>0, <1>q, BecomesSound
  <2> QED
    BY <2>1 DEF SectionOf, Quiet, UnionPcs, CleanPcs
<1>r. ASSUME NEW c, c.pc \in {"read_src", "read_group"} PROVE Knows(c, member', groups', edges')
  BY <1>r DEF Knows, UnionKnows, CleanKnows, UnionPcs, CleanPcs
<1>1. CASE QuietStep(p)
  <2>1. PICK c : Becomes(p, c) /\ Sound(c) /\ c.pc \in Quiet
    BY <1>0, <1>1, QuietSteps DEF QuietStep
  <2> QED
    BY <1>q, <2>1
<1>2. ASSUME NEW y, NEW type, NEW c, Inserted(p, y, type, c), InsertedQuiet(p, y, type, c) PROVE FALSE
  BY <1>q, <1>2 DEF Inserted, InsertedQuiet
<1>3. ASSUME NEW y, NEW type, NEW c, Inserted(p, y, type, c), InsertedUnion(p, y, type, c)
      PROVE  Knows(proc'[p], member', groups', edges')
  <2>1. Becomes(p, c) /\ Sound(c) /\ c.pc = "read_src"
    BY <1>3 DEF Inserted, InsertedUnion
  <2>2. Knows(c, member', groups', edges')
    BY <1>r, <2>1
  <2> QED
    BY <1>q, <2>1, <2>2
<1>4. ASSUME NEW c, UnionStep(p, c) PROVE Knows(proc'[p], member', groups', edges')
  <2> DEFINE u == proc[p]
             s == SrcOf(u)
             d == DstOf(u)
  <2>1. u.pc \in UnionPcs /\ Becomes(p, c) /\ Sound(c)
    BY <1>0, <1>4, UnionStepFacts
  <2>2. /\ s \in Artifacts /\ d \in Artifacts /\ s # d
        /\ u.src \in Nat \cup {None} /\ u.dst \in Nat \cup {None}
    BY <1>0, <2>1, UnionFacts
  <2>3. UnionKnows(u, member, groups)
    BY <2>1 DEF Knows, Section
  <2>4. ~UnionEnd(p, c) /\ proc'[p] = c
    BY <1>q, <2>1 DEF UnionEnd
  <2>5. UnionMove(p, c)
    BY <1>0, <1>4, <2>4, UnionStepFacts
  <2>6. SrcOf(c) = s /\ DstOf(c) = d /\ c.pc \notin CleanPcs
    BY <2>5 DEF UnionMove, Same, SrcOf, DstOf, UnionPcs, CleanPcs
  <2>m. member \in [Artifacts -> Nat \cup {None}]
    BY <1>0 DEF GroupsTypeOK
  <2>7. UnionKnows(c, member', groups')
    <3>1. CASE DidReadSrc(p, c)
      BY <2>6, <3>1 DEF DidReadSrc, UnionKnows
    <3>2. CASE DidReadDst(p, c)
      BY <2>3, <2>4, <2>6, <3>2 DEF DidReadDst, UnionKnows
    <3>3. CASE DidMerge(p, c)
      <4>1. c.pc = "drop_group" /\ KeepOf(c) = KeepOf(u) /\ DropOf(c) = DropOf(u)
        BY <3>3 DEF DidMerge, KeepOf, DropOf
      <4>2. member[s] = u.src /\ member[d] = u.dst
        BY <2>3, <3>3 DEF DidMerge, UnionKnows
      <4>3. u.src \in Nat /\ u.dst \in Nat /\ u.src # u.dst
        BY <1>0, <2>2, <3>3 DEF DidMerge, HeldInv
      <4>4. {KeepOf(u), DropOf(u)} = {u.src, u.dst} /\ KeepOf(u) # DropOf(u)
        BY <4>3 DEF KeepOf, DropOf
      <4>5. \A x \in Artifacts : member'[x] = IF member[x] = DropOf(u) THEN KeepOf(u) ELSE member[x]
        BY <3>3 DEF DidMerge
      <4>6. member'[s] = KeepOf(u) /\ member'[d] = KeepOf(u)
        BY <2>2, <4>2, <4>4, <4>5
      <4>7. Empty(member', DropOf(u))
        BY <4>4, <4>5 DEF Empty
      <4> QED
        BY <2>6, <4>1, <4>6, <4>7 DEF UnionKnows
    <3>4. CASE DidDrop(p, c)
      BY <2>4, <3>4 DEF DidDrop
    <3>5. ASSUME NEW g, DidNew(p, g, c) PROVE UnionKnows(c, member', groups')
      <4>1. g \in Nat \ used /\ g \in groups' /\ UNCHANGED member /\ c.pc = "add_src" /\ c.src = g /\ c.dst = g
        BY <3>5 DEF DidNew
      <4>2. Empty(member', g)
        BY <1>0, <4>1 DEF Empty, UsedInv, InGroup
      <4>3. member[s] = None /\ member[d] = None
        BY <2>3, <3>5 DEF DidNew, UnionKnows
      <4>4. g # None
        BY <4>1, VariantAssumption
      <4> QED
        BY <2>6, <4>1, <4>2, <4>3, <4>4 DEF UnionKnows
    <3>6. CASE DidAddSrc(p, c)
      <4>1. /\ u.src # None /\ c.pc = "add_dst" /\ c.src = u.src /\ Added(s, u.dst)
        BY <2>4, <3>6 DEF DidAddSrc
      <4>2. member[s] = None /\ u.src = u.dst /\ member[d] = None
        BY <2>3, <3>6, <4>1 DEF DidAddSrc, UnionKnows
      <4>3. member' = [member EXCEPT ![s] = u.src]
        BY <4>1, <4>2 DEF Added
      <4>4. member'[s] = u.src /\ member'[d] = None
        BY <2>2, <2>m, <4>2, <4>3
      <4> QED
        BY <2>6, <4>1, <4>4 DEF UnionKnows
    <3>7. CASE DidAddDst(p, c)
      BY <2>4, <3>7 DEF DidAddDst
    <3> QED
      BY <1>4, <3>1, <3>2, <3>3, <3>4, <3>5, <3>6, <3>7 DEF UnionStep
  <2> QED
    BY <2>4, <2>6, <2>7 DEF Knows
<1>5. ASSUME NEW c, Cleaning(p, c) PROVE Knows(proc'[p], member', groups', edges')
  <2> DEFINE u == proc[p]
  <2>1. Becomes(p, c) /\ Sound(c) /\ (c = Idle \/ c \in CleanRec)
    BY <1>0, <1>5, CleaningFacts
  <2>2. proc'[p] = c /\ c # Idle /\ c \in CleanRec
    <3>1. Idle.pc \in Quiet
      BY DEF Idle, Quiet
    <3> QED
      BY <1>q, <2>1, <3>1
  <2>3. c.pc \in CleanPcs /\ c.pc \notin UnionPcs
    BY <2>2 DEF CleanRec, CleanPcs, UnionPcs
  <2>4. ASSUME u \in CleanRec PROVE CleanKnows(u, member, edges) /\ u.art \in Artifacts /\ u.step \in 1..6
    <3>1. u.pc \in CleanPcs
      BY <2>4 DEF CleanRec
    <3> QED
      BY <2>4, <3>1 DEF Knows, Section, CleanRec
  <2>m. member \in [Artifacts -> Nat \cup {None}]
    BY <1>0 DEF GroupsTypeOK
  <2>5. CleanKnows(c, member', edges')
    <3>1. CASE \E x \in Artifacts : DidClean(p, x, c)
      BY <3>1 DEF DidClean, CleanKnows
    <3>2. CASE DidReadGroup(p, c)
      BY <3>2 DEF DidReadGroup, CleanKnows
    <3>3. CASE DidDelete(p, c)
      <4>1. CleanKnows(u, member, edges) /\ u.art \in Artifacts /\ u.step \in 1..6 /\ u.pc = "delete"
        BY <2>4, <3>3 DEF DidDelete
      <4>2. NoStrongEdge(u.art, edges) \/ u.step = 4 => NoStrongEdge(u.art, edges')
        BY <3>3 DEF DidDelete, NoStrongEdge
      <4>3. CASE u.step < 6
        <5>1. c.pc = "delete" /\ c.art = u.art /\ c.group = u.group /\ c.step = u.step + 1 /\ UNCHANGED member
          BY <2>2, <3>3, <4>3 DEF DidDelete, CleanMove
        <5>2. c.step > 4 => u.step > 4 \/ u.step = 4
          BY <4>1, <5>1
        <5>3. member[u.art] = u.group /\ (u.step > 4 => NoStrongEdge(u.art, edges))
          BY <4>1 DEF CleanKnows
        <5> QED
          BY <4>2, <5>1, <5>2, <5>3 DEF CleanKnows
      <4>4. CASE u.step = 6
        <5>1. c.pc = "repair" /\ c.art = u.art /\ c.group = u.group /\ u.group # None
          BY <2>2, <3>3, <4>4 DEF DidDelete, CleanMove
        <5>2. NoStrongEdge(u.art, edges')
          BY <4>1, <4>2, <4>4 DEF CleanKnows
        <5>3. member' = [member EXCEPT ![u.art] = None]
          BY <3>3, <4>4 DEF DidDelete
        <5> QED
          BY <2>m, <4>1, <5>1, <5>2, <5>3 DEF CleanKnows
      <4> QED
        BY <4>1, <4>3, <4>4
    <3>4. CASE DidRepair(p, c)
      <4>1. CleanKnows(u, member, edges) /\ c.pc = "dissolve" /\ c.art = u.art /\ c.group = u.group /\ u.pc = "repair"
            /\ Cardinality(Members(u.group)) <= 1 /\ UNCHANGED <<member, edges>>
        BY <2>2, <2>4, <3>4 DEF DidRepair, CleanMove, Kept
      <4>2. \A x, y \in Members(u.group) : x = y
        <5>1. IsFiniteSet(Artifacts)
          BY VariantAssumption
        <5>2. IsFiniteSet(Members(u.group))
          BY <5>1, FS_Subset DEF Members
        <5> SUFFICES ASSUME NEW x \in Members(u.group), NEW y \in Members(u.group), x # y PROVE FALSE
          OBVIOUS
        <5>3. {x, y} \subseteq Members(u.group) /\ Cardinality({x, y}) = 2
          <6>1. Cardinality({x}) = 1 /\ IsFiniteSet({x})
            BY FS_Singleton
          <6>2. Cardinality({x} \cup {y}) = Cardinality({x}) + 1
            BY <6>1, FS_AddElement
          <6>3. {x} \cup {y} = {x, y}
            OBVIOUS
          <6> QED
            BY <6>1, <6>2, <6>3
        <5>4. Cardinality({x, y}) <= Cardinality(Members(u.group)) /\ Cardinality(Members(u.group)) \in Nat
          BY <5>2, <5>3, FS_Subset, FS_CardinalityType
        <5> QED
          BY <4>1, <5>3, <5>4
      <4>3. \A x, y \in Artifacts : member[x] = u.group /\ member[y] = u.group => x = y
        BY <4>2 DEF Members
      <4> QED
        BY <4>1, <4>3 DEF CleanKnows
    <3>5. CASE DidDissolve(p, c)
      <4>1. CleanKnows(u, member, edges) /\ c.pc = "clean_group" /\ c.art = u.art /\ c.group = u.group /\ u.pc = "dissolve"
            /\ UNCHANGED edges /\ u.art \in Artifacts
        BY <2>4, <3>5 DEF DidDissolve, CleanMove, Kept
      <4>2. member' = [x \in Artifacts |-> IF member[x] = u.group THEN None ELSE member[x]]
        BY <3>5 DEF DidDissolve
      <4>3. u.group # None /\ NoStrongEdge(u.art, edges) /\ member[u.art] = None
        BY <4>1 DEF CleanKnows
      <4> QED
        BY <4>1, <4>2, <4>3 DEF CleanKnows, Empty
    <3> QED
      BY <1>5, <2>2, <3>1, <3>2, <3>3, <3>4, <3>5 DEF Cleaning
  <2> QED
    BY <2>2, <2>3, <2>5 DEF Knows
<1>6. CASE Dropped(p)
  BY <1>q, <1>6, IdleSound DEF Dropped, Idle, Quiet
<1> QED
  BY <1>1, <1>2, <1>3, <1>4, <1>5, <1>6 DEF Happens

LEMMA KnowsKept ==
    ASSUME TablesInv, TablesInv', SerialInv, KnowsInv, NEW p \in Procs, Happens(p)
    PROVE  KnowsInv'
<1>0. GroupsTypeOK /\ CallsInv /\ EverInv /\ GroupsTypeOK' /\ CallsInv' /\ EverInv'
  BY DEF TablesInv
<1> SUFFICES ASSUME NEW q \in Procs, Section(q)', ~(Component(Subject(q))' \subseteq torn')
             PROVE  Knows(proc'[q], member', groups', edges')
  BY DEF KnowsInv, Knows, UnionKnows, CleanKnows, SrcOf, DstOf, KeepOf, DropOf, Empty, NoStrongEdge
<1>1. CASE q # p
  BY <1>1, KnowsElsewhere
<1>2. CASE q = p
  <2>1. torn \subseteq torn'
    BY StepShape
  <2>2. PICK c : Becomes(p, c) /\ Sound(c) /\ (Steady(p, c) \/ \E y : Enters(p, c, y))
    BY StepShape
  <2>3. proc'[p] = c
    BY <1>0, <2>2, BecomesSound
  <2>4. SectionOf(c) /\ Subject(p)' = SubjectOf(c)
    BY <1>2, <2>3, NamesAfter
  <2>5. Section(p) => Knows(proc[p], member, groups, edges)
    <3>1. CASE Steady(p, c)
      <4>1. Component(Subject(p))' = Component(Subject(p)) /\ Section(p)
        BY <2>4, <3>1 DEF Steady, Component
      <4> QED
        BY <1>2, <2>1, <4>1 DEF KnowsInv
    <3>2. CASE \E y : Enters(p, c, y)
      BY <3>2 DEF Enters
    <3> QED
      BY <2>2, <3>1, <3>2
  <2> QED
    BY <1>2, <2>3, <2>4, <2>5, KnowsOwn
<1> QED
  BY <1>1, <1>2

(***************************************************************************)
(* Strong edges and hollow groups                                          *)
(***************************************************************************)
\* A call in whose component something is not torn knows its own.
LEMMA KnowsAt ==
    ASSUME TablesInv, KnowsInv, NEW p \in Procs, Section(p), NEW x \in Artifacts, x \notin torn,
           Connected(ever, Subject(p), x)
    PROVE  Knows(proc[p], member, groups, edges)
<1>1. x \in Component(Subject(p))
  BY DEF Component
<1> QED
  BY <1>1 DEF KnowsInv

Linked(m, e) == \A x, y \in e : m[x] # None /\ m[x] = m[y]

LEMMA LinkedKept ==
    ASSUME TablesInv, TablesInv', KnowsInv, LinkedInv, NEW p \in Procs, Happens(p)
    PROVE  LinkedInv'
<1>0. GroupsTypeOK /\ CallsInv /\ EverInv /\ HeldInv /\ FamilyInv /\ GroupsTypeOK' /\ EverInv'
  BY DEF TablesInv
<1>m. member \in [Artifacts -> Nat \cup {None}] /\ None \notin Nat
  BY <1>0, VariantAssumption DEF GroupsTypeOK
<1>1. torn \subseteq torn'
  BY StepShape
<1> SUFFICES ASSUME NEW e \in edges', e[2] \in Strong, e[1] \cap torn' = {}
             PROVE  Linked(member', e[1]) \/ \E q \in Procs : proc'[q].pc \in UnionPcs /\ proc'[q].pair = e[1]
  BY Zenon DEF LinkedInv, Linked
<1> DEFINE United == \E q \in Procs : proc'[q].pc \in UnionPcs /\ proc'[q].pair = e[1]
<1>2. PICK c : Becomes(p, c) /\ Sound(c)
  BY <1>0, CallChanges
<1>3. proc'[p] = c /\ \A q \in Procs : q # p => proc'[q] = proc[q]
  BY <1>0, <1>2, BecomesSound
<1>e. e[1] \subseteq Artifacts /\ e[1] \cap torn = {} /\ e[1] \in ever'
  BY <1>0, <1>1 DEF GroupsTypeOK, EverInv
\* It is enough to look at the edges that were there, the linked ones and those p unites.
<1>4. ASSUME e \in edges, Linked(member, e[1]) => Linked(member', e[1]) \/ United,
             proc[p].pc \in UnionPcs /\ proc[p].pair = e[1] => Linked(member', e[1]) \/ United
      PROVE  Linked(member', e[1]) \/ United
  <2>1. Linked(member, e[1]) \/ \E q \in Procs : proc[q].pc \in UnionPcs /\ proc[q].pair = e[1]
    BY <1>4, <1>e, Zenon DEF LinkedInv, Linked
  <2>2. ASSUME NEW q \in Procs, q # p, proc[q].pc \in UnionPcs /\ proc[q].pair = e[1] PROVE United
    BY <1>3, <2>2
  <2> QED
    BY <1>4, <2>1, <2>2
<1>5. CASE QuietStep(p)
  <2>1. proc[p].pc \in Quiet /\ UNCHANGED <<edges, member>>
    BY <1>0, <1>5, QuietSteps DEF QuietStep
  <2> QED
    BY <1>4, <2>1 DEF Linked, Quiet, UnionPcs
<1>6. ASSUME NEW y, NEW type, NEW d, Inserted(p, y, type, d), InsertedQuiet(p, y, type, d)
      PROVE  Linked(member', e[1]) \/ United
  <2>1. proc[p].pc = "link" /\ UNCHANGED member /\ e \in edges
    BY <1>6 DEF Inserted, InsertedQuiet
  <2> QED
    BY <1>4, <2>1 DEF Linked, UnionPcs
<1>7. ASSUME NEW y, NEW type, NEW d, Inserted(p, y, type, d), InsertedUnion(p, y, type, d)
      PROVE  Linked(member', e[1]) \/ United
  <2>1. proc[p].pc = "link" /\ UNCHANGED member
    BY <1>7 DEF Inserted
  <2>2. CASE e \in edges
    BY <1>4, <2>1, <2>2 DEF Linked, UnionPcs
  <2>3. CASE e \notin edges
    <3>1. e = <<{proc[p].art, y}, type>>
      BY <1>7, <2>3 DEF InsertedUnion
    <3>2. proc'[p] = d /\ d.pc = "read_src" /\ d.pair = e[1]
      BY <1>0, <1>7, <3>1, BecomesSound DEF Inserted, InsertedUnion
    <3> QED
      BY <3>2 DEF UnionPcs
  <2> QED
    BY <2>2, <2>3
<1>8. ASSUME NEW d, UnionStep(p, d) PROVE Linked(member', e[1]) \/ United
  <2> DEFINE u == proc[p]
             s == SrcOf(u)
             t == DstOf(u)
  <2>1. u.pc \in UnionPcs /\ Becomes(p, d) /\ Sound(d) /\ UNCHANGED edges
    BY <1>0, <1>8, UnionStepFacts DEF Kept
  <2>2. /\ s \in Artifacts /\ t \in Artifacts /\ s # t /\ u.pair = {s, t}
        /\ u.src \in Nat \cup {None} /\ u.dst \in Nat \cup {None}
    BY <1>0, <2>1, UnionFacts
  <2>3. proc'[p] = d
    BY <1>0, <2>1, BecomesSound
  <2>4. Linked(member, e[1]) => Linked(member', e[1])
    <3> SUFFICES ASSUME Linked(member, e[1]) PROVE Linked(member', e[1])
      OBVIOUS
    <3>1. ASSUME NEW x, NEW g, Added(x, g) PROVE Linked(member', e[1])
      BY <1>e, <1>m, <3>1 DEF Added, Linked
    <3>2. CASE DidMerge(p, d)
      <4>1. KeepOf(u) # None
        BY <1>0, <3>2 DEF DidMerge, HeldInv, KeepOf
      <4>2. \A x \in Artifacts : member'[x] = IF member[x] = DropOf(u) THEN KeepOf(u) ELSE member[x]
        BY <3>2 DEF DidMerge
      <4> QED
        BY <1>e, <4>1, <4>2 DEF Linked
    <3>3. CASE UNCHANGED member
      BY <3>3 DEF Linked
    <3> QED
      BY <1>8, <3>1, <3>2, <3>3 DEF UnionStep, DidReadSrc, DidReadDst, DidDrop, DidNew, DidAddSrc, DidAddDst
  <2>5. ASSUME u.pair = e[1] PROVE Linked(member', e[1]) \/ United
    <3>1. Section(p) /\ Subject(p) \in e[1] /\ Subject(p) \in Artifacts
      BY <1>0, <2>1, <2>5, SubjectIn DEF Section
    <3>2. UnionKnows(u, member, groups)
      BY <1>e, <2>1, <3>1, KnowsAt, ConnectedSelf DEF Knows
    <3>3. CASE UnionMove(p, d)
      BY <2>3, <2>5, <3>3 DEF UnionMove, Same
    <3>4. CASE ~UnionMove(p, d)
      <4>1. member'[s] # None /\ member'[s] = member'[t]
        <5>1. CASE DidReadDst(p, d)
          BY <3>2, <3>4, <5>1 DEF DidReadDst, UnionKnows
        <5>2. CASE DidDrop(p, d)
          BY <1>0, <3>2, <5>2 DEF DidDrop, UnionKnows, HeldInv, KeepOf
        <5>3. CASE DidAddSrc(p, d)
          <6>1. u.src = None /\ Added(s, u.dst)
            BY <3>4, <5>3 DEF DidAddSrc
          <6>2. member[s] = None /\ u.dst # None /\ member[t] = u.dst
            BY <3>2, <5>3, <6>1 DEF DidAddSrc, UnionKnows
          <6>3. member' = [member EXCEPT ![s] = u.dst]
            BY <6>1, <6>2 DEF Added
          <6> QED
            BY <1>m, <2>2, <6>2, <6>3
        <5>4. CASE DidAddDst(p, d)
          <6>1. Added(t, u.src)
            BY <5>4 DEF DidAddDst
          <6>2. member[t] = None /\ u.src # None /\ member[s] = u.src
            BY <3>2, <5>4 DEF DidAddDst, UnionKnows
          <6>3. member' = [member EXCEPT ![t] = u.src]
            BY <6>1, <6>2 DEF Added
          <6> QED
            BY <1>m, <2>2, <6>2, <6>3
        <5> QED
          BY <1>8, <3>4, <5>1, <5>2, <5>3, <5>4 DEF UnionStep, DidReadSrc, DidMerge, DidNew
      <4> QED
        BY <2>2, <2>5, <4>1 DEF Linked
    <3> QED
      BY <3>3, <3>4
  <2> QED
    BY <1>4, <2>1, <2>4, <2>5
<1>9. ASSUME NEW d, Cleaning(p, d) PROVE Linked(member', e[1]) \/ United
  <2> DEFINE u == proc[p]
  <2>1. e \in edges /\ (u = Idle \/ (u.pc \in CleanPcs /\ u \in CleanRec))
    BY <1>0, <1>9, CleaningFacts
  <2>2. u.pc \notin UnionPcs
    BY <2>1 DEF Idle, CleanPcs, UnionPcs
  <2>3. ASSUME u \in CleanRec PROVE Section(p) /\ Subject(p) = u.art /\ u.art \in Artifacts
    <3>1. u.pc \in CleanPcs
      BY <2>3 DEF CleanRec
    <3> QED
      BY <1>0, <3>1, SubjectIn DEF Section
  <2>4. Linked(member, e[1]) => Linked(member', e[1])
    <3> SUFFICES ASSUME Linked(member, e[1]) PROVE Linked(member', e[1])
      OBVIOUS
    <3>1. CASE UNCHANGED member
      BY <3>1 DEF Linked
    <3>2. CASE DidDelete(p, d) /\ u.step = 6
      <4>1. u \in CleanRec /\ u.pc = "delete"
        BY <3>2 DEF DidDelete
      <4>2. u.art \notin e[1]
        <5> SUFFICES ASSUME u.art \in e[1] PROVE FALSE
          OBVIOUS
        <5>1. Knows(u, member, groups, edges)
          BY <1>e, <2>3, <4>1, KnowsAt, ConnectedSelf
        <5>2. NoStrongEdge(u.art, edges)
          BY <3>2, <4>1, <5>1 DEF Knows, CleanKnows, CleanPcs
        <5> QED
          BY <2>1, <5>2 DEF NoStrongEdge
      <4>3. member' = [member EXCEPT ![u.art] = None]
        BY <3>2 DEF DidDelete
      <4> QED
        BY <1>e, <1>m, <4>2, <4>3 DEF Linked
    <3>3. CASE DidDissolve(p, d)
      <4>1. u \in CleanRec /\ u.pc = "dissolve"
        BY <3>3 DEF DidDissolve
      <4>2. PICK x \in Artifacts, y \in Artifacts : x # y /\ e[1] = {x, y}
        BY <1>0, <2>1 DEF EverInv
      <4>3. member[x] = member[y] /\ member[x] # None
        BY <4>2 DEF Linked
      <4>4. member[x] # u.group
        <5> SUFFICES ASSUME member[x] = u.group PROVE FALSE
          OBVIOUS
        <5>1. HoldsOf(u, u.art, u.group)
          BY <4>1 DEF HoldsOf, CleanPcs
        <5>2. InGroup(u.art, u.group) /\ InGroup(x, u.group) /\ u.group \in Nat
          BY <1>m, <4>3, <5>1 DEF InGroup
        <5>3. Connected(ever, Subject(p), x)
          BY <1>0, <2>3, <4>1, <5>2 DEF FamilyInv
        <5>4. Knows(u, member, groups, edges)
          BY <1>e, <2>3, <4>1, <4>2, <5>3, KnowsAt
        <5>5. \A z, w \in Artifacts : member[z] = u.group /\ member[w] = u.group => z = w
          BY <4>1, <5>4 DEF Knows, CleanKnows, CleanPcs
        <5> QED
          BY <4>2, <4>3, <5>5
      <4>5. member' = [z \in Artifacts |-> IF member[z] = u.group THEN None ELSE member[z]]
        BY <3>3 DEF DidDissolve
      <4>6. member'[x] = member[x] /\ member'[y] = member[y]
        BY <4>3, <4>4, <4>5
      <4> QED
        BY <4>2, <4>3, <4>6 DEF Linked
    <3> QED
      BY <1>9, <3>1, <3>2, <3>3 DEF Cleaning, DidClean, DidReadGroup, DidDelete, DidRepair, DidCleanGroup
  <2> QED
    BY <1>4, <2>1, <2>2, <2>4
<1>10. CASE Dropped(p)
  <2>1. UNCHANGED <<edges, member>> /\ (Section(p) => Component(Subject(p)) \subseteq torn')
    BY <1>10 DEF Dropped
  <2>2. ASSUME proc[p].pc \in UnionPcs, proc[p].pair = e[1] PROVE FALSE
    <3>1. Section(p) /\ Subject(p) \in e[1] /\ Subject(p) \in Component(Subject(p))
      BY <1>0, <2>2, SubjectIn DEF Section
    <3> QED
      BY <2>1, <3>1
  <2> QED
    BY <1>4, <2>1, <2>2 DEF Linked
<1> QED
  BY <1>5, <1>6, <1>7, <1>8, <1>9, <1>10 DEF Happens

Two(m, g) == \E x, y \in Artifacts : x # y /\ m[x] = g /\ m[y] = g

LEMMA ManyMembers ==
    ASSUME NEW g
    PROVE  Two(member, g) <=> ~(Cardinality(Members(g)) <= 1)
<1>0. IsFiniteSet(Members(g)) /\ Cardinality(Members(g)) \in Nat
  BY VariantAssumption, FS_Subset, FS_CardinalityType DEF Members
<1>1. ASSUME ~Two(member, g) PROVE Cardinality(Members(g)) <= 1
  <2>1. CASE Members(g) = {}
    BY <2>1, FS_EmptySet
  <2>2. ASSUME NEW x \in Members(g) PROVE Cardinality(Members(g)) <= 1
    <3>1. Members(g) = {x}
      BY <1>1, <2>2 DEF Two, Members
    <3> QED
      BY <3>1, FS_Singleton
  <2> QED
    BY <2>1, <2>2
<1>2. ASSUME NEW x \in Artifacts, NEW y \in Artifacts, x # y, member[x] = g, member[y] = g
      PROVE  Cardinality(Members(g)) >= 2
  <2>1. Cardinality({x}) = 1 /\ IsFiniteSet({x})
    BY FS_Singleton
  <2>2. Cardinality({x} \cup {y}) = Cardinality({x}) + 1
    BY <1>2, <2>1, FS_AddElement
  <2>3. ({x} \cup {y}) \subseteq Members(g)
    BY <1>2 DEF Members
  <2>4. Cardinality({x} \cup {y}) <= Cardinality(Members(g))
    BY <1>0, <2>3, FS_Subset
  <2> QED
    BY <1>0, <2>1, <2>2, <2>4
<1> QED
  BY <1>0, <1>1, <1>2 DEF Two

LEMMA HollowKept ==
    ASSUME TablesInv, TablesInv', KnowsInv, HollowInv, NEW p \in Procs, Happens(p)
    PROVE  HollowInv'
<1>0. GroupsTypeOK /\ CallsInv /\ EverInv /\ HeldInv
  BY DEF TablesInv
<1>m. /\ member \in [Artifacts -> Nat \cup {None}] /\ None \notin Nat
      /\ groups \subseteq Nat
  BY <1>0, VariantAssumption DEF GroupsTypeOK
<1> SUFFICES ASSUME torn' = {}, NEW g \in groups'
             PROVE  Two(member', g) \/ \E q \in Procs : OwesOf(proc'[q], g)
  BY DEF HollowInv, Two, OwesOf, DropOf
<1> DEFINE Goal == Two(member', g) \/ \E q \in Procs : OwesOf(proc'[q], g)
<1>1. torn = {}
  BY StepShape
<1>2. ASSUME Section(p) PROVE Knows(proc[p], member, groups, edges)
  <2>1. Subject(p) \in Artifacts
    BY <1>0, <1>2, SubjectIn
  <2> QED
    BY <1>1, <1>2, <2>1, KnowsAt, ConnectedSelf
<1>3. ASSUME NEW c, Becomes(p, c), Sound(c) PROVE proc'[p] = c /\ \A q \in Procs : q # p => proc'[q] = proc[q]
  BY <1>0, <1>3, BecomesSound
<1>4. ASSUME g \in groups, Two(member, g) => Goal, OwesOf(proc[p], g) => Goal PROVE Goal
  <2>1. Two(member, g) \/ \E q \in Procs : OwesOf(proc[q], g)
    BY <1>1, <1>4 DEF HollowInv, Two
  <2>2. ASSUME NEW q \in Procs, q # p, OwesOf(proc[q], g) PROVE Goal
    <3>1. proc'[q] = proc[q]
      BY <1>0, <1>3, CallChanges, <2>2
    <3> QED
      BY <2>2, <3>1
  <2> QED
    BY <1>4, <2>1, <2>2
<1>5. ASSUME proc[p].pc \in Quiet \cup {"read_src", "read_group", "read_dst", "merge", "new_group", "delete"}
      PROVE  ~OwesOf(proc[p], g)
  BY <1>5 DEF OwesOf, Quiet
<1>6. CASE QuietStep(p)
  <2>1. proc[p].pc \in Quiet /\ UNCHANGED <<member, groups>>
    BY <1>0, <1>6, QuietSteps DEF QuietStep
  <2> QED
    BY <1>4, <1>5, <2>1
<1>7. ASSUME NEW y, NEW type, NEW d, Inserted(p, y, type, d) PROVE Goal
  <2>1. proc[p].pc \in Quiet /\ UNCHANGED <<member, groups>>
    BY <1>7 DEF Inserted, Quiet
  <2> QED
    BY <1>4, <1>5, <2>1
<1>8. ASSUME NEW d, UnionStep(p, d) PROVE Goal
  <2> DEFINE u == proc[p]
             s == SrcOf(u)
             t == DstOf(u)
  <2>1. u.pc \in UnionPcs /\ Becomes(p, d) /\ Sound(d) /\ Section(p)
    BY <1>0, <1>8, UnionStepFacts DEF Section
  <2>2. /\ s \in Artifacts /\ t \in Artifacts /\ s # t
        /\ u.src \in Nat \cup {None} /\ u.dst \in Nat \cup {None}
    BY <1>0, <2>1, UnionFacts
  <2>3. proc'[p] = d
    BY <1>3, <2>1
  <2>4. UnionKnows(u, member, groups)
    BY <1>2, <2>1 DEF Knows
  <2>5. CASE DidReadSrc(p, d) \/ DidReadDst(p, d)
    <3>1. UNCHANGED <<member, groups>> /\ u.pc \in {"read_src", "read_dst"}
      BY <2>5 DEF DidReadSrc, DidReadDst
    <3> QED
      BY <1>4, <1>5, <3>1
  <2>6. CASE DidMerge(p, d)
    <3>1. g \in groups /\ u.pc = "merge" /\ d.pc = "drop_group" /\ DropOf(d) = DropOf(u)
      BY <2>6 DEF DidMerge, DropOf
    <3>2. \A x \in Artifacts : member'[x] = IF member[x] = DropOf(u) THEN KeepOf(u) ELSE member[x]
      BY <2>6 DEF DidMerge
    <3>3. CASE g = DropOf(u)
      BY <2>3, <3>1, <3>3 DEF OwesOf
    <3>4. CASE g # DropOf(u)
      <4>1. Two(member, g) => Two(member', g)
        BY <3>2, <3>4 DEF Two
      <4> QED
        BY <1>4, <1>5, <3>1, <4>1
    <3> QED
      BY <3>3, <3>4
  <2>7. CASE DidDrop(p, d)
    <3>1. g \in groups /\ g # DropOf(u) /\ UNCHANGED member /\ u.pc = "drop_group"
      BY <2>7 DEF DidDrop
    <3>2. ~OwesOf(u, g)
      BY <3>1 DEF OwesOf
    <3> QED
      BY <1>4, <3>1, <3>2
  <2>8. ASSUME NEW h, DidNew(p, h, d) PROVE Goal
    <3>1. u.pc = "new_group" /\ d.pc = "add_src" /\ d.src = h /\ UNCHANGED member /\ groups' = groups \cup {h}
      BY <2>8 DEF DidNew
    <3>2. CASE g = h
      BY <2>3, <3>1, <3>2 DEF OwesOf
    <3>3. CASE g \in groups
      BY <1>4, <1>5, <3>1, <3>3
    <3> QED
      BY <3>1, <3>2, <3>3
  <2>9. ASSUME NEW x, NEW h, Added(x, h) PROVE Two(member, g) => g \notin groups \/ Two(member', g)
    BY <1>m, <2>9 DEF Added, Two
  <2>10. CASE DidAddSrc(p, d)
    <3>1. g \in groups /\ g # None /\ u.pc = "add_src" /\ Added(s, u.dst)
      BY <1>m, <2>10 DEF DidAddSrc
    <3>2. OwesOf(u, g) => u.src = g
      BY <3>1 DEF OwesOf
    <3>3. ASSUME u.src = g PROVE Goal
      <4>1. d.pc = "add_dst" /\ d.src = u.src
        BY <2>10, <3>1, <3>3 DEF DidAddSrc
      <4> QED
        BY <2>3, <3>3, <4>1 DEF OwesOf
    <3> QED
      BY <1>4, <2>9, <3>1, <3>2, <3>3
  <2>11. CASE DidAddDst(p, d)
    <3>1. g \in groups /\ u.pc = "add_dst" /\ Added(t, u.src)
      BY <2>11 DEF DidAddDst
    <3>2. OwesOf(u, g) => u.src = g
      BY <3>1 DEF OwesOf
    <3>3. ASSUME u.src = g PROVE Goal
      <4>1. member[t] = None /\ member[s] = g
        BY <2>4, <3>1, <3>3 DEF UnionKnows
      <4>2. member' = [member EXCEPT ![t] = g]
        BY <3>1, <3>3, <4>1 DEF Added
      <4>3. member'[s] = g /\ member'[t] = g
        BY <1>m, <2>2, <4>1, <4>2
      <4> QED
        BY <2>2, <4>3 DEF Two
    <3> QED
      BY <1>4, <2>9, <3>1, <3>2, <3>3
  <2> QED
    BY <1>8, <2>5, <2>6, <2>7, <2>8, <2>10, <2>11 DEF UnionStep
<1>9. ASSUME NEW d, Cleaning(p, d) PROVE Goal
  <2> DEFINE u == proc[p]
  <2>1. Becomes(p, d) /\ Sound(d)
    BY <1>0, <1>9, CleaningFacts
  <2>2. proc'[p] = d
    BY <1>3, <2>1
  <2>3. ASSUME u \in CleanRec PROVE CleanKnows(u, member, edges)
    <3>1. u.pc \in CleanPcs
      BY <2>3 DEF CleanRec
    <3> QED
      BY <1>2, <3>1 DEF Section, Knows
  <2>4. CASE (\E x \in Artifacts : DidClean(p, x, d)) \/ DidReadGroup(p, d)
    <3>1. UNCHANGED <<member, groups>> /\ u.pc \in {"idle", "read_group"}
      BY <2>4 DEF DidClean, DidReadGroup, Idle
    <3> QED
      BY <1>4, <1>5, <3>1 DEF Quiet
  <2>5. CASE DidDelete(p, d)
    <3>1. g \in groups /\ g # None /\ u.pc = "delete" /\ u \in CleanRec
      BY <1>m, <2>5 DEF DidDelete
    <3>2. ~OwesOf(u, g)
      BY <1>5, <3>1
    <3>3. CASE u.step = 6 /\ member[u.art] = g
      <4>1. u.group = g
        BY <2>3, <3>1, <3>3 DEF CleanKnows
      <4>2. d.pc = "repair" /\ d.group = g
        BY <2>5, <3>1, <3>3, <4>1 DEF DidDelete, CleanMove
      <4> QED
        BY <2>2, <4>2 DEF OwesOf
    <3>4. CASE ~(u.step = 6 /\ member[u.art] = g)
      <4>1. Two(member, g) => Two(member', g)
        BY <1>m, <2>5, <3>4 DEF DidDelete, Two
      <4> QED
        BY <1>4, <3>1, <3>2, <4>1
    <3> QED
      BY <3>3, <3>4
  <2>6. CASE DidRepair(p, d)
    <3>1. g \in groups /\ UNCHANGED member /\ u.pc = "repair"
      BY <2>6 DEF DidRepair
    <3>2. ASSUME u.group = g PROVE Goal
      <4>1. CASE Cardinality(Members(g)) <= 1
        <5>1. d.pc = "dissolve" /\ d.group = g
          BY <2>6, <3>2, <4>1 DEF DidRepair, CleanMove
        <5> QED
          BY <2>2, <5>1 DEF OwesOf
      <4>2. CASE ~(Cardinality(Members(g)) <= 1)
        <5>1. Two(member, g)
          BY <4>2, ManyMembers
        <5> QED
          BY <3>1, <5>1
      <4> QED
        BY <4>1, <4>2
    <3>3. OwesOf(u, g) => u.group = g
      BY <3>1 DEF OwesOf
    <3> QED
      BY <1>4, <3>1, <3>2, <3>3
  <2>7. CASE DidDissolve(p, d)
    <3>1. g \in groups /\ u.pc = "dissolve" /\ d.pc = "clean_group" /\ d.group = u.group
      BY <2>7 DEF DidDissolve, CleanMove
    <3>2. CASE g = u.group
      BY <2>2, <3>1, <3>2 DEF OwesOf
    <3>3. CASE g # u.group
      <4>1. ~OwesOf(u, g)
        BY <3>1, <3>3 DEF OwesOf
      <4>2. Two(member, g) => Two(member', g)
        BY <2>7, <3>3 DEF DidDissolve, Two
      <4> QED
        BY <1>4, <3>1, <4>1, <4>2
    <3> QED
      BY <3>2, <3>3
  <2>8. CASE DidCleanGroup(p)
    <3>1. g \in groups /\ g # u.group /\ UNCHANGED member /\ u.pc = "clean_group"
      BY <2>8 DEF DidCleanGroup
    <3>2. ~OwesOf(u, g)
      BY <3>1 DEF OwesOf
    <3> QED
      BY <1>4, <3>1, <3>2
  <2> QED
    BY <1>9, <2>4, <2>5, <2>6, <2>7, <2>8 DEF Cleaning
<1>10. CASE Dropped(p)
  <2>1. UNCHANGED <<groups, member>> /\ (Section(p) => Component(Subject(p)) \subseteq torn')
    BY <1>10 DEF Dropped
  <2>2. ~Section(p)
    BY <1>0, <2>1, SubjectIn
  <2>3. ~OwesOf(proc[p], g)
    BY <2>2 DEF OwesOf, Section, UnionPcs, CleanPcs
  <2> QED
    BY <1>4, <2>1, <2>3
<1> QED
  BY <1>6, <1>7, <1>8, <1>9, <1>10 DEF Happens

(***************************************************************************)
(* The invariant of the groups                                             *)
(***************************************************************************)
GroupsInv == TablesInv /\ SerialInv /\ KnowsInv /\ LinkedInv /\ HollowInv

LEMMA InitGroups == Init => GroupsInv
<1> SUFFICES ASSUME Init PROVE GroupsInv
  OBVIOUS
<1>1. \A p \in Procs : ~Section(p)
  BY InitCalls DEF Section, UnionPcs, CleanPcs
<1>2. SerialInv /\ KnowsInv
  BY <1>1 DEF SerialInv, KnowsInv
<1>3. LinkedInv /\ HollowInv
  BY DEF Init, LinkedInv, HollowInv
<1> QED
  BY <1>2, <1>3, InitTables DEF GroupsInv

LEMMA GroupsStep == GroupsInv /\ [Next]_vars => GroupsInv'
<1> SUFFICES ASSUME GroupsInv, [Next]_vars PROVE GroupsInv'
  OBVIOUS
<1>0. TablesInv /\ SerialInv /\ KnowsInv /\ LinkedInv /\ HollowInv /\ TablesInv'
  BY TablesStep DEF GroupsInv
<1>1. CASE Next
  <2>1. PICK p \in Procs : Happens(p)
    BY <1>0, <1>1, NextTaken DEF TablesInv
  <2>2. SerialInv' /\ KnowsInv' /\ LinkedInv' /\ HollowInv'
    BY <1>0, <2>1, SerialKept, KnowsKept, LinkedKept, HollowKept
  <2> QED
    BY <1>0, <2>2 DEF GroupsInv
<1>2. CASE UNCHANGED vars
  <2>1. UNCHANGED <<edges, groups, member, proc, ever, torn>>
    BY <1>2 DEF vars, tables, history
  <2>2. \A q \in Procs : (Section(q)' <=> Section(q)) /\ Subject(q)' = Subject(q) /\ Component(Subject(q))' = Component(Subject(q))
    BY <2>1 DEF Section, Subject, Component
  <2>3. SerialInv'
    BY <1>0, <2>1, <2>2 DEF SerialInv
  <2>4. KnowsInv'
    <3> SUFFICES ASSUME NEW q \in Procs, Section(q)', ~(Component(Subject(q))' \subseteq torn')
                 PROVE  Knows(proc'[q], member', groups', edges')
      BY DEF KnowsInv, Knows, UnionKnows, CleanKnows, SrcOf, DstOf, KeepOf, DropOf, Empty, NoStrongEdge
    <3>1. Knows(proc[q], member, groups, edges)
      BY <1>0, <2>1, <2>2 DEF KnowsInv
    <3> QED
      BY <2>1, <3>1
  <2>5. LinkedInv'
    BY <1>0, <2>1 DEF LinkedInv
  <2>6. HollowInv'
    BY <1>0, <2>1 DEF HollowInv, OwesOf, DropOf
  <2> QED
    BY <1>0, <2>3, <2>4, <2>5, <2>6 DEF GroupsInv
<1> QED
  BY <1>1, <1>2

LEMMA GroupsAlways == Spec => []GroupsInv
  BY InitGroups, GroupsStep, PTL DEF Spec

\* union_groups, repair_group: the ends of a strong edge share a group whenever
\* no union or cleanup is at work in their component, if none there was dropped,
\* failed or overlapped another; what goes on in other components is of no
\* account.
THEOREM LinkedSafe == Spec => []GroupsComplete
<1>1. GroupsInv => GroupsComplete
  <2> SUFFICES ASSUME GroupsInv, NEW e \in edges,
                      e[2] \in {"normalized_equivalent", "semantic_variant_strong"},
                      e[1] \cap torn = {}, \A x \in e[1] : AtRest(x)
               PROVE  \A x, y \in e[1] : member[x] # None /\ member[x] = member[y]
    BY DEF GroupsComplete
  <2>0. GroupsTypeOK /\ CallsInv /\ EverInv
    BY DEF GroupsInv, TablesInv
  <2>1. ASSUME NEW p \in Procs, proc[p].pc \in UnionPcs, proc[p].pair = e[1] PROVE FALSE
    <3>1. Section(p) /\ Subject(p) \in e[1] /\ Subject(p) \in Artifacts
      BY <2>0, <2>1, SubjectIn DEF Section
    <3> QED
      BY <3>1, ConnectedSelf DEF AtRest
  <2> QED
    BY <2>1 DEF GroupsInv, LinkedInv, Strong
<1> QED
  BY <1>1, GroupsAlways, PTL

\* The foreign key of variant_group_member always holds; and between unions and
\* cleanups that came one after the other no group has fewer than two members.
THEOREM HollowSafe == Spec => []NoHollowGroups
<1>1. GroupsInv => NoHollowGroups
  <2> SUFFICES ASSUME GroupsInv PROVE NoHollowGroups
    OBVIOUS
  <2>1. \A x \in Artifacts : member[x] # None => member[x] \in groups
    BY DEF GroupsInv, TablesInv, ForeignKeyInv
  <2>2. ASSUME torn = {}, \A p \in Procs : ~Section(p), NEW g \in groups
        PROVE  Cardinality({x \in Artifacts : member[x] = g}) >= 2
    <3>1. \A p \in Procs : ~OwesOf(proc[p], g)
      BY <2>2 DEF OwesOf, Section, UnionPcs, CleanPcs
    <3>2. Two(member, g)
      BY <2>2, <3>1 DEF GroupsInv, HollowInv, Two
    <3>3. ~(Cardinality(Members(g)) <= 1) /\ Cardinality(Members(g)) \in Nat
      BY <3>2, ManyMembers, VariantAssumption, FS_Subset, FS_CardinalityType DEF Members
    <3> QED
      BY <3>3 DEF Members
  <2> QED
    BY <2>1, <2>2 DEF NoHollowGroups
<1> QED
  BY <1>1, GroupsAlways, PTL

(***************************************************************************)
(* Edges of analyzed pairs                                                 *)
(***************************************************************************)
LEMMA ContinueHandled ==
    ASSUME NEW c \in CallRec, c.step \in LinkSteps \/ c.cands = {}, c.art \notin c.cands, NEW k \in Nat, NEW y
    PROVE  HandledOf(Continue(c), k, y) <=> c.step > k \/ (c.step = k /\ y \notin c.cands)
<1>1. c.step \in 1..11
  BY DEF CallRec
<1>2. /\ Continue(c).cands = c.cands
      /\ Continue(c).pc \in {"run", "link", "done"}
      /\ Continue(c).pc = "link" => c.cands # {} /\ Continue(c).step = c.step
      /\ Continue(c).pc = "done" => c.cands = {} /\ Continue(c).step = c.step /\ c.step = 11
      /\ Continue(c).pc = "run" => c.cands = {} /\ Continue(c).step = c.step + 1
  BY ContinueFacts
<1> QED
  BY <1>1, <1>2 DEF HandledOf

\* A call is given its artifact, at its first statement, or comes to its end.
Restart(p, c) ==
    /\ \/ proc[p] = Idle /\ UNCHANGED analyzed
       \/ /\ proc[p] \in CallRec /\ proc[p].pc = "done" /\ proc[p].step = 11
          /\ analyzed' = analyzed \cup {proc[p].art}
    /\ c = Idle \/ (c \in CallRec /\ c.step = 1 /\ c.pc = "run")
    /\ Becomes(p, c) /\ Sound(c)
    /\ UNCHANGED <<rows, edges, spoiled>>
\* It stores or clears rows ...
Stores(p, c) ==
    /\ proc[p] \in CallRec /\ proc[p].pc = "run" /\ proc[p].step \in {1, 2, 3, 6, 7, 8, 9}
    /\ c \in CallRec /\ c.art = proc[p].art /\ c.pc = "run" /\ c.step = proc[p].step + 1
    /\ Becomes(p, c) /\ Sound(c)
    /\ rows' = [rows EXCEPT ![proc[p].art] =
                  IF proc[p].step \in {2, 8} THEN @ \ {Program[proc[p].step].arg}
                  ELSE @ \cup {Program[proc[p].step].arg}]
    /\ UNCHANGED <<edges, analyzed, spoiled>>
\* ... or looks up candidates.
LooksUp(p, d, c) ==
    /\ proc[p] \in CallRec /\ proc[p].pc = "run" /\ proc[p].step \in LinkSteps
    /\ d \in CallRec /\ d.art = proc[p].art /\ d.step = proc[p].step
    /\ d.cands \in Candidates(Program[proc[p].step].arg, proc[p].art) /\ d.art \notin d.cands
    /\ c = Continue(d) /\ Becomes(p, c) /\ Sound(c)
    /\ UNCHANGED <<rows, edges, analyzed, spoiled>>

LEMMA RestartStep ==
    ASSUME GroupsTypeOK, CallsInv, NEW p \in Procs,
           (\E x \in Artifacts : analyze_new_artifact(p, x)) \/ backfill(p) \/ Finish(p)
    PROVE  \E c : Restart(p, c)
<1>p. proc \in [Procs -> {Idle} \cup CallRec \cup CleanRec]
  BY DEF GroupsTypeOK
<1>1. ASSUME NEW x \in Artifacts, analyze_new_artifact(p, x) PROVE \E c : Restart(p, c)
  <2>1. PICK T \in SUBSET Artifacts : T = {}
    OBVIOUS
  <2>2. PICK c : c = Analysis(x, T)
    OBVIOUS
  <2>3. Becomes(p, c) /\ proc[p] = Idle
    BY <1>1, <2>1, <2>2 DEF analyze_new_artifact, Becomes, Call
  <2>4. c \in CallRec /\ Sound(c) /\ c.pc = "run" /\ c.step = 1
    BY <2>2, AnalysisSound
  <2> QED
    BY <1>1, <2>3, <2>4 DEF analyze_new_artifact, Restart, tables, history
<1>2. ASSUME backfill(p) PROVE \E c : Restart(p, c)
  <2>1. PICK T \in SUBSET Artifacts : T = {x \in Artifacts : "features" \notin rows[x]}
    OBVIOUS
  <2>2. PICK c : c = AnalyzeAll(T)
    OBVIOUS
  <2>3. Becomes(p, c) /\ proc[p] = Idle
    BY <1>2, <2>1, <2>2 DEF backfill, Becomes, Call
  <2>4. Sound(c) /\ (c # Idle => c \in CallRec /\ c.pc = "run" /\ c.step = 1)
    BY <2>2, AnalyzeAllSound
  <2> QED
    BY <1>2, <2>3, <2>4 DEF backfill, Restart, tables, history
<1>3. ASSUME Finish(p) PROVE \E c : Restart(p, c)
  <2>1. proc[p].pc = "done" /\ proc[p] \in CallRec /\ CallOK(proc[p])
    BY <1>3, Kinds DEF Finish, CallsInv
  <2>2. PICK T \in SUBSET Artifacts : T = proc[p].todo
    BY <2>1 DEF CallRec
  <2>3. PICK c : c = AnalyzeAll(T)
    OBVIOUS
  <2>4. Becomes(p, c)
    BY <1>3, <1>p, <2>2, <2>3 DEF Finish, Becomes
  <2>5. Sound(c) /\ (c # Idle => c \in CallRec /\ c.pc = "run" /\ c.step = 1)
    BY <2>3, AnalyzeAllSound
  <2>6. proc[p].step = 11
    BY <2>1 DEF CallOK
  <2> QED
    BY <1>3, <2>1, <2>4, <2>5, <2>6 DEF Finish, Restart, tables
<1> QED
  BY <1>1, <1>2, <1>3

LEMMA StoreStep ==
    ASSUME GroupsTypeOK, CallsInv, NEW p \in Procs, store_features(p)
    PROVE  \E c : Stores(p, c)
<1>p. proc \in [Procs -> {Idle} \cup CallRec \cup CleanRec]
  BY DEF GroupsTypeOK
<1>1. proc[p].pc = "run" /\ Program[proc[p].step].op \in {"store", "clear"}
  BY DEF store_features, Running
<1>2. proc[p] \in CallRec /\ CallOK(proc[p])
  BY <1>1, Kinds DEF CallsInv
<1>3. proc[p].step \in 1..11 /\ proc[p].art \in Artifacts /\ proc[p].cands = {}
  BY <1>1, <1>2 DEF CallRec, CallOK
<1>4. /\ proc[p].step \in {1, 2, 3, 6, 7, 8, 9}
      /\ proc[p].step \in {2, 8} <=> Program[proc[p].step].op = "clear"
  BY <1>1, <1>3, ProgramFacts
<1>5. PICK c : c = Continue(proc[p])
  OBVIOUS
<1>6. Becomes(p, c)
  BY <1>p, <1>5 DEF store_features, Becomes
<1>7. /\ c \in CallRec /\ Sound(c) /\ c.art = proc[p].art
      /\ c.pc = "run" /\ c.step = proc[p].step + 1
  <2>1. /\ c \in CallRec /\ Sound(c) /\ c.art = proc[p].art
        /\ c.pc \in {"run", "link", "done"}
        /\ c.pc = "link" => proc[p].cands # {}
        /\ c.pc = "done" => proc[p].step = 11
        /\ c.pc = "run" => c.step = proc[p].step + 1
    BY <1>2, <1>3, <1>5, ContinueFacts
  <2> QED
    BY <1>3, <1>4, <2>1
<1>8. rows' = [rows EXCEPT ![proc[p].art] =
                  IF proc[p].step \in {2, 8} THEN @ \ {Program[proc[p].step].arg}
                  ELSE @ \cup {Program[proc[p].step].arg}]
  BY <1>1, <1>4 DEF store_features, Running, Arg
<1> QED
  BY <1>1, <1>2, <1>4, <1>6, <1>7, <1>8 DEF Stores, store_features, history

LEMMA LookupStep ==
    ASSUME GroupsTypeOK, CallsInv, NEW p \in Procs, Lookup(p)
    PROVE  \E d, c : LooksUp(p, d, c)
<1>p. proc \in [Procs -> {Idle} \cup CallRec \cup CleanRec]
  BY DEF GroupsTypeOK
<1>1. proc[p].pc = "run" /\ Program[proc[p].step].op = "link"
  BY DEF Lookup, Running
<1>2. proc[p] \in CallRec /\ CallOK(proc[p])
  BY <1>1, Kinds DEF CallsInv
<1>3. proc[p].step \in LinkSteps /\ proc[p].art \in Artifacts
  BY <1>1, <1>2, ProgramFacts DEF CallRec
<1>c. PICK found \in Candidates(Arg(p), proc[p].art) :
        proc' = [proc EXCEPT ![p] = Continue([proc[p] EXCEPT !.cands = found])]
  BY DEF Lookup
<1>4. found \in SUBSET Artifacts /\ proc[p].art \notin found
  BY <1>3, CandidatesFacts DEF Arg
<1>5. PICK d \in CallRec : d = [proc[p] EXCEPT !.cands = found]
  BY <1>2, <1>4 DEF CallRec
<1>6. d.step = proc[p].step /\ d.cands = found /\ d.art = proc[p].art
  BY <1>2, <1>5 DEF CallRec
<1>7. PICK c : c = Continue(d)
  OBVIOUS
<1>8. Becomes(p, c)
  BY <1>p, <1>c, <1>5, <1>7 DEF Becomes
<1>9. Sound(c)
  BY <1>3, <1>4, <1>6, <1>7, ContinueFacts
<1> QED
  BY <1>1, <1>2, <1>3, <1>4, <1>6, <1>7, <1>8, <1>9 DEF LooksUp, Lookup, Arg, tables, history

\* The step deals with y for x: it does not find it, or it gives it a verdict.
Deals(p, x, k, y) ==
    /\ AnalysisOf(proc[p], x) /\ proc[p].step = k
    /\ \/ \E d, c : LooksUp(p, d, c) /\ y \notin d.cands
       \/ \E type, c : Inserted(p, y, type, c) /\ (InsertedQuiet(p, y, type, c) \/ InsertedUnion(p, y, type, c))
\* Only such a step takes a candidate from an analysis that goes on.
Progress(p, c) ==
    /\ Becomes(p, c) /\ Sound(c)
    /\ analyzed \subseteq analyzed' /\ spoiled \subseteq spoiled'
    /\ \A x \in analyzed' \ analyzed : AnalysisOf(proc[p], x) /\ proc[p].step = 11
    /\ \A x, y \in Artifacts, k \in {4, 10} :
         AnalysisOf(c, x) /\ HandledOf(c, k, y)
         => (AnalysisOf(proc[p], x) /\ HandledOf(proc[p], k, y)) \/ Deals(p, x, k, y)
    /\ \A x, y \in Artifacts :
         /\ x \notin spoiled' /\ AnalysisOf(proc[p], x)
         /\ proc[p].step \in {9, 10} /\ ~HandledOf(proc[p], 10, y)
         => (AnalysisOf(c, x) /\ c.step \in {9, 10} /\ ~HandledOf(c, 10, y)) \/ Deals(p, x, 10, y)

LEMMA StepProgress ==
    ASSUME TablesInv, NEW p \in Procs, Happens(p)
    PROVE  \E c : Progress(p, c)
<1>0. GroupsTypeOK /\ CallsInv
  BY DEF TablesInv
<1>s. ASSUME NEW c \in CallRec PROVE c.step \in 1..11
  BY DEF CallRec
<1>i. ASSUME NEW x PROVE ~AnalysisOf(Idle, x) /\ \A c \in CleanRec : ~AnalysisOf(c, x)
  BY DEF AnalysisOf, Idle, CallRec, CleanRec, UnionPcs, CleanPcs
<1>1. ASSUME NEW c, Restart(p, c) PROVE Progress(p, c)
  <2>1. ASSUME NEW x, NEW y, NEW k \in {4, 10}, AnalysisOf(c, x) PROVE ~HandledOf(c, k, y)
    BY <1>1, <1>i, <2>1 DEF Restart, HandledOf, AnalysisOf
  <2>2. ASSUME NEW x, AnalysisOf(proc[p], x) PROVE proc[p].step = 11
    BY <1>1, <1>i, <2>2 DEF Restart
  <2>3. \A x \in analyzed' \ analyzed : AnalysisOf(proc[p], x) /\ proc[p].step = 11
    BY <1>1 DEF Restart, AnalysisOf
  <2>4. Becomes(p, c) /\ Sound(c) /\ analyzed \subseteq analyzed' /\ spoiled \subseteq spoiled'
    BY <1>1 DEF Restart
  <2> QED
    BY <2>1, <2>2, <2>3, <2>4 DEF Progress
<1>2. ASSUME NEW c, Stores(p, c) PROVE Progress(p, c)
  <2>1. /\ proc[p] \in CallRec /\ proc[p].pc = "run" /\ proc[p].step \in {1, 2, 3, 6, 7, 8, 9}
        /\ c \in CallRec /\ c.art = proc[p].art /\ c.pc = "run" /\ c.step = proc[p].step + 1
    BY <1>2 DEF Stores
  <2>2. ASSUME NEW x, NEW y, NEW k \in {4, 10}, AnalysisOf(c, x), HandledOf(c, k, y)
        PROVE  AnalysisOf(proc[p], x) /\ HandledOf(proc[p], k, y)
    BY <2>1, <2>2 DEF HandledOf, AnalysisOf
  <2>3. ASSUME NEW x, NEW y, AnalysisOf(proc[p], x), proc[p].step \in {9, 10}
        PROVE  AnalysisOf(c, x) /\ c.step \in {9, 10} /\ ~HandledOf(c, 10, y)
    BY <2>1, <2>3 DEF HandledOf, AnalysisOf
  <2> QED
    BY <1>2, <2>2, <2>3 DEF Progress, Stores
\* Continue deals with the candidates that d has no more.
<1>3. ASSUME NEW d \in CallRec, d.step \in LinkSteps, d.art \notin d.cands, NEW c, c = Continue(d),
             proc[p] \in CallRec, d.art = proc[p].art, d.step = proc[p].step,
             Becomes(p, c), Sound(c), UNCHANGED <<analyzed, spoiled>>,
             \A y \in Artifacts : y \notin d.cands => HandledOf(proc[p], proc[p].step, y)
                                                      \/ Deals(p, proc[p].art, proc[p].step, y)
      PROVE  Progress(p, c)
  <2>1. c \in CallRec /\ c.art = d.art
    BY <1>3, ContinueFacts
  <2>2. \A k \in {4, 10}, y \in Artifacts : HandledOf(c, k, y) <=> d.step > k \/ (d.step = k /\ y \notin d.cands)
    BY <1>3, ContinueHandled
  <2>3. ASSUME NEW x \in Artifacts, NEW y \in Artifacts, NEW k \in {4, 10}, AnalysisOf(c, x), HandledOf(c, k, y)
        PROVE  (AnalysisOf(proc[p], x) /\ HandledOf(proc[p], k, y)) \/ Deals(p, x, k, y)
    BY <1>3, <2>1, <2>2, <2>3 DEF AnalysisOf, HandledOf
  <2>4. ASSUME NEW x \in Artifacts, NEW y \in Artifacts, AnalysisOf(proc[p], x),
               proc[p].step \in {9, 10}, ~HandledOf(proc[p], 10, y), ~Deals(p, x, 10, y)
        PROVE  AnalysisOf(c, x) /\ c.step \in {9, 10} /\ ~HandledOf(c, 10, y)
    <3>1. d.step = 10 /\ x = proc[p].art
      BY <1>3, <2>4 DEF LinkSteps, AnalysisOf
    <3>2. y \in d.cands
      BY <1>3, <2>4, <3>1
    <3>3. c.step = 10
      BY <1>3, <3>1, <3>2, ContinueFacts
    <3> QED
      BY <1>3, <2>1, <2>2, <2>4, <3>1, <3>2, <3>3 DEF AnalysisOf
  <2> QED
    BY <1>3, <2>3, <2>4 DEF Progress
<1>4. ASSUME NEW d, NEW c, LooksUp(p, d, c) PROVE Progress(p, c)
  <2>1. \A y \in Artifacts : y \notin d.cands => Deals(p, proc[p].art, proc[p].step, y)
    <3>1. AnalysisOf(proc[p], proc[p].art)
      BY <1>4 DEF LooksUp, AnalysisOf
    <3> QED
      BY <1>4, <3>1 DEF Deals
  <2> QED
    BY <1>3, <1>4, <2>1 DEF LooksUp
<1>5. CASE QuietStep(p)
  BY <1>0, <1>1, <1>2, <1>4, <1>5, RestartStep, StoreStep, LookupStep, Zenon DEF QuietStep
<1>6. ASSUME NEW y, NEW type, NEW c, Inserted(p, y, type, c), InsertedQuiet(p, y, type, c) PROVE Progress(p, c)
  <2>1. /\ proc[p] \in CallRec /\ CallOK(proc[p]) /\ proc[p].pc = "link"
        /\ Becomes(p, c) /\ Sound(c) /\ UNCHANGED <<analyzed, spoiled>>
    BY <1>6 DEF Inserted
  <2>2. proc[p].step \in LinkSteps /\ proc[p].art \notin proc[p].cands
    BY <2>1 DEF CallOK
  <2>3. PICK d \in CallRec : c = Continue(d) /\ d.art = proc[p].art /\ d.step = proc[p].step /\ d.cands = proc[p].cands \ {y}
    BY <1>6 DEF InsertedQuiet
  <2>4. Deals(p, proc[p].art, proc[p].step, y)
    BY <1>6, <2>1 DEF Deals, AnalysisOf
  <2>5. \A z \in Artifacts : z \notin d.cands => HandledOf(proc[p], proc[p].step, z)
                                                 \/ Deals(p, proc[p].art, proc[p].step, z)
    BY <2>1, <2>3, <2>4 DEF HandledOf
  <2> QED
    BY <1>3, <2>1, <2>2, <2>3, <2>5
<1>7. ASSUME NEW y, NEW type, NEW c, Inserted(p, y, type, c), InsertedUnion(p, y, type, c) PROVE Progress(p, c)
  <2>1. /\ proc[p] \in CallRec /\ CallOK(proc[p]) /\ proc[p].pc = "link" /\ c \in CallRec /\ c.art = proc[p].art
        /\ Becomes(p, c) /\ Sound(c) /\ UNCHANGED <<analyzed, spoiled>>
    BY <1>7 DEF Inserted
  <2>2. c.pc = "read_src" /\ c.step = proc[p].step /\ c.cands = proc[p].cands \ {y}
    BY <1>7 DEF InsertedUnion
  <2>3. Deals(p, proc[p].art, proc[p].step, y)
    BY <1>7, <2>1 DEF Deals, AnalysisOf
  <2>4. proc[p].step \in LinkSteps
    BY <2>1 DEF CallOK
  <2>5. ASSUME NEW x, NEW z, NEW k \in {4, 10}, AnalysisOf(c, x), HandledOf(c, k, z)
        PROVE  (AnalysisOf(proc[p], x) /\ HandledOf(proc[p], k, z)) \/ Deals(p, x, k, z)
    BY <2>1, <2>2, <2>3, <2>5 DEF AnalysisOf, HandledOf
  <2>6. ASSUME NEW x, NEW z, AnalysisOf(proc[p], x), proc[p].step \in {9, 10}, ~HandledOf(proc[p], 10, z)
        PROVE  (AnalysisOf(c, x) /\ c.step \in {9, 10} /\ ~HandledOf(c, 10, z)) \/ Deals(p, x, 10, z)
    BY <2>1, <2>2, <2>3, <2>4, <2>6 DEF AnalysisOf, HandledOf, LinkSteps
  <2> QED
    BY <2>1, <2>5, <2>6 DEF Progress
<1>8. ASSUME NEW c, UnionStep(p, c) PROVE Progress(p, c)
  <2>1. /\ proc[p].pc \in UnionPcs /\ (UnionMove(p, c) \/ UnionEnd(p, c))
        /\ Becomes(p, c) /\ Sound(c) /\ c \in CallRec /\ UNCHANGED <<analyzed, spoiled>>
    BY <1>0, <1>8, UnionStepFacts DEF Kept
  <2>2. proc[p] \in CallRec /\ proc[p].step \in LinkSteps /\ proc[p].art \notin proc[p].cands
    BY <1>0, <2>1, UnionFacts
  <2>3. CASE UnionMove(p, c)
    <3>1. c.art = proc[p].art /\ \A k, y : HandledOf(c, k, y) <=> HandledOf(proc[p], k, y)
      BY <2>1, <2>3 DEF UnionMove, Same, HandledOf, UnionPcs
    <3>2. c.step = proc[p].step
      BY <2>3 DEF UnionMove, Same
    <3> QED
      BY <2>1, <2>2, <3>1, <3>2 DEF Progress, AnalysisOf
  <2>4. CASE UnionEnd(p, c)
    <3>1. \A y \in Artifacts : y \notin proc[p].cands => HandledOf(proc[p], proc[p].step, y)
      BY <2>1 DEF HandledOf, UnionPcs
    <3> QED
      BY <1>3, <2>1, <2>2, <2>4, <3>1 DEF UnionEnd
  <2> QED
    BY <2>1, <2>3, <2>4
<1>9. ASSUME NEW c, Cleaning(p, c) PROVE Progress(p, c)
  <2>1. /\ proc[p] = Idle \/ proc[p] \in CleanRec
        /\ c = Idle \/ c \in CleanRec
        /\ Becomes(p, c) /\ Sound(c) /\ UNCHANGED analyzed /\ spoiled \subseteq spoiled'
    BY <1>0, <1>9, CleaningFacts
  <2> QED
    BY <1>i, <2>1 DEF Progress
<1>10. CASE Dropped(p)
  <2>1. Becomes(p, Idle) /\ UNCHANGED analyzed /\ spoiled' = spoiled \cup {proc[p].art}
    BY <1>10 DEF Dropped
  <2>2. PICK c : c = Idle
    OBVIOUS
  <2>3. Progress(p, c)
    BY <1>i, <2>1, <2>2, IdleSound DEF Progress, AnalysisOf
  <2> QED
    BY <2>3
<1> QED
  BY <1>5, <1>6, <1>7, <1>8, <1>9, <1>10, Zenon DEF Happens

\* Any other step than a store leaves the rows and edges of unspoiled artifacts,
\* and takes no analysis past a store.
Calm(p, c) ==
    /\ Becomes(p, c) /\ Sound(c)
    /\ analyzed \subseteq analyzed' /\ spoiled \subseteq spoiled'
    /\ c \in CleanRec => c.art \in spoiled'
    /\ \A x \in Artifacts \ spoiled' : rows'[x] = rows[x]
    /\ \A x, y \in Artifacts \ spoiled' : \A t : <<{x, y}, t>> \in edges => <<{x, y}, t>> \in edges'
    /\ \A x \in analyzed' \ analyzed : AnalysisOf(proc[p], x) /\ proc[p].step = 11
    /\ \A x \in Artifacts, k \in {1, 6, 7, 9} :
         AnalysisOf(c, x) /\ c.step > k => AnalysisOf(proc[p], x) /\ proc[p].step > k
    /\ \A x \in Artifacts \ spoiled' : AnalysisOf(proc[p], x) => proc[p].step # 9

LEMMA StepRows ==
    ASSUME TablesInv, CleanupsInv, NEW p \in Procs, Happens(p)
    PROVE  \E c : Stores(p, c) \/ Calm(p, c)
<1>0. GroupsTypeOK /\ CallsInv
  BY DEF TablesInv
<1>i. /\ \A x : ~AnalysisOf(Idle, x)
      /\ \A c \in CleanRec : \A x : ~AnalysisOf(c, x)
      /\ Idle \notin CleanRec
      /\ \A c \in CallRec : c \notin CleanRec
  BY DEF AnalysisOf, Idle, CallRec, CleanRec, UnionPcs, CleanPcs
<1>1. ASSUME NEW c, Restart(p, c) PROVE Calm(p, c)
  <2>1. ASSUME NEW x, NEW k \in {1, 6, 7, 9}, AnalysisOf(c, x) PROVE ~(c.step > k)
    BY <1>1, <1>i, <2>1 DEF Restart
  <2>2. ASSUME NEW x, AnalysisOf(proc[p], x) PROVE proc[p].step = 11
    BY <1>1, <1>i, <2>2 DEF Restart
  <2>3. \A x \in analyzed' \ analyzed : AnalysisOf(proc[p], x) /\ proc[p].step = 11
    BY <1>1 DEF Restart, AnalysisOf
  <2>4. /\ Becomes(p, c) /\ Sound(c) /\ analyzed \subseteq analyzed' /\ c \notin CleanRec
        /\ UNCHANGED <<rows, edges, spoiled>>
    BY <1>1, <1>i DEF Restart
  <2> QED
    BY <2>1, <2>2, <2>3, <2>4 DEF Calm
\* A call of an analysis that is at a lookup stays there or goes to the next statement.
<1>2. ASSUME proc[p] \in CallRec, proc[p].step \in LinkSteps, NEW c \in CallRec, c.art = proc[p].art,
             c.step = proc[p].step \/ c.step = proc[p].step + 1, Becomes(p, c), Sound(c),
             edges \subseteq edges', UNCHANGED <<rows, analyzed, spoiled>>
      PROVE  Calm(p, c)
  <2>1. ASSUME NEW x \in Artifacts, NEW k \in {1, 6, 7, 9}, AnalysisOf(c, x), c.step > k
        PROVE  AnalysisOf(proc[p], x) /\ proc[p].step > k
    BY <1>2, <2>1 DEF AnalysisOf, LinkSteps
  <2>2. proc[p].step # 9
    BY <1>2 DEF LinkSteps
  <2> QED
    BY <1>2, <1>i, <2>1, <2>2 DEF Calm
<1>3. ASSUME NEW d \in CallRec, d.step \in LinkSteps, d.art \notin d.cands, NEW c, c = Continue(d)
      PROVE  c \in CallRec /\ c.art = d.art /\ (c.step = d.step \/ c.step = d.step + 1)
  BY <1>3, ContinueFacts
<1>4. ASSUME NEW d, NEW c, LooksUp(p, d, c) PROVE Calm(p, c)
  <2>1. /\ proc[p] \in CallRec /\ proc[p].step \in LinkSteps
        /\ d \in CallRec /\ d.art = proc[p].art /\ d.step = proc[p].step /\ d.art \notin d.cands
        /\ c = Continue(d) /\ Becomes(p, c) /\ Sound(c)
        /\ UNCHANGED <<rows, edges, analyzed, spoiled>>
    BY <1>4 DEF LooksUp
  <2> QED
    BY <1>2, <1>3, <2>1
<1>5. CASE QuietStep(p)
  BY <1>0, <1>1, <1>4, <1>5, RestartStep, StoreStep, LookupStep, Zenon DEF QuietStep
<1>6. ASSUME NEW y, NEW type, NEW c, Inserted(p, y, type, c),
             InsertedQuiet(p, y, type, c) \/ InsertedUnion(p, y, type, c)
      PROVE  Calm(p, c)
  <2>1. /\ proc[p] \in CallRec /\ CallOK(proc[p]) /\ proc[p].pc = "link" /\ c \in CallRec /\ c.art = proc[p].art
        /\ Becomes(p, c) /\ Sound(c) /\ UNCHANGED <<rows, analyzed, spoiled>>
    BY <1>6 DEF Inserted
  <2>2. proc[p].step \in LinkSteps /\ proc[p].art \notin proc[p].cands
    BY <2>1 DEF CallOK
  <2>3. CASE InsertedQuiet(p, y, type, c)
    <3>1. PICK d \in CallRec : c = Continue(d) /\ d.art = proc[p].art /\ d.step = proc[p].step /\ d.cands = proc[p].cands \ {y}
      BY <2>3 DEF InsertedQuiet
    <3>2. edges \subseteq edges'
      BY <2>3 DEF InsertedQuiet
    <3>3. c.step = proc[p].step \/ c.step = proc[p].step + 1
      BY <1>3, <2>2, <3>1
    <3> QED
      BY <1>2, <2>1, <2>2, <3>2, <3>3
  <2>4. CASE InsertedUnion(p, y, type, c)
    <3>1. edges \subseteq edges' /\ c.step = proc[p].step
      BY <2>4 DEF InsertedUnion
    <3> QED
      BY <1>2, <2>1, <2>2, <3>1
  <2> QED
    BY <1>6, <2>3, <2>4
<1>8. ASSUME NEW c, UnionStep(p, c) PROVE Calm(p, c)
  <2>1. /\ proc[p].pc \in UnionPcs /\ (UnionMove(p, c) \/ UnionEnd(p, c))
        /\ Becomes(p, c) /\ Sound(c) /\ c \in CallRec /\ UNCHANGED <<rows, edges, analyzed, spoiled>>
    BY <1>0, <1>8, UnionStepFacts DEF Kept
  <2>2. proc[p] \in CallRec /\ proc[p].step \in LinkSteps /\ proc[p].art \notin proc[p].cands
    BY <1>0, <2>1, UnionFacts
  <2>3. c.art = proc[p].art /\ (c.step = proc[p].step \/ c.step = proc[p].step + 1)
    BY <1>3, <2>1, <2>2 DEF UnionMove, UnionEnd, Same
  <2> QED
    BY <1>2, <2>1, <2>2, <2>3
<1>9. ASSUME NEW c, Cleaning(p, c) PROVE Calm(p, c)
  <2>1. /\ proc[p] = Idle \/ proc[p] \in CleanRec
        /\ c = Idle \/ c \in CleanRec
        /\ c # Idle /\ proc[p] # Idle => c.art = proc[p].art
        /\ Becomes(p, c) /\ Sound(c) /\ UNCHANGED analyzed /\ spoiled \subseteq spoiled'
    BY <1>0, <1>9, CleaningFacts
  <2>2. proc[p] \in CleanRec => proc[p].art \in spoiled
    BY DEF CleanupsInv
  <2>3. c \in CleanRec => c.art \in spoiled'
    <3>1. CASE proc[p] # Idle
      BY <1>i, <2>1, <2>2, <3>1
    <3>2. CASE proc[p] = Idle
      <4>1. proc[p].pc = "idle"
        BY <3>2 DEF Idle
      <4>2. PICK x \in Artifacts : DidClean(p, x, c)
        BY <1>9, <4>1 DEF Cleaning, DidReadGroup, DidDelete, DidRepair, DidDissolve, DidCleanGroup
      <4> QED
        BY <4>2 DEF DidClean
    <3> QED
      BY <3>1, <3>2
  <2>4. CASE DidDelete(p, c)
    <3>1. /\ proc[p].art \in spoiled'
          /\ \A y \in Artifacts : y # proc[p].art => rows'[y] = rows[y]
          /\ \A e \in edges : proc[p].art \notin e[1] => e \in edges'
      BY <2>1, <2>2, <2>4 DEF DidDelete
    <3>2. /\ \A x \in Artifacts \ spoiled' : rows'[x] = rows[x]
          /\ \A x, y \in Artifacts \ spoiled' : \A t : <<{x, y}, t>> \in edges => <<{x, y}, t>> \in edges'
      BY <3>1
    <3> QED
      BY <1>i, <2>1, <2>3, <3>2 DEF Calm
  <2>5. CASE UNCHANGED <<rows, edges>>
    BY <1>i, <2>1, <2>3, <2>5 DEF Calm
  <2> QED
    BY <1>9, <2>4, <2>5 DEF Cleaning, DidClean, DidReadGroup, DidRepair, DidDissolve, DidCleanGroup, Kept
<1>10. CASE Dropped(p)
  <2>1. Becomes(p, Idle) /\ UNCHANGED <<rows, edges, analyzed>> /\ spoiled' = spoiled \cup {proc[p].art}
    BY <1>10 DEF Dropped
  <2>2. PICK c : c = Idle
    OBVIOUS
  <2>3. Calm(p, c)
    BY <1>i, <2>1, <2>2, IdleSound DEF Calm, AnalysisOf
  <2> QED
    BY <2>3
<1> QED
  BY <1>5, <1>6, <1>8, <1>9, <1>10, Zenon DEF Happens

LEMMA RowsKept ==
    ASSUME TablesInv, CleanupsInv, RowsInv, NEW p \in Procs, Happens(p)
    PROVE  CleanupsInv' /\ RowsInv'
<1>0. GroupsTypeOK /\ CallsInv
  BY DEF TablesInv
<1>r. rows \in [Artifacts -> SUBSET RowKinds]
  BY <1>0 DEF GroupsTypeOK
<1>1. PICK c : Stores(p, c) \/ Calm(p, c)
  BY StepRows
<1>2. Becomes(p, c) /\ Sound(c)
  BY <1>1 DEF Stores, Calm
<1>3. proc'[p] = c /\ \A q \in Procs : q # p => proc'[q] = proc[q]
  BY <1>0, <1>2, BecomesSound
<1>4. /\ analyzed \subseteq analyzed' /\ spoiled \subseteq spoiled'
      /\ \A x \in analyzed' \ analyzed : AnalysisOf(proc[p], x) /\ proc[p].step = 11
  BY <1>1 DEF Stores, Calm
<1>5. c \in CleanRec => c.art \in spoiled'
  <2>1. \A d \in CallRec : d \notin CleanRec
    BY DEF CallRec, CleanRec, UnionPcs, CleanPcs
  <2> QED
    BY <1>1, <2>1 DEF Stores, Calm
<1>6. CleanupsInv'
  BY <1>3, <1>4, <1>5 DEF CleanupsInv
<1>7. ASSUME NEW x \in Artifacts \ spoiled'
      PROVE  /\ Stored(x, 1)' => "features" \in rows'[x]
             /\ Stored(x, 6)' => "part" \in rows'[x]
             /\ Stored(x, 7)' => "function" \in rows'[x]
             /\ Stored(x, 9)' => "band" \in rows'[x] \/ \E q \in Procs : Analyzing(q, x)' /\ proc'[q].step = 9
             /\ "band" \in rows'[x] => "function" \in rows'[x]
  <2>1. /\ Stored(x, 1) => "features" \in rows[x]
        /\ Stored(x, 6) => "part" \in rows[x]
        /\ Stored(x, 7) => "function" \in rows[x]
        /\ Stored(x, 9) => "band" \in rows[x] \/ \E q \in Procs : Analyzing(q, x) /\ proc[q].step = 9
        /\ "band" \in rows[x] => "function" \in rows[x]
    BY <1>4, <1>7 DEF RowsInv
  \* What was not stored before is stored by p.
  <2>2. ASSUME NEW k \in {1, 6, 7, 9}, Stored(x, k)'
        PROVE  Stored(x, k) \/ (AnalysisOf(c, x) /\ c.step > k)
    <3>1. CASE x \in analyzed
      BY <3>1 DEF Stored
    <3>2. CASE x \in analyzed' \ analyzed
      BY <1>4, <3>2 DEF Stored, Analyzing
    <3>3. ASSUME NEW q \in Procs, Analyzing(q, x)', proc'[q].step > k
          PROVE  Stored(x, k) \/ (AnalysisOf(c, x) /\ c.step > k)
      BY <1>3, <3>3 DEF Stored, Analyzing
    <3> QED
      BY <2>2, <3>1, <3>2, <3>3 DEF Stored
  <2>3. ASSUME NEW q \in Procs, Analyzing(q, x), proc[q].step = 9, q # p
        PROVE  \E r \in Procs : Analyzing(r, x)' /\ proc'[r].step = 9
    BY <1>3, <2>3 DEF Analyzing
  <2>4. CASE Calm(p, c)
    <3>1. rows'[x] = rows[x] /\ (AnalysisOf(proc[p], x) => proc[p].step # 9)
      BY <1>7, <2>4 DEF Calm
    <3>2. \A k \in {1, 6, 7, 9} : Stored(x, k)' => Stored(x, k)
      <4>1. ASSUME NEW k \in {1, 6, 7, 9}, AnalysisOf(c, x), c.step > k PROVE Stored(x, k)
        BY <2>4, <4>1 DEF Calm, Stored, Analyzing
      <4> QED
        BY <2>2, <4>1
    <3> QED
      BY <2>1, <2>3, <3>1, <3>2 DEF Analyzing
  <2>5. CASE Stores(p, c)
    <3>1. /\ proc[p] \in CallRec /\ proc[p].step \in {1, 2, 3, 6, 7, 8, 9}
          /\ c \in CallRec /\ c.art = proc[p].art /\ c.step = proc[p].step + 1
          /\ proc[p].art \in Artifacts
      BY <2>5 DEF Stores, CallRec
    <3>2. CASE x # proc[p].art
      <4>1. ~AnalysisOf(c, x) /\ ~AnalysisOf(proc[p], x)
        BY <3>1, <3>2 DEF AnalysisOf
      <4>2. rows'[x] = rows[x]
        BY <1>r, <2>5, <3>1, <3>2 DEF Stores
      <4> QED
        BY <2>1, <2>2, <2>3, <4>1, <4>2 DEF Analyzing
    <3>3. CASE x = proc[p].art
      <4>1. AnalysisOf(proc[p], x) /\ Analyzing(p, x) /\ AnalysisOf(c, x) /\ Analyzing(p, x)'
        BY <1>3, <3>1, <3>3 DEF AnalysisOf, Analyzing
      <4>2. ASSUME NEW k \in {1, 6, 7, 9}, Stored(x, k)', proc[p].step # k
            PROVE  Stored(x, k)
        BY <2>2, <3>1, <4>1, <4>2 DEF Stored
      <4>3. rows'[x] = IF proc[p].step \in {2, 8} THEN rows[x] \ {Program[proc[p].step].arg}
                       ELSE rows[x] \cup {Program[proc[p].step].arg}
        BY <1>r, <2>5, <3>1, <3>3 DEF Stores
      <4>4. CASE proc[p].step \in {1, 2, 3, 6, 7}
        <5>1. /\ proc[p].step = 2 => Program[proc[p].step].arg = "lsh"
              /\ proc[p].step = 1 => Program[proc[p].step].arg = "features"
              /\ proc[p].step = 3 => Program[proc[p].step].arg = "lsh"
              /\ proc[p].step = 6 => Program[proc[p].step].arg = "part"
              /\ proc[p].step = 7 => Program[proc[p].step].arg = "function"
          BY ProgramFacts
        <5>2. /\ \A r \in {"features", "part", "function", "band"} : r \in rows[x] => r \in rows'[x]
              /\ "band" \in rows'[x] => "band" \in rows[x]
              /\ proc[p].step = 1 => "features" \in rows'[x]
              /\ proc[p].step = 6 => "part" \in rows'[x]
              /\ proc[p].step = 7 => "function" \in rows'[x]
          BY <4>3, <4>4, <5>1
        <5>3. proc[p].step # 9
          BY <4>4
        <5> QED
          BY <2>1, <2>3, <4>2, <5>2, <5>3
      <4>5. CASE proc[p].step = 8
        <5>1. rows'[x] = rows[x] \ {"band"}
          BY <4>3, <4>5, ProgramFacts
        <5>2. proc'[p].step = 9
          BY <1>3, <3>1, <4>5
        <5> QED
          BY <2>1, <4>1, <4>2, <4>5, <5>1, <5>2
      <4>6. CASE proc[p].step = 9
        <5>1. rows'[x] = rows[x] \cup {"band"}
          BY <4>3, <4>6, ProgramFacts
        <5>2. Stored(x, 7)
          BY <4>1, <4>6 DEF Stored
        <5> QED
          BY <2>1, <4>2, <4>6, <5>1, <5>2
      <4> QED
        BY <3>1, <4>4, <4>5, <4>6
    <3> QED
      BY <3>2, <3>3
  <2> QED
    BY <1>1, <2>4, <2>5
<1>8. RowsInv'
  BY <1>7 DEF RowsInv
<1> QED
  BY <1>6, <1>8

\* Whoever comes second finds the features of the other ...
LEMMA DealsNormalized ==
    ASSUME TablesInv, RowsInv, NEW p \in Procs, NEW x \in Artifacts, NEW y \in Artifacts, x # y,
           y \notin spoiled, Deals(p, x, 4, y), Passed(y, 4, x), {x, y} \in Related["normalized"]
    PROVE  <<{x, y}, "normalized_equivalent">> \in edges'
<1>1. AnalysisOf(proc[p], x) /\ proc[p].step = 4 /\ proc[p].art = x
  BY DEF Deals, AnalysisOf
<1>2. Stored(y, 1)
  <2>1. ASSUME NEW q \in Procs, Analyzing(q, y), HandledOf(proc[q], 4, x)
        PROVE  proc[q].step > 1
    BY <2>1 DEF Analyzing, AnalysisOf, HandledOf, CallRec
  <2> QED
    BY <2>1 DEF Passed, Stored
<1>3. "features" \in rows[y]
  BY <1>2 DEF RowsInv
<1>4. ASSUME NEW d, NEW c, LooksUp(p, d, c) PROVE y \in d.cands
  <2>1. d.cands \in Candidates("normalized", x)
    BY <1>1, <1>4, ProgramFacts DEF LooksUp
  <2> QED
    BY <1>3, <2>1 DEF Candidates, Having
<1>5. ASSUME NEW type, NEW c, Inserted(p, y, type, c), InsertedQuiet(p, y, type, c) \/ InsertedUnion(p, y, type, c)
      PROVE  <<{x, y}, "normalized_equivalent">> \in edges'
  <2>1. type \in Verdicts(Program[4].arg, x, y)
    BY <1>1, <1>5 DEF Inserted
  <2>2. PICK k \in LinkSteps : k = 4
    BY DEF LinkSteps
  <2>3. type = "normalized_equivalent"
    BY <2>1, <2>2, VerdictsFacts
  <2>4. type # None
    BY <2>3, VariantAssumption DEF Types
  <2> QED
    BY <1>1, <1>5, <2>3, <2>4 DEF InsertedQuiet, InsertedUnion
<1> QED
  BY <1>4, <1>5 DEF Deals

\* ... or its bands, unless the other has cleared them and will come itself.
LEMMA DealsSemantic ==
    ASSUME TablesInv, RowsInv, NEW p \in Procs, NEW x \in Artifacts, NEW y \in Artifacts, x # y,
           y \notin spoiled, Deals(p, x, 10, y), Passed(y, 10, x),
           {x, y} \in ScoredPairs
    PROVE  <<{x, y}, "semantic_variant_strong">> \in edges' \/ Will(y, x)
<1>1. AnalysisOf(proc[p], x) /\ proc[p].step = 10 /\ proc[p].art = x
  BY DEF Deals, AnalysisOf
<1>2. Stored(y, 9) /\ Stored(y, 7)
  <2>1. ASSUME NEW q \in Procs, Analyzing(q, y), HandledOf(proc[q], 10, x)
        PROVE  proc[q].step > 9 /\ proc[q].step > 7
    BY <2>1 DEF Analyzing, AnalysisOf, HandledOf, CallRec
  <2> QED
    BY <2>1 DEF Passed, Stored
<1>3. /\ "function" \in rows[y]
      /\ "band" \in rows[y] \/ \E q \in Procs : Analyzing(q, y) /\ proc[q].step = 9
  BY <1>2 DEF RowsInv
<1>4. ASSUME NEW d, NEW c, LooksUp(p, d, c), y \notin d.cands PROVE Will(y, x)
  <2>1. d.cands \in Candidates("semantic", x)
    BY <1>1, <1>4, ProgramFacts DEF LooksUp
  <2>c. Capped(Indexed("semantic", "band", x), FUNC_CANDIDATE_CAP) = {Indexed("semantic", "band", x)}
    <3> DEFINE S == {z \in Artifacts \ {x} : {x, z} \in Banded["semantic"]}
               I == Indexed("semantic", "band", x)
    <3>1. I \subseteq S /\ S \subseteq Artifacts
      BY DEF Indexed, Having
    <3>2. IsFiniteSet(S)
      BY <3>1, VariantAssumption, FS_Subset
    <3>3. IsFiniteSet(I) /\ Cardinality(I) <= Cardinality(S)
      BY <3>1, <3>2, FS_Subset
    <3>4. Cardinality(I) \in Nat /\ Cardinality(S) \in Nat
      BY <3>2, <3>3, FS_CardinalityType
    <3>5. ~(Cardinality(S) > FUNC_CANDIDATE_CAP)
      BY DEF ScoredPairs, Popular
    <3>6. Cardinality(I) <= FUNC_CANDIDATE_CAP
      BY <3>3, <3>4, <3>5, VariantAssumption
    <3> QED
      BY <3>6 DEF Capped
  <2>2. d.cands = IF Indexed("semantic", "band", x) # {} THEN Indexed("semantic", "band", x) ELSE Having("part", x)
    BY <2>1, <2>c DEF Candidates
  <2>3. "band" \in rows[y] => y \in Indexed("semantic", "band", x)
    BY DEF Indexed, Having, ScoredPairs
  <2>4. PICK q \in Procs : Analyzing(q, y) /\ proc[q].step = 9
    BY <1>3, <1>4, <2>2, <2>3
  <2> QED
    BY <2>4 DEF Will, HandledOf
<1>5. ASSUME NEW type, NEW c, Inserted(p, y, type, c), InsertedQuiet(p, y, type, c) \/ InsertedUnion(p, y, type, c)
      PROVE  <<{x, y}, "semantic_variant_strong">> \in edges'
  <2>1. type \in Verdicts(Program[10].arg, x, y)
    BY <1>1, <1>5 DEF Inserted
  <2>2. PICK k \in LinkSteps : k = 10
    BY DEF LinkSteps
  <2>3. type = "semantic_variant_strong"
    BY <1>3, <2>1, <2>2, VerdictsFacts DEF ScoredPairs
  <2>4. type # None
    BY <2>3, VariantAssumption DEF Types
  <2> QED
    BY <1>1, <1>5, <2>3, <2>4 DEF InsertedQuiet, InsertedUnion
<1> QED
  BY <1>4, <1>5 DEF Deals

LEMMA PairsKept ==
    ASSUME TablesInv, CleanupsInv, RowsInv, NormalizedInv, SemanticInv, NEW p \in Procs, Happens(p)
    PROVE  NormalizedInv' /\ SemanticInv'
<1>0. GroupsTypeOK /\ CallsInv
  BY DEF TablesInv
<1>1. PICK c : Progress(p, c)
  BY StepProgress
<1>2. proc'[p] = c /\ \A q \in Procs : q # p => proc'[q] = proc[q]
  BY <1>0, <1>1, BecomesSound DEF Progress
<1>3. spoiled \subseteq spoiled'
  BY <1>1 DEF Progress
<1>4. \A x, y \in Artifacts \ spoiled' : \A t : <<{x, y}, t>> \in edges => <<{x, y}, t>> \in edges'
  <2>1. \E b : Stores(p, b) \/ Calm(p, b)
    BY StepRows
  <2> QED
    BY <2>1 DEF Stores, Calm
<1>5. ASSUME NEW x \in Artifacts, NEW y \in Artifacts, NEW k \in {4, 10}, Passed(x, k, y)'
      PROVE  Passed(x, k, y) \/ Deals(p, x, k, y)
  <2>1. CASE x \in analyzed
    BY <2>1 DEF Passed
  <2>2. CASE x \in analyzed' \ analyzed
    <3>1. AnalysisOf(proc[p], x) /\ proc[p].step = 11
      BY <1>1, <2>2 DEF Progress
    <3> QED
      BY <3>1 DEF Passed, Analyzing, HandledOf
  <2>3. ASSUME NEW q \in Procs, Analyzing(q, x)', HandledOf(proc'[q], k, y)
        PROVE  Passed(x, k, y) \/ Deals(p, x, k, y)
    <3>1. CASE q # p
      BY <1>2, <2>3, <3>1 DEF Passed, Analyzing
    <3>2. CASE q = p
      <4>1. AnalysisOf(c, x) /\ HandledOf(c, k, y)
        BY <1>2, <2>3, <3>2 DEF Analyzing
      <4>2. (AnalysisOf(proc[p], x) /\ HandledOf(proc[p], k, y)) \/ Deals(p, x, k, y)
        BY <1>1, <4>1 DEF Progress
      <4> QED
        BY <4>2 DEF Passed, Analyzing
    <3> QED
      BY <3>1, <3>2
  <2> QED
    BY <1>5, <2>1, <2>2, <2>3 DEF Passed
<1>6. ASSUME NEW x \in Artifacts \ spoiled', NEW y \in Artifacts, Will(x, y)
      PROVE  Will(x, y)' \/ Deals(p, x, 10, y)
  <2>1. PICK q \in Procs : Analyzing(q, x) /\ proc[q].step \in {9, 10} /\ ~HandledOf(proc[q], 10, y)
    BY <1>6 DEF Will
  <2>2. CASE q # p
    BY <1>2, <2>1, <2>2 DEF Will, Analyzing
  <2>3. CASE q = p
    <3>1. (AnalysisOf(c, x) /\ c.step \in {9, 10} /\ ~HandledOf(c, 10, y)) \/ Deals(p, x, 10, y)
      BY <1>1, <2>1, <2>3 DEF Progress, Analyzing
    <3> QED
      BY <1>2, <3>1 DEF Will, Analyzing
  <2> QED
    BY <2>2, <2>3
<1>7. \A x, y, k : Deals(p, x, k, y) => proc[p].art = x
  BY DEF Deals, AnalysisOf
<1>8. NormalizedInv'
  <2> SUFFICES ASSUME NEW x \in Artifacts \ spoiled', NEW y \in Artifacts \ spoiled', x # y,
                      {x, y} \in Related["normalized"], Passed(x, 4, y)', Passed(y, 4, x)'
               PROVE  <<{x, y}, "normalized_equivalent">> \in edges'
    BY DEF NormalizedInv
  <2>1. {y, x} = {x, y} /\ x \notin spoiled /\ y \notin spoiled
    BY <1>3
  <2>2. CASE Deals(p, x, 4, y)
    BY <1>5, <1>7, <2>1, <2>2, DealsNormalized
  <2>3. CASE Deals(p, y, 4, x)
    <3>1. Passed(x, 4, y)
      BY <1>5, <1>7, <2>3
    <3>2. {y, x} \in Related["normalized"]
      BY <2>1
    <3>3. <<{y, x}, "normalized_equivalent">> \in edges'
      BY <2>1, <2>3, <3>1, <3>2, DealsNormalized
    <3> QED
      BY <2>1, <3>3
  <2>4. CASE ~Deals(p, x, 4, y) /\ ~Deals(p, y, 4, x)
    <3>1. Passed(x, 4, y) /\ Passed(y, 4, x)
      BY <1>5, <2>4
    <3>2. <<{x, y}, "normalized_equivalent">> \in edges
      BY <2>1, <3>1 DEF NormalizedInv
    <3> QED
      BY <1>4, <3>2
  <2> QED
    BY <2>2, <2>3, <2>4
<1>9. SemanticInv'
  <2> SUFFICES ASSUME NEW x \in Artifacts \ spoiled', NEW y \in Artifacts \ spoiled', x # y,
                      {x, y} \in ScoredPairs,
                      Passed(x, 10, y)', Passed(y, 10, x)'
               PROVE  <<{x, y}, "semantic_variant_strong">> \in edges' \/ Will(x, y)' \/ Will(y, x)'
    BY DEF SemanticInv
  <2>1. {y, x} = {x, y} /\ x \notin spoiled /\ y \notin spoiled
    BY <1>3
  <2>2. CASE Deals(p, x, 10, y)
    <3>1. Passed(y, 10, x) /\ ~Deals(p, y, 10, x)
      BY <1>5, <1>7, <2>2
    <3>2. <<{x, y}, "semantic_variant_strong">> \in edges' \/ Will(y, x)
      BY <2>1, <2>2, <3>1, DealsSemantic
    <3> QED
      BY <1>6, <3>1, <3>2
  <2>3. CASE Deals(p, y, 10, x)
    <3>1. Passed(x, 10, y) /\ ~Deals(p, x, 10, y)
      BY <1>5, <1>7, <2>3
    <3>2. {y, x} \in ScoredPairs
      BY <2>1
    <3>3. <<{y, x}, "semantic_variant_strong">> \in edges' \/ Will(x, y)
      BY <2>1, <2>3, <3>1, <3>2, DealsSemantic
    <3> QED
      BY <1>6, <2>1, <3>1, <3>3
  <2>4. CASE ~Deals(p, x, 10, y) /\ ~Deals(p, y, 10, x)
    <3>1. Passed(x, 10, y) /\ Passed(y, 10, x)
      BY <1>5, <2>4
    <3>2. <<{x, y}, "semantic_variant_strong">> \in edges \/ Will(x, y) \/ Will(y, x)
      BY <2>1, <3>1 DEF SemanticInv
    <3> QED
      BY <1>4, <1>6, <2>4, <3>2
  <2> QED
    BY <2>2, <2>3, <2>4
<1> QED
  BY <1>8, <1>9

PairsInv == TablesInv /\ CleanupsInv /\ RowsInv /\ NormalizedInv /\ SemanticInv

LEMMA InitPairs == Init => PairsInv
<1> SUFFICES ASSUME Init PROVE PairsInv
  OBVIOUS
<1>1. \A p \in Procs : proc[p] = Idle
  BY InitCalls
<1>2. Idle \notin CallRec /\ Idle \notin CleanRec
  BY DEF Idle, CallRec, CleanRec, UnionPcs, CleanPcs
<1>3. analyzed = {} /\ rows = [x \in Artifacts |-> {}]
  BY DEF Init
<1>4. CleanupsInv
  BY <1>1, <1>2 DEF CleanupsInv
<1>5. \A x, y, k : ~Passed(x, k, y) /\ ~Stored(x, k)
  BY <1>1, <1>2, <1>3 DEF Passed, Stored, Analyzing, AnalysisOf
<1>6. RowsInv /\ NormalizedInv /\ SemanticInv
  BY <1>3, <1>5 DEF RowsInv, NormalizedInv, SemanticInv
<1> QED
  BY <1>4, <1>6, InitTables DEF PairsInv

LEMMA PairsStep == PairsInv /\ [Next]_vars => PairsInv'
<1> SUFFICES ASSUME PairsInv, [Next]_vars PROVE PairsInv'
  OBVIOUS
<1>0. TablesInv /\ CleanupsInv /\ RowsInv /\ NormalizedInv /\ SemanticInv /\ GroupsTypeOK /\ CallsInv
  BY DEF PairsInv, TablesInv
<1>1. TablesInv'
  BY <1>0, TablesStep
<1>2. CASE Next
  <2>1. PICK p \in Procs : Happens(p)
    BY <1>0, <1>2, NextTaken
  <2> QED
    BY <1>0, <1>1, <2>1, RowsKept, PairsKept DEF PairsInv
<1>3. CASE UNCHANGED vars
  <2>1. UNCHANGED <<rows, edges, proc, analyzed, spoiled>>
    BY <1>3 DEF vars, tables, history
  <2>2. \A x, y, k : (Passed(x, k, y)' <=> Passed(x, k, y)) /\ (Stored(x, k)' <=> Stored(x, k))
    BY <2>1 DEF Passed, Stored, Analyzing
  <2>3. \A x, y : Will(x, y)' <=> Will(x, y)
    BY <2>1 DEF Will, Analyzing
  <2>4. CleanupsInv' /\ RowsInv'
    BY <1>0, <2>1, <2>2 DEF CleanupsInv, RowsInv, Analyzing
  <2>5. NormalizedInv' /\ SemanticInv'
    BY <1>0, <2>1, <2>2, <2>3 DEF NormalizedInv, SemanticInv
  <2> QED
    BY <1>1, <2>4, <2>5 DEF PairsInv
<1> QED
  BY <1>2, <1>3

\* analyze_artifact, backfill: however many analyses of two artifacts overlap, be
\* they first analyses or repeated ones that delete their index rows first, once
\* none is in flight a pair with a common normalized hash, or with strong semantic
\* coverage and a common band, has its edge, as long as neither of the two shares
\* bands with more than FUNC_CANDIDATE_CAP artifacts.
THEOREM PairsSafe == Spec => []PairsLinked
<1>1. PairsInv => PairsLinked
  <2> SUFFICES ASSUME PairsInv, NEW x \in Artifacts, NEW y \in Artifacts, x # y, Settled(x), Settled(y)
               PROVE  /\ {x, y} \in Related["normalized"] => <<{x, y}, "normalized_equivalent">> \in edges
                      /\ {x, y} \in ScoredPairs =>
                            <<{x, y}, "semantic_variant_strong">> \in edges
    BY DEF PairsLinked, ScoredPairs
  <2>1. x \notin spoiled /\ y \notin spoiled
    BY DEF Settled
  <2>2. Passed(x, 4, y) /\ Passed(y, 4, x) /\ Passed(x, 10, y) /\ Passed(y, 10, x)
    BY DEF Settled, Passed
  <2>3. Idle \notin CallRec
    BY DEF Idle, CallRec, UnionPcs
  <2>4. ~Will(x, y) /\ ~Will(y, x)
    BY <2>3 DEF Settled, Will, Analyzing, AnalysisOf
  <2> QED
    BY <2>1, <2>2, <2>4 DEF PairsInv, NormalizedInv, SemanticInv
<1>2. Spec => []PairsInv
  BY InitPairs, PairsStep, PTL DEF Spec
<1> QED
  BY <1>1, <1>2, PTL

(***************************************************************************)
(* The walk of a neighborhood: over the admitted edges, to the depth d,    *)
(* with at most m nodes and n edges                                        *)
(***************************************************************************)
EdgeRec == [src : Nat, dst : Nat, edge_type : Nat, score : Int]
Waits(w, a) == \E i \in 1..Len(w.frontier) : w.frontier[i] = a
\* A node has been left out: no more are taken.
Shut(w, m) == w.truncated /\ Cardinality(DOMAIN w.node) >= m

WalkTypes(w, W, d) ==
    /\ w = [frontier |-> w.frontier, at |-> w.at, pending |-> w.pending, node |-> w.node,
            edges |-> w.edges, seen |-> w.seen, truncated |-> w.truncated, done |-> w.done]
    /\ w.frontier \in Seq(DOMAIN w.node)
    /\ w.node \in [DOMAIN w.node -> 0..d] /\ DOMAIN w.node \subseteq NodesOf(W)
    /\ w.at \in DOMAIN w.node
    /\ w.pending \subseteq Near(W, w.at)
    /\ w.edges \subseteq w.seen /\ w.seen \subseteq W
    /\ w.truncated \in BOOLEAN /\ w.done \in BOOLEAN
    /\ w.pending # {} => w.node[w.at] < d
    /\ w.done => w.pending = {} /\ (w.frontier = <<>> \/ w.truncated)

\* The frontier is in the order of depth and has at most two depths, and what has
\* left it is no deeper than the node it is at.
InOrder(w) ==
    /\ \A i, j \in 1..Len(w.frontier) : i < j => w.node[w.frontier[i]] <= w.node[w.frontier[j]]
    /\ \A i \in 1..Len(w.frontier) :
         w.node[w.at] <= w.node[w.frontier[i]] /\ w.node[w.frontier[i]] <= w.node[w.at] + 1
    /\ \A a \in DOMAIN w.node : Waits(w, a) \/ w.node[a] <= w.node[w.at]

\* A node's depth is between its distances over W and over K, and up to the depth
\* the walk is at all nodes over K are there, unless it is shut.
Distances(w, W, K, m) ==
    /\ \A a \in DOMAIN w.node :
         a \in Within(W, w.node[a]) /\ (w.node[a] > 0 => a \notin Within(K, w.node[a] - 1))
    /\ Shut(w, m) \/ Within(K, w.node[w.at]) \subseteq DOMAIN w.node

\* What has left the frontier has been expanded: its edges of K are seen, and their
\* other ends are there.
Expanded(w, K, d, m) ==
    \A a \in DOMAIN w.node : ~Waits(w, a) /\ w.node[a] < d =>
        \A e \in Near(K, a) : \/ a = w.at /\ e \in w.pending
                              \/ e \in w.seen /\ (Shut(w, m) \/ Other(e, a) \in DOMAIN w.node)
Answered(w, W, K, d) ==
    /\ \A e \in w.seen \cap K : w.truncated \/ e \in w.edges
    /\ \A e \in w.edges : \E a \in DOMAIN w.node : e \in Near(W, a) /\ w.node[a] < d
    /\ \A e, f \in w.edges : Key(e) = Key(f) => e = f
Limited(w, m, n) == Cardinality(DOMAIN w.node) <= m /\ Cardinality(w.edges) <= n

WalkInv(w, W, K, d, m, n) ==
    /\ WalkTypes(w, W, d) /\ InOrder(w) /\ Distances(w, W, K, m)
    /\ Expanded(w, K, d, m) /\ Answered(w, W, K, d) /\ Limited(w, m, n)
LimitsInv(W, K, d, m, n) ==
    /\ IsFiniteSet(W) /\ W \subseteq EdgeRec /\ K \subseteq W
    /\ \A e \in K, f \in W : Key(e) = Key(f) => e = f
    /\ d \in Nat /\ m \in Nat \ {0} /\ n \in Nat \ {0}
GraphInv ==
    /\ kept \subseteq edge /\ edge \subseteq was /\ IsFiniteSet(was) /\ was \subseteq EdgeRec
    /\ \A e \in kept, f \in was : Key(e) = Key(f) => e = f
NeighborhoodInv ==
    /\ GraphInv
    /\ LimitsInv(LinksOf(was), LinksOf(kept), depth, max_nodes, max_edges)
    /\ WalkInv(walk, LinksOf(was), LinksOf(kept), depth, max_nodes, max_edges)

(***************************************************************************)
(* The nodes within a number of steps                                      *)
(***************************************************************************)
LEMMA OtherEnd ==
    ASSUME NEW A, A \subseteq EdgeRec, NEW a, NEW e \in Near(A, a)
    PROVE  Other(e, a) \in NodesOf(A) /\ Other(e, a) \in Nat
  BY DEF Other, NodesOf, Near, EdgeRec

LEMMA WithinZero ==
    ASSUME NEW A
    PROVE  Within(A, 0) = {Seed}
<1> DEFINE p == [i \in 0..0 |-> Seed]
<1>1. p \in PathsOf(A, 0) /\ p[0] = Seed
  BY DEF PathsOf, NodesOf
<1>2. \A q \in PathsOf(A, 0) : q[0] = Seed
  BY DEF PathsOf
<1> QED
  BY <1>1, <1>2 DEF Within

LEMMA WithinNodes ==
    ASSUME NEW A, NEW k \in Nat
    PROVE  Within(A, k) \subseteq NodesOf(A)
  BY DEF Within, PathsOf

\* A path that stays where it ends.
LEMMA WithinGrows ==
    ASSUME NEW A, NEW j \in Nat, NEW k \in Nat, j <= k
    PROVE  Within(A, j) \subseteq Within(A, k)
<1> SUFFICES ASSUME NEW b \in Within(A, j) PROVE b \in Within(A, k)
  OBVIOUS
<1>1. PICK q \in PathsOf(A, j) : b = q[j]
  BY DEF Within
<1> DEFINE p == [i \in 0..k |-> IF i <= j THEN q[i] ELSE q[j]]
<1>2. q \in [0..j -> NodesOf(A)] /\ q[0] = Seed /\ \A i \in 1..j : StepOf(A, q[i - 1], q[i])
  BY DEF PathsOf
<1>3. p \in [0..k -> NodesOf(A)] /\ p[0] = Seed /\ p[k] = b
  BY <1>1, <1>2
<1>4. ASSUME NEW i \in 1..k PROVE StepOf(A, p[i - 1], p[i])
  <2>1. CASE i <= j
    <3>1. i \in 1..j /\ p[i - 1] = q[i - 1] /\ p[i] = q[i]
      BY <2>1
    <3> QED
      BY <3>1, <1>2
  <2>2. CASE i > j
    <3>1. p[i - 1] = q[j] /\ p[i] = q[j]
      BY <2>2
    <3> QED
      BY <3>1 DEF StepOf
  <2> QED
    BY <2>1, <2>2
<1>5. p \in PathsOf(A, k)
  BY <1>3, <1>4 DEF PathsOf
<1> QED
  BY <1>3, <1>5 DEF Within

LEMMA WithinStep ==
    ASSUME NEW A, A \subseteq EdgeRec, NEW k \in Nat, NEW a \in Within(A, k), NEW e \in Near(A, a)
    PROVE  Other(e, a) \in Within(A, k + 1)
<1>1. PICK q \in PathsOf(A, k) : a = q[k]
  BY DEF Within
<1> DEFINE b == Other(e, a)
           p == [i \in 0..(k + 1) |-> IF i <= k THEN q[i] ELSE b]
<1>2. q \in [0..k -> NodesOf(A)] /\ q[0] = Seed /\ \A i \in 1..k : StepOf(A, q[i - 1], q[i])
  BY DEF PathsOf
<1>3. b \in NodesOf(A) /\ StepOf(A, a, b)
  BY OtherEnd DEF StepOf
<1> HIDE DEF b
<1>4. p \in [0..(k + 1) -> NodesOf(A)] /\ p[0] = Seed /\ p[k + 1] = b
  BY <1>1, <1>2, <1>3
<1>5. ASSUME NEW i \in 1..(k + 1) PROVE StepOf(A, p[i - 1], p[i])
  <2>1. CASE i <= k
    <3>1. i \in 1..k /\ p[i - 1] = q[i - 1] /\ p[i] = q[i]
      BY <2>1
    <3> QED
      BY <3>1, <1>2
  <2>2. CASE i = k + 1
    <3>1. p[i - 1] = a /\ p[i] = b
      BY <2>2, <1>1
    <3> QED
      BY <3>1, <1>3
  <2> QED
    BY <2>1, <2>2
<1>6. p \in PathsOf(A, k + 1)
  BY <1>4, <1>5 DEF PathsOf
<1> QED
  BY <1>4, <1>6 DEF Within, b

LEMMA WithinBack ==
    ASSUME NEW A, NEW k \in Nat, NEW b \in Within(A, k + 1)
    PROVE  b \in Within(A, k) \/ \E a \in Within(A, k) : \E e \in Near(A, a) : b = Other(e, a)
<1>1. PICK q \in PathsOf(A, k + 1) : b = q[k + 1]
  BY DEF Within
<1> DEFINE p == [i \in 0..k |-> q[i]]
<1>2. q \in [0..(k + 1) -> NodesOf(A)] /\ q[0] = Seed /\ \A i \in 1..(k + 1) : StepOf(A, q[i - 1], q[i])
  BY DEF PathsOf
<1>3. p \in [0..k -> NodesOf(A)] /\ p[0] = Seed /\ p[k] = q[k]
  BY <1>2
<1>4. ASSUME NEW i \in 1..k PROVE StepOf(A, p[i - 1], p[i])
  <2>1. i \in 1..(k + 1) /\ p[i - 1] = q[i - 1] /\ p[i] = q[i]
    OBVIOUS
  <2> QED
    BY <2>1, <1>2
<1>5. q[k] \in Within(A, k)
  <2>1. p \in PathsOf(A, k)
    BY <1>3, <1>4 DEF PathsOf
  <2> QED
    BY <2>1, <1>3 DEF Within
<1>6. StepOf(A, q[k], q[k + 1])
  <2>1. k + 1 \in 1..(k + 1) /\ (k + 1) - 1 = k
    OBVIOUS
  <2> QED
    BY <1>2, <2>1
<1> QED
  BY <1>1, <1>5, <1>6 DEF StepOf

\* More edges, more paths.
LEMMA WithinMore ==
    ASSUME NEW A, NEW B, A \subseteq B, NEW k
    PROVE  Within(A, k) \subseteq Within(B, k)
<1>1. NodesOf(A) \subseteq NodesOf(B)
  BY DEF NodesOf
<1>2. \A x, y : StepOf(A, x, y) => StepOf(B, x, y)
  BY DEF StepOf, Near
<1>3. PathsOf(A, k) \subseteq PathsOf(B, k)
  BY <1>1, <1>2 DEF PathsOf
<1> QED
  BY <1>3 DEF Within

LEMMA NodesFinite ==
    ASSUME NEW A, IsFiniteSet(A)
    PROVE  IsFiniteSet(NodesOf(A))
<1> DEFINE S == {e.src : e \in A}
           T == {e.dst : e \in A}
           f == [e \in A |-> e.src]
           g == [e \in A |-> e.dst]
<1>0. f \in Surjection(A, S) /\ g \in Surjection(A, T)
  BY DEF Surjection
<1>1. IsFiniteSet(S) /\ IsFiniteSet(T)
  BY ONLY <1>0, IsFiniteSet(A), FS_Surjection
<1>2. IsFiniteSet({Seed} \cup (S \cup T))
  BY <1>1, FS_Union, FS_Singleton
<1>3. NodesOf(A) = {Seed} \cup (S \cup T)
  BY DEF NodesOf
<1> QED
  BY <1>2, <1>3

(***************************************************************************)
(* Visit                                                                   *)
(***************************************************************************)
LEMMA VisitEnds ==
    ASSUME NEW W, NEW K, NEW d, NEW m, NEW n, NEW w, NEW w2,
           WalkInv(w, W, K, d, m, n), w.pending = {}, w.frontier = <<>> \/ w.truncated,
           w2 = [w EXCEPT !.done = TRUE]
    PROVE  WalkInv(w2, W, K, d, m, n)
<1>0. WalkTypes(w, W, d)
  BY DEF WalkInv
<1>1. /\ w2 = [frontier |-> w.frontier, at |-> w.at, pending |-> w.pending, node |-> w.node,
               edges |-> w.edges, seen |-> w.seen, truncated |-> w.truncated, done |-> TRUE]
  BY <1>0 DEF WalkTypes
<1>2. /\ w2.frontier = w.frontier /\ w2.at = w.at /\ w2.pending = w.pending /\ w2.node = w.node
      /\ w2.edges = w.edges /\ w2.seen = w.seen /\ w2.truncated = w.truncated /\ w2.done = TRUE
  BY <1>1
<1>3. WalkTypes(w2, W, d)
  BY <1>0, <1>1, <1>2 DEF WalkTypes
<1>4. InOrder(w2)
  BY <1>2 DEF WalkInv, InOrder, Waits
<1>5. \A x : Waits(w2, x) <=> Waits(w, x)
  BY <1>2 DEF Waits
<1>6. Shut(w2, m) <=> Shut(w, m)
  BY <1>2 DEF Shut
<1>7. Distances(w2, W, K, m) /\ Expanded(w2, K, d, m)
  BY <1>2, <1>5, <1>6 DEF WalkInv, Distances, Expanded
<1>8. Answered(w2, W, K, d) /\ Limited(w2, m, n)
  BY <1>2 DEF WalkInv, Answered, Limited
<1> QED
  BY <1>3, <1>4, <1>7, <1>8 DEF WalkInv

\* Nothing that a walk had at a depth is nearer.
LEMMA DepthOf ==
    ASSUME NEW W, NEW K, NEW d \in Nat, NEW m, NEW w, WalkTypes(w, W, d), Distances(w, W, K, m),
           NEW k \in Nat, NEW x \in DOMAIN w.node, x \in Within(K, k)
    PROVE  w.node[x] \in 0..d /\ w.node[x] <= k
<1>1. w.node[x] \in 0..d
  BY DEF WalkTypes
<1>2. CASE w.node[x] > k
  <2> DEFINE j == w.node[x] - 1
  <2>1. j \in Nat /\ k <= j
    BY <1>1, <1>2
  <2>2. Within(K, k) \subseteq Within(K, j)
    BY ONLY <2>1, k \in Nat, WithinGrows
  <2>3. x \notin Within(K, j)
    BY <1>1, <1>2 DEF Distances
  <2> QED
    BY <2>2, <2>3
<1> QED
  BY <1>1, <1>2

\* All of the next depth are there when the frontier comes to it.
LEMMA NextDepth ==
    ASSUME NEW W, NEW K, NEW d \in Nat, NEW m, NEW w, NEW k \in Nat,
           WalkTypes(w, W, d), Distances(w, W, K, m), Expanded(w, K, d, m),
           w.pending = {}, ~Shut(w, m), k < d, Within(K, k) \subseteq DOMAIN w.node,
           \A x \in DOMAIN w.node : w.node[x] <= k => ~Waits(w, x)
    PROVE  Within(K, k + 1) \subseteq DOMAIN w.node
<1> SUFFICES ASSUME NEW b \in Within(K, k + 1), b \notin Within(K, k) PROVE b \in DOMAIN w.node
  OBVIOUS
<1>1. PICK x \in Within(K, k) : \E e \in Near(K, x) : b = Other(e, x)
  BY WithinBack
<1>2. PICK e \in Near(K, x) : b = Other(e, x)
  BY <1>1
<1>3. x \in DOMAIN w.node
  OBVIOUS
<1>4. w.node[x] \in 0..d /\ w.node[x] <= k
  BY <1>3, DepthOf
<1>5. ~Waits(w, x) /\ w.node[x] < d
  BY <1>3, <1>4
<1> QED
  BY <1>2, <1>3, <1>5 DEF Expanded

LEMMA HeadAndTail ==
    ASSUME NEW S, NEW F \in Seq(S), F # <<>>
    PROVE  /\ Len(F) \in Nat \ {0} /\ Head(F) = F[1] /\ F[1] \in S
           /\ Tail(F) \in Seq(S) /\ Len(Tail(F)) = Len(F) - 1
           /\ \A i \in 1..Len(Tail(F)) : Tail(F)[i] = F[i + 1] /\ i + 1 \in 1..Len(F)
           /\ \A i \in 1..Len(F) : i = 1 \/ (i - 1 \in 1..Len(Tail(F)) /\ F[i] = Tail(F)[i - 1])
<1>1. Len(F) \in Nat \ {0} /\ 1 \in 1..Len(F)
  OBVIOUS
<1>2. Head(F) = F[1] /\ F[1] \in S
  BY <1>1
<1>3. Tail(F) \in Seq(S) /\ Len(Tail(F)) = Len(F) - 1
  OBVIOUS
<1>4. \A i \in 1..Len(Tail(F)) : Tail(F)[i] = F[i + 1] /\ i + 1 \in 1..Len(F)
  BY <1>1, <1>3
<1>5. ASSUME NEW i \in 1..Len(F), i # 1
      PROVE  i - 1 \in 1..Len(Tail(F)) /\ F[i] = Tail(F)[i - 1]
  <2>1. i - 1 \in 1..Len(Tail(F)) /\ (i - 1) + 1 = i
    BY <1>1, <1>3, <1>5
  <2> QED
    BY <2>1, <1>4
<1> QED
  BY <1>1, <1>2, <1>3, <1>4, <1>5

LEMMA VisitNext ==
    ASSUME NEW W, NEW K, NEW L, K \subseteq L, L \subseteq W, NEW d \in Nat, NEW m, NEW n, NEW w, NEW w2, NEW a, NEW P,
           WalkInv(w, W, K, d, m, n), ~w.done, w.pending = {}, w.frontier # <<>>,
           a = Head(w.frontier), P = (IF w.node[a] >= d THEN {} ELSE Near(L, a)),
           w2 = [w EXCEPT !.frontier = Tail(w.frontier), !.at = a, !.pending = P]
    PROVE  WalkInv(w2, W, K, d, m, n)
<1>0. /\ WalkTypes(w, W, d) /\ InOrder(w) /\ Distances(w, W, K, m)
      /\ Expanded(w, K, d, m) /\ Answered(w, W, K, d) /\ Limited(w, m, n)
  BY DEF WalkInv
<1>f. w.frontier \in Seq(DOMAIN w.node)
  BY <1>0 DEF WalkTypes
<1> DEFINE F == w.frontier
           G == Tail(w.frontier)
           D == DOMAIN w.node
<1>1. /\ w2 = [frontier |-> G, at |-> a, pending |-> P, node |-> w.node,
               edges |-> w.edges, seen |-> w.seen, truncated |-> w.truncated, done |-> w.done]
  BY <1>0 DEF WalkTypes
<1>2. /\ w2.frontier = G /\ w2.at = a /\ w2.pending = P /\ w2.node = w.node
      /\ w2.edges = w.edges /\ w2.seen = w.seen /\ w2.truncated = w.truncated /\ w2.done = w.done
  BY <1>1
<1>3. /\ Len(F) \in Nat \ {0} /\ G \in Seq(D) /\ Len(G) = Len(F) - 1 /\ a \in D /\ a = F[1]
      /\ \A i \in 1..Len(G) : G[i] = F[i + 1] /\ i + 1 \in 1..Len(F)
  BY ONLY <1>f, HeadAndTail, w.frontier # <<>>, a = Head(w.frontier)
<1>4. \A i \in 1..Len(F) : i = 1 \/ (i - 1 \in 1..Len(G) /\ F[i] = G[i - 1])
  BY ONLY <1>f, HeadAndTail, w.frontier # <<>>
<1>g. \A i \in 1..Len(F) : F[i] \in D
  BY <1>f
<1> HIDE DEF F, G
<1>5. ASSUME NEW x PROVE Waits(w, x) <=> x = a \/ Waits(w2, x)
  <2>1. 1 \in 1..Len(F)
    BY <1>3
  <2>2. Waits(w, x) <=> \E i \in 1..Len(F) : F[i] = x
    BY DEF Waits, F
  <2>3. Waits(w2, x) <=> \E i \in 1..Len(G) : G[i] = x
    BY <1>2 DEF Waits
  <2> QED
    BY <1>3, <1>4, <2>1, <2>2, <2>3
<1>6. Shut(w2, m) <=> Shut(w, m)
  BY <1>2 DEF Shut
<1>7. \A x \in D : w.node[x] \in 0..d /\ w.node[x] \in Nat /\ w.node[x] <= d
  BY <1>0 DEF WalkTypes
<1>8. WalkTypes(w2, W, d)
  <2>1. P \subseteq Near(W, a) /\ (P # {} => w.node[a] < d)
    BY <1>3, <1>7 DEF Near
  <2> QED
    BY <1>0, <1>1, <1>2, <1>3, <2>1 DEF WalkTypes
<1>9. w.at \in D /\ w.node[w.at] <= w.node[a] /\ w.node[a] <= w.node[w.at] + 1
  <2>1. 1 \in 1..Len(F) /\ F[1] = a
    BY <1>3
  <2> QED
    BY <1>0, <2>1 DEF WalkTypes, InOrder, F
<1>10. \A i \in 1..Len(F) : w.node[a] <= w.node[F[i]]
  <2> SUFFICES ASSUME NEW i \in 1..Len(F) PROVE w.node[a] <= w.node[F[i]]
    OBVIOUS
  <2>1. CASE i = 1
    BY <2>1, <1>3, <1>7
  <2>2. CASE 1 < i
    <3>1. 1 \in 1..Len(F)
      BY <1>3
    <3> QED
      BY <1>0, <1>3, <2>2, <3>1 DEF InOrder, F
  <2> QED
    BY <2>1, <2>2
<1>11. InOrder(w2)
  <2>1. ASSUME NEW i \in 1..Len(G), NEW j \in 1..Len(G), i < j
        PROVE  w.node[G[i]] <= w.node[G[j]]
    <3>1. i + 1 \in 1..Len(F) /\ j + 1 \in 1..Len(F) /\ i + 1 < j + 1
      BY <1>3, <2>1
    <3>2. w.node[F[i + 1]] <= w.node[F[j + 1]]
      BY <1>0, <3>1 DEF InOrder, F
    <3> QED
      BY <3>2, <1>3
  <2>2. ASSUME NEW i \in 1..Len(G)
        PROVE  w.node[a] <= w.node[G[i]] /\ w.node[G[i]] <= w.node[a] + 1
    <3>1. G[i] = F[i + 1] /\ i + 1 \in 1..Len(F) /\ F[i + 1] \in D
      BY <1>3, <1>g
    <3>2. w.node[F[i + 1]] <= w.node[w.at] + 1
      BY <1>0, <3>1 DEF InOrder, F
    <3>3. w.node[a] <= w.node[F[i + 1]]
      BY <1>10, <3>1
    <3>4. w.node[a] \in Nat /\ w.node[F[i + 1]] \in Nat /\ w.node[w.at] \in Nat
      BY <1>3, <1>7, <1>9, <3>1
    <3> QED
      BY <1>9, <3>1, <3>2, <3>3, <3>4
  <2>3. ASSUME NEW x \in D PROVE Waits(w2, x) \/ w.node[x] <= w.node[a]
    <3>1. CASE x = a
      BY <3>1, <1>7
    <3>2. CASE x # a /\ ~Waits(w2, x)
      <4>1. w.node[x] <= w.node[w.at]
        BY <1>0, <1>5, <3>2 DEF InOrder
      <4> QED
        BY <4>1, <1>3, <1>7, <1>9
    <3> QED
      BY <3>1, <3>2
  <2> QED
    BY <1>2, <2>1, <2>2, <2>3 DEF InOrder
<1>12. Distances(w2, W, K, m)
  <2>1. ASSUME ~Shut(w, m) PROVE Within(K, w.node[a]) \subseteq D
    <3>1. Within(K, w.node[w.at]) \subseteq D
      BY <1>0, <2>1 DEF Distances
    <3>2. CASE w.node[a] = w.node[w.at]
      BY <3>1, <3>2
    <3>3. CASE w.node[a] # w.node[w.at]
      <4> DEFINE k == w.node[w.at]
      <4>1. k \in Nat /\ w.node[a] = k + 1 /\ k < d
        BY <1>3, <1>7, <1>9, <3>3
      <4>2. ASSUME NEW x \in D, w.node[x] <= k, Waits(w, x) PROVE FALSE
        <5>1. PICK i \in 1..Len(F) : F[i] = x
          BY <4>2 DEF Waits, F
        <5>2. w.node[a] <= w.node[x]
          BY <5>1, <1>10
        <5> QED
          BY <5>2, <4>1, <4>2, <1>7
      <4>3. Within(K, k) \subseteq DOMAIN w.node
        BY <3>1
      <4> HIDE DEF k
      <4>4. Within(K, k + 1) \subseteq DOMAIN w.node
        BY ONLY <1>0, <2>1, <4>1, <4>2, <4>3, NextDepth, d \in Nat, w.pending = {}
      <4> QED
        BY <4>1, <4>4
    <3> QED
      BY <3>2, <3>3
  <2> QED
    BY <1>0, <1>2, <1>6, <2>1 DEF Distances
<1>13. Expanded(w2, K, d, m)
  <2> SUFFICES ASSUME NEW x \in D, ~Waits(w2, x), w.node[x] < d, NEW e \in Near(K, x)
               PROVE  \/ x = a /\ e \in P
                      \/ e \in w.seen /\ (Shut(w, m) \/ Other(e, x) \in D)
    BY <1>2, <1>6 DEF Expanded
  <2>1. CASE x = a
    BY <2>1, <1>7 DEF Near
  <2>2. CASE x # a
    <3>1. ~Waits(w, x)
      BY <1>5, <2>2
    <3> QED
      BY <1>0, <3>1 DEF Expanded
  <2> QED
    BY <2>1, <2>2
<1>14. Answered(w2, W, K, d) /\ Limited(w2, m, n)
  BY <1>0, <1>2 DEF Answered, Limited
<1> QED
  BY <1>8, <1>11, <1>12, <1>13, <1>14 DEF WalkInv

(***************************************************************************)
(* TakeNeighbor                                                            *)
(***************************************************************************)
LEMMA Appended ==
    ASSUME NEW S, NEW F \in Seq(S), NEW b, NEW G, G = Append(F, b)
    PROVE  /\ G \in Seq(S \cup {b}) /\ Len(F) \in Nat /\ Len(G) = Len(F) + 1
           /\ \A i \in 1..Len(F) : G[i] = F[i] /\ F[i] \in S
           /\ G[Len(F) + 1] = b
<1>1. F \in Seq(S \cup {b})
  OBVIOUS
<1> QED
  BY <1>1

LEMMA OneMore ==
    ASSUME NEW S, NEW x, NEW T, IsFiniteSet(S), T = S \cup {x}
    PROVE  Cardinality(T) \in Nat /\ Cardinality(T) <= Cardinality(S) + 1
<1>1. IsFiniteSet(T) /\ Cardinality(T) = IF x \in S THEN Cardinality(S) ELSE Cardinality(S) + 1
  BY FS_AddElement
<1>2. Cardinality(T) \in Nat /\ Cardinality(S) \in Nat
  BY <1>1, FS_CardinalityType
<1> QED
  BY <1>1, <1>2

\* TakeNeighbor takes w to w2 over the edge e to b, with these new parts.
Takes(w, w2, e, b, grow, E2, N2, F2, T2, m, n) ==
    /\ b = Other(e, w.at)
    /\ grow <=> b \notin DOMAIN w.node /\ Cardinality(DOMAIN w.node) < m
    /\ E2 = (IF (\A f \in w.seen : Key(f) # Key(e)) /\ Cardinality(w.edges) < n THEN w.edges \cup {e} ELSE w.edges)
    /\ N2 = (IF grow THEN [x \in DOMAIN w.node \cup {b} |->
                             IF x = b THEN w.node[w.at] + 1 ELSE w.node[x]]
             ELSE w.node)
    /\ F2 = (IF grow THEN Append(w.frontier, b) ELSE w.frontier)
    /\ T2 = (\/ w.truncated
             \/ (\A f \in w.seen : Key(f) # Key(e)) /\ ~(Cardinality(w.edges) < n)
             \/ b \notin DOMAIN w.node /\ ~(Cardinality(DOMAIN w.node) < m))
    /\ w2 = [w EXCEPT !.pending = w.pending \ {e}, !.seen = w.seen \cup {e}, !.edges = E2,
                      !.node = N2, !.frontier = F2, !.truncated = T2]

LEMMA TakeStep ==
    ASSUME NEW W, NEW K, NEW d, NEW m, NEW n, NEW w, NEW w2, NEW e \in w.pending, NEW b, NEW grow \in BOOLEAN,
           NEW E2, NEW N2, NEW F2, NEW T2,
           LimitsInv(W, K, d, m, n), WalkInv(w, W, K, d, m, n),
           Takes(w, w2, e, b, grow, E2, N2, F2, T2, m, n)
    PROVE  WalkInv(w2, W, K, d, m, n)
<1> USE DEF Takes
<1>0. /\ WalkTypes(w, W, d) /\ InOrder(w) /\ Distances(w, W, K, m)
      /\ Expanded(w, K, d, m) /\ Answered(w, W, K, d) /\ Limited(w, m, n)
  BY DEF WalkInv
<1>l. IsFiniteSet(W) /\ W \subseteq EdgeRec /\ K \subseteq W /\ d \in Nat /\ m \in Nat \ {0} /\ n \in Nat \ {0}
  BY DEF LimitsInv
<1>t. /\ w.frontier \in Seq(DOMAIN w.node)
      /\ w.node \in [DOMAIN w.node -> 0..d] /\ DOMAIN w.node \subseteq NodesOf(W)
      /\ w.at \in DOMAIN w.node /\ w.pending \subseteq Near(W, w.at) /\ w.edges \subseteq w.seen
      /\ w.seen \subseteq W /\ w.edges \subseteq W /\ w.truncated \in BOOLEAN /\ w.done \in BOOLEAN
      /\ w.node[w.at] < d /\ ~w.done
  BY <1>0 DEF WalkTypes
<1> DEFINE F == w.frontier
           N == w.node
           D == DOMAIN w.node
           D2 == DOMAIN N2
           k == w.node[w.at]
           P2 == w.pending \ {e}
           S2 == w.seen \cup {e}
<1>k. k \in Nat /\ k < d /\ \A x \in D : N[x] \in 0..d
  BY <1>t, <1>l
<1>u. \A f \in K, g \in W : Key(f) = Key(g) => f = g
  BY DEF LimitsInv
<1>e. e \in Near(W, w.at) /\ e \in W /\ b \in NodesOf(W)
  BY <1>t, <1>l, OtherEnd DEF Near
<1>1. w2 = [frontier |-> F2, at |-> w.at, pending |-> P2, node |-> N2, edges |-> E2, seen |-> S2,
            truncated |-> T2, done |-> w.done]
  BY <1>0 DEF WalkTypes
<1>2. /\ w2.frontier = F2 /\ w2.at = w.at /\ w2.pending = P2 /\ w2.node = N2
      /\ w2.edges = E2 /\ w2.seen = S2 /\ w2.truncated = T2 /\ w2.done = w.done
  BY <1>1
<1>3. /\ N2 \in [D2 -> 0..d] /\ D \subseteq D2 /\ D2 = (IF grow THEN D \cup {b} ELSE D)
      /\ \A x \in D : N2[x] = N[x]
      /\ grow => b \notin D /\ N2[b] = k + 1
  <2>1. CASE grow
    <3>1. N2 = [x \in D \cup {b} |-> IF x = b THEN k + 1 ELSE N[x]]
      BY <2>1
    <3>2. \A x \in D \cup {b} : (IF x = b THEN k + 1 ELSE N[x]) \in 0..d
      BY <1>k, <1>l
    <3>3. b \notin D
      BY <2>1
    <3> HIDE DEF D, N, k
    <3>4. D2 = D \cup {b} /\ N2 \in [D2 -> 0..d]
      BY <3>1, <3>2
    <3> QED
      BY <3>1, <3>3, <3>4, <2>1
  <2>2. CASE ~grow
    BY <2>2, <1>t
  <2> QED
    BY <2>1, <2>2
<1>4. /\ Len(F) \in Nat /\ F2 \in Seq(D2) /\ Len(F2) = (IF grow THEN Len(F) + 1 ELSE Len(F))
      /\ \A i \in 1..Len(F) : F2[i] = F[i] /\ F[i] \in D
      /\ grow => F2[Len(F) + 1] = b
  <2>1. CASE grow
    <3>1. F2 = Append(F, b) /\ F \in Seq(D) /\ D2 = D \cup {b}
      BY <2>1, <1>3, <1>t
    <3> QED
      BY ONLY <2>1, <3>1, Appended
  <2>2. CASE ~grow
    BY <2>2, <1>3, <1>t
  <2> QED
    BY <2>1, <2>2
<1>x. IsFiniteSet(D) /\ Cardinality(D) \in Nat /\ IsFiniteSet(w.edges) /\ Cardinality(w.edges) \in Nat
  <2>1. IsFiniteSet(NodesOf(W))
    BY <1>l, NodesFinite
  <2> QED
    BY <2>1, <1>l, <1>t, FS_Subset, FS_CardinalityType
<1>5. Cardinality(D2) <= m /\ Cardinality(D) <= Cardinality(D2) /\ Cardinality(D2) \in Nat
  <2>1. CASE grow
    <3>1. D2 = D \cup {b} /\ b \notin D /\ Cardinality(D) < m
      BY <2>1, <1>3
    <3>2. Cardinality(D \cup {b}) = Cardinality(D) + 1
      BY <1>x, <3>1, FS_AddElement
    <3> QED
      BY <3>1, <3>2, <1>x, <1>l
  <2>2. CASE ~grow
    <3>1. D2 = D
      BY <2>2, <1>3
    <3> QED
      BY <3>1, <1>x, <1>0 DEF Limited
  <2> QED
    BY <2>1, <2>2
<1>6. E2 \subseteq W /\ E2 \subseteq w.seen \cup {e} /\ w.edges \subseteq E2 /\ E2 \subseteq w.edges \cup {e} /\ Cardinality(E2) <= n
  <2>1. CASE (\A f \in w.seen : Key(f) # Key(e)) /\ Cardinality(w.edges) < n
    <3>1. E2 = w.edges \cup {e}
      BY <2>1
    <3>2. Cardinality(E2) \in Nat /\ Cardinality(E2) <= Cardinality(w.edges) + 1
      BY ONLY <3>1, <1>x, OneMore
    <3> QED
      BY <2>1, <3>1, <3>2, <1>x, <1>l, <1>t, <1>e
  <2>2. CASE ~((\A f \in w.seen : Key(f) # Key(e)) /\ Cardinality(w.edges) < n)
    <3>1. E2 = w.edges
      BY <2>2
    <3> QED
      BY <3>1, <1>t, <1>0 DEF Limited
  <2> QED
    BY <2>1, <2>2
<1>7. /\ T2 \in BOOLEAN /\ (w.truncated => T2)
      /\ b \notin D2 => T2 /\ Cardinality(D2) >= m
      /\ (\E f \in w.seen : Key(f) = Key(e)) \/ T2 \/ e \in E2
  <2>1. T2 \in BOOLEAN /\ (w.truncated => T2)
    BY <1>t
  <2>2. ASSUME b \notin D2 PROVE T2 /\ Cardinality(D2) >= m
    <3>1. b \notin D /\ ~grow /\ D2 = D
      BY <2>2, <1>3
    <3>2. ~(Cardinality(D) < m)
      BY <3>1
    <3> QED
      BY <3>1, <3>2, <1>x, <1>l
  <2>3. (\E f \in w.seen : Key(f) = Key(e)) \/ T2 \/ e \in E2
    BY <1>x, <1>l
  <2> QED
    BY <2>1, <2>2, <2>3
<1>8. (Shut(w, m) => Shut(w2, m)) /\ (b \in D2 \/ Shut(w2, m))
  BY <1>2, <1>5, <1>7, <1>x, <1>l DEF Shut
<1>g. grow => ~Shut(w, m)
  BY <1>x, <1>l DEF Shut
<1>b. k + 1 \in Nat /\ b \in Within(W, k + 1)
  <2>1. w.at \in Within(W, k)
    BY <1>0, <1>t DEF Distances
  <2> HIDE DEF k
  <2> QED
    BY ONLY <2>1, <1>k, <1>e, <1>l, WithinStep, Takes(w, w2, e, b, grow, E2, N2, F2, T2, m, n)
<1> HIDE DEF F, N, D, D2, P2, S2
<1>9. ASSUME NEW x PROVE Waits(w2, x) <=> Waits(w, x) \/ (grow /\ x = b)
  <2>1. Waits(w, x) <=> \E i \in 1..Len(F) : F[i] = x
    BY DEF Waits, F
  <2>2. Waits(w2, x) <=> \E i \in 1..Len(F2) : F2[i] = x
    BY <1>2 DEF Waits
  <2>3. CASE grow
    <3>1. \A i \in 1..Len(F2) : i \in 1..Len(F) \/ i = Len(F) + 1
      BY <1>4, <2>3
    <3>2. Len(F) + 1 \in 1..Len(F2) /\ \A i \in 1..Len(F) : i \in 1..Len(F2)
      BY <1>4, <2>3
    <3> QED
      BY <1>4, <2>1, <2>2, <2>3, <3>1, <3>2
  <2>4. CASE ~grow
    BY <1>4, <2>1, <2>2, <2>4
  <2> QED
    BY <2>3, <2>4
<1>10. WalkTypes(w2, W, d)
  <2>1. P2 \subseteq Near(W, w.at) /\ S2 \subseteq W /\ E2 \subseteq S2
    BY <1>t, <1>e, <1>6 DEF P2, S2
  <2>2. D2 \subseteq NodesOf(W) /\ w.at \in D2 /\ N2[w.at] < d
    BY <1>3, <1>t, <1>e, <1>k DEF D, N
  <2> QED
    BY <1>1, <1>2, <1>3, <1>4, <1>6, <1>7, <1>t, <2>1, <2>2 DEF WalkTypes, D2
<1>11. InOrder(w2)
  <2>a. w.at \in D /\ N2[w.at] = k
    BY <1>3, <1>t DEF D, N
  <2>d. \A x \in D : N[x] \in Nat /\ N2[x] = N[x]
    BY <1>3, <1>k, <1>l DEF N
  <2>o. /\ \A i, j \in 1..Len(F) : i < j => N[F[i]] <= N[F[j]]
        /\ \A i \in 1..Len(F) : k <= N[F[i]] /\ N[F[i]] <= k + 1
        /\ \A x \in D : Waits(w, x) \/ N[x] <= k
    BY <1>0 DEF InOrder, F, N, D
  <2> HIDE DEF k
  <2>1. ASSUME NEW i \in 1..Len(F2)
        PROVE  k <= N2[F2[i]] /\ N2[F2[i]] <= k + 1
    <3>1. CASE i \in 1..Len(F)
      <4>1. F2[i] = F[i] /\ F[i] \in D
        BY <3>1, <1>4
      <4> QED
        BY <4>1, <3>1, <2>d, <2>o
    <3>2. CASE i \notin 1..Len(F)
      <4>1. grow /\ i = Len(F) + 1
        BY <3>2, <1>4
      <4> QED
        BY <4>1, <1>3, <1>4, <1>k
    <3> QED
      BY <3>1, <3>2
  <2>2. ASSUME NEW i \in 1..Len(F2), NEW j \in 1..Len(F2), i < j
        PROVE  N2[F2[i]] <= N2[F2[j]]
    <3>0. i \in 1..Len(F)
      BY <1>4, <2>2
    <3>i. F2[i] = F[i] /\ F[i] \in D /\ N[F[i]] \in Nat /\ N2[F[i]] = N[F[i]]
      BY <3>0, <1>4, <2>d
    <3>1. CASE j \in 1..Len(F)
      <4>1. F2[j] = F[j] /\ F[j] \in D /\ N2[F[j]] = N[F[j]]
        BY <3>1, <1>4, <2>d
      <4> QED
        BY <4>1, <3>0, <3>i, <3>1, <2>2, <2>o
    <3>2. CASE j \notin 1..Len(F)
      <4>1. grow /\ j = Len(F) + 1
        BY <3>2, <1>4
      <4>2. N2[F2[j]] = k + 1
        BY <4>1, <1>3, <1>4
      <4> QED
        BY <4>2, <3>0, <3>i, <2>o
    <3> QED
      BY <3>1, <3>2
  <2>3. ASSUME NEW x \in D2 PROVE Waits(w2, x) \/ N2[x] <= k
    <3>1. CASE x \in D
      BY <3>1, <1>9, <2>d, <2>o
    <3>2. CASE x \notin D
      BY <3>2, <1>3, <1>9
    <3> QED
      BY <3>1, <3>2
  <2> QED
    BY <1>2, <2>1, <2>2, <2>3, <2>a DEF InOrder, D2
<1>12. Distances(w2, W, K, m)
  <2>1. ASSUME NEW x \in D2
        PROVE  x \in Within(W, N2[x]) /\ (N2[x] > 0 => x \notin Within(K, N2[x] - 1))
    <3>1. CASE x \in D
      BY <3>1, <1>0, <1>3 DEF Distances, D, N
    <3>2. CASE x \notin D
      <4>1. grow /\ x = b /\ N2[x] = k + 1 /\ b \notin D
        BY <3>2, <1>3
      <4>2. Within(K, k) \subseteq D
        BY <4>1, <1>0, <1>g DEF Distances, D
      <4>3. (k + 1) - 1 = k
        BY <1>k
      <4> QED
        BY <4>1, <4>2, <4>3, <1>b
    <3> QED
      BY <3>1, <3>2
  <2>2. Shut(w2, m) \/ Within(K, N2[w.at]) \subseteq D2
    BY <1>0, <1>3, <1>8, <1>t DEF Distances, D, N
  <2> QED
    BY <1>2, <2>1, <2>2 DEF Distances, D2
<1>13. Expanded(w2, K, d, m)
  <2> SUFFICES ASSUME NEW x \in D2, ~Waits(w2, x), N2[x] < d, NEW f \in Near(K, x)
               PROVE  \/ x = w.at /\ f \in P2
                      \/ f \in S2 /\ (Shut(w2, m) \/ Other(f, x) \in D2)
    BY <1>2 DEF Expanded, D2
  <2>1. x \in D /\ ~Waits(w, x) /\ N[x] < d
    BY <1>3, <1>9
  <2>2. CASE x = w.at /\ f \in w.pending
    BY <2>2, <1>8 DEF P2, S2
  <2>3. CASE f \in w.seen /\ (Shut(w, m) \/ Other(f, x) \in D)
    BY <2>3, <1>3, <1>8 DEF S2
  <2> QED
    BY <2>1, <2>2, <2>3, <1>0 DEF Expanded, D, N
<1>14. Answered(w2, W, K, d)
  <2>0. \A f \in w.seen \cap K : T2 \/ f \in E2
    BY <1>0, <1>6, <1>7 DEF Answered
  <2>1. ASSUME NEW f \in S2 \cap K PROVE T2 \/ f \in E2
    <3>1. CASE f \in w.seen
      BY <2>0, <3>1
    <3>2. CASE f = e
      <4>1. CASE \E g \in w.seen : Key(g) = Key(e)
        <5>1. e \in w.seen
          BY <3>2, <4>1, <1>t, <1>u
        <5> QED
          BY <3>2, <2>0, <5>1
      <4> QED
        BY <3>2, <4>1, <1>7
    <3> QED
      BY <3>1, <3>2 DEF S2
  <2>k. ASSUME NEW f \in E2, NEW g \in E2, Key(f) = Key(g) PROVE f = g
    <3>0. \A x, y \in w.edges : Key(x) = Key(y) => x = y
      BY <1>0 DEF Answered
    <3>1. CASE f \in w.edges /\ g \in w.edges
      BY <3>0, <3>1, <2>k
    <3>2. CASE f = e /\ g = e
      BY <3>2
    <3>3. CASE E2 # w.edges
      <4>1. \A x \in w.edges : Key(x) # Key(e)
        BY <3>3, <1>t
      <4> QED
        BY <4>1, <2>k, <3>1, <3>2, <1>6
    <3> QED
      BY <3>1, <3>2, <3>3, <1>6
  <2>2. ASSUME NEW f \in E2 PROVE \E x \in D2 : f \in Near(W, x) /\ N2[x] < d
    <3>1. CASE f = e
      BY <3>1, <1>3, <1>e, <1>k, <1>t DEF D, N
    <3>2. CASE f \in w.edges
      <4>1. PICK x \in D : f \in Near(W, x) /\ N[x] < d
        BY <3>2, <1>0 DEF Answered, D, N
      <4> QED
        BY <4>1, <1>3
    <3> QED
      BY <3>1, <3>2, <1>6
  <2> QED
    BY <1>2, <2>1, <2>2, <2>k DEF Answered, D2
<1>15. Limited(w2, m, n)
  BY <1>2, <1>5, <1>6 DEF Limited, D2
<1> QED
  BY <1>10, <1>11, <1>12, <1>13, <1>14, <1>15 DEF WalkInv

(***************************************************************************)
(* Pages                                                                   *)
(***************************************************************************)
\* The order of the answer is a strict total order.
LEMMA BeforeOrder ==
    ASSUME NEW e \in EdgeRec, NEW f \in EdgeRec
    PROVE  ~Before(e, e) /\ (e # f => Before(e, f) \/ Before(f, e))
<1>1. /\ e.score \in Int /\ e.edge_type \in Nat /\ e.src \in Nat /\ e.dst \in Nat
      /\ f.score \in Int /\ f.edge_type \in Nat /\ f.src \in Nat /\ f.dst \in Nat
  BY DEF EdgeRec
<1>2. e.score = f.score /\ e.edge_type = f.edge_type /\ e.src = f.src /\ e.dst = f.dst => e = f
  BY DEF EdgeRec
<1> QED
  BY <1>1, <1>2 DEF Before

LEMMA BeforeTransitive ==
    ASSUME NEW e \in EdgeRec, NEW f \in EdgeRec, NEW g \in EdgeRec, Before(e, f), Before(f, g)
    PROVE  Before(e, g)
<1>1. /\ e.score \in Int /\ e.edge_type \in Nat /\ e.src \in Nat /\ e.dst \in Nat
      /\ f.score \in Int /\ f.edge_type \in Nat /\ f.src \in Nat /\ f.dst \in Nat
      /\ g.score \in Int /\ g.edge_type \in Nat /\ g.src \in Nat /\ g.dst \in Nat
  BY DEF EdgeRec
<1> QED
  BY <1>1 DEF Before

\* The positions of n edges are different, and among 1..n.
LEMMA PositionRange ==
    ASSUME IsFiniteSet(walk.edges), walk.edges \subseteq EdgeRec, NEW e \in walk.edges
    PROVE  Position(e) \in 1..Cardinality(walk.edges)
<1> DEFINE X == walk.edges
           S == {f \in X : Before(f, e)}
<1>1. e \notin S
  BY BeforeOrder
<1>2. S \subseteq X /\ S # X
  BY <1>1
<1>3. IsFiniteSet(S) /\ Cardinality(S) <= Cardinality(X) /\ Cardinality(S) # Cardinality(X)
  BY <1>2, FS_Subset
<1>4. Cardinality(S) \in Nat /\ Cardinality(X) \in Nat
  BY <1>3, FS_CardinalityType
<1>5. Position(e) = Cardinality(S) + 1
  BY DEF Position
<1> QED
  BY <1>3, <1>4, <1>5

LEMMA PositionLess ==
    ASSUME IsFiniteSet(walk.edges), walk.edges \subseteq EdgeRec,
           NEW e \in walk.edges, NEW f \in walk.edges, Before(e, f)
    PROVE  Position(e) # Position(f)
<1> DEFINE S == {g \in walk.edges : Before(g, e)}
           T == {g \in walk.edges : Before(g, f)}
<1>1. S \subseteq T
  BY BeforeTransitive
<1>2. e \in T /\ e \notin S
  BY BeforeOrder
<1>3. IsFiniteSet(T)
  BY FS_Subset
<1>4. Cardinality(S) # Cardinality(T)
  BY <1>1, <1>2, <1>3, FS_Subset
<1>5. Cardinality(S) \in Nat /\ Cardinality(T) \in Nat
  BY <1>1, <1>3, FS_Subset, FS_CardinalityType
<1>6. Position(e) = Cardinality(S) + 1 /\ Position(f) = Cardinality(T) + 1
  BY DEF Position
<1> QED
  BY <1>4, <1>5, <1>6

LEMMA SmallerOf ==
    ASSUME NEW a \in Nat, NEW b \in Nat
    PROVE  Min({a, b}) = IF a <= b THEN a ELSE b
<1> DEFINE c == IF a <= b THEN a ELSE b
<1>1. c \in {a, b} /\ \A y \in {a, b} : c <= y
  OBVIOUS
<1>2. \A x \in {a, b} : (\A y \in {a, b} : x <= y) => x = c
  OBVIOUS
<1> HIDE DEF c
<1>3. Min({a, b}) = c
  BY <1>1, <1>2 DEF Min
<1> QED
  BY <1>3 DEF c

LEMMA LargerOf ==
    ASSUME NEW a \in Nat
    PROVE  Max({1, a}) \in Nat \ {0}
<1>1. \E x \in {1, a} : \A y \in {1, a} : x >= y
  OBVIOUS
<1>2. Max({1, a}) \in {1, a} /\ \A y \in {1, a} : Max({1, a}) >= y
  BY <1>1 DEF Max
<1> QED
  BY <1>2

LEMMA PageEnd ==
    ASSUME UsizeMax \in Nat, IsFiniteSet(walk.edges), NEW n, n = Cardinality(walk.edges),
           NEW offset \in 0..UsizeMax, NEW limit \in 0..UsizeMax
    PROVE  /\ n \in Nat /\ page_end(offset, limit) \in Nat /\ page_end(offset, limit) <= n
           /\ offset + limit > UsizeMax => page_end(offset, limit) < offset
           /\ offset + limit <= UsizeMax =>
                page_end(offset, limit) = IF offset + limit <= n THEN offset + limit ELSE n
<1>1. n \in Nat
  BY FS_CardinalityType
<1>0. (IF offset + limit > UsizeMax THEN offset + limit - (UsizeMax + 1) ELSE offset + limit) \in Nat
  OBVIOUS
<1>2. PICK s \in Nat : s = (IF offset + limit > UsizeMax THEN offset + limit - (UsizeMax + 1) ELSE offset + limit)
  BY <1>0, Zenon
<1>3. page_end(offset, limit) = IF s <= n THEN s ELSE n
  <2>1. {IF offset + limit > UsizeMax THEN offset + limit - (UsizeMax + 1) ELSE offset + limit,
         Cardinality(walk.edges)} = {s, n}
    BY <1>2
  <2>2. page_end(offset, limit) = Min({s, n})
    BY <2>1 DEF page_end
  <2>3. Min({s, n}) = IF s <= n THEN s ELSE n
    BY ONLY <1>1, <1>2, SmallerOf
  <2> QED
    BY <2>2, <2>3
<1>4. offset + limit > UsizeMax => s < offset
  BY <1>2
<1> QED
  BY <1>1, <1>2, <1>3, <1>4

\* Positions are told apart, so a slice has no more edges than positions.
LEMMA SliceSize ==
    ASSUME IsFiniteSet(walk.edges), walk.edges \subseteq EdgeRec,
           NEW o \in Nat, NEW limit \in Nat, NEW T,
           T = {e \in walk.edges : o < Position(e) /\ Position(e) <= o + limit}
    PROVE  Cardinality(T) <= limit
<1> DEFINE f == [e \in T |-> Position(e)]
           I == (o + 1)..(o + limit)
<1>0. \A e \in walk.edges : Position(e) \in 1..Cardinality(walk.edges) /\ Cardinality(walk.edges) \in Nat
  BY PositionRange, FS_CardinalityType
<1>1. f \in [T -> I]
  BY <1>0
<1>2. ASSUME NEW e \in T, NEW g \in T, f[e] = f[g] PROVE e = g
  <2>1. e \in walk.edges /\ g \in walk.edges /\ Position(e) = Position(g)
    BY <1>2
  <2>2. e \in EdgeRec /\ g \in EdgeRec
    BY <2>1
  <2>3. CASE Before(e, g)
    BY <2>1, <2>3, PositionLess
  <2>4. CASE Before(g, e)
    BY <2>1, <2>4, PositionLess
  <2> QED
    BY <2>2, <2>3, <2>4, BeforeOrder
<1>3. IsFiniteSet(I) /\ Cardinality(I) = limit
  <2>1. /\ o + 1 \in Int /\ o + limit \in Int
        /\ (IF o + 1 > o + limit THEN 0 ELSE (o + limit) - (o + 1) + 1) = limit
    OBVIOUS
  <2> QED
    BY ONLY <2>1, FS_Interval
<1>4. f \in Injection(T, I)
  <2> HIDE DEF f, I
  <2> QED
    BY <1>1, <1>2 DEF Injection, IsInjective
<1>5. Cardinality(T) <= Cardinality(I)
  <2> HIDE DEF f, I
  <2> QED
    BY ONLY <1>4, <1>3, FS_Injection
<1> QED
  BY <1>3, <1>5

\* A page that is answered is the slice it asks for, and only a sum that wraps panics.
LEMMA PageSlice ==
    ASSUME IsFiniteSet(walk.edges), walk.edges \subseteq EdgeRec, UsizeMax \in Nat,
           NEW offset \in 0..UsizeMax, NEW limit \in 0..UsizeMax, NEW checks \in BOOLEAN,
           NEW page, page = Page(offset, limit, checks)
    PROVE  /\ page.status = "ok" =>
                page.edges = {e \in walk.edges : offset < Position(e) /\ Position(e) <= offset + limit}
           /\ page.status = "panic" => offset + limit > UsizeMax
<1>1. PICK n : n = Cardinality(walk.edges)
  OBVIOUS
<1>2. PICK end : end = page_end(offset, limit)
  OBVIOUS
<1>3. /\ n \in Nat /\ end \in Nat /\ end <= n
      /\ offset + limit > UsizeMax => end < offset
      /\ offset + limit <= UsizeMax => end = IF offset + limit <= n THEN offset + limit ELSE n
  BY <1>1, <1>2, PageEnd
<1>4. \A e \in walk.edges : Position(e) \in 1..n
  BY <1>1, PositionRange
<1> DEFINE slice == {e \in walk.edges : offset < n /\ offset < Position(e) /\ Position(e) <= end}
           asked == {e \in walk.edges : offset < Position(e) /\ Position(e) <= offset + limit}
<1>5. ~(offset < n /\ end < offset) => slice = asked
  <2>1. ASSUME ~(offset < n /\ end < offset), NEW e \in walk.edges
        PROVE  offset < n /\ offset < Position(e) /\ Position(e) <= end
                 <=> offset < Position(e) /\ Position(e) <= offset + limit
    <3>1. PICK p \in 1..n : p = Position(e)
      BY <1>4
    <3>2. offset < n /\ offset < p /\ p <= end <=> offset < p /\ p <= offset + limit
      BY <1>3, <2>1
    <3> QED
      BY <3>1, <3>2
  <2> QED
    BY <2>1
<1>6. offset < n /\ end < offset => offset + limit > UsizeMax
  BY <1>3
<1>7. page = IF (offset + limit > UsizeMax /\ checks) \/ (offset < n /\ end < offset)
             THEN [status |-> "panic", edges |-> {}]
             ELSE IF Cardinality(DOMAIN walk.node) + Cardinality(slice) > MAX_RESPONSE
             THEN [status |-> "bad_request", edges |-> {}]
             ELSE [status |-> "ok", edges |-> slice]
  BY <1>1, <1>2 DEF Page
<1> HIDE DEF slice, asked
<1>8. page.status = "ok" => page.edges = asked
  BY <1>5, <1>7
<1>9. page.status = "panic" => offset + limit > UsizeMax
  BY <1>6, <1>7
<1> QED
  BY <1>8, <1>9 DEF asked

(***************************************************************************)
(* The invariant                                                           *)
(***************************************************************************)
LEMMA LinksIn ==
    ASSUME NEW S, NEW T, S \subseteq T
    PROVE  LinksOf(S) \subseteq LinksOf(T) /\ LinksOf(S) \subseteq S
  BY DEF LinksOf

LEMMA GraphLimits ==
    ASSUME GraphInv, depth \in Nat, max_nodes \in Nat \ {0}, max_edges \in Nat \ {0}
    PROVE  LimitsInv(LinksOf(was), LinksOf(kept), depth, max_nodes, max_edges)
<1>1. kept \subseteq was
  BY DEF GraphInv
<1>2. LinksOf(kept) \subseteq LinksOf(was) /\ LinksOf(was) \subseteq was /\ LinksOf(kept) \subseteq kept
  BY <1>1, LinksIn
<1>3. IsFiniteSet(LinksOf(was))
  BY <1>2, FS_Subset DEF GraphInv
<1> QED
  BY <1>2, <1>3 DEF GraphInv, LimitsInv

LEMMA InitWalk == NeighborhoodInit => NeighborhoodInv
<1> SUFFICES ASSUME NeighborhoodInit PROVE NeighborhoodInv
  OBVIOUS
<1>1. request \in Requested
  BY DEF NeighborhoodInit
<1>2. /\ request.depth \in Nat /\ request.nodes \in Nat /\ request.edges \in Nat
      /\ MAX_DEPTH \in Nat /\ MAX_NODES \in Nat /\ MAX_EDGES \in Nat
  BY <1>1, NeighborhoodAssumption
<1>3. depth \in Nat
  BY <1>2, SmallerOf DEF depth
<1>4. max_nodes \in Nat \ {0} /\ max_edges \in Nat \ {0}
  <2>1. Min({request.nodes, MAX_NODES}) \in Nat /\ Min({request.edges, MAX_EDGES}) \in Nat
    BY <1>2, SmallerOf
  <2> QED
    BY <2>1, LargerOf DEF max_nodes, max_edges
<1>5. GraphInv
  BY NeighborhoodAssumption DEF NeighborhoodInit, EdgeRec, GraphInv
<1>6. LimitsInv(LinksOf(was), LinksOf(kept), depth, max_nodes, max_edges)
  BY <1>3, <1>4, <1>5, GraphLimits
<1> DEFINE N == [a \in {Seed} |-> 0]
           W == LinksOf(was)
           K == LinksOf(kept)
<1>7. walk = [frontier |-> <<Seed>>, at |-> Seed, pending |-> {}, node |-> N,
              edges |-> {}, seen |-> {}, truncated |-> FALSE, done |-> FALSE]
  BY DEF NeighborhoodInit
<1>8. /\ walk.frontier = <<Seed>> /\ walk.at = Seed /\ walk.pending = {} /\ walk.node = N
      /\ walk.edges = {} /\ walk.seen = {} /\ walk.truncated = FALSE /\ walk.done = FALSE
  BY <1>7
<1>9. DOMAIN N = {Seed} /\ N[Seed] = 0 /\ \A a \in {Seed} : N[a] = 0
  OBVIOUS
<1> HIDE DEF N
<1>10. WalkTypes(walk, W, depth)
  <2>1. N \in [DOMAIN N -> 0..depth] /\ <<Seed>> \in Seq(DOMAIN N) /\ DOMAIN N \subseteq NodesOf(W)
    BY <1>3, <1>9 DEF NodesOf, N
  <2> QED
    BY <1>7, <1>8, <1>9, <2>1 DEF WalkTypes
<1>11. \A a : Waits(walk, a) <=> a = Seed
  BY <1>8 DEF Waits
<1>12. InOrder(walk)
  BY <1>8, <1>9, <1>11 DEF InOrder
<1>13. Distances(walk, W, K, max_nodes)
  BY <1>8, <1>9, WithinZero DEF Distances
<1>14. Expanded(walk, K, depth, max_nodes)
  BY <1>8, <1>9, <1>11 DEF Expanded
<1>15. Answered(walk, W, K, depth)
  BY <1>8 DEF Answered
<1>16. Limited(walk, max_nodes, max_edges)
  <2>1. Cardinality({Seed}) = 1 /\ Cardinality({}) = 0
    BY FS_Singleton, FS_EmptySet
  <2>2. max_nodes >= 1 /\ max_edges >= 0
    BY <1>4
  <2> QED
    BY <1>8, <1>9, <2>1, <2>2 DEF Limited
<1> QED
  BY <1>5, <1>6, <1>10, <1>12, <1>13, <1>14, <1>15, <1>16 DEF NeighborhoodInv, WalkInv

LEMMA WalkStep ==
    ASSUME NeighborhoodInv, Visit \/ TakeNeighbor
    PROVE  WalkInv(walk', LinksOf(was), LinksOf(kept), depth, max_nodes, max_edges)
<1> DEFINE W == LinksOf(was)
           K == LinksOf(kept)
           L == LinksOf(edge)
           d == depth
           m == max_nodes
           n == max_edges
<1>0. LimitsInv(W, K, d, m, n) /\ WalkInv(walk, W, K, d, m, n) /\ d \in Nat
  BY DEF NeighborhoodInv, LimitsInv
<1>l. K \subseteq L /\ L \subseteq W
  BY LinksIn DEF NeighborhoodInv, GraphInv
<1> HIDE DEF W, K, L, d, m, n
<1>1. CASE Visit
  <2>0. ~walk.done /\ walk.pending = {}
    BY <1>1 DEF Visit
  <2>1. CASE walk.frontier = <<>> \/ Full(walk)
    <3>1. walk' = [walk EXCEPT !.done = TRUE]
      BY <1>1, <2>1 DEF Visit
    <3>2. walk.frontier = <<>> \/ walk.truncated
      BY <2>1 DEF Full
    <3> QED
      BY <1>0, <2>0, <3>1, <3>2, VisitEnds DEF W, K, d, m, n
  <2>2. CASE ~(walk.frontier = <<>> \/ Full(walk))
    <3>1. PICK a : a = Head(walk.frontier)
      OBVIOUS
    <3>2. PICK P : P = (IF walk.node[a] >= d THEN {} ELSE Near(L, a))
      OBVIOUS
    <3>3. walk' = [walk EXCEPT !.frontier = Tail(walk.frontier), !.at = a, !.pending = P]
      BY <1>1, <2>2, <3>1, <3>2 DEF Visit, load_neighbors, L, d
    <3>4. WalkInv(walk', W, K, d, m, n)
      BY <1>0, <1>l, <2>0, <2>2, <3>1, <3>2, <3>3, VisitNext
    <3> QED
      BY <3>4 DEF W, K, d, m, n
  <2> QED
    BY <2>1, <2>2
<1>2. CASE TakeNeighbor
  <2>1. PICK e \in Firsts(walk.pending) :
         LET b == Other(e, walk.at)
             new == TakesEdge(e)
             room == Cardinality(walk.edges) < max_edges
             unseen == b \notin DOMAIN walk.node
             space == Cardinality(DOMAIN walk.node) < max_nodes
         IN  walk' = [walk EXCEPT
               !.pending = walk.pending \ {e},
               !.seen = walk.seen \cup {e},
               !.edges = IF new /\ room THEN walk.edges \cup {e} ELSE walk.edges,
               !.node = IF unseen /\ space
                        THEN [x \in DOMAIN walk.node \cup {b} |->
                                IF x = b THEN walk.node[walk.at] + 1 ELSE walk.node[x]]
                        ELSE walk.node,
               !.frontier = IF unseen /\ space THEN Append(walk.frontier, b) ELSE walk.frontier,
               !.truncated = walk.truncated \/ Truncates(new /\ ~room, unseen /\ ~space)]
    BY <1>2 DEF TakeNeighbor
  <2>2. e \in walk.pending
    BY DEF Firsts
  <2>3. PICK b : b = Other(e, walk.at)
    OBVIOUS
  <2>4. PICK grow \in BOOLEAN : grow <=> b \notin DOMAIN walk.node /\ Cardinality(DOMAIN walk.node) < m
    OBVIOUS
  <2>5. PICK E2 : E2 = (IF (\A f \in walk.seen : Key(f) # Key(e)) /\ Cardinality(walk.edges) < n
                        THEN walk.edges \cup {e} ELSE walk.edges)
    OBVIOUS
  <2>6. PICK N2 : N2 = (IF grow THEN [x \in DOMAIN walk.node \cup {b} |->
                                        IF x = b THEN walk.node[walk.at] + 1 ELSE walk.node[x]]
                        ELSE walk.node)
    OBVIOUS
  <2>7. PICK F2 : F2 = (IF grow THEN Append(walk.frontier, b) ELSE walk.frontier)
    OBVIOUS
  <2>8. PICK T2 : T2 = (\/ walk.truncated
                        \/ (\A f \in walk.seen : Key(f) # Key(e)) /\ ~(Cardinality(walk.edges) < n)
                        \/ b \notin DOMAIN walk.node /\ ~(Cardinality(DOMAIN walk.node) < m))
    OBVIOUS
  <2>9. walk' = [walk EXCEPT !.pending = walk.pending \ {e}, !.seen = walk.seen \cup {e}, !.edges = E2,
                             !.node = N2, !.frontier = F2, !.truncated = T2]
    BY <2>1, <2>3, <2>4, <2>5, <2>6, <2>7, <2>8 DEF TakesEdge, Truncates, m, n
  <2>10. Takes(walk, walk', e, b, grow, E2, N2, F2, T2, m, n)
    BY <2>3, <2>4, <2>5, <2>6, <2>7, <2>8, <2>9 DEF Takes
  <2>11. WalkInv(walk', W, K, d, m, n)
    BY ONLY <1>0, <2>2, <2>4, <2>10, TakeStep
  <2> QED
    BY <2>11 DEF W, K, d, m, n
<1> QED
  BY <1>1, <1>2

\* More edges there were, and fewer there were all along, ask no more of a walk.
LEMMA GraphStep ==
    ASSUME NEW W, NEW K, NEW V, NEW J, W \subseteq V, J \subseteq K,
           NEW d \in Nat, NEW m, NEW n, NEW w, WalkInv(w, W, K, d, m, n)
    PROVE  WalkInv(w, V, J, d, m, n)
<1>0. /\ WalkTypes(w, W, d) /\ InOrder(w) /\ Distances(w, W, K, m)
      /\ Expanded(w, K, d, m) /\ Answered(w, W, K, d) /\ Limited(w, m, n)
  BY DEF WalkInv
<1>1. NodesOf(W) \subseteq NodesOf(V)
  BY DEF NodesOf
<1>2. \A a : Near(W, a) \subseteq Near(V, a) /\ Near(J, a) \subseteq Near(K, a)
  BY DEF Near
<1>3. \A k : Within(W, k) \subseteq Within(V, k) /\ Within(J, k) \subseteq Within(K, k)
  BY WithinMore
<1>4. WalkTypes(w, V, d)
  BY <1>0, <1>1, <1>2 DEF WalkTypes
<1>5. Distances(w, V, J, m)
  BY <1>0, <1>3 DEF Distances
<1>6. Expanded(w, J, d, m)
  BY <1>0, <1>2 DEF Expanded
<1>7. Answered(w, V, J, d)
  BY <1>0, <1>2 DEF Answered
<1> QED
  BY <1>0, <1>4, <1>5, <1>6, <1>7 DEF WalkInv

LEMMA GraphChanges ==
    ASSUME GraphInv, (\E e \in NewEdges : InsertSimilarityEdge(e)) \/ (\E a : DeleteSimilarityEdges(a))
    PROVE  GraphInv' /\ was \subseteq was' /\ kept' \subseteq kept
<1>1. ASSUME NEW e \in NewEdges, InsertSimilarityEdge(e)
      PROVE  GraphInv' /\ was \subseteq was' /\ kept' \subseteq kept
  <2>1. edge' = edge \cup {e} /\ was' = was \cup {e} /\ kept' = kept /\ \A f \in edge : Key(f) # Key(e)
    BY <1>1 DEF InsertSimilarityEdge
  <2>2. e \in EdgeRec
    BY NeighborhoodAssumption DEF EdgeRec
  <2>3. IsFiniteSet(was')
    BY <2>1, FS_AddElement DEF GraphInv
  <2>4. \A f \in kept, g \in was' : Key(f) = Key(g) => f = g
    BY <2>1 DEF GraphInv
  <2> QED
    BY <2>1, <2>2, <2>3, <2>4 DEF GraphInv
<1>2. ASSUME NEW a, DeleteSimilarityEdges(a)
      PROVE  GraphInv' /\ was \subseteq was' /\ kept' \subseteq kept
  BY <1>2 DEF GraphInv, DeleteSimilarityEdges
<1> QED
  BY <1>1, <1>2

LEMMA NeighborhoodStep == NeighborhoodInv /\ [NeighborhoodNext]_NeighborhoodVars => NeighborhoodInv'
<1> SUFFICES ASSUME NeighborhoodInv, [NeighborhoodNext]_NeighborhoodVars PROVE NeighborhoodInv'
  OBVIOUS
<1>1. request' = request
  BY DEF NeighborhoodNext, Visit, TakeNeighbor, InsertSimilarityEdge, DeleteSimilarityEdges,
         NeighborhoodVars, graph
<1>2. /\ depth' = depth /\ max_nodes' = max_nodes /\ max_edges' = max_edges
      /\ \A S : LinksOf(S)' = {e \in S : Admitted(e)}
  BY <1>1 DEF LinksOf, Admitted, depth, max_nodes, max_edges
<1>n. depth \in Nat /\ max_nodes \in Nat \ {0} /\ max_edges \in Nat \ {0}
  BY DEF NeighborhoodInv, LimitsInv
<1>3. ASSUME GraphInv', WalkInv(walk', LinksOf(was'), LinksOf(kept'), depth, max_nodes, max_edges)
      PROVE  NeighborhoodInv'
  <2>1. LinksOf(was)' = LinksOf(was') /\ LinksOf(kept)' = LinksOf(kept')
    BY <1>1 DEF LinksOf, Admitted
  <2>2. WalkInv(walk, LinksOf(was), LinksOf(kept), depth, max_nodes, max_edges)'
    BY <1>2, <1>3, <2>1
  <2>3. LimitsInv(LinksOf(was), LinksOf(kept), depth, max_nodes, max_edges)'
    <3>1. (GraphInv /\ depth \in Nat /\ max_nodes \in Nat \ {0} /\ max_edges \in Nat \ {0})'
      BY <1>2, <1>3, <1>n
    <3> QED
      BY <3>1, GraphLimits, PTL
  <2> QED
    BY <1>3, <2>2, <2>3 DEF NeighborhoodInv
<1>4. CASE Visit \/ TakeNeighbor
  <2>1. edge' = edge /\ was' = was /\ kept' = kept
    BY <1>4 DEF Visit, TakeNeighbor, graph
  <2>2. GraphInv'
    BY <2>1 DEF NeighborhoodInv, GraphInv
  <2> QED
    BY <1>3, <1>4, <2>1, <2>2, WalkStep
<1>5. CASE (\E e \in NewEdges : InsertSimilarityEdge(e)) \/ (\E a : DeleteSimilarityEdges(a))
  <2>1. walk' = walk
    BY <1>5 DEF InsertSimilarityEdge, DeleteSimilarityEdges
  <2>2. GraphInv' /\ was \subseteq was' /\ kept' \subseteq kept
    BY <1>5, GraphChanges DEF NeighborhoodInv
  <2>3. PICK W, K, V, J : W = LinksOf(was) /\ K = LinksOf(kept) /\ V = LinksOf(was') /\ J = LinksOf(kept')
    OBVIOUS
  <2>4. W \subseteq V /\ J \subseteq K
    BY <2>2, <2>3 DEF LinksOf
  <2>5. WalkInv(walk, W, K, depth, max_nodes, max_edges)
    BY <2>3 DEF NeighborhoodInv
  <2>6. WalkInv(walk, V, J, depth, max_nodes, max_edges)
    BY <2>4, <2>5, <1>n, GraphStep
  <2> QED
    BY <1>3, <2>1, <2>2, <2>3, <2>6
<1>6. CASE UNCHANGED NeighborhoodVars
  <2>1. edge' = edge /\ was' = was /\ kept' = kept /\ walk' = walk
    BY <1>6 DEF NeighborhoodVars, graph
  <2>2. GraphInv'
    BY <2>1 DEF NeighborhoodInv, GraphInv
  <2> QED
    BY <1>3, <2>1, <2>2 DEF NeighborhoodInv
<1> QED
  BY <1>4, <1>5, <1>6 DEF NeighborhoodNext

(***************************************************************************)
(* Result                                                                  *)
(***************************************************************************)
\* A walk that ended of its own accord has been everywhere.
LEMMA WalkComplete ==
    ASSUME NEW W, NEW K, NEW d \in Nat, NEW m, NEW n, NEW w,
           WalkInv(w, W, K, d, m, n), w.done, ~w.truncated
    PROVE  Within(K, d) \subseteq DOMAIN w.node
<1>0. WalkTypes(w, W, d) /\ Distances(w, W, K, m) /\ Expanded(w, K, d, m)
  BY DEF WalkInv
<1>1. /\ w.frontier = <<>> /\ w.pending = {} /\ ~Shut(w, m)
      /\ w.at \in DOMAIN w.node /\ w.node[w.at] \in 0..d
  BY <1>0 DEF WalkTypes, Shut
<1>2. \A x : ~Waits(w, x)
  BY <1>1 DEF Waits
<1> DEFINE S == {k \in 0..d : ~(Within(K, k) \subseteq DOMAIN w.node)}
<1>3. SUFFICES ASSUME S # {} PROVE FALSE
  BY d \in 0..d
<1>4. PICK k \in S : \A j \in S : k <= j
  BY <1>3, LeastNumber, S \in SUBSET Nat
<1>5. k \in Nat /\ k <= d /\ ~(Within(K, k) \subseteq DOMAIN w.node)
  OBVIOUS
<1>6. w.node[w.at] < k
  <2>1. CASE k <= w.node[w.at]
    <3>1. w.node[w.at] \in Nat
      BY <1>1
    <3>2. Within(K, k) \subseteq Within(K, w.node[w.at])
      BY <2>1, <3>1, <1>5, WithinGrows
    <3>3. Within(K, w.node[w.at]) \subseteq DOMAIN w.node
      BY <1>0, <1>1 DEF Distances
    <3> QED
      BY <3>2, <3>3, <1>5
  <2> QED
    BY <2>1, <1>1, <1>5
<1> DEFINE j == k - 1
<1>7. j \in 0..d /\ j \in Nat /\ j < d /\ j + 1 = k /\ ~(k <= j)
  BY <1>1, <1>5, <1>6
<1>8. Within(K, j) \subseteq DOMAIN w.node
  BY <1>4, <1>7
<1> HIDE DEF j, S
<1>9. Within(K, j + 1) \subseteq DOMAIN w.node
  BY ONLY <1>0, <1>1, <1>2, <1>7, <1>8, NextDepth, d \in Nat
<1> QED
  BY <1>5, <1>7, <1>9

\* query: for any graph, any changes of it between two queries, any limits, and
\* however ties in the order of the neighbors are broken, a node's depth is
\* between its distances over the edges there were and over those there were all
\* along, an answer that does not call itself truncated has all that was there
\* all along, and no limit is exceeded.
THEOREM NeighborhoodSafe == NeighborhoodSpec => []NeighborhoodExact
<1>1. NeighborhoodInv => NeighborhoodExact
  <2> SUFFICES ASSUME NeighborhoodInv, walk.done PROVE NeighborhoodExact
    BY DEF NeighborhoodExact
  <2> DEFINE W == LinksOf(was)
             K == LinksOf(kept)
             N == walk.node
             D == DOMAIN walk.node
  <2>d. PICK d : d = depth
    OBVIOUS
  <2>m. PICK m : m = max_nodes
    OBVIOUS
  <2>0. LimitsInv(W, K, d, m, max_edges) /\ WalkInv(walk, W, K, d, m, max_edges)
    BY <2>d, <2>m DEF NeighborhoodInv
  <2>w. /\ WalkTypes(walk, W, d) /\ Distances(walk, W, K, m) /\ Expanded(walk, K, d, m)
        /\ Answered(walk, W, K, d) /\ Limited(walk, m, max_edges)
    BY <2>0 DEF WalkInv
  <2>l. IsFiniteSet(W) /\ W \subseteq EdgeRec /\ K \subseteq W /\ d \in Nat
    BY <2>0 DEF LimitsInv
  <2>n. \A a \in D : N[a] \in Nat /\ N[a] <= d
    BY <2>w, <2>l DEF WalkTypes
  <2> HIDE DEF W, K
  <2>1. \A a \in D : /\ N[a] <= d /\ a \in Within(W, N[a])
                     /\ N[a] > 0 => a \notin Within(K, N[a] - 1)
    BY <2>w, <2>n DEF Distances
  <2>2. \A e \in walk.edges :
          /\ e \in W /\ \E a \in D \cap {e.src, e.dst} : N[a] < d
          /\ \A f \in walk.edges : Key(e) = Key(f) => e = f
    BY <2>w DEF Answered, Near
  <2>3. Cardinality(D) <= max_nodes /\ Cardinality(walk.edges) <= max_edges
    BY <2>w, <2>m DEF Limited
  <2>4. ASSUME ~walk.truncated
        PROVE  /\ Within(K, d) \subseteq D
               /\ d > 0 => \A a \in Within(K, d - 1) : Near(K, a) \subseteq walk.edges
    <3>1. Within(K, d) \subseteq D
      BY <2>0, <2>l, <2>4, WalkComplete
    <3>2. ASSUME d > 0, NEW a \in Within(K, d - 1), NEW e \in Near(K, a) PROVE e \in walk.edges
      <4>1. d - 1 \in Nat /\ d - 1 <= d
        BY <3>2, <2>l
      <4>2. a \in D
        BY <4>1, <3>1, <2>l, WithinGrows
      <4>3. N[a] <= d - 1
        BY <4>1, <4>2, <2>w, <2>l, DepthOf
      <4>4. N[a] < d
        BY <4>2, <4>3, <2>l, <2>n
      <4>5. walk.pending = {} /\ ~Waits(walk, a)
        BY <2>w, <2>4 DEF WalkTypes, Waits
      <4>6. e \in walk.seen /\ e \in K
        BY <4>2, <4>4, <4>5, <2>w DEF Expanded, Near
      <4> QED
        BY <4>6, <2>w, <2>4 DEF Answered
    <3> QED
      BY <3>1, <3>2
  <2> QED
    BY <2>d, <2>1, <2>2, <2>3, <2>4 DEF NeighborhoodExact, W, K
<1> QED
  BY <1>1, InitWalk, NeighborhoodStep, PTL DEF NeighborhoodSpec

\* query: a page that is answered is the slice that offset and limit ask for, for
\* any edges and any width of their sum, which alone can make it panic.
THEOREM PagesSafe == NeighborhoodSpec => []PagesSliced
<1>1. NeighborhoodInv => PagesSliced
  <2> SUFFICES ASSUME NeighborhoodInv, NEW offset \in 0..UsizeMax, NEW limit \in 0..UsizeMax,
                      NEW checks \in BOOLEAN, NEW page, page = Page(offset, limit, checks)
               PROVE  /\ page.status = "ok" =>
                           /\ page.edges = {e \in walk.edges : offset < Position(e) /\ Position(e) <= offset + limit}
                           /\ Cardinality(page.edges) <= limit
                      /\ page.status = "panic" => offset + limit > UsizeMax
    BY DEF PagesSliced
  <2>1. WalkTypes(walk, LinksOf(was), depth) /\ LimitsInv(LinksOf(was), LinksOf(kept), depth, max_nodes, max_edges)
    BY DEF NeighborhoodInv, WalkInv
  <2>2. walk.edges \subseteq LinksOf(was) /\ IsFiniteSet(LinksOf(was)) /\ LinksOf(was) \subseteq EdgeRec
    BY <2>1 DEF WalkTypes, LimitsInv
  <2>3. IsFiniteSet(walk.edges) /\ walk.edges \subseteq EdgeRec /\ UsizeMax \in Nat
    BY <2>2, FS_Subset, NeighborhoodAssumption
  <2>4. /\ page.status = "ok" =>
             page.edges = {e \in walk.edges : offset < Position(e) /\ Position(e) <= offset + limit}
        /\ page.status = "panic" => offset + limit > UsizeMax
    BY <2>3, PageSlice
  <2>5. offset \in Nat /\ limit \in Nat
    BY <2>3
  <2> QED
    BY <2>3, <2>4, <2>5, SliceSize
<1> QED
  BY <1>1, InitWalk, NeighborhoodStep, PTL DEF NeighborhoodSpec

=============================================================================
