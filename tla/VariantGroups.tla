---------------------------- MODULE VariantGroups ----------------------------
(***************************************************************************)
(* Similarity analysis and variant groups of one tenant (corpus-core        *)
(* similarity/edges.rs, similarity/lifecycle.rs, semantic/edges.rs).  An    *)
(* analysis stores the rows of its artifact, looks up related artifacts     *)
(* layer by layer and inserts typed edges; a new strong edge unites the     *)
(* groups of its ends.  cleanup_artifact takes the rows of an artifact away *)
(* again.  No operation uses a transaction: one step is one statement, and  *)
(* calls interleave and can be dropped between any two.                     *)
(* What the contents of two artifacts have in common is a constant.         *)
(***************************************************************************)
EXTENDS Naturals, Sequences, FiniteSets

CONSTANTS
    Artifacts,   \* artifact ids; numbers, since edges are kept in id order
    seq,         \* artifact.seq, the commit order
    Related,     \* the pairs each layer would link
    Banded,      \* the pairs that share an index band, in the byte and semantic layers
    StrongPairs, \* the pairs whose semantic coverage is strong
    CANDIDATE_CAP, FUNC_CANDIDATE_CAP, \* of what an index lookup returns, byte and semantic
    Groups,      \* variant group ids (bounds the number of groups)
    Procs,       \* calls that can be in flight at once
    MaxCalls,    \* bound: calls made in all
    MaxDrops,    \* bound: calls dropped by a disconnect or a crash
    None

Layers == {"normalized", "byte", "semantic", "provenance"}
Pairs  == {{x, y} : x, y \in Artifacts}
Types == {"normalized_equivalent", "byte_similar", "shared_provenance",
          "semantic_variant_strong", "semantic_variant_weak"}

ASSUME VariantAssumption ==
    /\ IsFiniteSet(Artifacts) /\ Artifacts \subseteq Nat /\ Groups \subseteq Nat
    /\ seq \in [Artifacts -> Nat]
    /\ Related \in [Layers -> SUBSET Pairs]
    /\ Banded \in [{"byte", "semantic"} -> SUBSET Pairs]
    /\ StrongPairs \subseteq Pairs
    /\ CANDIDATE_CAP \in Nat \ {0} /\ FUNC_CANDIDATE_CAP \in Nat \ {0}
    /\ MaxCalls \in Nat /\ MaxDrops \in Nat
    /\ None \notin Nat \cup Types \cup {"exact_copy"}

VARIABLES
    rows,      \* the kinds of feature, function and index rows of each artifact
    edges,     \* similarity_edge rows <<pair, type>>
    groups,    \* variant_group rows
    member,    \* variant_group_member: the group of each artifact
    proc,      \* the calls in flight
    analyzed,  \* history: artifacts an analysis of which has run to its end
    spoiled,   \* history: artifacts cleaned up, or an analysis of which was
               \*          dropped or failed
    ever,      \* history: the pairs that ever had a strong edge
    used,      \* history: the group ids ever inserted
    torn,      \* history: artifacts in whose component two unions or cleanups
               \*          overlapped, or one was dropped or failed
    calls, drops

tables  == <<rows, edges, groups, member>>
history == <<analyzed, spoiled, ever, used, torn>>
vars    == <<tables, proc, history, calls, drops>>

(***************************************************************************)
(* Types                                                                   *)
(***************************************************************************)
\* Rows of similarity_feature, similarity_function (some of them, and the last
\* one), similarity_function_band and similarity_lsh_band.
RowKinds == {"features", "part", "function", "band", "lsh"}

\* The statements of analyze_artifact and of the semantic pass it calls.  The
\* index rows of an earlier analysis are deleted before they are stored again.
Store(kind) == [op |-> "store", arg |-> kind]
Clear(kind) == [op |-> "clear", arg |-> kind]
LinkBy(layer) == [op |-> "link", arg |-> layer]
Program_LookFirst ==
    << LinkBy("normalized"), Store("features"), Clear("lsh"), Store("lsh"), LinkBy("byte"),
       Store("part"), Store("function"), Clear("band"), Store("band"),
       LinkBy("semantic"), LinkBy("provenance") >>
Program ==
    << Store("features"), Clear("lsh"), Store("lsh"), LinkBy("normalized"), LinkBy("byte"),
       Store("part"), Store("function"), Clear("band"), Store("band"),
       LinkBy("semantic"), LinkBy("provenance") >>

Deletes == <<"features", "functions", "band", "edges", "lsh", "member">>

UnionPcs == {"read_src", "read_dst", "merge", "new_group", "add_src", "add_dst", "drop_group"}
CleanPcs == {"read_group", "delete", "repair", "dissolve", "clean_group"}

Idle == [pc |-> "idle"]

\* Of a call, todo: the artifacts a backfill has left; cands: the candidates of
\* the layer left; pair: the edge being united; src, dst: the groups read for
\* its ends.
Init ==
    /\ rows = [x \in Artifacts |-> {}]
    /\ edges = {}
    /\ groups = {}
    /\ member = [x \in Artifacts |-> None]
    /\ proc = [p \in Procs |-> Idle]
    /\ analyzed = {} /\ spoiled = {} /\ ever = {} /\ used = {} /\ torn = {}
    /\ calls = 0 /\ drops = 0

(***************************************************************************)
(* Components                                                              *)
(***************************************************************************)
Closed(S, E) == \A e \in E : e \cap S # {} => e \subseteq S
Connected(E, x, y) == \A S \in SUBSET Artifacts : x \in S /\ Closed(S, E) => y \in S

\* A call that unites groups or cleans up, and an artifact it does it for.
Section(p) == proc[p].pc \in UnionPcs \cup CleanPcs
Subject(p) == IF proc[p].pc \in UnionPcs THEN CHOOSE x \in proc[p].pair : TRUE
              ELSE proc[p].art

\* The component of x, if another call is at work in it: what p starts for x
\* under the edges E overlaps that call.
Overlap(p, x, E) ==
    {y \in Artifacts : /\ Connected(E, x, y)
                       /\ \E q \in Procs \ {p} : Section(q) /\ Connected(E, x, Subject(q))}

Component(x) == {y \in Artifacts : Connected(ever, x, y)}

(***************************************************************************)
(* analyze_artifact, backfill                                              *)
(***************************************************************************)
Call(p) ==
    /\ proc[p] = Idle
    /\ calls < MaxCalls
    /\ calls' = calls + 1
    /\ UNCHANGED drops

Analysis(x, todo) ==
    [pc |-> "run", art |-> x, todo |-> todo, step |-> 1, cands |-> {}, pair |-> {x},
     src |-> None, dst |-> None]

\* The hook of finalize; an artifact that is finalized again is analyzed again.
analyze_new_artifact(p, x) ==
    /\ Call(p)
    /\ proc' = [proc EXCEPT ![p] = Analysis(x, {})]
    /\ UNCHANGED <<tables, history>>

\* Every artifact without a feature row, one after the other in commit order.
First(S) == CHOOSE x \in S : \A y \in S : seq[x] <= seq[y]
AnalyzeAll(S) == IF S = {} THEN Idle ELSE Analysis(First(S), S \ {First(S)})

backfill(p) ==
    /\ Call(p)
    /\ proc' = [proc EXCEPT ![p] = AnalyzeAll({x \in Artifacts : "features" \notin rows[x]})]
    /\ UNCHANGED <<tables, history>>

\* Where an analysis goes on after a candidate, a lookup or a store.
Continue(c) ==
    IF c.cands # {} THEN [c EXCEPT !.pc = "link"]
    ELSE IF c.step < Len(Program) THEN [c EXCEPT !.pc = "run", !.step = c.step + 1]
    ELSE [c EXCEPT !.pc = "done"]

Running(p, op) == proc[p].pc = "run" /\ Program[proc[p].step].op = op
Arg(p) == Program[proc[p].step].arg

store_features(p) ==
    /\ \/ Running(p, "store") /\ rows' = [rows EXCEPT ![proc[p].art] = @ \cup {Arg(p)}]
       \/ Running(p, "clear") /\ rows' = [rows EXCEPT ![proc[p].art] = @ \ {Arg(p)}]
    /\ proc' = [proc EXCEPT ![p] = Continue(@)]
    /\ UNCHANGED <<edges, groups, member, history, calls, drops>>

\* The other artifacts with the row the layer needs, as a set of the answers a
\* lookup can give.  The byte and semantic layers ask their index first, and scan
\* only if it has nothing; of more than its cap an index returns any so many.
Having(kind, x) == {y \in Artifacts \ {x} : kind \in rows[y]}
Indexed(layer, kind, x) == {y \in Having(kind, x) : {x, y} \in Banded[layer]}
Capped(S, cap) ==
    IF Cardinality(S) <= cap THEN {S} ELSE {T \in SUBSET S : Cardinality(T) = cap}
Candidates(layer, x) ==
    CASE layer \in {"normalized", "provenance"} ->
           {{y \in Having("features", x) : {x, y} \in Related[layer]}}
      [] layer = "byte" ->
           IF Indexed("byte", "lsh", x) # {}
           THEN {T \cap Having("features", x) : T \in Capped(Indexed("byte", "lsh", x), CANDIDATE_CAP)}
           ELSE {Having("features", x)}
      [] layer = "semantic" ->
           IF Indexed("semantic", "band", x) # {}
           THEN Capped(Indexed("semantic", "band", x), FUNC_CANDIDATE_CAP)
           ELSE {Having("part", x)}

Lookup(p) ==
    /\ Running(p, "link")
    /\ \E found \in Candidates(Arg(p), proc[p].art) :
          proc' = [proc EXCEPT ![p] = Continue([@ EXCEPT !.cands = found])]
    /\ UNCHANGED <<tables, history, calls, drops>>

\* The edge type a layer gives a pair, or None.  The semantic layer scores the
\* function rows the other artifact has by now: while they are still being
\* inserted a pair with functions in common can get any score.
Verdicts(layer, x, y) ==
    CASE layer = "normalized" -> {"normalized_equivalent"}
      [] layer = "provenance" -> {"shared_provenance"}
      [] layer = "byte" -> {IF {x, y} \in Related["byte"] THEN "byte_similar" ELSE None}
      [] layer = "semantic" ->
           IF "function" \in rows[y]
           THEN {CASE {x, y} \notin Related["semantic"] -> None
                   [] {x, y} \in Related["semantic"] \cap StrongPairs -> "semantic_variant_strong"
                   [] OTHER -> "semantic_variant_weak"}
           ELSE IF "part" \in rows[y] /\ {x, y} \in Related["semantic"] \cup Banded["semantic"]
           THEN {None, "semantic_variant_weak", "semantic_variant_strong"}
           ELSE {None}

merges_groups_Any(type) == type # None
merges_groups(type) ==
    type \in {"exact_copy", "normalized_equivalent", "semantic_variant_strong"}

\* ON CONFLICT DO NOTHING; only a new strong edge unites.
insert_edge(p) ==
    /\ proc[p].pc = "link"
    /\ \E y \in proc[p].cands : \E type \in Verdicts(Arg(p), proc[p].art, y) :
          LET pair  == {proc[p].art, y}
              new   == type # None /\ <<pair, type>> \notin edges
              union == new /\ merges_groups(type)
              rest  == [proc[p] EXCEPT !.cands = @ \ {y}, !.pair = pair]
          IN /\ edges' = IF new THEN edges \cup {<<pair, type>>} ELSE edges
             /\ proc' = [proc EXCEPT ![p] =
                   IF union THEN [rest EXCEPT !.pc = "read_src"] ELSE Continue(rest)]
             /\ ever' = IF new /\ type \in {"normalized_equivalent", "semantic_variant_strong"}
                        THEN ever \cup {pair} ELSE ever
             /\ torn' = IF union THEN torn \cup Overlap(p, y, ever') ELSE torn
    /\ UNCHANGED <<rows, groups, member, analyzed, spoiled, used, calls, drops>>

Finish(p) ==
    /\ proc[p].pc = "done"
    /\ analyzed' = analyzed \cup {proc[p].art}
    /\ proc' = [proc EXCEPT ![p] = AnalyzeAll(@.todo)]
    /\ UNCHANGED <<tables, spoiled, ever, used, torn, calls, drops>>

(***************************************************************************)
(* union_groups                                                            *)
(***************************************************************************)
src(p) == CHOOSE x \in proc[p].pair : \A y \in proc[p].pair : x <= y
dst(p) == CHOOSE x \in proc[p].pair : \A y \in proc[p].pair : y <= x

\* A foreign key is violated: the error ends the whole call.
Fail(p) ==
    /\ proc' = [proc EXCEPT ![p] = Idle]
    /\ spoiled' = spoiled \cup {proc[p].art}
    /\ torn' = torn \cup Component(Subject(p))

group_of_src(p) ==
    /\ proc[p].pc = "read_src"
    /\ proc' = [proc EXCEPT ![p].pc = "read_dst", ![p].src = member[src(p)]]
    /\ UNCHANGED <<tables, history, calls, drops>>

group_of_dst(p) ==
    /\ proc[p].pc = "read_dst"
    /\ LET g == proc[p].src
           h == member[dst(p)]
       IN proc' = [proc EXCEPT ![p] =
             IF g # None /\ g = h THEN Continue(@)
             ELSE [@ EXCEPT !.dst = h,
                            !.pc = CASE g # None /\ h # None -> "merge"
                                     [] g # None /\ h = None -> "add_dst"
                                     [] g = None /\ h # None -> "add_src"
                                     [] g = None /\ h = None -> "new_group"]]
    /\ UNCHANGED <<tables, history, calls, drops>>

\* Both have a group: the members of the larger id move to the smaller one.
Keep(p) == IF proc[p].src < proc[p].dst THEN proc[p].src ELSE proc[p].dst
Drop(p) == IF proc[p].src < proc[p].dst THEN proc[p].dst ELSE proc[p].src

Merge(p) ==
    /\ proc[p].pc = "merge"
    /\ LET moved == {x \in Artifacts : member[x] = Drop(p)}
       IN IF moved # {} /\ Keep(p) \notin groups
          THEN Fail(p) /\ UNCHANGED member
          ELSE /\ member' = [x \in Artifacts |-> IF x \in moved THEN Keep(p) ELSE member[x]]
               /\ proc' = [proc EXCEPT ![p].pc = "drop_group"]
               /\ UNCHANGED <<spoiled, torn>>
    /\ UNCHANGED <<rows, edges, groups, analyzed, ever, used, calls, drops>>

\* DELETE FROM variant_group: refused while a member row refers to it.
Delete(p, g, next) ==
    IF \E x \in Artifacts : member[x] = g
    THEN Fail(p) /\ UNCHANGED groups
    ELSE groups' = groups \ {g} /\ proc' = [proc EXCEPT ![p] = next] /\ UNCHANGED <<spoiled, torn>>

drop_group(p) ==
    /\ proc[p].pc = "drop_group"
    /\ Delete(p, Drop(p), Continue(proc[p]))
    /\ UNCHANGED <<rows, edges, member, analyzed, ever, used, calls, drops>>

\* Neither has one: a new group, then both members.
new_group(p) ==
    /\ proc[p].pc = "new_group"
    /\ \E g \in Groups \ used :
          /\ groups' = groups \cup {g}
          /\ used' = used \cup {g}
          /\ proc' = [proc EXCEPT ![p].pc = "add_src", ![p].src = g, ![p].dst = g]
    /\ UNCHANGED <<rows, edges, member, analyzed, spoiled, ever, torn, calls, drops>>

\* ON CONFLICT DO NOTHING: an artifact that got a group meanwhile keeps it.
add_member(p, x, g, next) ==
    \/ /\ member[x] # None
       /\ proc' = [proc EXCEPT ![p] = next]
       /\ UNCHANGED <<member, spoiled, torn>>
    \/ /\ member[x] = None /\ g \in groups
       /\ member' = [member EXCEPT ![x] = g]
       /\ proc' = [proc EXCEPT ![p] = next]
       /\ UNCHANGED <<spoiled, torn>>
    \/ /\ member[x] = None /\ g \notin groups
       /\ Fail(p)
       /\ UNCHANGED member

\* After a new group (src is set) the other end follows.
AddSrc(p) ==
    /\ proc[p].pc = "add_src"
    /\ add_member(p, src(p), proc[p].dst,
                  IF proc[p].src # None THEN [proc[p] EXCEPT !.pc = "add_dst"]
                  ELSE Continue(proc[p]))
    /\ UNCHANGED <<rows, edges, groups, analyzed, ever, used, calls, drops>>

AddDst_Skip(p) ==
    /\ proc[p].pc = "add_dst"
    /\ proc' = [proc EXCEPT ![p] = Continue(@)]
    /\ UNCHANGED <<tables, history, calls, drops>>
AddDst(p) ==
    /\ proc[p].pc = "add_dst"
    /\ add_member(p, dst(p), proc[p].src, Continue(proc[p]))
    /\ UNCHANGED <<rows, edges, groups, analyzed, ever, used, calls, drops>>

(***************************************************************************)
(* cleanup_artifact, repair_group                                          *)
(***************************************************************************)
cleanup_artifact(p, x) ==
    /\ Call(p)
    /\ spoiled' = spoiled \cup {x}
    /\ torn' = torn \cup Overlap(p, x, ever)
    /\ proc' = [proc EXCEPT ![p] = [pc |-> "read_group", art |-> x, step |-> 1, group |-> None]]
    /\ UNCHANGED <<tables, analyzed, ever, used>>

CleanReadGroup(p) ==
    /\ proc[p].pc = "read_group"
    /\ proc' = [proc EXCEPT ![p].pc = "delete", ![p].group = member[proc[p].art]]
    /\ UNCHANGED <<tables, history, calls, drops>>

\* One table after the other; the membership last.
RowsOf(table) == IF table = "functions" THEN {"part", "function"} ELSE {table}
CleanDelete(p) ==
    /\ proc[p].pc = "delete"
    /\ LET x == proc[p].art
           table == Deletes[proc[p].step]
       IN /\ rows' = [rows EXCEPT ![x] = @ \ RowsOf(table)]
          /\ edges' = IF table = "edges" THEN {e \in edges : x \notin e[1]} ELSE edges
          /\ member' = IF table = "member" THEN [member EXCEPT ![x] = None] ELSE member
    /\ LET c == proc[p]
       IN proc' = [proc EXCEPT ![p] =
             CASE c.step < Len(Deletes) -> [c EXCEPT !.step = c.step + 1]
               [] c.step = Len(Deletes) /\ c.group # None -> [c EXCEPT !.pc = "repair"]
               [] c.step = Len(Deletes) /\ c.group = None -> Idle]
    /\ UNCHANGED <<groups, history, calls, drops>>

\* A group that is left with at most one member is dissolved.
Left(p) == {x \in Artifacts : member[x] = proc[p].group}
repair_group_Keep(p) ==
    /\ proc[p].pc = "repair"
    /\ proc' = [proc EXCEPT ![p] = IF Left(p) = {} THEN [@ EXCEPT !.pc = "dissolve"] ELSE Idle]
    /\ UNCHANGED <<tables, history, calls, drops>>
repair_group(p) ==
    /\ proc[p].pc = "repair"
    /\ proc' = [proc EXCEPT ![p] =
          IF Cardinality(Left(p)) <= 1 THEN [@ EXCEPT !.pc = "dissolve"] ELSE Idle]
    /\ UNCHANGED <<tables, history, calls, drops>>

Dissolve(p) ==
    /\ proc[p].pc = "dissolve"
    /\ member' = [x \in Artifacts |-> IF x \in Left(p) THEN None ELSE member[x]]
    /\ proc' = [proc EXCEPT ![p].pc = "clean_group"]
    /\ UNCHANGED <<rows, edges, groups, history, calls, drops>>

clean_group(p) ==
    /\ proc[p].pc = "clean_group"
    /\ Delete(p, proc[p].group, Idle)
    /\ UNCHANGED <<rows, edges, member, analyzed, ever, used, calls, drops>>

(***************************************************************************)
(* Specification                                                           *)
(***************************************************************************)
\* The call is dropped; what it has written stays, and what it has deleted to
\* write it again is gone.
Abort(p) ==
    /\ proc[p] # Idle
    /\ drops < MaxDrops
    /\ drops' = drops + 1
    /\ proc' = [proc EXCEPT ![p] = Idle]
    /\ torn' = IF Section(p) THEN torn \cup Component(Subject(p)) ELSE torn
    /\ spoiled' = spoiled \cup {proc[p].art}
    /\ UNCHANGED <<tables, analyzed, ever, used, calls>>

Next ==
    \E p \in Procs :
        \/ \E x \in Artifacts : analyze_new_artifact(p, x) \/ cleanup_artifact(p, x)
        \/ backfill(p) \/ store_features(p) \/ Lookup(p) \/ insert_edge(p) \/ Finish(p)
        \/ group_of_src(p) \/ group_of_dst(p) \/ Merge(p) \/ drop_group(p)
        \/ new_group(p) \/ AddSrc(p) \/ AddDst(p)
        \/ CleanReadGroup(p) \/ CleanDelete(p) \/ repair_group(p) \/ Dissolve(p)
        \/ clean_group(p)
        \/ Abort(p)

Spec == Init /\ [][Next]_vars

(***************************************************************************)
(* Properties                                                              *)
(***************************************************************************)
\* union_groups: artifacts share a group only if a chain of strong edges has
\* linked them at some time ("fuzzy hash alone never creates automatic family
\* membership"): no interleaving of unions that read groups and write them
\* later, and no repair, mixes two families.
GroupsJustified ==
    \A x, y \in Artifacts : member[x] # None /\ member[x] = member[y] => Connected(ever, x, y)

\* union_groups, repair_group: the two ends of a strong edge are in one group,
\* as long as unions and cleanups in their component come one after the other
\* (analyses may overlap as they like): neither a merge nor the removal of a
\* member leaves a linked pair behind.
AtRest(x) == \A p \in Procs : Section(p) => ~Connected(ever, x, Subject(p))
GroupsComplete ==
    \A e \in edges :
        /\ e[2] \in {"normalized_equivalent", "semantic_variant_strong"}
        /\ e[1] \cap torn = {}
        /\ \A x \in e[1] : AtRest(x)
        => \A x, y \in e[1] : member[x] # None /\ member[x] = member[y]

\* A member's group exists (the foreign key of variant_group_member), whatever
\* unions and repairs interleave; and, under the same condition, no group is
\* left with fewer than two members (repair_group: "partitions of size >= 2").
NoHollowGroups ==
    /\ \A x \in Artifacts : member[x] # None => member[x] \in groups
    /\ torn = {} /\ (\A p \in Procs : ~Section(p)) =>
         \A g \in groups : Cardinality({x \in Artifacts : member[x] = g}) >= 2

\* analyze_artifact: once both have been analyzed, however their analyses
\* overlapped, a pair with a common normalized hash, or with strong coverage
\* and a common band, has its edge: the last to store its rows finds the other's,
\* although each analysis deletes its index rows before it stores them again;
\* unless one was cleaned up, or an analysis of it was dropped or failed, or one
\* shares bands with more artifacts than the index returns (FUNC_CANDIDATE_CAP):
\* there the pair may be passed over.
Settled(x) ==
    x \in analyzed \ spoiled /\ \A p \in Procs : proc[p] # Idle => proc[p].art # x
Popular(x) ==
    Cardinality({y \in Artifacts \ {x} : {x, y} \in Banded["semantic"]}) > FUNC_CANDIDATE_CAP
PairsLinked ==
    \A x, y \in Artifacts :
        x # y /\ Settled(x) /\ Settled(y) =>
            /\ {x, y} \in Related["normalized"] => <<{x, y}, "normalized_equivalent">> \in edges
            /\ /\ {x, y} \in Related["semantic"] \cap StrongPairs \cap Banded["semantic"]
               /\ ~Popular(x) /\ ~Popular(y)
               => <<{x, y}, "semantic_variant_strong">> \in edges
=============================================================================
