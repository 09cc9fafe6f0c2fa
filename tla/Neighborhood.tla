---------------------------- MODULE Neighborhood ----------------------------
(***************************************************************************)
(* neighborhood::query: the bounded breadth-first walk over stored         *)
(* similarity edges, its truncation and its page, against the definition   *)
(* by distance.  The walk awaits one query per node, outside a             *)
(* transaction: analyses insert edges and cleanups delete them meanwhile.  *)
(* An artifact is a number, ordered like its digest; its id is random.  An *)
(* edge is [src, dst, edge_type, score] with src < dst; edge types are     *)
(* numbers in the order of their names.                                    *)
(***************************************************************************)
EXTENDS Integers, Sequences, FiniteSets, FiniteSetsExt

CONSTANTS SimilarityGraphs, \* sets of edges stored when the walk begins
          NewEdges,         \* edges that analyses can insert
          WeakTypes,        \* edge types left out without include_weak
          MAX_DEPTH, MAX_NODES, MAX_EDGES,
          MAX_RESPONSE,     \* of a response, in nodes and edges
          Requested,        \* queries: [depth, nodes, edges, edge_types, weak, min_score]
          UsizeMax,         \* the largest offset and limit
          MaxChanges        \* bound: changes of the graph during the walk

\* The primary key of similarity_edge, under one tenant and model version.
Key(e) == <<e.src, e.dst, e.edge_type>>

ASSUME NeighborhoodAssumption ==
    /\ {MAX_DEPTH, MAX_NODES, MAX_EDGES, UsizeMax} \subseteq Nat \ {0}
    /\ {MAX_RESPONSE, MaxChanges} \subseteq Nat
    /\ \A r \in Requested : {r.depth, r.nodes, r.edges} \subseteq Nat
    /\ \A g \in SimilarityGraphs \cup {NewEdges} :
         /\ IsFiniteSet(g) /\ g \subseteq [src : Nat, dst : Nat, edge_type : Nat, score : Int]
         /\ \A e \in g : e.src < e.dst
    /\ \A g \in SimilarityGraphs : \A e, f \in g : Key(e) = Key(f) => e = f

VARIABLES
    edge,      \* similarity_edge rows of the tenant under the model version
    was,       \* history: the edges stored at some moment of the walk
    kept,      \* history: the edges stored at every moment of the walk
    changes,
    request,   \* [depth, nodes, edges, edge_types, weak, min_score]
    walk       \* [frontier, at, pending, node, edges, seen, truncated, done]

graph == <<edge, was, kept, changes>>
NeighborhoodVars == <<graph, request, walk>>

Seed == 1
depth == Min({request.depth, MAX_DEPTH})
max_nodes == Max({1, Min({request.nodes, MAX_NODES})})
max_edges == Max({1, Min({request.edges, MAX_EDGES})})

\* The order of the response: score, type, digests.
Before(e, f) ==
    \/ e.score > f.score
    \/ e.score = f.score /\ e.edge_type < f.edge_type
    \/ e.score = f.score /\ e.edge_type = f.edge_type /\ e.src < f.src
    \/ e.score = f.score /\ e.edge_type = f.edge_type /\ e.src = f.src /\ e.dst < f.dst

\* An empty allowlist of edge types admits every type.
Admitted(e) ==
    /\ e.score >= request.min_score
    /\ request.edge_types = {} \/ e.edge_type \in request.edge_types
    /\ request.weak \/ e.edge_type \notin WeakTypes
LinksOf(S) == {e \in S : Admitted(e)}
Near(A, a) == {e \in A : a \in {e.src, e.dst}}
load_neighbors(a) == Near(LinksOf(edge), a)
Other(e, a) == IF e.src = a THEN e.dst ELSE e.src

\* load_neighbors orders by score and type and then by ids, that is anyhow.
Firsts(S) ==
    {e \in S : \A f \in S :
        e.score > f.score \/ (e.score = f.score /\ e.edge_type <= f.edge_type)}

(***************************************************************************)
(* The walk.  at = [node, depth] while the neighbours of a node are taken. *)
(***************************************************************************)
Full(w) == w.truncated /\ Cardinality(DOMAIN w.node) >= max_nodes
                       /\ Cardinality(w.edges) >= max_edges

\* The next node of the frontier; nodes at the full depth are not expanded.
Visit ==
    /\ ~walk.done /\ walk.pending = {}
    /\ IF walk.frontier = <<>> \/ Full(walk)
       THEN walk' = [walk EXCEPT !.done = TRUE]
       ELSE LET a == Head(walk.frontier) IN
            walk' = [walk EXCEPT !.frontier = Tail(@), !.at = a,
                        !.pending = IF walk.node[a] >= depth THEN {} ELSE load_neighbors(a)]
    /\ UNCHANGED <<graph, request>>

\* Mutant: an edge is told by all of its row, not by its key.
TakesEdge_Row(e) == e \notin walk.seen
TakesEdge(e) == \A f \in walk.seen : Key(f) # Key(e)

\* Mutant: a node behind the limit is left out without a word.
Truncates_Edges(noEdge, noNode) == noEdge
Truncates(noEdge, noNode) == noEdge \/ noNode

TakeNeighbor ==
    /\ walk.pending # {}
    /\ \E e \in Firsts(walk.pending) :
       LET b == Other(e, walk.at)
           new == TakesEdge(e)
           room == Cardinality(walk.edges) < max_edges
           unseen == b \notin DOMAIN walk.node
           space == Cardinality(DOMAIN walk.node) < max_nodes
       IN  walk' = [walk EXCEPT
             !.pending = @ \ {e},
             !.seen = @ \cup {e},
             !.edges = IF new /\ room THEN @ \cup {e} ELSE @,
             !.node = IF unseen /\ space
                      THEN [x \in DOMAIN @ \cup {b} |-> IF x = b THEN @[walk.at] + 1 ELSE @[x]]
                      ELSE @,
             !.frontier = IF unseen /\ space THEN Append(@, b) ELSE @,
             !.truncated = @ \/ Truncates(new /\ ~room, unseen /\ ~space)]
    /\ UNCHANGED <<graph, request>>

(***************************************************************************)
(* The graph changes between two queries                                   *)
(***************************************************************************)
\* insert_edge, of both passes: ON CONFLICT DO NOTHING.
InsertSimilarityEdge(e) ==
    /\ ~walk.done /\ changes < MaxChanges
    /\ \A f \in edge : Key(f) # Key(e)
    /\ edge' = edge \cup {e}
    /\ was' = was \cup {e}
    /\ changes' = changes + 1
    /\ UNCHANGED <<kept, request, walk>>

\* The edges' turn in cleanup_artifact; the artifact itself stays.
DeleteSimilarityEdges(a) ==
    /\ ~walk.done /\ changes < MaxChanges
    /\ Near(edge, a) # {}
    /\ edge' = edge \ Near(edge, a)
    /\ kept' = kept \ Near(edge, a)
    /\ changes' = changes + 1
    /\ UNCHANGED <<was, request, walk>>

(***************************************************************************)
(* The response                                                            *)
(***************************************************************************)
Position(e) == Cardinality({f \in walk.edges : Before(f, e)}) + 1

\* Mutant: the limit is taken for the end.
page_end_Limit(offset, limit) == Min({limit, Cardinality(walk.edges)})
page_end(offset, limit) ==
    LET sum == offset + limit
    IN  Min({IF sum > UsizeMax THEN sum - (UsizeMax + 1) ELSE sum, Cardinality(walk.edges)})

\* The page of the sorted edges.  A sum over usize::MAX panics in a build with
\* overflow checks and wraps in one without, where a slice that would end
\* before it begins panics.
Page(offset, limit, checks) ==
    LET inside == offset < Cardinality(walk.edges)
        end == page_end(offset, limit)
        slice == {e \in walk.edges : inside /\ offset < Position(e) /\ Position(e) <= end}
    IN  IF (offset + limit > UsizeMax /\ checks) \/ (inside /\ end < offset)
        THEN [status |-> "panic", edges |-> {}]
        ELSE IF Cardinality(DOMAIN walk.node) + Cardinality(slice) > MAX_RESPONSE
        THEN [status |-> "bad_request", edges |-> {}]
        ELSE [status |-> "ok", edges |-> slice]
----------------------------------------------------------------------------
NeighborhoodInit ==
    /\ edge \in SimilarityGraphs
    /\ was = edge /\ kept = edge /\ changes = 0
    /\ request \in Requested
    /\ walk = [frontier |-> <<Seed>>, at |-> Seed, pending |-> {}, node |-> [a \in {Seed} |-> 0],
               edges |-> {}, seen |-> {}, truncated |-> FALSE, done |-> FALSE]

NeighborhoodNext ==
    \/ Visit \/ TakeNeighbor
    \/ \E e \in NewEdges : InsertSimilarityEdge(e)
    \/ \E a \in {e.src : e \in edge} \cup {e.dst : e \in edge} : DeleteSimilarityEdges(a)
NeighborhoodSpec == NeighborhoodInit /\ [][NeighborhoodNext]_NeighborhoodVars
----------------------------------------------------------------------------
\* The artifacts within k edges of A of the seed: the ends of its paths.
NodesOf(A) == {Seed} \cup UNION {{e.src, e.dst} : e \in A}
StepOf(A, a, b) == a = b \/ \E e \in Near(A, a) : b = Other(e, a)
PathsOf(A, k) ==
    {path \in [0..k -> NodesOf(A)] :
        path[0] = Seed /\ \A i \in 1..k : StepOf(A, path[i - 1], path[i])}
Within(A, k) == {path[k] : path \in PathsOf(A, k)}

\* query returns what its definition says, although the graph changes between
\* its queries.  A node's depth is no less than its distance over the edges
\* there were at some moment and no more than its distance over those there
\* were all along, also in a truncated answer; an answer that does not call
\* itself truncated has every node and every edge of the neighborhood that was
\* there all along; each edge was there, leaves a node nearer than the depth
\* and is listed once; no limit is exceeded.  When nothing changes that is
\* the neighborhood itself.
NeighborhoodExact ==
    walk.done =>
        LET W == LinksOf(was)
            K == LinksOf(kept)
            N == walk.node
        IN
        /\ \A a \in DOMAIN N :
             N[a] <= depth /\ a \in Within(W, N[a]) /\ (N[a] > 0 => a \notin Within(K, N[a] - 1))
        /\ \A e \in walk.edges :
             /\ e \in W /\ \E a \in DOMAIN N \cap {e.src, e.dst} : N[a] < depth
             /\ \A f \in walk.edges : Key(e) = Key(f) => e = f
        /\ Cardinality(DOMAIN N) <= max_nodes /\ Cardinality(walk.edges) <= max_edges
        /\ ~walk.truncated =>
             /\ Within(K, depth) \subseteq DOMAIN N
             /\ depth > 0 => \A a \in Within(K, depth - 1) : Near(K, a) \subseteq walk.edges

\* query: a page that is answered is the slice of the sorted edges that offset
\* and limit ask for, of no more than limit edges, also where their sum wraps;
\* and the slice can only panic where it wraps.
PagesSliced ==
    walk.done =>
        \A offset, limit \in 0..UsizeMax : \A checks \in BOOLEAN :
            LET page == Page(offset, limit, checks) IN
            /\ page.status = "ok" =>
                 /\ page.edges = {e \in walk.edges : offset < Position(e) /\ Position(e) <= offset + limit}
                 /\ Cardinality(page.edges) <= limit
            /\ page.status = "panic" => offset + limit > UsizeMax
=============================================================================
