------------------------------ MODULE MCServer ------------------------------
(***************************************************************************)
(* The parts of the server and of corpusctl that share no state in the     *)
(* model, explored side by side: a behaviour is one of the part it starts  *)
(* with, and the others stay in an initial state.                          *)
(***************************************************************************)
EXTENDS VariantGroups, Enrollment, Access, Alerts, Merlin, Detonation, Scanner, Neighborhood,
        Bootstrap, TLC

CONSTANT Parts  \* the parts explored

VARIABLE part

(***************************************************************************)
(* Instances                                                               *)
(***************************************************************************)
MCAgentTenant == [a \in {"agent1", "agent2"} |-> IF a = "agent1" THEN "t1" ELSE "t2"]

\* Batches of two segments that share events, one that is resent in other
\* case, one under another digest, and two that break the format.
MCBatch == {[segment |-> "A", sha256 |-> "d1", events |-> <<"e1", "e2">>],
            [segment |-> "A", sha256 |-> "D1", events |-> <<"e2", "e3">>],
            [segment |-> "A", sha256 |-> "d2", events |-> <<"e3">>],
            [segment |-> "B", sha256 |-> "d2", events |-> <<"e2", "e1">>],
            [segment |-> "B", sha256 |-> "d2", events |-> <<"e3", NoEventId>>],
            [segment |-> "B", sha256 |-> "d2", events |-> <<NotAnObject>>]}

MCReport == {[signatures |-> 0, ttps |-> <<>>],
             [signatures |-> 2, ttps |-> <<FALSE, TRUE>>]}
\* Both calls send the same artifact.
MCArtifactOf == [c \in {"c1", "c2"} |-> "a1"]

\* Two families, {1, 2} and {3, 4}, with a normalized hash in common, that the
\* code of 2 and 3 joins; 1 shares a function with every other artifact, more
\* than the index returns, and no more; 1 and 4 look alike to the fuzzy hash
\* only and come from one compiler.  In commit order 1, 2, 4, 3 the families
\* meet last.
MCRelated == [l \in Layers |-> CASE l = "normalized" -> {{1, 2}, {3, 4}}
                                 [] l = "semantic"   -> {{2, 3}}
                                 [] OTHER            -> {{1, 4}}]
MCBanded == [l \in {"byte", "semantic"} |->
                IF l = "byte" THEN {{1, 4}, {1, 2}} ELSE {{2, 3}, {1, 2}, {1, 3}, {1, 4}}]
MCStrong == {{2, 3}}
MCSeq == <<1, 2, 4, 3>>

\* Graphs over four artifacts: the first pair has a strong edge (type 1) and
\* maybe a weak one (type 2), the last may have a weak one, the others but one
\* a strong one.  What is inserted joins the last two, adds a weak edge, or
\* brings a deleted edge back with another score.
MCPairs == {p \in (1..4) \X (1..4) : p[1] < p[2]}
MCTypes(p) == CASE p = <<1, 2>> -> {{1}, {1, 2}}
                [] p = <<1, 4>> -> {{}}
                [] p = <<2, 4>> -> {{}, {2}}
                [] OTHER -> {{}, {1}}
MCEdge(p, k, s) == [src |-> p[1], dst |-> p[2], edge_type |-> k, score |-> s]
MCGraphs == {UNION {{MCEdge(p, k, 2 - k) : k \in t[p]} : p \in MCPairs} :
               t \in {t \in [MCPairs -> {{}, {1}, {2}, {1, 2}}] : \A p \in MCPairs : t[p] \in MCTypes(p)}}
MCNewEdges == {MCEdge(<<1, 2>>, 1, 2), MCEdge(<<3, 4>>, 1, 1), MCEdge(<<1, 3>>, 2, 0)}
MCAsk(d, n, e, t, w, s) ==
    [depth |-> d, nodes |-> n, edges |-> e, edge_types |-> t, weak |-> w, min_score |-> s]
MCRequested == {MCAsk(2, 9, 9, {}, TRUE, 0), MCAsk(9, 3, 9, {}, TRUE, 0), MCAsk(9, 9, 2, {}, TRUE, 0),
                MCAsk(2, 0, 2, {}, TRUE, 1), MCAsk(2, 9, 9, {}, FALSE, 0), MCAsk(0, 9, 9, {}, TRUE, 0),
                MCAsk(2, 4, 3, {2}, TRUE, 0)}

MCBytesOf == <<"x", "y", "x">>
MCLayerOf == <<"l1", "l1", "l2">>
\* As a registry serves it, as docker save writes it, with a layer that is
\* not named *.tar, and with an empty index.
MCLayers(tar, gzip) == [l1 |-> [tar |-> TRUE, gzip |-> gzip], l2 |-> [tar |-> tar, gzip |-> gzip]]
MCImage == {[layers |-> MCLayers(TRUE, TRUE), index |-> <<"arm64", "amd64">>],
            [layers |-> MCLayers(FALSE, FALSE), index |-> <<"arm64">>],
            [layers |-> MCLayers(TRUE, FALSE), index |-> <<>>]}
MCValue(t, d, f) == [ioc_type |-> t, digest |-> d, form |-> f]
MCFeed == {<<MCValue("SHA256", "x", "upper"), MCValue("sha256", "y", "lower")>>,
           <<MCValue("sha256", "x", "lower"), MCValue("sha256", "y", "invalid")>>}
MCTaxiiBundle == {<<[type |-> "indicator", tokens |-> <<[len |-> 4, digest |-> "y"], [len |-> 64, digest |-> "x"],
                                                       [len |-> 40, digest |-> "y"], [len |-> 32, digest |-> "y"]>>],
                    [type |-> "malware", tokens |-> <<[len |-> 64, digest |-> "y"]>>]>>}

(***************************************************************************)
(* The specification                                                       *)
(***************************************************************************)
ServerVars == <<part, vars, EnrollmentVars, AccessVars, AlertsVars, MerlinVars, DetonationVars,
              ScannerVars, NeighborhoodVars, BootstrapVars>>

\* Where an initial state is chosen, a part that is not explored has this one.
ServerInit ==
    /\ part \in Parts
    /\ Init
    /\ \/ part = "neighborhood"
       \/ /\ edge = (CHOOSE g \in SimilarityGraphs : TRUE)
          /\ request = (CHOOSE r \in Requested : TRUE)
    /\ NeighborhoodInit
    /\ \/ part = "bootstrap"
       \/ /\ image = (CHOOSE i \in Image : TRUE)
          /\ intel = [auto |-> FALSE, stored |-> {}, detected |-> {}, fired |-> {}]
    /\ BootstrapInit
    /\ \/ part = "enrollment"
       \/ LET k == CHOOSE k \in EnrollToken : TRUE IN
          dev = [d \in Device |-> [token |-> k, pc |-> "down", tenant |-> Unset,
                                   agent |-> Unset, reply |-> Unset]]
    /\ EnrollmentInit
    /\ AlertsInit
    /\ MerlinInit
    /\ part = "detonation" \/ denv = (CHOOSE e \in DetonationEnv : TRUE)
    /\ DetonationInit
    /\ \/ part = "scanner"
       \/ /\ host = (CHOOSE h \in Hosts : TRUE)
          /\ sample = [matches |-> FALSE, compiles |-> FALSE, readable |-> FALSE]
    /\ ScannerInit
    /\ part = "access" \/ env = (CHOOSE e \in Environments : TRUE)
    /\ AccessInit

\* Three overlapping opinions are explored without trigger rules, and the outbox
\* with two opinions whose transactions follow each other on one clock.
ServerNext ==
    \/ /\ part = "variants" /\ Next
       /\ UNCHANGED <<part, EnrollmentVars, AccessVars, AlertsVars, MerlinVars, DetonationVars,
                      ScannerVars, NeighborhoodVars, BootstrapVars>>
    \/ /\ part = "enrollment" /\ EnrollmentNext
       /\ UNCHANGED <<part, vars, AccessVars, AlertsVars, MerlinVars, DetonationVars,
                      ScannerVars, NeighborhoodVars, BootstrapVars>>
    \/ /\ part = "access" /\ AccessNext
       /\ UNCHANGED <<part, vars, EnrollmentVars, AlertsVars, MerlinVars, DetonationVars,
                      ScannerVars, NeighborhoodVars, BootstrapVars>>
    \/ /\ part \in {"opinions", "alerts"} /\ AlertsNext
       /\ part = "opinions" => rule' = {}
       /\ part = "alerts" =>
            /\ call'[MaxOpinions].pc = "idle" /\ ~skewed'
            /\ Cardinality({i \in OpinionId : call'[i].pc \in {"select", "update", "insert", "commit"}}) <= 1
       /\ UNCHANGED <<part, vars, EnrollmentVars, AccessVars, MerlinVars, DetonationVars,
                      ScannerVars, NeighborhoodVars, BootstrapVars>>
    \/ /\ part = "merlin" /\ MerlinNext
       /\ UNCHANGED <<part, vars, EnrollmentVars, AccessVars, AlertsVars, DetonationVars,
                      ScannerVars, NeighborhoodVars, BootstrapVars>>
    \/ /\ part = "detonation" /\ DetonationNext
       /\ UNCHANGED <<part, vars, EnrollmentVars, AccessVars, AlertsVars, MerlinVars,
                      ScannerVars, NeighborhoodVars, BootstrapVars>>
    \/ /\ part = "scanner" /\ ScannerNext
       /\ UNCHANGED <<part, vars, EnrollmentVars, AccessVars, AlertsVars, MerlinVars,
                      DetonationVars, NeighborhoodVars, BootstrapVars>>
    \/ /\ part = "neighborhood" /\ NeighborhoodNext
       /\ UNCHANGED <<part, vars, EnrollmentVars, AccessVars, AlertsVars, MerlinVars,
                      DetonationVars, ScannerVars, BootstrapVars>>
    \/ /\ part = "bootstrap" /\ BootstrapNext
       /\ UNCHANGED <<part, vars, EnrollmentVars, AccessVars, AlertsVars, MerlinVars,
                      DetonationVars, ScannerVars, NeighborhoodVars>>

ServerSpec == ServerInit /\ [][ServerNext]_ServerVars

\* The callers of every part are the same two model values, which one
\* permutation exchanges in whichever part is explored.
Symmetry == Permutations(Device \cup Server \cup Bridge \cup Procs)
=============================================================================
