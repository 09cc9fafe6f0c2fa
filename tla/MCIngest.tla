------------------------------ MODULE MCIngest ------------------------------
(* Two tenants, two sessions and two handlers over two contents. *)
EXTENDS Ingest, TLC

CONSTANTS t1, t2, u1, u2, r1, r2, b1, b2, h1, h2, o1

\* Two contents of the same size.  Of the finalize requests the first two are
\* good over b1 and have the wrong digest over b2; the third has the wrong
\* size and the fourth a scope the server does not know.
MCsha256 == (b1 :> h1) @@ (b2 :> h2)
MClen    == (b1 :> 1) @@ (b2 :> 1)

MCAnnounces == {[sha |-> h1, occ |-> o1]}
MCFinalizes ==
    {[sha |-> h1, size |-> 1, scope |-> "endpoint", occ |-> o1],
     [sha |-> h1, size |-> 1, scope |-> "intel", occ |-> None],
     [sha |-> h1, size |-> 2, scope |-> "endpoint", occ |-> o1],
     [sha |-> h1, size |-> 1, scope |-> "other", occ |-> None]}

Symmetry == Permutations({t1, t2}) \cup Permutations({u1, u2}) \cup Permutations({r1, r2})
=============================================================================
