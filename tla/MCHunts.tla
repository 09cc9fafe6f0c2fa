------------------------------- MODULE MCHunts -------------------------------
EXTENDS Hunts, TLC

CONSTANTS a1, a2, f1, f2, c1, c2, w1

\* One finalize call for each of two artifacts.
MCTarget == (f1 :> a1) @@ (f2 :> a2)

\* The queue alone: an empty corpus.
NoFinalizers == <<>>
=============================================================================
