----------------------------- MODULE MCProvider -----------------------------
(* Instance of Provider for TLC.  The answers are interchangeable, and so    *)
(* are the callers as long as all of them make the same request.             *)
EXTENDS Provider, TLC

Symmetry == Permutations(Docs)
=============================================================================
