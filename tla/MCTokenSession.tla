--------------------------- MODULE MCTokenSession ---------------------------
(***************************************************************************)
(* Model checking of TokenSession.  Tasks of one kind are interchangeable. *)
(***************************************************************************)
EXTENDS TokenSession, TLC

Symmetry == Permutations(Requests)

=============================================================================
