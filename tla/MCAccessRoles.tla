--------------------------- MODULE MCAccessRoles ---------------------------
(***************************************************************************)
(* Model checking of AccessRoles.  Handlers are interchangeable.           *)
(***************************************************************************)
EXTENDS AccessRoles, TLC

Symmetry == Permutations(Handlers)

=============================================================================
