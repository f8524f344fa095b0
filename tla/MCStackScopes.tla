---------------------------- MODULE MCStackScopes ----------------------------
(***************************************************************************)
(* Instances of StackScopes for TLC.                                       *)
(***************************************************************************)
EXTENDS StackScopes

\* Names of one type are interchangeable.
Symmetry == Permutations(Ints) \cup Permutations(Ptrs)

=============================================================================
