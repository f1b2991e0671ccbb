------------------------ MODULE MCUserAdministration ------------------------
(***************************************************************************)
(* UserAdministration for TLC: handlers are interchangeable.               *)
(***************************************************************************)
EXTENDS UserAdministration, TLC

HandlerSymmetry == Permutations(Tx)

=============================================================================
