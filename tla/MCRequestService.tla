-------------------------- MODULE MCRequestService --------------------------
(* RequestService for TLC. *)
EXTENDS RequestService, TLC

Symmetry == Permutations(Requests)
=============================================================================
