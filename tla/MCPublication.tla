--------------------------- MODULE MCPublication ---------------------------
(* Publication with small sets of builds.  Builds differ only in their name and
   in their --clean option, so permuting them is a symmetry of the safety runs. *)
EXTENDS Publication, TLC

Symmetry == Permutations(Builds)
=============================================================================
