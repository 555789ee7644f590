--------------------------- MODULE MCDynChannels ---------------------------
(* Applications do not differ but in name. *)
EXTENDS DynChannels, TLC

Symmetry == Permutations(Apps)
=============================================================================
