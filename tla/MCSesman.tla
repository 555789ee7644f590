------------------------------ MODULE MCSesman ------------------------------
(***************************************************************************)
(* Sesman for the larger safety instance.  No action tells one user from   *)
(* another, so behaviours that differ in the names only are checked once.  *)
(***************************************************************************)
EXTENDS Sesman, TLC

UserSymmetry == Permutations(Users)
=============================================================================
