---------------------------- MODULE MCMembership ----------------------------
(***************************************************************************)
(* Two names, one listed on the first day, one later, with job windows     *)
(* that start on the first day and later.                                  *)
(***************************************************************************)
EXTENDS Membership, TLC

CONSTANTS old, young

MCListing == (old :> 1) @@ (young :> 2)

Symmetry == Permutations(Classes)
=============================================================================
