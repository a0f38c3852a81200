---------------------------- MODULE MCClass4B2BUA ----------------------------
(***************************************************************************)
(* Instances of Class4B2BUA for TLC.                                       *)
(***************************************************************************)
EXTENDS Class4B2BUA, TLC

CONSTANTS s1, s2, s3, a1

MCSymmetry == Permutations({s1, s2, s3})
=============================================================================
