------------------------------ MODULE MCAdmission ------------------------------
(***************************************************************************)
(* Instances of Admission for TLC.                                         *)
(***************************************************************************)
EXTENDS Admission, TLC

CONSTANTS c1, c2, c3, c4, t1, t2

\* Two shards with a call of the limited trunk in each.
MCShardOf == (c1 :> 1) @@ (c2 :> 2) @@ (c3 :> 1) @@ (c4 :> 2)

MCSymmetry == Permutations({t1, t2})
=============================================================================
