------------------------------ MODULE MCLrnDip ------------------------------
(***************************************************************************)
(* Instances of LrnDip for TLC: two dips for a number that is ported and   *)
(* one for a number that is not.                                           *)
(***************************************************************************)
EXTENDS LrnDip, TLC

CONSTANTS d1, d2, d3, ported, unported, lrn

MCNumberOf == [d \in Dips |-> IF d = d2 THEN unported ELSE ported]
MCLrn == [n \in {ported, unported} |-> IF n = ported THEN lrn ELSE None]
=============================================================================
