---------------------------- MODULE MCCdrPipeline ----------------------------
(***************************************************************************)
(* Instances of CdrPipeline for TLC: one caller that uses its Call-ID for  *)
(* an unanswered and an answered call, and one answered call of another.   *)
(***************************************************************************)
EXTENDS CdrPipeline

CONSTANTS unanswered, answered, other, a1, a2

MCCallOf == [c \in Cdrs |-> IF c = other THEN a2 ELSE a1]
=============================================================================
