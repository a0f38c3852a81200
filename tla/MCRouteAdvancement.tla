-------------------------- MODULE MCRouteAdvancement --------------------------
(***************************************************************************)
(* Instances of RouteAdvancement for TLC.                                  *)
(***************************************************************************)
EXTENDS RouteAdvancement, TLC

CONSTANTS c1, c2, c3, t1, t2, t3, t4, t5

\* The last trunk is disabled.
MCUsable == {t1, t2, t3, t4}

\* One circuit on every trunk but one, which has two.
MCLimit == [t \in {t1, t2, t3, t4, t5} |-> IF t = t3 THEN 2 ELSE 1]

\* The rates change between two questions to the LCR engine.
MCOffers == {<<t1, t5, t2, t4>>, <<t3, t1>>, <<>>}

\* 404 and 503 advance, 603 does not; 302 and 499 have no name in the table.
MCCodes == {200, 302, 404, 499, 503, 603}

MCSymmetry == Permutations({c1, c2, c3})
=============================================================================
