---------------------------- MODULE MCLcrRouting ----------------------------
(***************************************************************************)
(* Instances of LcrRouting for TLC.                                        *)
(***************************************************************************)
EXTENDS LcrRouting, TLC

CONSTANTS t1, t2, n1, d1, c1, l1, l2, q1, q2

\* One trunk is rated, and a static route sends the number to the other one
\* when the first has failed.
MCInitial ==
    {[trunks |-> {t1, t2}, active |-> {d1, c1},
      vendor |-> [t \in Trunks |-> IF t = t1 THEN d1 ELSE None], client |-> c1,
      rate |-> [d \in Decks |-> [n \in Numbers |-> 1]],
      routes |-> [r \in Routes |-> [active |-> TRUE, position |-> "AFTER",
                                    pattern |-> {n1}, trunk |-> t2]]]}

\* The route comes first.
MCBefore == {[c EXCEPT !.routes = [r \in Routes |-> [@[r] EXCEPT !.position = "BEFORE"]]] :
               c \in MCInitial}

MCSymmetry == Permutations({l1, l2}) \cup Permutations({q1, q2})
=============================================================================
