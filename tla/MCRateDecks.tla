------------------------------ MODULE MCRateDecks ------------------------------
(* The instance of RateDecks that TLC checks. *)
EXTENDS RateDecks, TLC

\* Loaders are interchangeable: no property or action names one.
LoaderSymmetry == Permutations(Loaders)
=============================================================================
