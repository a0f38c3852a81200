---------------------------- MODULE MCSessionLocks ----------------------------
(***************************************************************************)
(* Instances of SessionLocks for TLC: the main loop, the cleanup task and  *)
(* a reader of the statistics over two sessions of the same Call-IDs.      *)
(***************************************************************************)
EXTENDS SessionLocks, TLC

CONSTANTS c1, c2, s1, s2, main, cleaner, cleaner2, monitor, none

MCRecords == {[a |-> c1, b |-> c2, state |-> "Connected"]}

MCSymmetry == Permutations({s1, s2})

\* The operations of the handlers.
AllHandlerOps == Ops \ {"collect", "stats"}
=============================================================================
