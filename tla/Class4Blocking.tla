--------------------------- MODULE Class4Blocking ---------------------------
(***************************************************************************)
(* Class4B2BUA with the one way in which the operations of SessionManager  *)
(* do not return (StuckOnlyByLookup in SessionLocks): a look-up by Call-ID *)
(* keeps the mapping and waits for the sessions, a removal keeps the       *)
(* sessions and waits for the mapping.  The handlers look a session up     *)
(* where they receive a message, and of the other tasks only the cleanup   *)
(* removes; the two then wait for each other for ever.  Everything else a  *)
(* handler or a cleanup pass calls takes the locks in one order.           *)
(***************************************************************************)
EXTENDS Class4B2BUA

VARIABLE blocked    \* the main loop and a cleanup pass wait for each other

blockingVars == <<vars, blocked>>

BlockingInit == Init /\ blocked = FALSE

\* A message whose handler looks up Call-ID c may come: a hang-up, an ACK or a
\* response of a peer that has got a response or the INVITE.
MayBeLookedUp(c) ==
    main.at = "recv" /\ \E kind \in {"100", "200", "INVITE"} : Msg(c, kind) \in sent

\* The look-up (get_session_by_any_call_id) finds an entry in the mapping and waits
\* for the sessions, which a cleanup pass has locked to remove one of them;
\* remove_session takes all its locks before it looks whether the session is there.
Block ==
    /\ ~blocked
    /\ \E c \in CallIds : mapping[c] # None /\ MayBeLookedUp(c)
    /\ \E w \in Sweepers : sweep[w] # {}
    /\ blocked' = TRUE
    /\ UNCHANGED vars

Free(A) == ~blocked /\ A /\ UNCHANGED blocked

\* Once the two wait, only time goes on: every other pass waits for the sessions.
TickBlocked == blocked /\ Tick /\ UNCHANGED blocked

BlockingNext == Free(Next) \/ Block \/ TickBlocked

BlockingSpec == BlockingInit /\ [][BlockingNext]_blockingVars

\* The runtime polls a handler whose future is ready, runs the cleanup at every
\* interval, and time passes.  Peers are not fair: they may fall silent.  No operation
\* is taken to return that waits in the cycle of Block.
Fairness ==
    /\ WF_blockingVars(Free(Handle))
    /\ WF_blockingVars(Tick /\ UNCHANGED blocked)
    /\ \A w \in Sweepers : /\ WF_blockingVars(Free(StartSweep(w)))
                          /\ WF_blockingVars(Free(RemoveExpired(w)))

FairBlockingSpec == BlockingSpec /\ Fairness

\* Whatever its peers do, every session leaves the table, unless a look-up and the
\* cleanup have blocked each other (get_session_by_any_call_id, remove_session); and
\* every handler that has got past its look-up ends (run, cleanup_expired_sessions).
SessionsEnd ==
    /\ \A s \in SessionIds : s \in Live ~> s \notin Live \/ blocked
    /\ main.at # "recv" ~> main.at = "recv"
=============================================================================
