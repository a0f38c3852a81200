----------------------------- MODULE CallLifecycle -----------------------------
(***************************************************************************)
(* What the Class 4 B2BUA makes of a call, whatever its messages do: it    *)
(* rings, may be answered, is billed once, as what it then is, and ends.   *)
(* The cleanup may drop a call at any time, without billing it, and the    *)
(* call may return when a handler was at work on it.                       *)
(***************************************************************************)
EXTENDS Naturals, Sequences

CONSTANTS
    SessionIds,
    ALegs,        \* the Call-IDs that callers use
    Causes,       \* what a CDR gives as the cause of the end
    None

VARIABLES
    phase,    \* "new", "ringing", "answered", "closing", "over" or "dropped"
    caller,   \* the Call-ID a session was opened for
    cdrs,     \* the CDRs of each session
    reaped    \* the sessions that the cleanup has ever removed

lifecycleVars == <<phase, caller, cdrs, reaped>>

LifecycleInit ==
    /\ phase = [s \in SessionIds |-> "new"]
    /\ caller = [s \in SessionIds |-> None]
    /\ cdrs = [s \in SessionIds |-> <<>>]
    /\ reaped = {}

Up(s) == phase[s] \in {"ringing", "answered"}

Become(s, p) == phase' = [phase EXCEPT ![s] = p]

\* A Call-ID has one call, unless the cleanup has removed one of its calls.
Open(s, c) ==
    /\ phase[s] = "new"
    /\ \A z \in SessionIds :
          (Up(z) \/ phase[z] = "closing") /\ caller[z] = c
              => \E y \in reaped : caller[y] = c
    /\ Become(s, "ringing")
    /\ caller' = [caller EXCEPT ![s] = c]
    /\ UNCHANGED <<cdrs, reaped>>

Answer(s) ==
    /\ phase[s] = "ringing"
    /\ Become(s, "answered")
    /\ UNCHANGED <<caller, cdrs, reaped>>

\* One call is brought to its end at a time.
Bill(s) ==
    /\ Up(s)
    /\ \A z \in SessionIds : phase[z] # "closing"
    /\ Become(s, "closing")
    /\ \E cause \in Causes :
          cdrs' = [cdrs EXCEPT ![s] = Append(@, [call |-> caller[s], cause |-> cause,
                                                 answered |-> phase[s] = "answered"])]
    /\ UNCHANGED <<caller, reaped>>

\* It may be the cleanup that removes a call that has been billed.
End(s) ==
    /\ phase[s] = "closing"
    /\ Become(s, "over")
    /\ reaped' \in {reaped, reaped \cup {s}}
    /\ UNCHANGED <<caller, cdrs>>

Drop(s) ==
    /\ Up(s)
    /\ Become(s, "dropped")
    /\ reaped' = reaped \cup {s}
    /\ UNCHANGED <<caller, cdrs>>

Return(s) ==
    /\ phase[s] = "dropped"
    /\ \E p \in {"ringing", "answered"} : Become(s, p)
    /\ UNCHANGED <<caller, cdrs, reaped>>

LifecycleNext ==
    \E s \in SessionIds :
        \/ \E c \in ALegs : Open(s, c)
        \/ Answer(s) \/ Bill(s) \/ End(s) \/ Drop(s) \/ Return(s)

LifecycleSpec == LifecycleInit /\ [][LifecycleNext]_lifecycleVars
=============================================================================
