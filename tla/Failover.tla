------------------------------- MODULE Failover -------------------------------
(***************************************************************************)
(* What RouteAdvancementEngine promises the B2BUA: a call is sent to one   *)
(* trunk after another, to none twice, to fewer than MaxAttempts, and to   *)
(* none that already carries as many calls as its limit; and when it is    *)
(* told that a call is over, that is the last word on it.                  *)
(***************************************************************************)
EXTENDS Naturals, Sequences, FiniteSets

CONSTANTS
    Calls,
    Trunks,
    Limit,         \* the calls each trunk takes
    MaxAttempts

VARIABLES
    phase,   \* of each call: "new", "routed" or "over"
    tried    \* the trunks each call was sent to, the latest last

failoverVars == <<phase, tried>>

FailoverInit ==
    /\ phase = [c \in Calls |-> "new"]
    /\ tried = [c \in Calls |-> <<>>]

\* The calls that are on trunk t.
On(t) == {c \in Calls : phase[c] = "routed" /\ tried[c][Len(tried[c])] = t}

Send(c, t) ==
    /\ phase[c] # "over"
    /\ \A i \in 1..Len(tried[c]) : tried[c][i] # t
    /\ Len(tried[c]) + 1 < MaxAttempts
    /\ Cardinality(On(t)) < Limit[t]
    /\ phase' = [phase EXCEPT ![c] = "routed"]
    /\ tried' = [tried EXCEPT ![c] = Append(@, t)]

\* Calls end; the engine may forget several at once.
Finish(ended) ==
    /\ \A c \in ended : phase[c] # "over"
    /\ phase' = [c \in Calls |-> IF c \in ended THEN "over" ELSE phase[c]]
    /\ UNCHANGED tried

FailoverNext ==
    \/ \E c \in Calls, t \in Trunks : Send(c, t)
    \/ \E ended \in SUBSET Calls : Finish(ended)

FailoverSpec == FailoverInit /\ [][FailoverNext]_failoverVars
=============================================================================
