--------------------------- MODULE RouteAdvancement ---------------------------
(***************************************************************************)
(* Failover from one egress trunk to the next: RouteAdvancementEngine      *)
(* (src/src/route_advancement.rs) over TerminationRoutingService           *)
(* (src/src/termination_routing.rs).  The engine keeps a routing state per *)
(* call; an error response records the attempt as failed and asks the      *)
(* service for another route.                                              *)
(*                                                                         *)
(* Both live behind a Mutex that is held for a whole operation, so an      *)
(* operation is one step; what interleaves are the calls.  The callers are *)
(* those the B2BUA is written to be: it starts each call once and passes   *)
(* on the final responses.  A response for a call the engine does not      *)
(* know, or a failure of one that has no route, is an error that changes   *)
(* nothing; it is left out.  So is the CPS limit, which the code that      *)
(* selects a route does not look at.                                       *)
(***************************************************************************)
EXTENDS Naturals, Sequences, FiniteSets

CONSTANTS
    Calls,         \* the call ids
    Trunks,        \* the egress trunks
    Usable,        \* the trunks that are enabled and make no loss
    Limit,         \* concurrent_call_limit of each trunk
    Offers,        \* what find_routes may answer: trunks, best first (<<>>: none, or an error)
    MaxAttempts,   \* max_route_attempts
    Codes,         \* the final SIP response codes the gateways send
    None

\* AdvancementAction
Actions == {"RouteToNext", "CompleteCall", "RejectCall"}

FailedAttempts == Seq([trunk : Trunks, code : Codes])

\* CallRoutingState
States == [attempt : Nat, failed : FailedAttempts, current : Trunks \cup {None}]

ASSUME RoutingAssumption ==
    /\ IsFiniteSet(Calls)
    /\ Usable \subseteq Trunks
    /\ Limit \in [Trunks -> Nat]
    /\ Offers \subseteq Seq(Trunks)
    /\ MaxAttempts \in Nat
    /\ Codes \subseteq 200..699
    /\ None \notin Trunks \cup Actions \cup States

\* SipResponseCode: the codes that have a name, and of these the codes that do
\* not advance (should_advance_route).
StopCodes == {401, 402, 403, 485, 487, 600, 603, 604, 606}
NamedCodes ==
    StopCodes \cup {400, 404, 405, 406, 408, 410, 413, 414, 415, 416, 420, 421, 423, 480,
                    481, 482, 483, 484, 486, 488, 500, 501, 502, 503, 504, 505, 513}

\* should_advance_route of the engine; should_retry_response_code of the service
\* is the same function of these codes.
Advances(code) ==
    IF code \in NamedCodes THEN code \notin StopCodes ELSE code \in 400..599

VARIABLES
    routing,   \* active_calls of the engine: a call to its CallRoutingState, or None
    load,      \* active_calls of the service: the calls it has counted on a trunk
    tried,     \* history: the trunks the B2BUA was told to use for each call
    told,      \* history: the latest action the B2BUA was told
    code       \* history: the latest response to each call

vars == <<routing, load, tried, told, code>>

Init ==
    /\ routing = [c \in Calls |-> None]
    /\ load = [t \in Trunks |-> 0]
    /\ tried = [c \in Calls |-> <<>>]
    /\ told = [c \in Calls |-> None]
    /\ code = [c \in Calls |-> None]

-----------------------------------------------------------------------------
(***************************************************************************)
(* TerminationRoutingService::route_termination                            *)
(***************************************************************************)

FailedTrunks(failed) == {failed[i].trunk : i \in 1..Len(failed)}

\* filter_available_routes drops the trunks that failed for good.
Available(t, failed) ==
    \A i \in 1..Len(failed) : failed[i].trunk = t => Advances(failed[i].code)

\* Wrong variant: a trunk takes one call more than its limit.
SelectableAtLimit(t, failed) == Available(t, failed) /\ t \in Usable /\ load[t] <= Limit[t]

\* A route select_best_route takes.
Selectable(t, failed) == Available(t, failed) /\ t \in Usable /\ load[t] < Limit[t]

\* The first route of the offer that may be taken is that of trunk t.
Selects(offer, failed, t) ==
    \E i \in 1..Len(offer) :
        /\ offer[i] = t /\ Selectable(t, failed)
        /\ \A j \in 1..(i - 1) : ~Selectable(offer[j], failed)

\* Wrong variant: the last attempt is made.
RouteFoundLast(attempt, failed, t) ==
    /\ attempt <= MaxAttempts
    /\ \E offer \in Offers : Selects(offer, failed, t)
    /\ load' = [load EXCEPT ![t] = @ + 1]

\* route_termination finds trunk t for an attempt, and counts the call there.
RouteFound(attempt, failed, t) ==
    /\ attempt < MaxAttempts
    /\ \E offer \in Offers : Selects(offer, failed, t)
    /\ load' = [load EXCEPT ![t] = @ + 1]

\* route_termination finds nothing: max_attempts, no offer, or none to be taken.
RouteMissing(attempt, failed) ==
    /\ \/ attempt >= MaxAttempts
       \/ \E offer \in Offers : \A i \in 1..Len(offer) : ~Selectable(offer[i], failed)
    /\ UNCHANGED load

-----------------------------------------------------------------------------
(***************************************************************************)
(* RouteAdvancementEngine                                                  *)
(***************************************************************************)

Tell(c, action) == told' = [told EXCEPT ![c] = action]

\* The B2BUA is told to use trunk t.
TellRoute(c, t) ==
    /\ Tell(c, "RouteToNext")
    /\ tried' = [tried EXCEPT ![c] = Append(@, t)]

\* complete_call_routing
Complete(c, action) ==
    /\ routing' = [routing EXCEPT ![c] = None]
    /\ Tell(c, action)
    /\ UNCHANGED tried

Fresh(c) == told[c] = None

\* start_call_routing, with a route ...
StartRouted(c) ==
    /\ Fresh(c)
    /\ \E t \in Trunks :
          /\ RouteFound(1, <<>>, t)
          /\ routing' = [routing EXCEPT ![c] = [attempt |-> 1, failed |-> <<>>, current |-> t]]
          /\ TellRoute(c, t)
    /\ UNCHANGED code

\* ... and without one: the call is rejected, and its state is stored all the same.
StartRejected(c) ==
    /\ Fresh(c)
    /\ RouteMissing(1, <<>>)
    /\ routing' = [routing EXCEPT ![c] = [attempt |-> 1, failed |-> <<>>, current |-> None]]
    /\ Tell(c, "RejectCall")
    /\ UNCHANGED <<tried, code>>

\* Wrong variant: a call without a route is taken to have one.
RespondsUnrouted(c, k) ==
    /\ routing[c] # None
    /\ code' = [code EXCEPT ![c] = k]

\* The trunk of the current route answers.  That the call has a route is looked at
\* only for a failure: a late success completes a call that was rejected without one.
Responds(c, k) ==
    /\ routing[c] # None
    /\ k >= 300 => routing[c].current # None
    /\ code' = [code EXCEPT ![c] = k]

\* Wrong variant: only the latest failure is kept.
FailuresLatest(c, k) == <<[trunk |-> routing[c].current, code |-> k]>>

\* failed_attempts after an error response
Failures(c, k) == Append(routing[c].failed, [trunk |-> routing[c].current, code |-> k])

\* handle_sip_response: the code ends the call, whether it is a success or not.
FinalResponse(c, k) ==
    /\ Responds(c, k)
    /\ ~Advances(k)
    /\ Complete(c, "CompleteCall")
    /\ UNCHANGED load

\* Wrong variant: a route that has failed is used again.
AdvanceAgain(c, k) ==
    /\ Responds(c, k)
    /\ Advances(k)
    /\ \E t \in Trunks :
          /\ RouteFound(routing[c].attempt + 1, Failures(c, k), t)
          /\ routing' = [routing EXCEPT ![c] = [attempt |-> @.attempt + 1,
                                                failed |-> Failures(c, k), current |-> t]]
          /\ TellRoute(c, t)

\* advance_to_next_route.  (Its own comparison of current_attempt with
\* max_route_attempts is never reached: the service refuses the attempt first.)
Advance(c, k) ==
    /\ Responds(c, k)
    /\ Advances(k)
    /\ \E t \in Trunks :
          /\ RouteFound(routing[c].attempt + 1, Failures(c, k), t)
          /\ t \notin FailedTrunks(Failures(c, k))
          /\ routing' = [routing EXCEPT ![c] = [attempt |-> @.attempt + 1,
                                                failed |-> Failures(c, k), current |-> t]]
          /\ TellRoute(c, t)

\* The route found is one that failed before: the call is rejected, after the
\* service has counted it on that trunk.
SkipFailed(c, k) ==
    /\ Responds(c, k)
    /\ Advances(k)
    /\ \E t \in FailedTrunks(Failures(c, k)) :
          RouteFound(routing[c].attempt + 1, Failures(c, k), t)
    /\ Complete(c, "RejectCall")

NoRoute(c, k) ==
    /\ Responds(c, k)
    /\ Advances(k)
    /\ RouteMissing(routing[c].attempt + 1, Failures(c, k))
    /\ Complete(c, "RejectCall")

\* cleanup_expired_calls: the states older than the cutoff, which may be any.
CleanupExpired ==
    /\ \E old \in SUBSET {c \in Calls : routing[c] # None} :
          routing' = [c \in Calls |-> IF c \in old THEN None ELSE routing[c]]
    /\ UNCHANGED <<load, tried, told, code>>

Next ==
    \/ \E c \in Calls : StartRouted(c) \/ StartRejected(c)
    \/ \E c \in Calls, k \in Codes :
          FinalResponse(c, k) \/ Advance(c, k) \/ SkipFailed(c, k) \/ NoRoute(c, k)
    \/ CleanupExpired

Spec == Init /\ [][Next]_vars

-----------------------------------------------------------------------------
(***************************************************************************)
(* Properties                                                              *)
(***************************************************************************)

TypeOK ==
    /\ routing \in [Calls -> States \cup {None}]
    /\ load \in [Trunks -> Nat]
    /\ tried \in [Calls -> Seq(Trunks)]
    /\ told \in [Calls -> Actions \cup {None}]
    /\ code \in [Calls -> Codes \cup {None}]

\* No call is sent to a trunk that has failed it, though the service offers the
\* trunk again and again.
NoTrunkTwice ==
    \A c \in Calls : \A i, j \in 1..Len(tried[c]) : tried[c][i] = tried[c][j] => i = j

\* The engine's record of a call is what the B2BUA did: its route is the last
\* it was told, and every earlier one has failed, in order, by a code to advance on.
RecordMatches ==
    \A c \in Calls : routing[c] # None /\ routing[c].current # None =>
        LET st == routing[c] IN
        /\ st.attempt = Len(tried[c])
        /\ st.attempt = Len(st.failed) + 1
        /\ st.current = tried[c][Len(tried[c])]
        /\ \A i \in 1..Len(st.failed) :
              st.failed[i].trunk = tried[c][i] /\ Advances(st.failed[i].code)

RoutedTo(t) == {c \in Calls : routing[c] # None /\ routing[c].current = t}

\* The calls that are routed to a trunk stay within its concurrent_call_limit.
LimitRespected == \A t \in Trunks : Cardinality(RoutedTo(t)) <= Limit[t]

\* No call uses its last attempt: with max_route_attempts = n there are n - 1.
AttemptsBounded == \A c \in Calls : tried[c] = <<>> \/ Len(tried[c]) < MaxAttempts

\* Where a call stands for the B2BUA: it has a route, is not started, or is over.
Phase ==
    [c \in Calls |-> IF told[c] = None THEN "new"
                     ELSE IF routing[c] # None /\ routing[c].current # None THEN "routed"
                     ELSE "over"]

Engine == INSTANCE Failover WITH phase <- Phase

\* The engine and the service, each with a part of the state and its own idea of
\* the attempts, together keep the promise of Failover (advance_to_next_route,
\* route_termination): the trunk's limit counts the calls that are on it now,
\* though the service's counter is never lowered, and no response, expiry or
\* repeated offer brings a call back that is over.
FailoverImplemented == Engine!FailoverSpec

\* A call that is completed or rejected is never routed again.  (A success for a call
\* that was rejected at its start turns the rejection into a completion.)
FinalIsFinal ==
    [][\A c \in Calls : told[c] \in {"CompleteCall", "RejectCall"} =>
          /\ told'[c] \in {told[c], "CompleteCall"}
          /\ tried'[c] = tried[c]]_vars

=============================================================================
