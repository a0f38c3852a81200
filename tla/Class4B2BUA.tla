----------------------------- MODULE Class4B2BUA -----------------------------
(***************************************************************************)
(* The Class 4 back-to-back user agent (src/src/class4_b2bua.rs): the call *)
(* flow of the SIP handlers over the tables of SessionStore.               *)
(*                                                                         *)
(* `run` is one loop that handles one SIP message to its end, so at most   *)
(* one handler is active; `main` is its control state.  The handlers are   *)
(* async: wherever they wait for a table, the session cleanup task (and a  *)
(* caller of Class4Integration::cleanup_sessions) may run.  A handler      *)
(* works on a clone of the session, main.r, and writes it back whole with  *)
(* update_session, whether or not the session is still in the table.       *)
(*                                                                         *)
(* Messages travel over UDP.  `sent` only grows, and a peer may react to   *)
(* what it was sent at any later time, once, repeatedly or never: that is  *)
(* loss, duplication, delay and reordering.  Malformed messages, which are *)
(* refused before any table is read, are left out.                         *)
(***************************************************************************)
EXTENDS Naturals, Sequences, FiniteSets

CONSTANTS
    SessionIds,    \* bound: the session ids that calls may get
    ALegs,         \* the Call-IDs that callers use
    Trunks,        \* the egress trunks
    TrunkLimit,    \* their concurrent_call_limit
    Sweepers,      \* the tasks that run cleanup_expired_sessions
    CallTimeout,   \* call_timeout_seconds, in ticks
    MaxTime,       \* bound: the clock stops here
    None

\* format!("{}-b", session_id): one B-leg Call-ID per session, for all attempts.
BLeg(s) == <<s, "b">>

CallIds == ALegs \cup {BLeg(s) : s \in SessionIds}

Time == 0..MaxTime

\* The states the code stores.  Connecting, which handle_ack tests for, and
\* Terminated, which terminate_session sets on its clone, are never stored.
SessionStates == {"Originating", "Routing", "Terminating", "Connected"}

\* CallSession: the Call-IDs of the legs, the state, last_activity,
\* cdr.answer_time and the trunk of current_route.
Records == [a : ALegs, b : {BLeg(s) : s \in SessionIds} \cup {None},
            state : SessionStates, last : Time, answer : Time \cup {None},
            trunk : Trunks \cup {None}]

ASSUME B2BUAAssumption ==
    /\ MaxTime \in Nat /\ CallTimeout \in Nat /\ TrunkLimit \in Nat
    /\ None \notin SessionIds \cup CallIds \cup Trunks \cup Nat \cup Records
    /\ \A s \in SessionIds : BLeg(s) \notin ALegs   \* a caller never picks "<uuid>-b"

VARIABLES
    sessions, mapping, stats,   \* the tables of SessionManager
    main,         \* the main loop: where it is, and the locals of the handler
    sweep,        \* the ids each cleanup pass has still to remove
    trunkCalls,   \* TerminationRoutingService::active_calls
    cdrs,         \* the CDRs published for each session
    sent,         \* every message sent
    now,          \* the clock (Utc::now)
    caller,       \* history: the A-leg Call-ID a session id was created for
    reaped        \* history: the sessions that the cleanup has removed

INSTANCE SessionStore

vars == <<sessions, mapping, stats, main, sweep, trunkCalls, cdrs, sent, now,
          caller, reaped>>

\* recv: waiting for a message.  The others are the points where a handler
\* waits for a table, the routing service or the socket.
Points == {"recv", "admit", "begin", "route", "attempt", "mapb", "sendb",
           "answer", "forward", "terminate", "remove", "reply"}

\* s, r: the session and the clone the handler works on; c: the Call-ID of the
\* request it answers (None when it answers nobody); cause: why it terminates.
Receiving == [at |-> "recv", s |-> None, r |-> None, c |-> None, cause |-> None]

Causes == {"200", "487", "503"}

\* A message to the peer of a leg; its text is left out.
Msg(leg, kind) == [to |-> leg, kind |-> kind]

Init ==
    /\ StoreInit
    /\ main = Receiving
    /\ sweep = [w \in Sweepers |-> {}]
    /\ trunkCalls = [t \in Trunks |-> 0]
    /\ cdrs = [s \in SessionIds |-> <<>>]
    /\ sent = {}
    /\ now = 0
    /\ caller = [s \in SessionIds |-> None]
    /\ reaped = {}

Goto(p) == main' = [main EXCEPT !.at = p]
Done == main' = Receiving

history == <<caller, reaped>>

Created == {s \in SessionIds : caller[s] # None}

-----------------------------------------------------------------------------
(***************************************************************************)
(* INVITE                                                                  *)
(***************************************************************************)

\* Wrong variant: a retransmission is taken for a new call.
ReceiveInviteUnchecked(c) ==
    /\ main.at = "recv"
    /\ main' = [Receiving EXCEPT !.at = "admit", !.c = c]
    /\ sent' = sent \cup {Msg(c, "100")}
    /\ UNCHANGED <<sessions, mapping, stats, sweep, trunkCalls, cdrs, now, history>>

\* handle_invite: an INVITE whose Call-ID is mapped is a retransmission and is
\* dropped, which changes nothing.  Any other gets 100 Trying when its source
\* is known, and 500 when it is not.
ReceiveInvite(c) ==
    /\ main.at = "recv"
    /\ mapping[c] = None
    /\ \/ /\ main' = [Receiving EXCEPT !.at = "admit", !.c = c]
          /\ sent' = sent \cup {Msg(c, "100")}
       \/ /\ Done
          /\ sent' = sent \cup {Msg(c, "final")}
    /\ UNCHANGED <<sessions, mapping, stats, sweep, trunkCalls, cdrs, now, history>>

\* The traffic is refused: 403 by the origination engine or an ANI-II policy
\* (which publishes a CDR of the blocked call, without a session), 404 for an
\* unknown DID; or the engine fails and `?` ends the handler in silence.
RefuseInvite ==
    /\ main.at = "admit"
    /\ Done
    /\ \E reply \in {{}, {Msg(main.c, "final")},
                     {Msg(main.c, "final"), Msg(main.c, "blocked cdr")}} :
          sent' = sent \cup reply
    /\ UNCHANGED <<sessions, mapping, stats, sweep, trunkCalls, cdrs, now, history>>

NewRecord(c) ==
    [a |-> c, b |-> None, state |-> "Originating", last |-> now,
     answer |-> None, trunk |-> None]

\* process_origination_traffic and process_termination_traffic store the new
\* session.  Termination goes on to routing; origination calls
\* deliver_to_customer, which does nothing.
AdmitInvite ==
    /\ main.at = "admit"
    /\ now + CallTimeout < MaxTime   \* bound: the clock must reach its expiry
    /\ \E s \in SessionIds \ Created :
          /\ AddSession(s, NewRecord(main.c))
          /\ caller' = [caller EXCEPT ![s] = main.c]
          /\ \/ main' = [main EXCEPT !.at = "begin", !.s = s, !.r = NewRecord(main.c), !.c = None]
             \/ Done
    /\ UNCHANGED <<sweep, trunkCalls, cdrs, sent, now, reaped>>

\* The handler changes its clone to r and writes it over the stored session.
WriteBack(r, p) ==
    /\ UpdateSession(main.s, r)
    /\ main' = [main EXCEPT !.r = r, !.at = p]

\* Wrong variant: the clone is changed and not stored.
BeginRoutingUnstored ==
    /\ main.at = "begin"
    /\ main' = [main EXCEPT !.r.state = "Routing", !.at = "route"]
    /\ UNCHANGED <<sessions, mapping, stats, sweep, trunkCalls, cdrs, sent, now, history>>

\* begin_termination_routing.  The A-leg always has codecs (extract_codecs falls
\* back to a default list), so the branch that answers 488 is dead.
BeginRouting ==
    /\ main.at = "begin"
    /\ WriteBack([main.r EXCEPT !.state = "Routing"], "route")
    /\ UNCHANGED <<sweep, trunkCalls, cdrs, sent, now, history>>

\* route_termination selects a trunk below its limit and counts the call there.
RouteFound(t) ==
    /\ main.at = "route"
    /\ trunkCalls[t] < TrunkLimit
    /\ trunkCalls' = [trunkCalls EXCEPT ![t] = @ + 1]
    /\ WriteBack([main.r EXCEPT !.trunk = t, !.state = "Terminating"], "attempt")
    /\ UNCHANGED <<sweep, cdrs, sent, now, history>>

\* No route: the session is terminated with 503.  Nobody tells the caller.
RouteMissing ==
    /\ main.at = "route"
    /\ main' = [main EXCEPT !.at = "terminate", !.cause = "503"]
    /\ UNCHANGED <<sessions, mapping, stats, sweep, trunkCalls, cdrs, sent, now, history>>

\* The trunk's host is a name, which host.parse()? does not take for an address:
\* the handler ends and leaves the session without a B-leg, its call counted.
RouteUnusable ==
    /\ main.at = "attempt"
    /\ Done
    /\ UNCHANGED <<sessions, mapping, stats, sweep, trunkCalls, cdrs, sent, now, history>>

\* attempt_termination: the B-leg goes into the session, then, under another
\* lock, into the mapping, then its INVITE is sent.
AttemptTermination ==
    /\ main.at = "attempt"
    /\ WriteBack([main.r EXCEPT !.b = BLeg(main.s), !.state = "Terminating"], "mapb")
    /\ UNCHANGED <<sweep, trunkCalls, cdrs, sent, now, history>>

MapBLeg ==
    /\ main.at = "mapb"
    /\ MapCallId(BLeg(main.s), main.s)
    /\ Goto("sendb")
    /\ UNCHANGED <<sweep, trunkCalls, cdrs, sent, now, history>>

SendBLegInvite ==
    /\ main.at = "sendb"
    /\ sent' = sent \cup {Msg(BLeg(main.s), "INVITE")}
    /\ Done
    /\ UNCHANGED <<sessions, mapping, stats, sweep, trunkCalls, cdrs, now, history>>

-----------------------------------------------------------------------------
(***************************************************************************)
(* Responses of the gateway, which arrive under the B-leg's Call-ID        *)
(***************************************************************************)

\* The gateway of session s was sent an INVITE and the main loop is free.
GatewayMaySend(s) == main.at = "recv" /\ Msg(BLeg(s), "INVITE") \in sent

\* Wrong variant: a progress response sets the state of the session.
ReceiveProvisionalStored(s) ==
    /\ GatewayMaySend(s)
    /\ Lookup(BLeg(s)) # None
    /\ sent' = sent \cup {Msg(sessions[Lookup(BLeg(s))].a, "1xx")}
    /\ UpdateSession(Lookup(BLeg(s)), [sessions[Lookup(BLeg(s))] EXCEPT !.state = "Terminating"])
    /\ UNCHANGED <<main, sweep, trunkCalls, cdrs, now, history>>

\* handle_provisional_response forwards it.  A response for a Call-ID that is
\* not known is dropped; so is a 2xx other than 200.
ReceiveProvisional(s) ==
    /\ GatewayMaySend(s)
    /\ Lookup(BLeg(s)) # None
    /\ sent' = sent \cup {Msg(sessions[Lookup(BLeg(s))].a, "1xx")}
    /\ UNCHANGED <<sessions, mapping, stats, main, sweep, trunkCalls, cdrs, now, history>>

\* handle_success_response: every 200, a retransmitted one too, connects the
\* clone and stamps it with the time of the answer.  The codecs always match
\* (both legs always offer PCMU), so the branch for a failed negotiation is dead.
ReceiveAnswer(s) ==
    /\ GatewayMaySend(s)
    /\ Lookup(BLeg(s)) # None
    /\ LET id == Lookup(BLeg(s)) IN
          main' = [Receiving EXCEPT !.at = "answer", !.s = id,
                     !.r = [sessions[id] EXCEPT !.state = "Connected", !.answer = now]]
    /\ UNCHANGED <<sessions, mapping, stats, sweep, trunkCalls, cdrs, sent, now, history>>

StoreAnswer ==
    /\ main.at = "answer"
    /\ WriteBack(main.r, "forward")
    /\ UNCHANGED <<sweep, trunkCalls, cdrs, sent, now, history>>

ForwardAnswer ==
    /\ main.at = "forward"
    /\ sent' = sent \cup {Msg(main.r.a, "200")}
    /\ Done
    /\ UNCHANGED <<sessions, mapping, stats, sweep, trunkCalls, cdrs, now, history>>

\* An error response changes nothing: handle_error_response asks the route
\* advancement engine what to do, nobody has called start_call_routing for the
\* session, so the engine answers "Call routing state not found" and `?` ends
\* the handler.

-----------------------------------------------------------------------------
(***************************************************************************)
(* ACK, BYE and CANCEL                                                     *)
(***************************************************************************)

\* handle_ack forwards the caller's ACK to the B-leg, if there is one.  (It takes
\* an ACK from any other address to be the gateway's, which has none to send.)
ReceiveAck(c) ==
    /\ main.at = "recv"
    /\ Msg(c, "200") \in sent
    /\ Lookup(c) # None
    /\ sessions[Lookup(c)].b # None
    /\ sent' = sent \cup {Msg(sessions[Lookup(c)].b, "ACK")}
    /\ UNCHANGED <<sessions, mapping, stats, main, sweep, trunkCalls, cdrs, now, history>>

\* handle_bye and handle_cancel: look the session up, terminate it, answer 200.
Hangup(c, cause) ==
    /\ main.at = "recv"
    /\ Lookup(c) # None
    /\ main' = [Receiving EXCEPT !.at = "terminate", !.s = Lookup(c), !.c = c, !.cause = cause]
    /\ UNCHANGED <<sessions, mapping, stats, sweep, trunkCalls, cdrs, sent, now, history>>

ReceiveBye(c) ==
    /\ Msg(c, "200") \in sent \/ Msg(c, "INVITE") \in sent
    /\ Hangup(c, "200")

ReceiveCancel(c) ==
    /\ Msg(c, "100") \in sent
    /\ Hangup(c, "487")

\* The end of terminate_session: back in handle_bye or handle_cancel, which
\* reply, or in begin_termination_routing, which does not.
AfterTerminate == IF main.c = None THEN Done ELSE Goto("reply")

\* answered stands for duration_seconds, which an unanswered call does not have.
Cdr(r, cause) == [call |-> r.a, cause |-> cause, answered |-> r.answer # None]

Publish(s, cdr) == cdrs' = [cdrs EXCEPT ![s] = Append(@, cdr)]

\* Wrong variant: a call that was not answered gets no CDR.
TerminateSessionUnbilled ==
    /\ main.at = "terminate"
    /\ IF sessions[main.s] = None
         THEN AfterTerminate /\ UNCHANGED cdrs
         ELSE /\ IF sessions[main.s].answer = None
                   THEN UNCHANGED cdrs
                   ELSE Publish(main.s, Cdr(sessions[main.s], main.cause))
              /\ main' = [main EXCEPT !.at = "remove", !.r = sessions[main.s]]
    /\ UNCHANGED <<sessions, mapping, stats, sweep, trunkCalls, sent, now, history>>

\* terminate_session reads the session again, for the cleanup may have removed
\* it, and publishes its CDR (enable_cdr_generation is on) before it waits for
\* the tables to remove it.
TerminateSession ==
    /\ main.at = "terminate"
    /\ IF sessions[main.s] = None
         THEN AfterTerminate /\ UNCHANGED cdrs
         ELSE /\ Publish(main.s, Cdr(sessions[main.s], main.cause))
              /\ main' = [main EXCEPT !.at = "remove", !.r = sessions[main.s]]
    /\ UNCHANGED <<sessions, mapping, stats, sweep, trunkCalls, sent, now, history>>

\* Wrong variant: the session stays in the table.
RemoveTerminatedForgotten ==
    /\ main.at = "remove"
    /\ AfterTerminate
    /\ UNCHANGED <<sessions, mapping, stats, sweep, trunkCalls, cdrs, sent, now, history>>

RemoveTerminated ==
    /\ main.at = "remove"
    /\ RemoveSession(main.s)
    /\ AfterTerminate
    /\ UNCHANGED <<sweep, trunkCalls, cdrs, sent, now, history>>

ReplyOk ==
    /\ main.at = "reply"
    /\ sent' = sent \cup {Msg(main.c, "200 hangup")}
    /\ Done
    /\ UNCHANGED <<sessions, mapping, stats, sweep, trunkCalls, cdrs, now, history>>

-----------------------------------------------------------------------------
(***************************************************************************)
(* Time and the cleanup                                                    *)
(***************************************************************************)

Tick ==
    /\ now < MaxTime
    /\ now' = now + 1
    /\ UNCHANGED <<sessions, mapping, stats, main, sweep, trunkCalls, cdrs, sent, history>>

\* Wrong variant: a connected session never expires.
ExpiredUnconnected ==
    {s \in Live : sessions[s].state # "Connected" /\ sessions[s].last + CallTimeout < now}

\* last_activity < now - timeout
Expired == {s \in Live : sessions[s].last + CallTimeout < now}

\* cleanup_expired_sessions: collect the expired ids under a read guard ...
StartSweep(w) ==
    /\ sweep[w] = {} /\ Expired # {}
    /\ sweep' = [sweep EXCEPT ![w] = Expired]
    /\ UNCHANGED <<sessions, mapping, stats, main, trunkCalls, cdrs, sent, now, history>>

\* ... then remove them one after the other, without a CDR or a message.
RemoveExpired(w) ==
    \E s \in sweep[w] :
       /\ RemoveSession(s)
       /\ sweep' = [sweep EXCEPT ![w] = @ \ {s}]
       /\ reaped' = IF s \in Live THEN reaped \cup {s} ELSE reaped
       /\ UNCHANGED <<main, trunkCalls, cdrs, sent, now, caller>>

-----------------------------------------------------------------------------

Receive ==
    \/ \E c \in ALegs : ReceiveInvite(c) \/ ReceiveAck(c) \/ ReceiveCancel(c)
    \/ \E c \in CallIds : ReceiveBye(c)
    \/ \E s \in SessionIds : ReceiveProvisional(s) \/ ReceiveAnswer(s)

\* The handler that is active goes on.
Handle ==
    \/ RefuseInvite \/ AdmitInvite
    \/ BeginRouting \/ RouteMissing \/ (\E t \in Trunks : RouteFound(t))
    \/ RouteUnusable \/ AttemptTermination \/ MapBLeg \/ SendBLegInvite
    \/ StoreAnswer \/ ForwardAnswer
    \/ TerminateSession \/ RemoveTerminated \/ ReplyOk

Sweep == \E w \in Sweepers : StartSweep(w) \/ RemoveExpired(w)

Next == Receive \/ Handle \/ Sweep \/ Tick

Spec == Init /\ [][Next]_vars

-----------------------------------------------------------------------------
(***************************************************************************)
(* Properties                                                              *)
(***************************************************************************)

\* The values of the variables.  In particular no stored session is ever
\* Connecting, so the branch of handle_ack that refreshes last_activity is dead.
TypeOK ==
    /\ StoreTypeOK
    /\ main \in [at : Points, s : SessionIds \cup {None}, r : Records \cup {None},
                 c : CallIds \cup {None}, cause : Causes \cup {None}]
    /\ sweep \in [Sweepers -> SUBSET SessionIds]
    /\ trunkCalls \in [Trunks -> 0..TrunkLimit]
    /\ cdrs \in [SessionIds -> Seq([call : ALegs, cause : Causes, answered : BOOLEAN])]
    /\ now \in Time
    /\ caller \in [SessionIds -> ALegs \cup {None}]
    /\ reaped \subseteq SessionIds

\* A call is billed at most once, and a session that has been billed is gone,
\* except for the moment between the CDR and the removal in terminate_session.
\* (update_session could bring it back; a second hang-up could bill it again.)
BilledOnce ==
    \A s \in SessionIds :
        /\ Len(cdrs[s]) <= 1
        /\ cdrs[s] # <<>> /\ s \in Live => main.at = "remove" /\ main.s = s

\* No lost update: while a handler works on a clone, the table, if it still
\* has the session, has exactly that clone.
CloneIsCurrent ==
    main.s \in Live /\ main.at \in {"begin", "route", "attempt", "mapb", "sendb",
                                    "forward", "remove"}
        => sessions[main.s] = main.r

\* A live session can be found under its caller's Call-ID and, once the B-leg
\* is mapped, under the B-leg's; the only exceptions come from the cleanup: the
\* session itself was removed and came back, or one that did so had its Call-ID.
\* The other way round, a Call-ID maps to a live session; an entry that outlives
\* its session was made by a handler that the cleanup overtook.
SessionsAreReachable ==
    /\ \A s \in Live :
        /\ \/ mapping[caller[s]] = s
           \/ \E z \in reaped : caller[z] = caller[s]
        /\ \/ sessions[s].b = None
           \/ mapping[BLeg(s)] = s
           \/ main.at = "mapb" /\ main.s = s
           \/ s \in reaped
    /\ \A c \in CallIds : mapping[c] # None => mapping[c] \in Live \cup reaped

\* Two live sessions of one Call-ID only when the cleanup has removed a session
\* of that Call-ID.  (It need not be one of the two: a session that was removed
\* and came back takes the mapping of its successor along when it ends.)
OneSessionPerCallId ==
    \A s, z \in Live :
        s # z /\ caller[s] = caller[z] => \E y \in reaped : caller[y] = caller[s]

\* active_sessions never counts a session too many, and no admitted session
\* disappears from the statistics; until the cleanup has removed something the
\* counters agree with the table.  (A session that the cleanup removes and a
\* handler writes back is live and not counted, and ends twice.)  The trunk's
\* counter never misses a call.
StatsAgree ==
    /\ stats.active <= Cardinality(Live)
    /\ stats.total = Cardinality(Created)
    /\ stats.total <= stats.active + stats.successful + stats.failed
    /\ reaped = {} => /\ stats.active = Cardinality(Live)
                      /\ stats.total = stats.active + stats.successful + stats.failed
    /\ \A t \in Trunks :
          Cardinality({s \in Live : sessions[s].trunk = t}) <= trunkCalls[t]

\* Where a call stands, by the tables and the CDRs.
Phase ==
    [s \in SessionIds |->
        IF caller[s] = None THEN "new"
        ELSE IF sessions[s] # None
          THEN IF cdrs[s] # <<>> THEN "closing"
               ELSE IF sessions[s].answer # None THEN "answered" ELSE "ringing"
          ELSE IF cdrs[s] # <<>> THEN "over" ELSE "dropped"]

Lifecycle == INSTANCE CallLifecycle WITH phase <- Phase

\* The handlers and the cleanup over the tables are no more than CallLifecycle:
\* every call they end is billed, once, with the Call-ID and the answer it then
\* has, before the next is brought to its end; only the cleanup makes one
\* disappear without (terminate_session, cleanup_expired_sessions), and only a
\* call that disappeared this way comes back (update_session).
LifecycleImplemented == Lifecycle!LifecycleSpec

\* The session manager, without the tasks that only ask it for sessions.
Manager == INSTANCE SessionManager WITH Tasks <- {}, found <- [t \in {} |-> None]

\* Between two points where it waits, a handler makes at most one operation of the
\* session manager, and so does the cleanup: nothing they do needs two of them to
\* take effect together, and no table is touched in another way.
ManagerUsed == Manager!ManagerSpec

\* A session leaves the table billed, or it was the cleanup that removed it.
EndsBilledOrReaped ==
    [][\A s \in Live \ Live' : cdrs[s] # <<>> \/ s \in reaped']_vars

\* An answered call stays answered: no handler writes back a clone taken before
\* the answer, and the time of the answer only moves forward.
AnswerIsKept ==
    [][\A s \in Live \cap Live' :
          sessions[s].state = "Connected" =>
              /\ sessions'[s].state = "Connected"
              /\ sessions'[s].answer >= sessions[s].answer]_vars

\* No handler renews a session's last_activity, whatever it writes back: it is the
\* time of the first INVITE as long as the session lives (update_session stores
\* clones; the branch of handle_ack that would renew it is dead).
ActivityNeverRenewed ==
    [][\A s \in Live \cap Live' : sessions'[s].last = sessions[s].last]_vars

\* What a cleanup pass is about to remove has expired, although it collected the
\* ids before; and so has whatever a handler brings back after the cleanup removed
\* it, so that the next pass collects it again.
ReapedHasExpired ==
    /\ Live \cap reaped \subseteq Expired
    /\ \A w \in Sweepers : Live \cap sweep[w] \subseteq Expired

\* How far a handler is, at most, from its end.
PointsAhead ==
    [p \in Points |->
        CASE p = "recv" -> 0
          [] p \in {"reply", "sendb", "forward"} -> 1
          [] p \in {"remove", "mapb", "answer"} -> 2
          [] p \in {"terminate", "attempt"} -> 3
          [] p = "route" -> 4
          [] p = "begin" -> 5
          [] p = "admit" -> 6]

\* No handler loops: once it has begun, it only comes nearer to its end.
HandlersAdvance ==
    [][main'.at = main.at \/ main.at = "recv" \/ PointsAhead[main'.at] < PointsAhead[main.at]]_vars
=============================================================================
