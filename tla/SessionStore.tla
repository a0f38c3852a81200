----------------------------- MODULE SessionStore -----------------------------
(***************************************************************************)
(* The SessionManager of src/src/class4_b2bua.rs as its callers see it:    *)
(* three tables (active_sessions, call_id_mapping, stats) and operations   *)
(* that each take effect in one step.  Class4B2BUA composes these          *)
(* operations into the SIP handlers; SessionLocks shows that the three     *)
(* RwLocks of the implementation make every operation atomic.              *)
(***************************************************************************)
EXTENDS Naturals, FiniteSets

CONSTANTS
    SessionIds,   \* the session ids (uuids) the program may create
    CallIds,      \* the SIP Call-IDs of all legs
    Records,      \* the values a stored CallSession may take
    None          \* the absent value (Option::None, a missing key)

(***************************************************************************)
(* A record names the Call-ID of its A-leg, that of its B-leg when one     *)
(* exists, and the session's state.                                        *)
(***************************************************************************)
ASSUME StoreAssumption ==
    /\ None \notin SessionIds
    /\ None \notin CallIds
    /\ None \notin Records
    /\ \A r \in Records : /\ r.a \in CallIds
                          /\ r.b \in CallIds \cup {None}

VARIABLES
    sessions,   \* active_sessions: a session id to its record, or None
    mapping,    \* call_id_mapping: a Call-ID to a session id, or None
    stats       \* SessionStats

storeVars == <<sessions, mapping, stats>>

\* The counters of SessionStats that the manager maintains.
Stats == [total : Nat, active : Nat, peak : Nat, successful : Nat, failed : Nat]

StoreTypeOK ==
    /\ sessions \in [SessionIds -> Records \cup {None}]
    /\ mapping \in [CallIds -> SessionIds \cup {None}]
    /\ stats \in Stats

StoreInit ==
    /\ sessions = [s \in SessionIds |-> None]
    /\ mapping = [c \in CallIds |-> None]
    /\ stats = [total |-> 0, active |-> 0, peak |-> 0, successful |-> 0, failed |-> 0]

Live == {s \in SessionIds : sessions[s] # None}

\* The legs a record has Call-IDs for.
Legs(r) == {r.a, r.b} \ {None}

-----------------------------------------------------------------------------

Larger(m, n) == IF m >= n THEN m ELSE n

\* Wrong variant: the A-leg's Call-ID is not mapped.
AddSessionUnmapped(s, r) ==
    /\ mapping' = [c \in CallIds |-> IF c \in Legs(r) \ {r.a} THEN s ELSE mapping[c]]
    /\ sessions' = [sessions EXCEPT ![s] = r]
    /\ stats' = [stats EXCEPT !.total = @ + 1,
                              !.active = @ + 1,
                              !.peak = Larger(@, stats.active + 1)]

\* add_session: map both legs, store the record, count the session.
AddSession(s, r) ==
    /\ mapping' = [c \in CallIds |-> IF c \in Legs(r) THEN s ELSE mapping[c]]
    /\ sessions' = [sessions EXCEPT ![s] = r]
    /\ stats' = [stats EXCEPT !.total = @ + 1,
                              !.active = @ + 1,
                              !.peak = Larger(@, stats.active + 1)]

\* update_session: HashMap::insert, so it creates the entry when it is gone.
UpdateSession(s, r) ==
    /\ sessions' = [sessions EXCEPT ![s] = r]
    /\ UNCHANGED <<mapping, stats>>

\* Wrong variants: a plain subtraction, and no subtraction.
DecrementPlain(n) == n - 1
DecrementForgotten(n) == n

\* u32::saturating_sub(1)
Decrement(n) == IF n = 0 THEN 0 ELSE n - 1

\* The part of remove_session under `if let Some(session) = sessions.remove(id)`.
RemovePresent(s) ==
    LET r == sessions[s] IN
    /\ sessions' = [sessions EXCEPT ![s] = None]
    /\ mapping' = [c \in CallIds |-> IF c \in Legs(r) THEN None ELSE mapping[c]]
    /\ stats' = IF r.state = "Connected"
                  THEN [stats EXCEPT !.active = Decrement(@), !.successful = @ + 1]
                  ELSE [stats EXCEPT !.active = Decrement(@), !.failed = @ + 1]

\* remove_session: nothing happens when another task removed the id first.
RemoveSession(s) ==
    IF sessions[s] = None THEN UNCHANGED storeVars ELSE RemovePresent(s)

\* The insertion attempt_termination makes in call_id_mapping, under its own lock.
MapCallId(c, s) ==
    /\ mapping' = [mapping EXCEPT ![c] = s]
    /\ UNCHANGED <<sessions, stats>>

\* get_session_by_any_call_id, as a value: the id that is found, or None.
Lookup(c) ==
    IF mapping[c] = None \/ sessions[mapping[c]] = None THEN None ELSE mapping[c]
=============================================================================
