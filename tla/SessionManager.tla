---------------------------- MODULE SessionManager ----------------------------
(***************************************************************************)
(* What SessionManager promises its callers: tasks that share the tables   *)
(* see every operation happen at once, and a look-up by Call-ID answers    *)
(* with the session both tables agree on at one instant.  SessionLocks     *)
(* implements this specification.                                          *)
(***************************************************************************)
EXTENDS SessionStore

CONSTANT Tasks   \* the tokio tasks that hold an Arc<SessionManager>

VARIABLE found   \* the answer to each task's latest get_session_by_any_call_id

managerVars == <<sessions, mapping, stats, found>>

ManagerInit ==
    /\ StoreInit
    /\ found = [t \in Tasks |-> None]

\* get_session_by_any_call_id by task t.
Answer(t, c) ==
    /\ found' = [found EXCEPT ![t] = Lookup(c)]
    /\ UNCHANGED storeVars

Write ==
    /\ \E s \in SessionIds :
          \/ RemoveSession(s)
          \/ \E r \in Records : AddSession(s, r) \/ UpdateSession(s, r)
          \/ \E c \in CallIds : MapCallId(c, s)
    /\ UNCHANGED found

ManagerNext == Write \/ \E t \in Tasks, c \in CallIds : Answer(t, c)

ManagerSpec == ManagerInit /\ [][ManagerNext]_managerVars
=============================================================================
