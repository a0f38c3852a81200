----------------------------- MODULE SessionLocks -----------------------------
(***************************************************************************)
(* The locks inside SessionManager (src/src/class4_b2bua.rs).  Each table  *)
(* has its own tokio RwLock and an operation takes the locks it needs one  *)
(* after the other, keeping them to its end:                               *)
(*                                                                         *)
(*    add_session, remove_session   sessions, mapping, stats   (write)     *)
(*    get_session_by_any_call_id    mapping, sessions          (read)      *)
(*                                                                         *)
(* A tokio RwLock is fair: requests wait in one FIFO queue per lock, and a *)
(* reader behind a waiting writer waits too.                               *)
(*                                                                         *)
(* Handlers stand for the B2BUA's main loop, Cleaners for the session      *)
(* cleanup task and callers of Class4Integration::cleanup_sessions, and    *)
(* Readers for the monitoring tasks that call get_stats.                   *)
(***************************************************************************)
EXTENDS SessionStore, Sequences

CONSTANTS
    Handlers, Cleaners, Readers,   \* the tasks, by what they run
    HandlerOps,                    \* the operations the handlers call
    MaxWrites                      \* bound: sessions ever added plus ever removed

Tasks == Handlers \cup Cleaners \cup Readers

Locks == {"sessions", "mapping", "stats"}

\* Wrong variant: remove_session takes the mapping first.
PlanSwapped ==
        [add     |-> <<"sessions", "mapping", "stats">>,
         remove  |-> <<"mapping", "sessions", "stats">>,
         update  |-> <<"sessions">>,
         map     |-> <<"mapping">>,
         lookup  |-> <<"mapping", "sessions">>,
         exists  |-> <<"mapping">>,
         get     |-> <<"sessions">>,
         collect |-> <<"sessions">>,
         stats   |-> <<"stats">>]

\* The locks an operation takes, in its order.
Plan == [add     |-> <<"sessions", "mapping", "stats">>,
         remove  |-> <<"sessions", "mapping", "stats">>,
         update  |-> <<"sessions">>,
         map     |-> <<"mapping">>,
         lookup  |-> <<"mapping", "sessions">>,
         exists  |-> <<"mapping">>,
         get     |-> <<"sessions">>,
         collect |-> <<"sessions">>,
         stats   |-> <<"stats">>]

Ops == {"add", "remove", "update", "map", "lookup", "exists", "get", "collect", "stats"}

Writing == {"add", "remove", "update", "map"}   \* the operations that take write()

ASSUME LocksAssumption ==
    /\ Handlers \cap Cleaners = {}
    /\ Handlers \cap Readers = {}
    /\ Cleaners \cap Readers = {}
    /\ HandlerOps \subseteq Ops \ {"collect", "stats"}
    /\ MaxWrites \in Nat

Idle == [op |-> "idle"]

\* A call in progress: the operation, the session it names, the record it
\* stores and the Call-ID it looks up or maps (None where it has none).
Calls == [op : Ops, s : SessionIds \cup {None}, r : Records \cup {None},
          c : CallIds \cup {None}]

VARIABLES
    call,      \* what each task is executing
    held,      \* how many locks of its plan each task holds
    queue,     \* the tasks waiting for each lock, in order
    seen,      \* the session id a look-up has read from the mapping
    found,     \* the answer of each task's latest look-up
    expired    \* the ids a cleanup pass has still to remove

vars == <<sessions, mapping, stats, call, held, queue, seen, found, expired>>

Waiting(t) == \E l \in Locks : \E i \in 1..Len(queue[l]) : queue[l][i] = t

Busy(t) == call[t] # Idle

\* t holds lock l: a guard is bound to a variable and drops where the function ends.
Holds(t, l) == Busy(t) /\ \E i \in 1..held[t] : Plan[call[t].op][i] = l

\* A write guard excludes every other guard, a read guard only write guards.
Grantable(t, l) ==
    \A u \in Tasks \ {t} :
        Holds(u, l) => call[t].op \notin Writing /\ call[u].op \notin Writing

-----------------------------------------------------------------------------

Init ==
    /\ StoreInit
    /\ call = [t \in Tasks |-> Idle]
    /\ held = [t \in Tasks |-> 0]
    /\ queue = [l \in Locks |-> <<>>]
    /\ seen = [t \in Tasks |-> None]
    /\ found = [t \in Tasks |-> None]
    /\ expired = [t \in Tasks |-> {}]

\* Task t enters an operation.
Start(t, op, s, r, c) ==
    /\ ~Busy(t)
    /\ call' = [call EXCEPT ![t] = [op |-> op, s |-> s, r |-> r, c |-> c]]
    /\ UNCHANGED <<sessions, mapping, stats, held, queue, seen, found>>

\* The bound on the counters of SessionStats.
WritesLeft == stats.total + stats.successful + stats.failed < MaxWrites

StartAdd(t) ==
    /\ "add" \in HandlerOps /\ WritesLeft
    /\ \E s \in SessionIds \ Live, r \in Records : Start(t, "add", s, r, None)
    /\ UNCHANGED expired

StartUpdate(t) ==
    /\ "update" \in HandlerOps
    /\ \E s \in SessionIds, r \in Records : Start(t, "update", s, r, None)
    /\ UNCHANGED expired

StartOnSession(t) ==
    /\ \E op \in {"remove", "get"} \cap HandlerOps, s \in SessionIds :
          /\ op = "remove" => WritesLeft
          /\ Start(t, op, s, None, None)
    /\ UNCHANGED expired

StartOnCallId(t) ==
    /\ \E op \in {"lookup", "exists"} \cap HandlerOps, c \in CallIds :
          Start(t, op, None, None, c)
    /\ UNCHANGED expired

StartMap(t) ==
    /\ "map" \in HandlerOps
    /\ \E s \in SessionIds, c \in CallIds : Start(t, "map", s, None, c)
    /\ UNCHANGED expired

StartStats(t) ==
    /\ Start(t, "stats", None, None, None)
    /\ UNCHANGED expired

\* cleanup_expired_sessions reads the expired ids under one read guard ...
StartCollect(t) ==
    /\ expired[t] = {}
    /\ Start(t, "collect", None, None, None)
    /\ UNCHANGED expired

\* ... and then removes them one by one, each under its own write guards.
StartRemoveExpired(t) ==
    /\ WritesLeft
    /\ \E s \in expired[t] :
          /\ Start(t, "remove", s, None, None)
          /\ expired' = [expired EXCEPT ![t] = @ \ {s}]

-----------------------------------------------------------------------------

\* A look-up cannot ask for the second lock before it has read the mapping.
ReadsMapping(t) == call[t].op = "lookup" /\ held[t] = 1 /\ seen[t] = None

\* read().await or write().await: join the queue of the next lock of the plan.
Request(t) ==
    /\ Busy(t) /\ ~Waiting(t) /\ ~ReadsMapping(t)
    /\ held[t] < Len(Plan[call[t].op])
    /\ queue' = [queue EXCEPT ![Plan[call[t].op][held[t] + 1]] = Append(@, t)]
    /\ UNCHANGED <<sessions, mapping, stats, call, held, seen, found, expired>>

\* The lock serves the request at the head of its queue.
Grant(l) ==
    /\ queue[l] # <<>>
    /\ Grantable(Head(queue[l]), l)
    /\ held' = [held EXCEPT ![Head(queue[l])] = @ + 1]
    /\ queue' = [queue EXCEPT ![l] = Tail(@)]
    /\ UNCHANGED <<sessions, mapping, stats, call, seen, found, expired>>

\* The operation returns: its guards drop together.
Return(t) ==
    /\ call' = [call EXCEPT ![t] = Idle]
    /\ held' = [held EXCEPT ![t] = 0]
    /\ seen' = [seen EXCEPT ![t] = None]
    /\ UNCHANGED queue

\* mapping.get(call_id) under the mapping's read guard: go on, or answer None.
ReadMapping(t) ==
    /\ Busy(t) /\ ~Waiting(t) /\ ReadsMapping(t)
    /\ IF mapping[call[t].c] = None
         THEN /\ found' = [found EXCEPT ![t] = None]
              /\ Return(t)
         ELSE /\ seen' = [seen EXCEPT ![t] = mapping[call[t].c]]
              /\ UNCHANGED <<call, held, queue, found>>
    /\ UNCHANGED <<sessions, mapping, stats, expired>>

\* Every lock of the plan is held.
Ready(t, op) ==
    /\ Busy(t) /\ call[t].op = op
    /\ held[t] = Len(Plan[op])

\* Wrong variant: the id counts as an answer though its session is gone.
FinishLookupUnchecked(t) ==
    /\ Ready(t, "lookup")
    /\ found' = [found EXCEPT ![t] = seen[t]]
    /\ Return(t)
    /\ UNCHANGED <<sessions, mapping, stats, expired>>

\* sessions.get(session_id) under both read guards.
FinishLookup(t) ==
    /\ Ready(t, "lookup")
    /\ found' = [found EXCEPT ![t] = IF sessions[seen[t]] = None THEN None ELSE seen[t]]
    /\ Return(t)
    /\ UNCHANGED <<sessions, mapping, stats, expired>>

FinishWrite(t) ==
    /\ \/ Ready(t, "add")    /\ AddSession(call[t].s, call[t].r)
       \/ Ready(t, "update") /\ UpdateSession(call[t].s, call[t].r)
       \/ Ready(t, "remove") /\ RemoveSession(call[t].s)
       \/ Ready(t, "map")    /\ MapCallId(call[t].c, call[t].s)
    /\ Return(t)
    /\ UNCHANGED <<found, expired>>

FinishRead(t) ==
    /\ \E op \in {"exists", "get", "stats"} : Ready(t, op)
    /\ Return(t)
    /\ UNCHANGED <<sessions, mapping, stats, found, expired>>

\* Which live sessions are past the cutoff depends on their last_activity,
\* which is no part of this model: any of them may be.
FinishCollect(t) ==
    /\ Ready(t, "collect")
    /\ \E ids \in SUBSET Live : expired' = [expired EXCEPT ![t] = ids]
    /\ Return(t)
    /\ UNCHANGED <<sessions, mapping, stats, found>>

-----------------------------------------------------------------------------

Begin ==
    \/ \E t \in Handlers : \/ StartAdd(t) \/ StartUpdate(t) \/ StartOnSession(t)
                           \/ StartOnCallId(t) \/ StartMap(t)
    \/ \E t \in Cleaners : StartCollect(t) \/ StartRemoveExpired(t)
    \/ \E t \in Readers : StartStats(t)

\* A task inside an operation goes on.
Proceed(t) ==
    \/ Request(t) \/ ReadMapping(t)
    \/ FinishLookup(t) \/ FinishWrite(t) \/ FinishRead(t) \/ FinishCollect(t)

Next == Begin \/ (\E t \in Tasks : Proceed(t)) \/ (\E l \in Locks : Grant(l))

Spec == Init /\ [][Next]_vars

\* The runtime polls every task that is ready, and a lock wakes its first waiter.
Fairness ==
    /\ \A t \in Tasks : WF_vars(Proceed(t))
    /\ \A l \in Locks : WF_vars(Grant(l))

FairSpec == Spec /\ Fairness

-----------------------------------------------------------------------------

\* The values of the variables; a waiting task is inside an operation, and no
\* task waits twice.
TypeOK ==
    /\ StoreTypeOK
    /\ call \in [Tasks -> Calls \cup {Idle}]
    /\ held \in [Tasks -> 0..3]
    /\ queue \in [Locks -> Seq(Tasks)]
    /\ seen \in [Tasks -> SessionIds \cup {None}]
    /\ found \in [Tasks -> SessionIds \cup {None}]
    /\ expired \in [Tasks -> SUBSET SessionIds]

\* Between its two reads a look-up keeps the mapping's guard, so the id it has
\* read is still the one the mapping holds when it reads the session table.
LookupSeesStableMapping ==
    \A t \in Tasks :
        Busy(t) /\ call[t].op = "lookup" /\ seen[t] # None => mapping[call[t].c] = seen[t]

\* A task that holds a lock for writing is the only one that holds it.
WritersExclude ==
    \A t, u \in Tasks, l \in Locks :
        t # u /\ Holds(t, l) /\ Holds(u, l)
            => call[t].op \notin Writing /\ call[u].op \notin Writing

\* The locks implement the atomic operations of SessionManager: a step changes
\* the tables by one whole operation, and a look-up answers with one snapshot.
Manager == INSTANCE SessionManager
ManagerSafety == Manager!ManagerSpec

\* No task inside an operation can take a step.
Stuck ==
    /\ \E t \in Tasks : Busy(t)
    /\ \A t \in Tasks : Busy(t) => Waiting(t)
    /\ \A l \in Locks : queue[l] # <<>> => ~Grantable(Head(queue[l]), l)

\* The tasks get stuck in one way only: a look-up holds the mapping and waits
\* for the sessions while an operation that writes both tables holds the
\* sessions.  (get_session_by_any_call_id takes the locks in the order
\* opposite to that of add_session and remove_session.)
StuckOnlyByLookup ==
    Stuck => \E t, u \in Tasks :
                /\ Busy(t) /\ call[t].op = "lookup" /\ held[t] = 1
                /\ Busy(u) /\ call[u].op \in {"add", "remove"}
                /\ Holds(u, "sessions")

\* What ARCHITECTURE.md says of the cleanup: expired data is cleaned up
\* periodically, so a pass that has begun ends.
CleanupPassEnds == \A t \in Cleaners : Busy(t) ~> ~Busy(t)
=============================================================================
