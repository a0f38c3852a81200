-------------------------- MODULE SessionLocksProofs --------------------------
(***************************************************************************)
(* Proofs about SessionLocks, for every set of tasks, sessions, Call-IDs   *)
(* and records: the type invariant, the exclusion of writers, the          *)
(* stability of a look-up, the one way to get stuck, and the               *)
(* implementation of the atomic SessionManager.                            *)
(***************************************************************************)
EXTENDS SessionLocks, SequenceTheorems, TLAPS

(***************************************************************************)
(* The inductive invariant                                                 *)
(***************************************************************************)

\* A call has the arguments its operation uses.
HasArgs(cl) ==
    /\ cl.op \in {"add", "update", "remove", "map"} => cl.s \in SessionIds
    /\ cl.op \in {"add", "update"} => cl.r \in Records
    /\ cl.op \in {"lookup", "map"} => cl.c \in CallIds

ArgsOK == \A t \in Tasks : Busy(t) => HasArgs(call[t])

\* t waits for the next lock of its plan.
NextLock(t, l) ==
    /\ Busy(t) /\ ~ReadsMapping(t)
    /\ held[t] < Len(Plan[call[t].op])
    /\ Plan[call[t].op][held[t] + 1] = l

QueueOK == \A l \in Locks : \A i \in 1..Len(queue[l]) : NextLock(queue[l][i], l)

\* No task is in a queue twice.
QueuedOnce ==
    \A l \in Locks : \A i, j \in 1..Len(queue[l]) : queue[l][i] = queue[l][j] => i = j

\* How far each task is: an idle one holds nothing, and only a look-up that
\* holds the mapping has seen an id, which it needs to go on.
ProgressOK ==
    \A t \in Tasks :
        /\ ~Busy(t) => held[t] = 0 /\ seen[t] = None
        /\ Busy(t) => /\ held[t] <= Len(Plan[call[t].op])
                      /\ seen[t] # None => call[t].op = "lookup" /\ held[t] >= 1
                      /\ call[t].op = "lookup" /\ held[t] = 2 => seen[t] # None

LocksInv ==
    /\ TypeOK /\ ArgsOK /\ QueueOK /\ QueuedOnce /\ ProgressOK
    /\ WritersExclude /\ LookupSeesStableMapping

-----------------------------------------------------------------------------
(***************************************************************************)
(* Facts about plans, calls and sequences                                  *)
(***************************************************************************)

\* The plans, field by field.
LEMMA PlanLocks ==
    /\ Plan["add"] = <<"sessions", "mapping", "stats">>
    /\ Plan["remove"] = <<"sessions", "mapping", "stats">>
    /\ Plan["update"] = <<"sessions">>
    /\ Plan["map"] = <<"mapping">>
    /\ Plan["lookup"] = <<"mapping", "sessions">>
    /\ Plan["exists"] = <<"mapping">>
    /\ Plan["get"] = <<"sessions">>
    /\ Plan["collect"] = <<"sessions">>
    /\ Plan["stats"] = <<"stats">>
  BY DEF Plan

\* A plan has one to three locks and names none of them twice.
LEMMA PlanFacts ==
    \A op \in Ops :
        /\ Len(Plan[op]) \in 1..3
        /\ \A i \in 1..Len(Plan[op]) : Plan[op][i] \in Locks
        /\ \A i, j \in 1..Len(Plan[op]) : Plan[op][i] = Plan[op][j] => i = j
  <1>1. ASSUME NEW p, p \in {<<"sessions", "mapping", "stats">>, <<"mapping", "sessions">>,
                             <<"sessions">>, <<"mapping">>, <<"stats">>}
        PROVE  /\ Len(p) \in 1..3
               /\ \A i \in 1..Len(p) : p[i] \in Locks
               /\ \A i, j \in 1..Len(p) : p[i] = p[j] => i = j
    <2>1. CASE p = <<"sessions", "mapping", "stats">>
      BY <2>1 DEF Locks
    <2>2. CASE p = <<"mapping", "sessions">>
      BY <2>2 DEF Locks
    <2>3. CASE p \in {<<"sessions">>, <<"mapping">>, <<"stats">>}
      BY <2>3 DEF Locks
    <2> QED
      BY <1>1, <2>1, <2>2, <2>3
  <1>2. ASSUME NEW op \in Ops
        PROVE  Plan[op] \in {<<"sessions", "mapping", "stats">>, <<"mapping", "sessions">>,
                             <<"sessions">>, <<"mapping">>, <<"stats">>}
    BY PlanLocks DEF Ops
  <1> QED
    BY <1>1, <1>2

LEMMA CallFacts ==
    ASSUME TypeOK, NEW t \in Tasks, Busy(t)
    PROVE  call[t] \in Calls /\ call[t].op \in Ops
  BY DEF TypeOK, Busy, Calls

\* An entry of Append(q, e) is one of q or e; an entry of Tail(q) is the next of q.
LEMMA QueueFacts ==
    ASSUME NEW S, NEW q \in Seq(S), NEW e \in S
    PROVE  /\ Append(q, e) \in Seq(S)
           /\ Len(Append(q, e)) = Len(q) + 1
           /\ \A i \in 1..Len(q) : Append(q, e)[i] = q[i]
           /\ Append(q, e)[Len(q) + 1] = e
           /\ q # <<>> => /\ Head(q) \in S /\ Tail(q) \in Seq(S)
                          /\ Head(q) = q[1]
                          /\ Len(q) >= 1
                          /\ Len(Tail(q)) = Len(q) - 1
                          /\ \A i \in 1..Len(Tail(q)) : Tail(q)[i] = q[i + 1]
  BY AppendProperties, HeadTailProperties

-----------------------------------------------------------------------------
(***************************************************************************)
(* The five kinds of step, by what they do to the calls and the locks      *)
(***************************************************************************)

StartStep(t) ==
    /\ ~Busy(t)
    /\ \E cl \in Calls : HasArgs(cl) /\ call' = [call EXCEPT ![t] = cl]
    /\ expired' \in [Tasks -> SUBSET SessionIds]
    /\ UNCHANGED <<sessions, mapping, stats, held, queue, seen, found>>

ReadStep(t) ==
    /\ Busy(t) /\ ~Waiting(t) /\ ReadsMapping(t)
    /\ mapping[call[t].c] # None
    /\ seen' = [seen EXCEPT ![t] = mapping[call[t].c]]
    /\ UNCHANGED <<sessions, mapping, stats, call, held, queue, found, expired>>

ReturnStep(t) == Busy(t) /\ ~Waiting(t) /\ Return(t)

StepKind ==
    \/ \E t \in Tasks : StartStep(t) \/ Request(t) \/ ReadStep(t) \/ ReturnStep(t)
    \/ \E l \in Locks : Grant(l)

\* A task that holds its whole plan waits for nothing.
LEMMA ReadyNotWaiting ==
    ASSUME LocksInv, NEW t \in Tasks, NEW op \in Ops, Ready(t, op)
    PROVE  Busy(t) /\ ~Waiting(t)
  BY DEF LocksInv, QueueOK, NextLock, Waiting, Ready

LEMMA BeginIsStart ==
    ASSUME LocksInv, Begin
    PROVE  \E t \in Tasks : StartStep(t)
  <1>1. ASSUME NEW t \in Handlers, StartAdd(t) PROVE StartStep(t)
    BY <1>1 DEF LocksInv, TypeOK, StartAdd, Start, StartStep, Calls, HasArgs, Ops, Live
  <1>2. ASSUME NEW t \in Handlers, StartUpdate(t) PROVE StartStep(t)
    BY <1>2 DEF LocksInv, TypeOK, StartUpdate, Start, StartStep, Calls, HasArgs, Ops
  <1>3. ASSUME NEW t \in Handlers, StartOnSession(t) PROVE StartStep(t)
    BY <1>3 DEF LocksInv, TypeOK, StartOnSession, Start, StartStep, Calls, HasArgs, Ops
  <1>4. ASSUME NEW t \in Handlers, StartOnCallId(t) PROVE StartStep(t)
    BY <1>4 DEF LocksInv, TypeOK, StartOnCallId, Start, StartStep, Calls, HasArgs, Ops
  <1>5. ASSUME NEW t \in Handlers, StartMap(t) PROVE StartStep(t)
    BY <1>5 DEF LocksInv, TypeOK, StartMap, Start, StartStep, Calls, HasArgs, Ops
  <1>6. ASSUME NEW t \in Readers, StartStats(t) PROVE StartStep(t)
    BY <1>6 DEF LocksInv, TypeOK, StartStats, Start, StartStep, Calls, HasArgs, Ops
  <1>7. ASSUME NEW t \in Cleaners, StartCollect(t) PROVE StartStep(t)
    BY <1>7 DEF LocksInv, TypeOK, StartCollect, Start, StartStep, Calls, HasArgs, Ops
  <1>8. ASSUME NEW t \in Cleaners, StartRemoveExpired(t) PROVE StartStep(t)
    <2>1. t \in Tasks
      BY DEF Tasks
    <2>2. PICK s \in expired[t] :
              /\ Start(t, "remove", s, None, None)
              /\ expired' = [expired EXCEPT ![t] = @ \ {s}]
      BY <1>8 DEF StartRemoveExpired
    <2>3. s \in SessionIds
      BY <2>1, <2>2 DEF LocksInv, TypeOK
    <2>4. expired' \in [Tasks -> SUBSET SessionIds]
      BY <2>1, <2>2 DEF LocksInv, TypeOK
    <2> QED
      BY <2>2, <2>3, <2>4 DEF Start, StartStep, Calls, HasArgs, Ops
  <1> QED
    BY <1>1, <1>2, <1>3, <1>4, <1>5, <1>6, <1>7, <1>8 DEF Begin, Tasks

LEMMA NextIsStep ==
    ASSUME LocksInv, Next
    PROVE  StepKind
  <1>1. CASE Begin
    BY <1>1, BeginIsStart DEF StepKind
  <1>2. ASSUME NEW t \in Tasks, Proceed(t) PROVE StepKind
    <2>1. CASE Request(t)
      BY <2>1 DEF StepKind
    <2>2. CASE ReadMapping(t)
      BY <2>2 DEF StepKind, ReadMapping, ReadStep, ReturnStep
    <2>3. CASE FinishLookup(t)
      BY <2>3, ReadyNotWaiting DEF StepKind, FinishLookup, ReturnStep, Ops
    <2>4. CASE FinishWrite(t)
      BY <2>4, ReadyNotWaiting DEF StepKind, FinishWrite, ReturnStep, Ops
    <2>5. CASE FinishRead(t)
      BY <2>5, ReadyNotWaiting DEF StepKind, FinishRead, ReturnStep, Ops
    <2>6. CASE FinishCollect(t)
      BY <2>6, ReadyNotWaiting DEF StepKind, FinishCollect, ReturnStep, Ops
    <2> QED
      BY <1>2, <2>1, <2>2, <2>3, <2>4, <2>5, <2>6 DEF Proceed
  <1>3. ASSUME NEW l \in Locks, Grant(l) PROVE StepKind
    BY <1>3 DEF StepKind
  <1> QED
    BY <1>1, <1>2, <1>3 DEF Next

-----------------------------------------------------------------------------
(***************************************************************************)
(* Every step keeps the invariant, one conjunct after the other            *)
(***************************************************************************)

\* Only FinishWrite touches the tables, by one whole operation.
LEMMA TablesChange ==
    ASSUME LocksInv, Next
    PROVE  UNCHANGED storeVars \/ \E t \in Tasks : FinishWrite(t)
  <1>1. CASE Begin
    BY <1>1, BeginIsStart DEF StartStep, storeVars
  <1>2. ASSUME NEW t \in Tasks, Proceed(t), ~FinishWrite(t) PROVE UNCHANGED storeVars
    BY <1>2 DEF Proceed, Request, ReadMapping, FinishLookup, FinishRead, FinishCollect, storeVars
  <1>3. ASSUME NEW l \in Locks, Grant(l) PROVE UNCHANGED storeVars
    BY <1>3 DEF Grant, storeVars
  <1> QED
    BY <1>1, <1>2, <1>3 DEF Next

\* The store's operations keep the type of the store.
LEMMA AddTyped ==
    ASSUME StoreTypeOK, NEW s \in SessionIds, NEW r \in Records, AddSession(s, r)
    PROVE  StoreTypeOK'
  <1>1. sessions' \in [SessionIds -> Records \cup {None}]
    BY DEF StoreTypeOK, AddSession
  <1>2. mapping' \in [CallIds -> SessionIds \cup {None}]
    BY DEF StoreTypeOK, AddSession
  <1>3. stats' \in Stats
    <2>1. /\ stats \in Stats
          /\ stats.total + 1 \in Nat /\ stats.active + 1 \in Nat /\ stats.peak \in Nat
      BY DEF StoreTypeOK, Stats
    <2>2. Larger(stats.peak, stats.active + 1) \in Nat
      BY <2>1 DEF Larger
    <2> QED
      BY <2>1, <2>2 DEF AddSession, Stats
  <1> QED
    BY <1>1, <1>2, <1>3 DEF StoreTypeOK

LEMMA RemoveTyped ==
    ASSUME StoreTypeOK, NEW s \in SessionIds, RemoveSession(s)
    PROVE  StoreTypeOK'
  <1>1. CASE sessions[s] = None
    BY <1>1 DEF StoreTypeOK, RemoveSession, storeVars
  <1>2. CASE sessions[s] # None
    <2>1. RemovePresent(s)
      BY <1>2 DEF RemoveSession
    <2>2. sessions' \in [SessionIds -> Records \cup {None}]
      BY <2>1 DEF StoreTypeOK, RemovePresent
    <2>3. mapping' \in [CallIds -> SessionIds \cup {None}]
      BY <2>1 DEF StoreTypeOK, RemovePresent
    <2>4. stats' \in Stats
      <3>1. /\ stats \in Stats
            /\ stats.active \in Nat /\ stats.successful + 1 \in Nat /\ stats.failed + 1 \in Nat
        BY DEF StoreTypeOK, Stats
      <3>2. Decrement(stats.active) \in Nat
        BY <3>1 DEF Decrement
      <3> QED
        BY <2>1, <3>1, <3>2 DEF RemovePresent, Stats
    <2> QED
      BY <2>2, <2>3, <2>4 DEF StoreTypeOK
  <1> QED
    BY <1>1, <1>2

LEMMA StoreTyped ==
    ASSUME LocksInv, Next
    PROVE  StoreTypeOK'
  <1> USE DEF LocksInv, TypeOK
  <1>1. CASE UNCHANGED storeVars
    BY <1>1 DEF StoreTypeOK, storeVars
  <1>2. ASSUME NEW t \in Tasks, FinishWrite(t) PROVE StoreTypeOK'
    <2>1. CASE Ready(t, "add") /\ AddSession(call[t].s, call[t].r)
      BY <2>1, AddTyped DEF ArgsOK, HasArgs, Ready
    <2>2. CASE Ready(t, "update") /\ UpdateSession(call[t].s, call[t].r)
      BY <2>2 DEF ArgsOK, HasArgs, Ready, UpdateSession, StoreTypeOK
    <2>3. CASE Ready(t, "remove") /\ RemoveSession(call[t].s)
      BY <2>3, RemoveTyped DEF ArgsOK, HasArgs, Ready
    <2>4. CASE Ready(t, "map") /\ MapCallId(call[t].c, call[t].s)
      BY <2>4 DEF ArgsOK, HasArgs, Ready, MapCallId, StoreTypeOK
    <2> QED
      BY <1>2, <2>1, <2>2, <2>3, <2>4 DEF FinishWrite
  <1> QED
    BY <1>1, <1>2, TablesChange

\* found and expired.
LEMMA ResultsTyped ==
    ASSUME LocksInv, Next
    PROVE  /\ found' \in [Tasks -> SessionIds \cup {None}]
           /\ expired' \in [Tasks -> SUBSET SessionIds]
  <1> USE DEF LocksInv, TypeOK
  <1>1. CASE Begin
    BY <1>1, BeginIsStart DEF StartStep
  <1>2. ASSUME NEW t \in Tasks, Proceed(t)
        PROVE  /\ found' \in [Tasks -> SessionIds \cup {None}]
               /\ expired' \in [Tasks -> SUBSET SessionIds]
    <2>1. CASE Request(t)
      BY <2>1 DEF Request
    <2>2. CASE ReadMapping(t)
      BY <2>2 DEF ReadMapping
    <2>3. CASE FinishLookup(t)
      BY <2>3 DEF FinishLookup
    <2>4. CASE FinishWrite(t)
      BY <2>4 DEF FinishWrite
    <2>5. CASE FinishRead(t)
      BY <2>5 DEF FinishRead
    <2>6. CASE FinishCollect(t)
      BY <2>6 DEF FinishCollect, Live
    <2> QED
      BY <1>2, <2>1, <2>2, <2>3, <2>4, <2>5, <2>6 DEF Proceed
  <1>3. ASSUME NEW l \in Locks, Grant(l)
        PROVE  /\ found' \in [Tasks -> SessionIds \cup {None}]
               /\ expired' \in [Tasks -> SUBSET SessionIds]
    BY <1>3 DEF Grant
  <1> QED
    BY <1>1, <1>2, <1>3 DEF Next

\* call, held, queue and seen.
LEMMA LocksTyped ==
    ASSUME LocksInv, StepKind
    PROVE  /\ call' \in [Tasks -> Calls \cup {Idle}]
           /\ held' \in [Tasks -> 0..3]
           /\ queue' \in [Locks -> Seq(Tasks)]
           /\ seen' \in [Tasks -> SessionIds \cup {None}]
  <1> DEFINE Typed == /\ call' \in [Tasks -> Calls \cup {Idle}]
                      /\ held' \in [Tasks -> 0..3]
                      /\ queue' \in [Locks -> Seq(Tasks)]
                      /\ seen' \in [Tasks -> SessionIds \cup {None}]
  <1> USE DEF LocksInv, TypeOK
  <1>1. ASSUME NEW t \in Tasks, StartStep(t) PROVE Typed
    BY <1>1 DEF StartStep
  <1>2. ASSUME NEW t \in Tasks, Request(t) PROVE Typed
    <2>1. Plan[call[t].op][held[t] + 1] \in Locks
      <3>1. call[t].op \in Ops /\ held[t] \in 0..3 /\ held[t] < Len(Plan[call[t].op])
        BY <1>2, CallFacts DEF Request
      <3>2. held[t] + 1 \in 1..Len(Plan[call[t].op])
        BY <3>1, PlanFacts
      <3> QED
        BY <3>1, <3>2, PlanFacts
    <2>2. Append(queue[Plan[call[t].op][held[t] + 1]], t) \in Seq(Tasks)
      BY <2>1, QueueFacts
    <2> QED
      BY <1>2, <2>1, <2>2 DEF Request
  <1>3. ASSUME NEW t \in Tasks, ReadStep(t) PROVE Typed
    <2>1. call[t].c \in CallIds
      BY <1>3 DEF ReadStep, ReadsMapping, ArgsOK, HasArgs
    <2> QED
      BY <1>3, <2>1 DEF ReadStep, StoreTypeOK
  <1>4. ASSUME NEW t \in Tasks, ReturnStep(t) PROVE Typed
    BY <1>4 DEF ReturnStep, Return
  <1>5. ASSUME NEW l \in Locks, Grant(l) PROVE Typed
    <2>1. queue[l] \in Seq(Tasks) /\ queue[l] # <<>>
      BY <1>5 DEF Grant
    <2>2. /\ Head(queue[l]) \in Tasks /\ Head(queue[l]) = queue[l][1]
          /\ Tail(queue[l]) \in Seq(Tasks) /\ 1 \in 1..Len(queue[l])
      BY <2>1, QueueFacts, HeadTailProperties
    <2>3. NextLock(Head(queue[l]), l)
      BY <2>2 DEF QueueOK
    <2>4. held[Head(queue[l])] + 1 \in 0..3
      BY <2>2, <2>3, PlanFacts, CallFacts DEF NextLock
    <2> QED
      BY <1>5, <2>2, <2>4 DEF Grant
  <1> QED
    BY <1>1, <1>2, <1>3, <1>4, <1>5 DEF StepKind

LEMMA TypePreserved ==
    ASSUME LocksInv, Next
    PROVE  TypeOK'
  BY NextIsStep, StoreTyped, ResultsTyped, LocksTyped DEF TypeOK

LEMMA ArgsPreserved ==
    ASSUME LocksInv, StepKind
    PROVE  ArgsOK'
  <1> USE DEF LocksInv, TypeOK
  <1>1. ASSUME NEW t \in Tasks, StartStep(t) PROVE ArgsOK'
    BY <1>1 DEF StartStep, ArgsOK, HasArgs, Busy
  <1>2. ASSUME NEW t \in Tasks, ReturnStep(t) PROVE ArgsOK'
    BY <1>2 DEF ReturnStep, Return, ArgsOK, HasArgs, Busy
  <1>3. CASE UNCHANGED call
    BY <1>3 DEF ArgsOK, HasArgs, Busy
  <1> QED
    BY <1>1, <1>2, <1>3 DEF StepKind, Request, ReadStep, Grant

\* A step of one task that leaves its queue entries alone does not disturb the
\* entries of the others.
LEMMA OthersStillWait ==
    ASSUME NEW t \in Tasks, NEW u \in Tasks, u # t, NEW l \in Locks, NextLock(u, l),
           TypeOK,
           call'[u] = call[u], held'[u] = held[u], seen'[u] = seen[u]
    PROVE  NextLock(u, l)'
  BY DEF NextLock, Busy, ReadsMapping

\* What Grant(l) does to the task at the head of the queue.
LEMMA GrantFacts ==
    ASSUME LocksInv, NEW l \in Locks, Grant(l)
    PROVE  LET t == Head(queue[l]) IN
           /\ t \in Tasks /\ t = queue[l][1] /\ 1 \in 1..Len(queue[l])
           /\ NextLock(t, l)
           /\ held' = [held EXCEPT ![t] = @ + 1]
           /\ queue' = [queue EXCEPT ![l] = Tail(@)]
           /\ queue'[l] \in Seq(Tasks)
           /\ Len(queue'[l]) = Len(queue[l]) - 1
           /\ \A i \in 1..Len(queue'[l]) : queue'[l][i] = queue[l][i + 1]
  <1>1. queue[l] \in Seq(Tasks) /\ queue[l] # <<>>
    BY DEF Grant, LocksInv, TypeOK
  <1>2. /\ Head(queue[l]) \in Tasks /\ Head(queue[l]) = queue[l][1]
        /\ Tail(queue[l]) \in Seq(Tasks) /\ 1 \in 1..Len(queue[l])
        /\ Len(Tail(queue[l])) = Len(queue[l]) - 1
        /\ \A i \in 1..Len(Tail(queue[l])) : Tail(queue[l])[i] = queue[l][i + 1]
    BY <1>1, QueueFacts, HeadTailProperties
  <1>3. NextLock(Head(queue[l]), l)
    BY <1>2 DEF LocksInv, QueueOK
  <1>4. queue'[l] = Tail(queue[l])
    BY DEF Grant, LocksInv, TypeOK
  <1> QED
    BY <1>2, <1>3, <1>4 DEF Grant

\* What Request(t) does to the queue of the next lock.
LEMMA RequestFacts ==
    ASSUME LocksInv, NEW t \in Tasks, Request(t)
    PROVE  \E l \in Locks :
              /\ NextLock(t, l)
              /\ queue' = [queue EXCEPT ![l] = Append(@, t)]
              /\ Len(queue'[l]) = Len(queue[l]) + 1
              /\ Len(queue[l]) \in Nat
              /\ \A i \in 1..Len(queue[l]) : queue'[l][i] = queue[l][i]
              /\ queue'[l][Len(queue[l]) + 1] = t
  <1> DEFINE l == Plan[call[t].op][held[t] + 1]
  <1>1. call[t].op \in Ops /\ held[t] \in 0..3 /\ held[t] < Len(Plan[call[t].op])
    BY CallFacts DEF Request, LocksInv, TypeOK
  <1>2. held[t] + 1 \in 1..Len(Plan[call[t].op])
    BY <1>1, PlanFacts
  <1>3. l \in Locks
    BY <1>1, <1>2, PlanFacts
  <1>4. NextLock(t, l)
    BY DEF NextLock, Request
  <1>5. queue[l] \in Seq(Tasks) /\ queue \in [Locks -> Seq(Tasks)]
    BY <1>3 DEF LocksInv, TypeOK
  <1>6. /\ queue' = [queue EXCEPT ![l] = Append(@, t)]
        /\ queue'[l] = Append(queue[l], t)
    BY <1>3, <1>5 DEF Request
  <1>7. /\ Len(Append(queue[l], t)) = Len(queue[l]) + 1
        /\ Len(queue[l]) \in Nat
        /\ \A i \in 1..Len(queue[l]) : Append(queue[l], t)[i] = queue[l][i]
        /\ Append(queue[l], t)[Len(queue[l]) + 1] = t
    <2> HIDE DEF l
    <2>1. Len(queue[l]) \in Nat
      BY <1>5, LenProperties
    <2> QED
      BY <1>5, <2>1, QueueFacts
  <1> HIDE DEF l
  <1> QED
    BY <1>3, <1>4, <1>6, <1>7

\* A queued task is queued for one lock only.
LEMMA OneNextLock ==
    ASSUME NEW t, NEW l, NEW k, NextLock(t, l), NextLock(t, k)
    PROVE  l = k
  BY DEF NextLock

LEMMA QueuePreserved ==
    ASSUME LocksInv, StepKind
    PROVE  QueueOK'
  <1> USE DEF LocksInv, TypeOK
  <1>0. \A l \in Locks : \A i \in 1..Len(queue[l]) :
            queue[l][i] \in Tasks /\ NextLock(queue[l][i], l) /\ Busy(queue[l][i])
    BY ElementOfSeq DEF QueueOK, NextLock
  <1>1. ASSUME NEW t \in Tasks, StartStep(t) PROVE QueueOK'
    <2>1. ASSUME NEW l \in Locks, NEW i \in 1..Len(queue[l]) PROVE NextLock(queue[l][i], l)'
      <3>1. queue[l][i] # t
        BY <1>0, <1>1, <2>1 DEF StartStep
      <3> QED
        BY <1>0, <1>1, <2>1, <3>1, OthersStillWait DEF StartStep
    <2> QED
      BY <1>1, <2>1 DEF StartStep, QueueOK
  <1>2. ASSUME NEW t \in Tasks, Request(t) PROVE QueueOK'
    <2>1. PICK l \in Locks :
              /\ NextLock(t, l)
              /\ queue' = [queue EXCEPT ![l] = Append(@, t)]
              /\ Len(queue'[l]) = Len(queue[l]) + 1
              /\ Len(queue[l]) \in Nat
              /\ \A i \in 1..Len(queue[l]) : queue'[l][i] = queue[l][i]
              /\ queue'[l][Len(queue[l]) + 1] = t
      BY <1>2, RequestFacts
    <2>2. ASSUME NEW u, NEW k, NextLock(u, k) PROVE NextLock(u, k)'
      BY <1>2, <2>2 DEF Request, NextLock, Busy, ReadsMapping
    <2>3. ASSUME NEW i \in 1..Len(queue'[l]) PROVE NextLock(queue'[l][i], l)
      <3>1. CASE i \in 1..Len(queue[l])
        BY <1>0, <2>1, <3>1
      <3>2. CASE i = Len(queue[l]) + 1
        BY <2>1, <3>2
      <3> QED
        BY <2>1, <2>3, <3>1, <3>2
    <2>4. ASSUME NEW k \in Locks, k # l PROVE queue'[k] = queue[k]
      BY <2>1, <2>4
    <2> QED
      BY <1>0, <2>2, <2>3, <2>4 DEF QueueOK
  <1>3. ASSUME NEW t \in Tasks, ReadStep(t) PROVE QueueOK'
    <2>1. ASSUME NEW l \in Locks, NEW i \in 1..Len(queue[l]) PROVE NextLock(queue[l][i], l)'
      <3>1. queue[l][i] # t
        BY <1>3, <2>1 DEF ReadStep, Waiting
      <3> QED
        BY <1>0, <1>3, <2>1, <3>1, OthersStillWait DEF ReadStep
    <2> QED
      BY <1>3, <2>1 DEF ReadStep, QueueOK
  <1>4. ASSUME NEW t \in Tasks, ReturnStep(t) PROVE QueueOK'
    <2>1. ASSUME NEW l \in Locks, NEW i \in 1..Len(queue[l]) PROVE NextLock(queue[l][i], l)'
      <3>1. queue[l][i] # t
        BY <1>4, <2>1 DEF ReturnStep, Waiting
      <3> QED
        BY <1>0, <1>4, <2>1, <3>1, OthersStillWait DEF ReturnStep, Return
    <2> QED
      BY <1>4, <2>1 DEF ReturnStep, Return, QueueOK
  <1>5. ASSUME NEW l \in Locks, Grant(l) PROVE QueueOK'
    <2> DEFINE t == Head(queue[l])
    <2>1. /\ t \in Tasks /\ t = queue[l][1] /\ 1 \in 1..Len(queue[l])
          /\ NextLock(t, l)
          /\ held' = [held EXCEPT ![t] = @ + 1]
          /\ queue' = [queue EXCEPT ![l] = Tail(@)]
          /\ Len(queue'[l]) = Len(queue[l]) - 1
          /\ \A i \in 1..Len(queue'[l]) : queue'[l][i] = queue[l][i + 1]
      BY <1>5, GrantFacts
    <2> HIDE DEF t
    <2>2. ASSUME NEW u \in Tasks, u # t, NEW k \in Locks, NextLock(u, k) PROVE NextLock(u, k)'
      BY <1>5, <2>1, <2>2, OthersStillWait DEF Grant
    <2>3. ASSUME NEW i \in 1..Len(queue'[l]), NEW u, u = queue'[l][i] PROVE NextLock(u, l)'
      <3>1. i + 1 \in 1..Len(queue[l]) /\ i + 1 # 1
        BY <2>1, <2>3
      <3>2. u = queue[l][i + 1] /\ u # t
        BY <2>1, <2>3, <3>1 DEF QueuedOnce
      <3>3. u \in Tasks /\ NextLock(u, l)
        BY <1>0, <3>1, <3>2
      <3> QED
        BY <2>2, <3>2, <3>3
    <2>4. ASSUME NEW k \in Locks, k # l, NEW i \in 1..Len(queue'[k]), NEW u, u = queue'[k][i]
          PROVE  NextLock(u, k)'
      <3>1. queue'[k] = queue[k]
        BY <2>1, <2>4
      <3>2. u \in Tasks /\ NextLock(u, k)
        BY <1>0, <2>4, <3>1
      <3>3. u # t
        BY <2>1, <2>4, <3>2, OneNextLock
      <3> QED
        BY <2>2, <2>4, <3>2, <3>3
    <2>5. ASSUME NEW k \in Locks, NEW i \in 1..Len(queue'[k]), NEW u, u = queue'[k][i]
          PROVE  NextLock(u, k)'
      BY <2>3, <2>4, <2>5
    <2> QED
      BY <2>5 DEF QueueOK
  <1> QED
    BY <1>1, <1>2, <1>3, <1>4, <1>5 DEF StepKind

LEMMA QueuedOncePreserved ==
    ASSUME LocksInv, StepKind
    PROVE  QueuedOnce'
  <1> USE DEF LocksInv, TypeOK
  <1>1. ASSUME NEW t \in Tasks, Request(t) PROVE QueuedOnce'
    <2>1. PICK l \in Locks :
              /\ NextLock(t, l)
              /\ queue' = [queue EXCEPT ![l] = Append(@, t)]
              /\ Len(queue'[l]) = Len(queue[l]) + 1
              /\ Len(queue[l]) \in Nat
              /\ \A i \in 1..Len(queue[l]) : queue'[l][i] = queue[l][i]
              /\ queue'[l][Len(queue[l]) + 1] = t
      BY <1>1, RequestFacts
    <2>2. \A i \in 1..Len(queue[l]) : queue[l][i] # t
      BY <1>1 DEF Request, Waiting
    <2>3. ASSUME NEW i \in 1..Len(queue'[l]), NEW j \in 1..Len(queue'[l]),
                 queue'[l][i] = queue'[l][j]
          PROVE  i = j
      BY <2>1, <2>2, <2>3 DEF QueuedOnce
    <2>4. ASSUME NEW k \in Locks, k # l PROVE queue'[k] = queue[k]
      BY <2>1, <2>4
    <2> QED
      BY <2>3, <2>4 DEF QueuedOnce
  <1>2. ASSUME NEW l \in Locks, Grant(l) PROVE QueuedOnce'
    <2>1. /\ queue' = [queue EXCEPT ![l] = Tail(@)]
          /\ 1 \in 1..Len(queue[l])
          /\ Len(queue'[l]) = Len(queue[l]) - 1
          /\ \A i \in 1..Len(queue'[l]) : queue'[l][i] = queue[l][i + 1]
      BY <1>2, GrantFacts
    <2>2. ASSUME NEW i \in 1..Len(queue'[l]), NEW j \in 1..Len(queue'[l]),
                 queue'[l][i] = queue'[l][j]
          PROVE  i = j
      <3>1. i + 1 \in 1..Len(queue[l]) /\ j + 1 \in 1..Len(queue[l])
        BY <2>1
      <3>2. queue[l][i + 1] = queue[l][j + 1]
        BY <2>1, <2>2
      <3>3. i + 1 = j + 1
        BY <3>1, <3>2 DEF QueuedOnce
      <3> QED
        BY <3>3
    <2>3. ASSUME NEW k \in Locks, k # l PROVE queue'[k] = queue[k]
      BY <2>1, <2>3
    <2> QED
      BY <2>2, <2>3 DEF QueuedOnce
  <1>3. CASE UNCHANGED queue
    BY <1>3 DEF QueuedOnce
  <1> QED
    BY <1>1, <1>2, <1>3 DEF StepKind, StartStep, ReadStep, ReturnStep, Return

LEMMA ProgressPreserved ==
    ASSUME LocksInv, StepKind
    PROVE  ProgressOK'
  <1> USE DEF LocksInv, TypeOK
  <1> DEFINE Fine(t) ==
        /\ ~Busy(t) => held[t] = 0 /\ seen[t] = None
        /\ Busy(t) => /\ held[t] <= Len(Plan[call[t].op])
                      /\ seen[t] # None => call[t].op = "lookup" /\ held[t] >= 1
                      /\ call[t].op = "lookup" /\ held[t] = 2 => seen[t] # None
  <1>0. \A t \in Tasks : Fine(t)
    BY DEF ProgressOK
  <1>a. ASSUME NEW u \in Tasks, call'[u] = call[u], held'[u] = held[u], seen'[u] = seen[u]
        PROVE  Fine(u)'
    BY <1>0, <1>a DEF Busy
  <1>1. ASSUME NEW t \in Tasks, StartStep(t) PROVE \A u \in Tasks : Fine(u)'
    <2>1. PICK cl \in Calls : call' = [call EXCEPT ![t] = cl]
      BY <1>1 DEF StartStep
    <2>2. call'[t] = cl /\ cl.op \in Ops /\ held'[t] = 0 /\ seen'[t] = None
      BY <1>0, <1>1, <2>1 DEF StartStep, Calls
    <2>3. Fine(t)'
      BY <2>2, PlanFacts DEF Busy
    <2>4. ASSUME NEW u \in Tasks, u # t PROVE Fine(u)'
      BY <1>1, <1>a, <2>1, <2>4 DEF StartStep
    <2> QED
      BY <2>3, <2>4
  <1>2. ASSUME NEW t \in Tasks, Request(t) PROVE \A u \in Tasks : Fine(u)'
    BY <1>2, <1>a DEF Request
  <1>3. ASSUME NEW t \in Tasks, ReadStep(t) PROVE \A u \in Tasks : Fine(u)'
    <2>1. ASSUME NEW u \in Tasks, u # t PROVE Fine(u)'
      BY <1>3, <1>a, <2>1 DEF ReadStep
    <2>2. Fine(t)'
      BY <1>0, <1>3 DEF ReadStep, ReadsMapping, Busy
    <2> QED
      BY <2>1, <2>2
  <1>4. ASSUME NEW t \in Tasks, ReturnStep(t) PROVE \A u \in Tasks : Fine(u)'
    <2>1. ASSUME NEW u \in Tasks, u # t PROVE Fine(u)'
      BY <1>4, <1>a, <2>1 DEF ReturnStep, Return
    <2>2. Fine(t)'
      BY <1>4 DEF ReturnStep, Return, Busy
    <2> QED
      BY <2>1, <2>2
  <1>5. ASSUME NEW l \in Locks, Grant(l) PROVE \A u \in Tasks : Fine(u)'
    <2>1. PICK t \in Tasks : NextLock(t, l) /\ held' = [held EXCEPT ![t] = @ + 1]
      BY <1>5, GrantFacts
    <2>2. UNCHANGED <<call, seen>>
      BY <1>5 DEF Grant
    <2>3. ASSUME NEW u \in Tasks, u # t PROVE Fine(u)'
      BY <1>a, <2>1, <2>2, <2>3
    <2>4. /\ Busy(t) /\ held[t] \in 0..3 /\ held'[t] = held[t] + 1
          /\ held[t] < Len(Plan[call[t].op])
          /\ Len(Plan[call[t].op]) \in 1..3
          /\ ~ReadsMapping(t)
      BY <2>1, CallFacts, PlanFacts DEF NextLock
    <2>5. call[t].op = "lookup" /\ held[t] = 1 => seen[t] # None
      BY <2>4 DEF ReadsMapping
    <2>6. Fine(t)'
      BY <1>0, <2>1, <2>2, <2>4, <2>5 DEF Busy
    <2> QED
      BY <2>3, <2>6
  <1>6. \A u \in Tasks : Fine(u)'
    BY <1>1, <1>2, <1>3, <1>4, <1>5 DEF StepKind
  <1> QED
    BY <1>6 DEF ProgressOK

\* Two tasks that hold one lock both only read it: kept by a step that lets
\* nobody but t gain a lock, and t none that somebody else holds against it.
LEMMA HoldsSame ==
    ASSUME NEW u \in Tasks, NEW l, call'[u] = call[u], held'[u] = held[u]
    PROVE  Holds(u, l)' <=> Holds(u, l)
  BY DEF Holds, Busy

LEMMA WritersPreserved ==
    ASSUME LocksInv, StepKind
    PROVE  WritersExclude'
  <1> USE DEF LocksInv, TypeOK
  <1> DEFINE Apart(t, u, l) ==
        t # u /\ Holds(t, l) /\ Holds(u, l) => call[t].op \notin Writing /\ call[u].op \notin Writing
  <1>0. \A t, u \in Tasks, l \in Locks : Apart(t, u, l)
    BY DEF WritersExclude
  <1>a. ASSUME NEW t \in Tasks, \A l \in Locks : ~Holds(t, l)',
               \A u \in Tasks \ {t} : call'[u] = call[u] /\ held'[u] = held[u]
        PROVE  WritersExclude'
    <2>1. \A u \in Tasks \ {t}, l \in Locks : Holds(u, l)' <=> Holds(u, l)
      BY <1>a, HoldsSame
    <2> QED
      BY <1>0, <1>a, <2>1 DEF WritersExclude
  <1>1. ASSUME NEW t \in Tasks, StartStep(t) PROVE WritersExclude'
    <2>1. held'[t] = 0
      BY <1>1 DEF StartStep, ProgressOK
    <2>2. \A l \in Locks : ~Holds(t, l)'
      BY <2>1 DEF Holds
    <2>3. \A u \in Tasks \ {t} : call'[u] = call[u] /\ held'[u] = held[u]
      BY <1>1 DEF StartStep
    <2> QED
      BY <1>a, <2>2, <2>3
  <1>2. ASSUME NEW t \in Tasks, ReturnStep(t) PROVE WritersExclude'
    <2>1. \A l \in Locks : ~Holds(t, l)'
      BY <1>2 DEF ReturnStep, Return, Holds, Busy
    <2>2. \A u \in Tasks \ {t} : call'[u] = call[u] /\ held'[u] = held[u]
      BY <1>2 DEF ReturnStep, Return
    <2> QED
      BY <1>a, <2>1, <2>2
  <1>3. CASE UNCHANGED <<call, held>>
    BY <1>0, <1>3, HoldsSame DEF WritersExclude
  <1>4. ASSUME NEW k \in Locks, Grant(k) PROVE WritersExclude'
    <2>1. PICK t \in Tasks : /\ t = Head(queue[k])
                             /\ NextLock(t, k) /\ held' = [held EXCEPT ![t] = @ + 1]
      BY <1>4, GrantFacts
    <2>2. UNCHANGED call /\ Grantable(t, k)
      BY <1>4, <2>1 DEF Grant
    <2>3. \A u \in Tasks \ {t}, l \in Locks : Holds(u, l)' <=> Holds(u, l)
      BY <2>1, <2>2, HoldsSame
    <2>4. ASSUME NEW l \in Locks, Holds(t, l)' PROVE Holds(t, l) \/ l = k
      <3>1. PICK i \in 1..held'[t] : Plan[call[t].op][i] = l
        BY <2>2, <2>4 DEF Holds
      <3>2. Busy(t) /\ held[t] \in 0..3 /\ held'[t] = held[t] + 1
        BY <2>1 DEF NextLock
      <3>3. CASE i \in 1..held[t]
        BY <3>1, <3>2, <3>3 DEF Holds
      <3>4. CASE i = held[t] + 1
        BY <2>1, <3>1, <3>4 DEF NextLock
      <3> QED
        BY <3>2, <3>3, <3>4
    <2>5. ASSUME NEW u \in Tasks, u # t, NEW l \in Locks, Holds(t, l)', Holds(u, l)'
          PROVE  call[t].op \notin Writing /\ call[u].op \notin Writing
      <3>1. Holds(u, l)
        BY <2>3, <2>5
      <3>2. CASE Holds(t, l)
        BY <1>0, <2>1, <2>5, <3>1, <3>2
      <3>3. CASE l = k
        BY <2>2, <2>5, <3>1, <3>3 DEF Grantable
      <3> QED
        BY <2>4, <2>5, <3>2, <3>3
    <2>6. ASSUME NEW u \in Tasks, NEW v \in Tasks, NEW l \in Locks,
                 u # v, Holds(u, l)', Holds(v, l)'
          PROVE  call[u].op \notin Writing /\ call[v].op \notin Writing
      <3>1. CASE u = t
        BY <2>5, <2>6, <3>1
      <3>2. CASE v = t
        BY <2>5, <2>6, <3>2
      <3>3. CASE u # t /\ v # t
        BY <1>0, <2>3, <2>6, <3>3
      <3> QED
        BY <3>1, <3>2, <3>3
    <2> QED
      BY <2>2, <2>6 DEF WritersExclude
  <1> QED
    BY <1>1, <1>2, <1>3, <1>4 DEF StepKind, Request, ReadStep

\* The task that changes the mapping holds its lock, and for writing.
LEMMA MappingWriter ==
    ASSUME LocksInv, NEW t \in Tasks, FinishWrite(t), mapping' # mapping
    PROVE  Holds(t, "mapping") /\ call[t].op \in Writing
  <1>1. call[t].op \in {"add", "remove", "map"} /\ Busy(t) /\ held[t] = Len(Plan[call[t].op])
    BY DEF FinishWrite, UpdateSession, Ready
  <1>2. \E i \in 1..Len(Plan[call[t].op]) : Plan[call[t].op][i] = "mapping"
    BY <1>1, PlanLocks
  <1> QED
    BY <1>1, <1>2 DEF Holds, Writing

LEMMA StablePreserved ==
    ASSUME LocksInv, Next
    PROVE  LookupSeesStableMapping'
  <1> USE DEF LocksInv, TypeOK
  <1> SUFFICES ASSUME NEW u \in Tasks, Busy(u)', call'[u].op = "lookup", seen'[u] # None
               PROVE  mapping'[call'[u].c] = seen'[u]
    BY DEF LookupSeesStableMapping
  <1>1. CASE call'[u] = call[u] /\ seen'[u] = seen[u]
    <2>1. Busy(u) /\ call[u].op = "lookup" /\ seen[u] # None
      BY <1>1 DEF Busy
    <2>2. mapping[call[u].c] = seen[u]
      BY <2>1 DEF LookupSeesStableMapping
    <2>3. Holds(u, "mapping")
      <3>1. held[u] \in Nat /\ held[u] >= 1
        BY <2>1 DEF ProgressOK
      <3>2. Plan[call[u].op][1] = "mapping"
        BY <2>1, PlanLocks
      <3> QED
        BY <2>1, <3>1, <3>2 DEF Holds
    <2>4. mapping' = mapping
      <3>1. SUFFICES ASSUME mapping' # mapping PROVE FALSE
        OBVIOUS
      <3>2. PICK t \in Tasks : FinishWrite(t)
        BY <3>1, TablesChange DEF storeVars
      <3>3. Holds(t, "mapping") /\ call[t].op \in Writing
        BY <3>1, <3>2, MappingWriter
      <3>4. t # u
        BY <2>1, <3>3 DEF Writing
      <3> QED
        BY <2>3, <3>3, <3>4 DEF WritersExclude, Locks
    <2> QED
      BY <1>1, <2>2, <2>4
  <1>2. ASSUME NEW t \in Tasks, StartStep(t) PROVE call'[u] = call[u] /\ seen'[u] = seen[u]
    <2>1. u # t
      BY <1>2 DEF StartStep, ProgressOK
    <2> QED
      BY <1>2, <2>1 DEF StartStep
  <1>3. ASSUME NEW t \in Tasks, ReturnStep(t) PROVE call'[u] = call[u] /\ seen'[u] = seen[u]
    <2>1. u # t
      BY <1>3 DEF ReturnStep, Return, Busy
    <2> QED
      BY <1>3, <2>1 DEF ReturnStep, Return
  <1>4. ASSUME NEW t \in Tasks, ReadStep(t) PROVE mapping'[call'[u].c] = seen'[u]
    <2>1. CASE u = t
      BY <1>4, <2>1 DEF ReadStep
    <2>2. CASE u # t
      BY <1>1, <1>4, <2>2 DEF ReadStep
    <2> QED
      BY <2>1, <2>2
  <1>5. ASSUME NEW t \in Tasks, Request(t) PROVE call'[u] = call[u] /\ seen'[u] = seen[u]
    BY <1>5 DEF Request
  <1>6. ASSUME NEW l \in Locks, Grant(l) PROVE call'[u] = call[u] /\ seen'[u] = seen[u]
    BY <1>6 DEF Grant
  <1> QED
    BY <1>1, <1>2, <1>3, <1>4, <1>5, <1>6, NextIsStep DEF StepKind

-----------------------------------------------------------------------------
(***************************************************************************)
(* The theorems                                                            *)
(***************************************************************************)

LEMMA InitInv == Init => LocksInv
  <1> SUFFICES ASSUME Init PROVE LocksInv
    OBVIOUS
  <1> USE DEF Init
  <1>1. \A t \in Tasks : ~Busy(t)
    BY DEF Busy
  <1>2. TypeOK
    <2>1. StoreTypeOK
      BY DEF StoreInit, StoreTypeOK, Stats
    <2>2. queue \in [Locks -> Seq(Tasks)]
      BY EmptySeq
    <2> QED
      BY <2>1, <2>2 DEF TypeOK
  <1>3. ArgsOK /\ ProgressOK
    BY <1>1 DEF ArgsOK, ProgressOK
  <1>4. QueueOK /\ QueuedOnce
    BY EmptySeq DEF QueueOK, QueuedOnce
  <1>5. WritersExclude /\ LookupSeesStableMapping
    BY <1>1 DEF WritersExclude, LookupSeesStableMapping, Holds
  <1> QED
    BY <1>2, <1>3, <1>4, <1>5 DEF LocksInv

LEMMA StutterInv == LocksInv /\ UNCHANGED vars => LocksInv'
  <1> SUFFICES ASSUME LocksInv, UNCHANGED vars PROVE LocksInv'
    OBVIOUS
  <1> USE DEF LocksInv, vars
  <1>1. TypeOK'
    BY DEF TypeOK, StoreTypeOK
  <1>2. ArgsOK' /\ ProgressOK'
    BY DEF ArgsOK, HasArgs, ProgressOK, Busy
  <1>3. QueueOK'
    <2>1. \A t \in Tasks : \A l \in Locks : NextLock(t, l)' <=> NextLock(t, l)
      BY DEF NextLock, Busy, ReadsMapping
    <2>2. \A l \in Locks : \A i \in 1..Len(queue[l]) : queue[l][i] \in Tasks
      BY DEF TypeOK
    <2> QED
      BY <2>1, <2>2 DEF QueueOK
  <1>4. QueuedOnce'
    BY DEF QueuedOnce
  <1>5. WritersExclude'
    BY DEF WritersExclude, Holds, Busy
  <1>6. LookupSeesStableMapping'
    BY DEF LookupSeesStableMapping, Busy
  <1> QED
    BY <1>1, <1>2, <1>3, <1>5, <1>6, <1>4

\* LocksInv is inductive, for every instance.
THEOREM LocksInvariant == Spec => []LocksInv
  <1>1. LocksInv /\ [Next]_vars => LocksInv'
    <2>1. CASE LocksInv /\ Next
      BY <2>1, NextIsStep, TypePreserved, ArgsPreserved, QueuePreserved, QueuedOncePreserved,
         ProgressPreserved, WritersPreserved, StablePreserved DEF LocksInv
    <2> QED
      BY <2>1, StutterInv
  <1> QED
    BY InitInv, <1>1, PTL DEF Spec

\* The variables keep their types, whatever the number of tasks.
THEOREM TypeCorrect == Spec => []TypeOK
  BY LocksInvariant, PTL DEF LocksInv

\* A write guard of SessionManager excludes every other guard of its lock.
THEOREM WritersExcluded == Spec => []WritersExclude
  BY LocksInvariant, PTL DEF LocksInv

\* get_session_by_any_call_id reads both tables in one consistent state.
THEOREM LookupIsStable == Spec => []LookupSeesStableMapping
  BY LocksInvariant, PTL DEF LocksInv

-----------------------------------------------------------------------------
(***************************************************************************)
(* The locks implement SessionManager                                      *)
(***************************************************************************)

LEMMA InitImplements == Init => Manager!ManagerInit
  BY DEF Init, Manager!ManagerInit, Manager!StoreInit, StoreInit

LEMMA WriteImplements ==
    ASSUME LocksInv, NEW t \in Tasks, FinishWrite(t)
    PROVE  Manager!Write
  <1> USE DEF LocksInv, ArgsOK, HasArgs, Ready
  <1>1. CASE Ready(t, "add") /\ AddSession(call[t].s, call[t].r)
    <2>1. call[t].s \in SessionIds /\ call[t].r \in Records
      BY <1>1
    <2>2. Manager!AddSession(call[t].s, call[t].r)
      BY <1>1 DEF AddSession, Manager!AddSession, Legs, Manager!Legs, Larger, Manager!Larger
    <2> QED
      BY <2>1, <2>2 DEF FinishWrite, Manager!Write
  <1>2. CASE Ready(t, "update") /\ UpdateSession(call[t].s, call[t].r)
    <2>1. call[t].s \in SessionIds /\ call[t].r \in Records
      BY <1>2
    <2>2. Manager!UpdateSession(call[t].s, call[t].r)
      BY <1>2 DEF UpdateSession, Manager!UpdateSession
    <2> QED
      BY <2>1, <2>2 DEF FinishWrite, Manager!Write
  <1>3. CASE Ready(t, "remove") /\ RemoveSession(call[t].s)
    <2>1. call[t].s \in SessionIds
      BY <1>3
    <2>2. Manager!RemoveSession(call[t].s)
      BY <1>3 DEF RemoveSession, Manager!RemoveSession, RemovePresent, Manager!RemovePresent,
                  Legs, Manager!Legs, Decrement, Manager!Decrement, storeVars, Manager!storeVars
    <2> QED
      BY <2>1, <2>2 DEF FinishWrite, Manager!Write
  <1>4. CASE Ready(t, "map") /\ MapCallId(call[t].c, call[t].s)
    <2>1. call[t].s \in SessionIds /\ call[t].c \in CallIds
      BY <1>4
    <2>2. Manager!MapCallId(call[t].c, call[t].s)
      BY <1>4 DEF MapCallId, Manager!MapCallId
    <2> QED
      BY <2>1, <2>2 DEF FinishWrite, Manager!Write
  <1> QED
    BY <1>1, <1>2, <1>3, <1>4 DEF FinishWrite

\* A look-up answers with what both tables say when it answers.
LEMMA LookupImplements ==
    ASSUME LocksInv, NEW t \in Tasks, FinishLookup(t)
    PROVE  Manager!Answer(t, call[t].c) /\ call[t].c \in CallIds
  <1> USE DEF LocksInv, TypeOK
  <1>1. /\ Busy(t) /\ call[t].op = "lookup" /\ held[t] = 2 /\ call[t].c \in CallIds
    BY PlanLocks DEF FinishLookup, Ready, ArgsOK, HasArgs
  <1>2. seen[t] # None /\ mapping[call[t].c] = seen[t]
    BY <1>1 DEF ProgressOK, LookupSeesStableMapping
  <1>3. Manager!Lookup(call[t].c) = IF sessions[seen[t]] = None THEN None ELSE seen[t]
    BY <1>2 DEF Manager!Lookup
  <1> QED
    BY <1>1, <1>3 DEF FinishLookup, Manager!Answer, Manager!storeVars

\* An unmapped Call-ID is answered at once, with None.
LEMMA MissImplements ==
    ASSUME LocksInv, NEW t \in Tasks, ReadMapping(t), mapping[call[t].c] = None
    PROVE  Manager!Answer(t, call[t].c) /\ call[t].c \in CallIds
  BY DEF LocksInv, ReadMapping, ReadsMapping, ArgsOK, HasArgs, Manager!Answer,
         Manager!Lookup, Manager!storeVars

LEMMA NextImplements ==
    ASSUME LocksInv, Next
    PROVE  Manager!ManagerNext \/ UNCHANGED Manager!managerVars
  <1> USE DEF Manager!managerVars
  <1>1. CASE Begin
    BY <1>1, BeginIsStart DEF StartStep
  <1>2. ASSUME NEW t \in Tasks, Proceed(t)
        PROVE  Manager!ManagerNext \/ UNCHANGED Manager!managerVars
    <2>1. CASE Request(t)
      BY <2>1 DEF Request
    <2>2. CASE ReadMapping(t)
      BY <2>2, MissImplements DEF ReadMapping, Manager!ManagerNext
    <2>3. CASE FinishLookup(t)
      BY <2>3, LookupImplements DEF Manager!ManagerNext
    <2>4. CASE FinishWrite(t)
      BY <2>4, WriteImplements DEF Manager!ManagerNext
    <2>5. CASE FinishRead(t)
      BY <2>5 DEF FinishRead
    <2>6. CASE FinishCollect(t)
      BY <2>6 DEF FinishCollect
    <2> QED
      BY <1>2, <2>1, <2>2, <2>3, <2>4, <2>5, <2>6 DEF Proceed
  <1>3. ASSUME NEW l \in Locks, Grant(l) PROVE UNCHANGED Manager!managerVars
    BY <1>3 DEF Grant
  <1> QED
    BY <1>1, <1>2, <1>3 DEF Next

\* Every behaviour of the locked implementation is one of the atomic
\* SessionManager, and each look-up answers with one snapshot of both tables.
THEOREM LocksImplementManager == Spec => ManagerSafety
  <1>1. LocksInv /\ [Next]_vars => [Manager!ManagerNext]_(Manager!managerVars)
    BY NextImplements DEF vars, Manager!managerVars
  <1> QED
    BY InitImplements, LocksInvariant, <1>1, PTL DEF Spec, ManagerSafety, Manager!ManagerSpec

-----------------------------------------------------------------------------
(***************************************************************************)
(* The one way to get stuck                                                *)
(***************************************************************************)

\* Nobody who holds a lock and waits holds the statistics: they come last.
LEMMA WaitersWant ==
    ASSUME LocksInv, NEW u \in Tasks, Waiting(u)
    PROVE  \E l \in Locks : NextLock(u, l) /\ queue[l] # <<>>
  <1>1. PICK l \in Locks : \E i \in 1..Len(queue[l]) : queue[l][i] = u
    BY DEF Waiting
  <1>2. NextLock(u, l)
    BY <1>1 DEF LocksInv, QueueOK
  <1>3. queue[l] # <<>>
    BY <1>1, EmptySeq DEF LocksInv, TypeOK
  <1> QED
    BY <1>2, <1>3

\* In a stuck state somebody who waits holds the lock that a queue waits for.
LEMMA HolderOfQueue ==
    ASSUME LocksInv, Stuck, NEW l \in Locks, queue[l] # <<>>
    PROVE  \E u \in Tasks : Busy(u) /\ Waiting(u) /\ Holds(u, l)
  <1>1. PICK u \in Tasks : Holds(u, l)
    BY DEF Stuck, Grantable
  <1> QED
    BY <1>1 DEF Stuck, Holds

\* Who waits, and for what, while holding a lock: a look-up that holds the
\* mapping, for the sessions; an operation on both tables, for the mapping
\* with the sessions in hand, or for the statistics with both.
LEMMA HoldAndWait ==
    ASSUME LocksInv, NEW u \in Tasks, NEW l \in Locks, Holds(u, l),
           NEW k \in Locks, NextLock(u, k)
    PROVE  \/ /\ call[u].op = "lookup" /\ held[u] = 1
              /\ l = "mapping" /\ k = "sessions"
           \/ /\ call[u].op \in {"add", "remove"} /\ Holds(u, "sessions")
              /\ \/ l = "sessions" /\ k = "mapping"
                 \/ l \in {"sessions", "mapping"} /\ k = "stats"
  <1>1. PICK i \in 1..held[u] : Plan[call[u].op][i] = l
    BY DEF Holds
  <1>2. /\ Busy(u) /\ call[u].op \in Ops /\ held[u] \in 0..3
        /\ held[u] < Len(Plan[call[u].op])
        /\ Plan[call[u].op][held[u] + 1] = k
    BY CallFacts DEF LocksInv, TypeOK, NextLock
  <1>3. CASE call[u].op = "lookup"
    <2>1. held[u] = 1 /\ i = 1
      BY <1>1, <1>2, <1>3, PlanLocks
    <2> QED
      BY <1>1, <1>2, <1>3, <2>1, PlanLocks
  <1>4. CASE call[u].op \in {"add", "remove"}
    <2>1. Plan[call[u].op] = <<"sessions", "mapping", "stats">>
      BY <1>4, PlanLocks
    <2>2. \/ held[u] = 1 /\ i = 1
          \/ held[u] = 2 /\ i \in {1, 2}
      BY <1>1, <1>2, <2>1
    <2>3. Holds(u, "sessions")
      <3>1. 1 \in 1..held[u] /\ Plan[call[u].op][1] = "sessions"
        BY <2>1, <2>2
      <3> QED
        BY <1>2, <3>1 DEF Holds
    <2>4. CASE held[u] = 1 /\ i = 1
      BY <1>1, <1>2, <1>4, <2>1, <2>3, <2>4
    <2>5. CASE held[u] = 2 /\ i \in {1, 2}
      BY <1>1, <1>2, <1>4, <2>1, <2>3, <2>5
    <2> QED
      BY <2>2, <2>4, <2>5
  <1>5. CASE call[u].op \notin {"lookup", "add", "remove"}
    <2>1. Len(Plan[call[u].op]) = 1
      BY <1>2, <1>5, PlanLocks DEF Ops
    <2> QED
      BY <1>1, <1>2, <2>1
  <1> QED
    BY <1>3, <1>4, <1>5

LEMMA StuckNeedsLookup ==
    ASSUME LocksInv
    PROVE  StuckOnlyByLookup
  <1> SUFFICES ASSUME Stuck
               PROVE  \E t, u \in Tasks :
                         /\ Busy(t) /\ call[t].op = "lookup" /\ held[t] = 1
                         /\ Busy(u) /\ call[u].op \in {"add", "remove"}
                         /\ Holds(u, "sessions")
    BY DEF StuckOnlyByLookup
  <1>1. ASSUME NEW l \in Locks, queue[l] # <<>>
        PROVE  \E u \in Tasks, k \in Locks :
                  Busy(u) /\ Holds(u, l) /\ NextLock(u, k) /\ queue[k] # <<>>
    BY <1>1, HolderOfQueue, WaitersWant
  <1>2. queue["stats"] = <<>>
    <2>1. SUFFICES ASSUME queue["stats"] # <<>> PROVE FALSE
      OBVIOUS
    <2>2. PICK u \in Tasks, k \in Locks : Holds(u, "stats") /\ NextLock(u, k)
      BY <1>1, <2>1 DEF Locks
    <2> QED
      BY <2>2, HoldAndWait DEF Locks
  <1>3. ASSUME queue["mapping"] # <<>>
        PROVE  /\ \E t \in Tasks : Busy(t) /\ call[t].op = "lookup" /\ held[t] = 1
               /\ queue["sessions"] # <<>>
    <2>1. PICK u \in Tasks, k \in Locks :
              Busy(u) /\ Holds(u, "mapping") /\ NextLock(u, k) /\ queue[k] # <<>>
      BY <1>1, <1>3 DEF Locks
    <2> QED
      BY <1>2, <2>1, HoldAndWait DEF Locks
  <1>4. ASSUME queue["sessions"] # <<>>
        PROVE  /\ \E u \in Tasks : /\ Busy(u) /\ call[u].op \in {"add", "remove"}
                                   /\ Holds(u, "sessions")
               /\ queue["mapping"] # <<>>
    <2>1. PICK u \in Tasks, k \in Locks :
              Busy(u) /\ Holds(u, "sessions") /\ NextLock(u, k) /\ queue[k] # <<>>
      BY <1>1, <1>4 DEF Locks
    <2> QED
      BY <1>2, <2>1, HoldAndWait DEF Locks
  <1>5. \E l \in Locks : queue[l] # <<>>
    BY WaitersWant DEF Stuck
  <1>6. queue["sessions"] # <<>> /\ queue["mapping"] # <<>>
    BY <1>2, <1>3, <1>4, <1>5 DEF Locks
  <1> QED
    BY <1>3, <1>4, <1>6

\* Without get_session_by_any_call_id the lock order of SessionManager is free
\* of deadlock, for any number of tasks and sessions.
THEOREM OnlyLookupsGetStuck == Spec => []StuckOnlyByLookup
  BY LocksInvariant, StuckNeedsLookup, PTL
=============================================================================
