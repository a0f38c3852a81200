------------------------------- MODULE Admission -------------------------------
(***************************************************************************)
(* Call admission without locks, in the two places where the program has   *)
(* it: CallControlService (src/src/call_control.rs), which counts all      *)
(* calls and keeps their sessions, and register_call of                    *)
(* TerminationRoutingService (src/src/termination_routing.rs), which       *)
(* counts the calls of one trunk.  The gate in front of the counters is    *)
(* the same code twice.  Every load, store, exchange, fetch_add and        *)
(* fetch_sub of an atomic is a step, and so is every operation on one      *)
(* shard of the sessions' DashMap; any number of threads take them in any  *)
(* order.  Steps on different atomics are taken to be seen in one order.   *)
(*                                                                         *)
(* total_calls_established, which nothing compares, and the configuration  *)
(* with admission control switched off are left out.                       *)
(***************************************************************************)
EXTENDS Integers, FiniteSets

CONSTANTS
    Threads,
    Calls,        \* the calls that may be up
    Services,     \* the services to look at, of "control" and "trunk"
    Max,          \* max_concurrent_calls, concurrent_call_limit
    Rate,         \* max_calls_per_second, cps_limit
    OnTrunk,      \* the calls that name a trunk with a TrunkGroupLimits
    TrunkMax,     \* its max_concurrent
    Shards,       \* the shards of active_sessions, scanned in ascending order
    ShardOf,      \* the shard a call's session is kept in
    Width,        \* the values of the AtomicU32 active_calls are 0..(Width - 1)
    LastSecond,   \* bound of the clock
    MaxStrays,    \* bound: the ends reported of calls that are not counted
    None

ASSUME AdmissionAssumption ==
    /\ IsFiniteSet(Threads) /\ Threads # {}
    /\ IsFiniteSet(Calls)
    /\ Services \subseteq {"control", "trunk"}
    /\ Max \in Nat /\ Rate \in Nat /\ TrunkMax \in Nat /\ LastSecond \in Nat
    /\ MaxStrays \in Nat /\ Width \in Nat /\ Cardinality(Calls) + MaxStrays < Width
    /\ OnTrunk \subseteq Calls
    /\ Shards \in Nat
    /\ ShardOf \in [Calls -> 1..Shards]
    /\ None \notin Calls

VARIABLES
    service,     \* the service the threads call
    now,         \* the clock, in seconds
    active,      \* active_calls
    rate,        \* calls_per_second_current, calls_this_second
    lastReset,   \* last_cps_reset, last_reset
    sessions,    \* the calls registered and not ended: active_sessions, or what the callers know
    pc,          \* where each thread is
    call,        \* the call it works on
    read,        \* what it has read: the clock and last_reset, later the sessions
                 \* it has found on the trunk and the shard to look at next
    second,      \* history: the calls counted in this second of the clock
    strays       \* history: the decrements for calls that were not counted

vars == <<service, now, active, rate, lastReset, sessions, pc, call, read, second, strays>>
counters == <<active, rate, lastReset, sessions, second, strays>>

Points == {"idle", "reset", "exchange", "zero", "rate", "scan", "register", "count",
           "countRate", "uncount"}

\* Between the check of active_calls and the increment.
Granted(t) == pc[t] \in {"reset", "exchange", "zero", "rate", "scan", "register", "count"}

Init ==
    /\ service \in Services
    /\ now = 1
    /\ active = 0 /\ rate = 0 /\ lastReset = 1
    /\ sessions = {}
    /\ pc = [t \in Threads |-> "idle"]
    /\ call = [t \in Threads |-> None]
    /\ read = [t \in Threads |-> <<0, 0>>]
    /\ second = 0
    /\ strays = 0

Go(t, point) == pc' = [pc EXCEPT ![t] = point]

Read(t, a, b) == read' = [read EXCEPT ![t] = <<a, b>>]

\* The thread leaves the operation.
Leave(t) == Go(t, "idle") /\ call' = [call EXCEPT ![t] = None] /\ Read(t, 0, 0)

-----------------------------------------------------------------------------
(***************************************************************************)
(* can_admit_call_fast, can_trunk_accept_call                              *)
(***************************************************************************)

\* Wrong variant: the limit itself is let through.
BelowLimitInclusive == active <= Max

BelowLimit == active < Max

\* The check of the global, or the trunk's, number of calls; a refusal changes nothing.
Ask(t, c) ==
    /\ pc[t] = "idle"
    /\ c \notin sessions /\ \A u \in Threads : call[u] # c
    /\ BelowLimit
    /\ Go(t, "reset")
    /\ call' = [call EXCEPT ![t] = c]
    /\ UNCHANGED <<service, now, counters, read>>

\* The clock and last_reset are read.  (A reset between the two reads makes
\* the comparison fail, as it would make the exchange fail.)
ReadReset(t) ==
    /\ pc[t] = "reset"
    /\ Read(t, now, lastReset)
    /\ Go(t, IF now > lastReset THEN "exchange" ELSE "rate")
    /\ UNCHANGED <<service, now, counters, call>>

\* Wrong variant: a store, whatever the value is by now.
ExchangedAlways(t) ==
    /\ lastReset' = read[t][1]
    /\ Go(t, "zero")

Exchanged(t) ==
    /\ lastReset = read[t][2]
    /\ lastReset' = read[t][1]
    /\ Go(t, "zero")

\* compare_exchange_weak may fail though the value is the expected one.
Exchange(t) ==
    /\ pc[t] = "exchange"
    /\ \/ Exchanged(t)
       \/ Go(t, "rate") /\ UNCHANGED lastReset
    /\ UNCHANGED <<service, now, active, rate, sessions, second, strays, call, read>>

StoreZero(t) ==
    /\ pc[t] = "zero"
    /\ rate' = 0
    /\ Go(t, "rate")
    /\ UNCHANGED <<service, now, active, lastReset, sessions, second, strays, call, read>>

\* The check of the rate.  The control service then scans the sessions if the
\* call names a limited trunk; the trunk's service goes on to count.
ReadRate(t) ==
    /\ pc[t] = "rate"
    /\ IF rate >= Rate THEN Leave(t)
       ELSE /\ Go(t, IF service = "trunk" THEN "count"
                     ELSE IF call[t] \in OnTrunk THEN "scan" ELSE "register")
            /\ Read(t, 0, 1)
            /\ UNCHANGED call
    /\ UNCHANGED <<service, now, counters>>

\* The trunk's sessions in one shard are counted, under the shard's lock.
ScanShard(t) ==
    LET shard == read[t][2] IN
    /\ pc[t] = "scan" /\ shard <= Shards
    /\ Read(t, read[t][1] + Cardinality({c \in sessions \cap OnTrunk : ShardOf[c] = shard}),
               shard + 1)
    /\ UNCHANGED <<service, now, counters, pc, call>>

\* Wrong variant: the result is not looked at.
TrunkFullNever(t) == FALSE

TrunkFull(t) == read[t][1] >= TrunkMax

EndScan(t) ==
    /\ pc[t] = "scan" /\ read[t][2] > Shards
    /\ IF TrunkFull(t) THEN Leave(t) ELSE Go(t, "register") /\ UNCHANGED <<call, read>>
    /\ UNCHANGED <<service, now, counters>>

-----------------------------------------------------------------------------
(***************************************************************************)
(* register_call, end_call                                                 *)
(***************************************************************************)

\* Wrong variant: a counter that has a sign.
LoweredSigned(n) == n - 1

\* fetch_add and fetch_sub wrap around.
Raised(n) == IF n = Width - 1 THEN 0 ELSE n + 1
Lowered(n) == IF n = 0 THEN Width - 1 ELSE n - 1

\* The session is stored; or the caller, though admitted, does not register.
StoreSession(t) ==
    /\ pc[t] = "register"
    /\ sessions' = sessions \cup {call[t]}
    /\ Go(t, "count")
    /\ UNCHANGED <<service, now, active, rate, lastReset, second, strays, call, read>>

Abandon(t) ==
    /\ pc[t] = "register"
    /\ Leave(t)
    /\ UNCHANGED <<service, now, counters>>

CountCall(t) ==
    /\ pc[t] = "count"
    /\ active' = Raised(active)
    /\ Go(t, "countRate")
    /\ UNCHANGED <<service, now, rate, lastReset, sessions, second, strays, call, read>>

\* The rate is counted and the operation returns; now the caller may end the call.
CountRate(t) ==
    /\ pc[t] = "countRate"
    /\ rate' = rate + 1
    /\ second' = second + 1
    /\ sessions' = sessions \cup {call[t]}
    /\ Leave(t)
    /\ UNCHANGED <<service, now, active, lastReset, strays>>

\* end_call, for a call whose registration has returned: only the thread that takes
\* the session out goes on to lower the counter.
End(t, c) ==
    /\ pc[t] = "idle"
    /\ c \in sessions /\ \A u \in Threads : call[u] # c
    /\ sessions' = sessions \ {c}
    /\ Go(t, "uncount")
    /\ call' = [call EXCEPT ![t] = c]
    /\ UNCHANGED <<service, now, active, rate, lastReset, second, strays, read>>

\* Wrong variant: neither service asks whether the call is up.
UncheckedBoth == TRUE

\* end_call of the trunk's service names a trunk and no call.
Unchecked == service = "trunk"

Straying == {t \in Threads : pc[t] = "uncount" /\ call[t] = None}

\* It lowers the counter also when it is told the end of a call a second time, or of
\* one that was never registered.
StrayEnd(t) ==
    /\ pc[t] = "idle"
    /\ Unchecked
    /\ strays + Cardinality(Straying) < MaxStrays   \* bound
    /\ Go(t, "uncount")
    /\ UNCHANGED <<service, now, counters, call, read>>

UncountCall(t) ==
    /\ pc[t] = "uncount"
    /\ active' = Lowered(active)
    /\ strays' = IF call[t] = None THEN strays + 1 ELSE strays
    /\ Leave(t)
    /\ UNCHANGED <<service, now, rate, lastReset, sessions, second>>

Tick ==
    /\ now < LastSecond
    /\ now' = now + 1
    /\ second' = 0
    /\ UNCHANGED <<service, active, rate, lastReset, sessions, strays, pc, call, read>>

Next ==
    \/ Tick
    \/ \E t \in Threads :
          \/ ReadReset(t) \/ Exchange(t) \/ StoreZero(t) \/ ReadRate(t)
          \/ ScanShard(t) \/ EndScan(t)
          \/ StoreSession(t) \/ Abandon(t) \/ CountCall(t) \/ CountRate(t)
          \/ StrayEnd(t) \/ UncountCall(t)
          \/ \E c \in Calls : Ask(t, c) \/ End(t, c)

Spec == Init /\ [][Next]_vars

-----------------------------------------------------------------------------
TypeOK ==
    /\ service \in Services
    /\ now \in Nat
    /\ active \in 0..(Width - 1) /\ strays \in 0..MaxStrays
    /\ rate \in Nat /\ lastReset \in Nat /\ second \in Nat
    /\ sessions \subseteq Calls
    /\ pc \in [Threads -> Points]
    /\ call \in [Threads -> Calls \cup {None}]
    /\ read \in [Threads -> Nat \X Nat]

\* The calls whose increment has been made and whose decrement has not.
Counted ==
    {c \in sessions : \A t \in Threads : call[t] = c => pc[t] # "count"}
        \cup {call[t] : t \in {u \in Threads : /\ pc[u] \in {"countRate", "uncount"}
                                             /\ call[u] # None}}

(* The counter and the sessions, which no step changes together, agree but *)
(* for the calls that a thread is registering or ending, and for the ends  *)
(* that were reported once too often.  Those lower the counter, around the *)
(* end of its range if need be; only the trunk's service lets them through *)
(* (call_control.rs, lines 244-267; termination_routing.rs, 460-465).      *)
CountersAgree ==
    /\ active = IF Cardinality(Counted) >= strays
                  THEN Cardinality(Counted) - strays
                  ELSE Width + Cardinality(Counted) - strays
    /\ service = "control" => strays = 0

Quota ==
    INSTANCE CallQuota WITH counted <- Cardinality(Counted),
                            granted <- {t \in Threads : Granted(t)},
                            credit <- strays

(* The gate, the registration and the end of calls implement the promise   *)
(* of CallQuota: a call is counted only by a thread that was let through   *)
(* below the limit, once for each time, and each end reported too often    *)
(* makes room for one call more, whether the counter wraps or not          *)
(* (call_control.rs, 125-267; termination_routing.rs, 413-465).            *)
QuotaImplemented == Quota!QuotaSpec

(* The limit on concurrent calls is exceeded by fewer calls than there are *)
(* threads and stray ends, the calls that have passed the check and are    *)
(* still to be counted included (call_control.rs, line 126;                *)
(* termination_routing.rs, line 444).                                      *)
QuotaKept ==
    Cardinality(Counted) + Cardinality({t \in Threads : Granted(t)})
        <= Max - 1 + Cardinality(Threads) + strays

(* So is the limit of a trunk group, though a scan of the sessions sees no *)
(* state they were ever in: calls end behind it and start before it        *)
(* (call_control.rs, lines 162-175).                                       *)
TrunkKept ==
    service = "control" =>
        Cardinality(sessions \cap OnTrunk) <= TrunkMax - 1 + Cardinality(Threads)

(* How many calls one second can take: a thread that has won the exchange  *)
(* and is delayed wipes out what others have counted, with its store of 0, *)
(* even seconds later (call_control.rs, lines 139-147).  At worst every    *)
(* thread does, one after the other: after k of them have, up to k threads *)
(* fill the counter together and overshoot by k - 1.                       *)
RateKept ==
    LET n == Cardinality(Threads) IN
    Rate > 0 => second <= (n + 1) * Rate + ((n - 1) * (n + 2)) \div 2
=============================================================================
