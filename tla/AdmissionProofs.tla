---------------------------- MODULE AdmissionProofs ----------------------------
(***************************************************************************)
(* Proofs about Admission: its counters agree with its sessions, it        *)
(* implements CallQuota, from which the bound on the number of calls       *)
(* follows, its scans over the sessions bound the calls of a trunk,        *)
(* and its wipes of the rate bound the calls counted in one second.        *)
(***************************************************************************)
EXTENDS Admission, FiniteSetTheorems, WellFoundedInduction, TLAPS

(* A call is worked on by one thread, and a thread that works on none is   *)
(* idle or ends a call that is not counted.                                *)
CallsApart ==
    /\ \A t \in Threads : pc[t] = "idle" => call[t] = None
    /\ \A t \in Threads : call[t] = None => pc[t] \in {"idle", "uncount"}
    /\ \A t, u \in Threads : call[t] # None /\ call[t] = call[u] => t = u

(* The session of a call is stored before the call is counted, or is known *)
(* only after that, and it is gone before the call is uncounted.           *)
SessionsOK ==
    \A t \in Threads :
        /\ pc[t] \in {"reset", "exchange", "zero", "rate", "scan", "register", "uncount"}
              => call[t] \notin sessions
        /\ pc[t] \in {"count", "countRate"}
              => (call[t] \in sessions <=> service = "control")

(* Only the control service scans and stores.                              *)
ControlOnly ==
    \A t \in Threads : pc[t] \in {"scan", "register"} => service = "control"

(* Only the trunk's service is told an end too often.                      *)
StraysOK ==
    /\ strays + Cardinality(Straying) <= MaxStrays
    /\ service = "control" => strays = 0 /\ Straying = {}

Shape == TypeOK /\ CallsApart /\ SessionsOK /\ ControlOnly /\ StraysOK

AdmissionInv == Shape /\ CountersAgree

-----------------------------------------------------------------------------
(* The variables keep their types, and calls, sessions and threads fit     *)
(* together.                                                               *)
LEMMA InitShape == Init => AdmissionInv
<1> SUFFICES ASSUME Init PROVE AdmissionInv
    OBVIOUS
<1> USE AdmissionAssumption
<1>1. TypeOK
    <2>1. 0 \in 0..(Width - 1) /\ 0 \in 0..MaxStrays
        BY FS_CardinalityType
    <2> QED
        BY <2>1 DEF Init, TypeOK, Points
<1>2. CallsApart /\ SessionsOK /\ ControlOnly
    BY DEF Init, CallsApart, SessionsOK, ControlOnly
<1>3. Counted = {} /\ Straying = {}
    BY DEF Init, Counted, Straying
<1>4. CountersAgree /\ StraysOK
    BY <1>3, FS_EmptySet DEF CountersAgree, StraysOK, Init
<1> QED
    BY <1>1, <1>2, <1>4 DEF AdmissionInv, Shape

LEMMA CallsFinite ==
    ASSUME NEW S, S \subseteq Calls
    PROVE  IsFiniteSet(S) /\ Cardinality(S) \in Nat /\ Cardinality(S) <= Cardinality(Calls)
BY AdmissionAssumption, FS_Subset, FS_CardinalityType

(* The counted calls are so few that the counter, moved by the stray ends, *)
(* still tells their number.                                               *)
LEMMA FewEnough ==
    ASSUME NEW S, S \subseteq Calls, NEW s \in 0..MaxStrays
    PROVE  /\ IsFiniteSet(S) /\ Cardinality(S) \in Nat
           /\ s \in Nat /\ Cardinality(S) + s < Width
<1>1. /\ IsFiniteSet(S) /\ Cardinality(S) \in Nat
      /\ Cardinality(S) <= Cardinality(Calls) /\ Cardinality(Calls) \in Nat
    BY CallsFinite
<1> QED
    BY <1>1, AdmissionAssumption

LEMMA CountedFinite ==
    ASSUME TypeOK
    PROVE  /\ IsFiniteSet(Counted) /\ Cardinality(Counted) \in Nat
           /\ strays \in Nat /\ Cardinality(Counted) + strays < Width
<1>1. Counted \subseteq Calls /\ strays \in 0..MaxStrays
    BY DEF Counted, TypeOK
<1> QED
    BY <1>1, FewEnough

LEMMA StrayingFinite == IsFiniteSet(Straying) /\ Cardinality(Straying) \in Nat
    BY AdmissionAssumption, FS_Subset, FS_CardinalityType DEF Straying

(* What a number n of counted calls and a number s of stray ends make of   *)
(* the counter, and how the fetches change it.                             *)
Shown(n, s) == IF n >= s THEN n - s ELSE Width + n - s

LEMMA ShownMoves ==
    ASSUME NEW n \in Nat, NEW s \in Nat, n + s < Width
    PROVE  /\ Shown(n, s) \in 0..(Width - 1)
           /\ n + 1 + s < Width => Raised(Shown(n, s)) = Shown(n + 1, s)
           /\ n > 0 => Lowered(Shown(n, s)) = Shown(n - 1, s)
           /\ Lowered(Shown(n, s)) = Shown(n, s + 1)
<1>1. Width \in Nat
    BY AdmissionAssumption
<1>2. CASE n >= s
    <2>1. Shown(n, s) = n - s /\ Shown(n + 1, s) = n + 1 - s
        BY <1>2 DEF Shown
    <2>2. n + 1 + s < Width => Raised(n - s) = n + 1 - s
        BY <1>1, <1>2 DEF Raised
    <2>3. CASE n = s
        <3>1. /\ Lowered(n - s) = Width - 1 /\ Shown(n, s + 1) = Width - 1
              /\ n > 0 => Shown(n - 1, s) = Width - 1
            BY <1>1, <2>3 DEF Lowered, Shown
        <3> QED
            BY <1>1, <1>2, <2>1, <2>2, <3>1
    <2>4. CASE n # s
        <3>1. /\ Lowered(n - s) = n - s - 1 /\ Shown(n, s + 1) = n - s - 1
              /\ Shown(n - 1, s) = n - 1 - s
            BY <1>1, <1>2, <2>4 DEF Lowered, Shown
        <3> QED
            BY <1>1, <1>2, <2>1, <2>2, <3>1
    <2> QED
        BY <2>3, <2>4
<1>3. CASE n < s
    <2>1. Shown(n, s) = Width + n - s /\ Shown(n, s + 1) = Width + n - s - 1
        BY <1>1, <1>3 DEF Shown
    <2>2. Lowered(Width + n - s) = Width + n - s - 1
        BY <1>1, <1>3 DEF Lowered
    <2>3. n > 0 => Shown(n - 1, s) = Width + n - s - 1
        BY <1>1, <1>3 DEF Shown
    <2>4. CASE n + 1 = s
        <3>1. Raised(Width + n - s) = 0 /\ Shown(n + 1, s) = 0
            BY <1>1, <2>4 DEF Raised, Shown
        <3> QED
            BY <1>1, <1>3, <2>1, <2>2, <2>3, <3>1
    <2>5. CASE n + 1 # s
        <3>1. Raised(Width + n - s) = Width + n - s + 1 /\ Shown(n + 1, s) = Width + n - s + 1
            BY <1>1, <1>3, <2>5 DEF Raised, Shown
        <3> QED
            BY <1>1, <1>3, <2>1, <2>2, <2>3, <3>1
    <2> QED
        BY <2>4, <2>5
<1> QED
    BY <1>2, <1>3

LEMMA FetchTyped ==
    ASSUME NEW n \in 0..(Width - 1)
    PROVE  Raised(n) \in 0..(Width - 1) /\ Lowered(n) \in 0..(Width - 1)
<1>1. Width \in Nat
    BY AdmissionAssumption
<1> QED
    BY <1>1 DEF Raised, Lowered

-----------------------------------------------------------------------------
(* What most steps leave alone.                                            *)
Still == Counted' = Counted /\ active' = active /\ strays' = strays

(* The steps that change no session, no call and no counter of calls: the  *)
(* ones of the gate.                                                       *)
Inside(t) ==
    ReadReset(t) \/ Exchange(t) \/ StoreZero(t) \/ ReadRate(t) \/ ScanShard(t)
        \/ EndScan(t) \/ Abandon(t)

LEMMA InsideStep ==
    ASSUME Shape, NEW t \in Threads, Inside(t)
    PROVE  Shape' /\ Still
<1> USE AdmissionAssumption DEF Shape, Go, Leave, Read, counters
<1>1. Cardinality({c \in sessions \cap OnTrunk : ShardOf[c] = read[t][2]}) \in Nat
    <2>1. {c \in sessions \cap OnTrunk : ShardOf[c] = read[t][2]} \subseteq Calls
        BY DEF TypeOK
    <2> QED
        BY <2>1, CallsFinite
<1>2. TypeOK'
    <2>1. CASE ReadReset(t)
        BY <2>1 DEF TypeOK, Points, ReadReset
    <2>2. CASE Exchange(t)
        <3>1. lastReset' \in Nat /\ pc' \in [Threads -> Points]
            BY <2>2 DEF TypeOK, Points, Exchange, Exchanged
        <3>2. UNCHANGED <<service, now, active, rate, sessions, second, strays, call, read>>
            BY <2>2 DEF Exchange
        <3> QED
            BY <3>1, <3>2 DEF TypeOK
    <2>3. CASE StoreZero(t)
        BY <2>3 DEF TypeOK, Points, StoreZero
    <2>4. CASE ReadRate(t)
        <3>1. pc' \in [Threads -> Points] /\ call' \in [Threads -> Calls \cup {None}]
            BY <2>4 DEF TypeOK, Points, ReadRate
        <3>2. read' \in [Threads -> Nat \X Nat]
            BY <2>4 DEF TypeOK, ReadRate
        <3>3. UNCHANGED <<service, now, active, rate, lastReset, sessions, second, strays>>
            BY <2>4 DEF ReadRate
        <3> QED
            BY <3>1, <3>2, <3>3 DEF TypeOK
    <2>5. CASE ScanShard(t)
        BY <2>5, <1>1 DEF TypeOK, Points, ScanShard
    <2>6. CASE EndScan(t)
        BY <2>6 DEF TypeOK, Points, EndScan
    <2>7. CASE Abandon(t)
        BY <2>7 DEF TypeOK, Points, Abandon
    <2> QED
        BY <2>1, <2>2, <2>3, <2>4, <2>5, <2>6, <2>7 DEF Inside
<1>3. /\ pc[t] \in {"reset", "exchange", "zero", "rate", "scan", "register"}
      /\ pc' = [pc EXCEPT ![t] = pc'[t]]
      /\ \/ /\ pc'[t] \in {"exchange", "zero", "rate", "scan", "register", "count"}
            /\ call' = call
         \/ pc'[t] = "idle" /\ call' = [call EXCEPT ![t] = None]
      /\ pc'[t] = "count" => service = "trunk"
      /\ pc'[t] \in {"scan", "register"} => service = "control"
      /\ UNCHANGED <<service, sessions, active, strays>>
    <2>1. CASE ReadReset(t)
        BY <2>1 DEF TypeOK, ReadReset
    <2>2. CASE Exchange(t)
        BY <2>2 DEF TypeOK, Exchange, Exchanged
    <2>3. CASE StoreZero(t)
        BY <2>3 DEF TypeOK, StoreZero
    <2>4. CASE ReadRate(t)
        BY <2>4 DEF TypeOK, ReadRate
    <2>5. CASE ScanShard(t)
        BY <2>5 DEF TypeOK, ScanShard, ControlOnly
    <2>6. CASE EndScan(t)
        BY <2>6 DEF TypeOK, EndScan, ControlOnly
    <2>7. CASE Abandon(t)
        BY <2>7 DEF TypeOK, Abandon
    <2> QED
        BY <2>1, <2>2, <2>3, <2>4, <2>5, <2>6, <2>7 DEF Inside
<1>4. CallsApart'
    <2>1. CASE call' = call
        BY <1>3, <2>1 DEF CallsApart, TypeOK
    <2>2. CASE pc'[t] = "idle" /\ call' = [call EXCEPT ![t] = None]
        BY <1>3, <2>2 DEF CallsApart, TypeOK
    <2> QED
        BY <1>3, <2>1, <2>2
<1>5. SessionsOK'
    BY <1>3 DEF SessionsOK, TypeOK
<1>6. ControlOnly'
    BY <1>3 DEF ControlOnly, TypeOK
<1>7. Counted' = Counted
    BY <1>3 DEF Counted, TypeOK, SessionsOK
<1>8. Straying' = Straying
    BY <1>3 DEF Straying, TypeOK, CallsApart
<1>9. StraysOK'
    BY <1>3, <1>8 DEF StraysOK
<1> QED
    BY <1>2, <1>3, <1>4, <1>5, <1>6, <1>7, <1>9 DEF Still

LEMMA AskStep ==
    ASSUME Shape, NEW t \in Threads, NEW c \in Calls, Ask(t, c)
    PROVE  Shape' /\ Still
<1> USE AdmissionAssumption DEF Shape, Go, counters, Ask
<1>1. TypeOK'
    BY DEF TypeOK, Points
<1>2. CallsApart' /\ SessionsOK' /\ ControlOnly'
    BY DEF CallsApart, SessionsOK, ControlOnly, TypeOK
<1>3. Counted' = Counted
    BY DEF Counted, TypeOK
<1>4. Straying' = Straying
    BY DEF Straying, TypeOK
<1>5. StraysOK'
    BY <1>4 DEF StraysOK
<1> QED
    BY <1>1, <1>2, <1>3, <1>5 DEF Still

LEMMA StoreStep ==
    ASSUME Shape, NEW t \in Threads, StoreSession(t)
    PROVE  Shape' /\ Still
<1> USE AdmissionAssumption DEF Shape, Go, StoreSession
<1>1. TypeOK' /\ call[t] \in Calls
    BY DEF TypeOK, Points, CallsApart
<1>2. CallsApart' /\ ControlOnly'
    BY DEF CallsApart, ControlOnly, TypeOK
<1>3. SessionsOK'
    BY <1>1 DEF SessionsOK, ControlOnly, CallsApart, TypeOK
<1>4. Counted' = Counted
    BY <1>1 DEF Counted, TypeOK, SessionsOK, CallsApart
<1>5. Straying' = Straying
    BY DEF Straying, TypeOK
<1>6. StraysOK'
    BY <1>5 DEF StraysOK
<1> QED
    BY <1>1, <1>2, <1>3, <1>4, <1>6 DEF Still

(* fetch_add: one call more in the set and in the counter.                 *)
LEMMA CountStep ==
    ASSUME Shape, NEW t \in Threads, CountCall(t)
    PROVE  /\ Shape'
           /\ call[t] \notin Counted /\ Counted' = Counted \cup {call[t]}
           /\ active' = Raised(active) /\ strays' = strays
<1> USE AdmissionAssumption DEF Shape, Go, CountCall
<1>1. call[t] \in Calls
    BY DEF TypeOK, CallsApart
<1>2. TypeOK'
    <2>1. active' \in 0..(Width - 1)
        BY FetchTyped DEF TypeOK
    <2> QED
        BY <2>1 DEF TypeOK, Points
<1>3. CallsApart' /\ ControlOnly' /\ SessionsOK'
    BY <1>1 DEF CallsApart, ControlOnly, SessionsOK, TypeOK
<1>4. call[t] \notin Counted
    BY <1>1 DEF Counted, CallsApart, TypeOK
<1>5. Counted' = Counted \cup {call[t]}
    BY <1>1 DEF Counted, CallsApart, SessionsOK, TypeOK
<1>6. Straying' = Straying
    BY DEF Straying, TypeOK
<1>7. StraysOK'
    BY <1>6 DEF StraysOK
<1> QED
    BY <1>2, <1>3, <1>4, <1>5, <1>7

LEMMA CountRateStep ==
    ASSUME Shape, NEW t \in Threads, CountRate(t)
    PROVE  Shape' /\ Still
<1> USE AdmissionAssumption DEF Shape, Go, Leave, Read, CountRate
<1>1. TypeOK' /\ call[t] \in Calls
    BY DEF TypeOK, Points, CallsApart
<1>2. CallsApart' /\ ControlOnly'
    BY DEF CallsApart, ControlOnly, TypeOK
<1>3. SessionsOK'
    BY <1>1 DEF CallsApart, SessionsOK, TypeOK
<1>4. Counted' = Counted
    BY <1>1 DEF Counted, CallsApart, TypeOK
<1>5. Straying' = Straying
    BY DEF Straying, TypeOK
<1>6. StraysOK'
    BY <1>5 DEF StraysOK
<1> QED
    BY <1>1, <1>2, <1>3, <1>4, <1>6 DEF Still

LEMMA EndStep ==
    ASSUME Shape, NEW t \in Threads, NEW c \in Calls, End(t, c)
    PROVE  Shape' /\ Still
<1> USE AdmissionAssumption DEF Shape, Go, End
<1>1. TypeOK'
    BY DEF TypeOK, Points
<1>2. CallsApart' /\ ControlOnly' /\ SessionsOK'
    BY DEF CallsApart, SessionsOK, ControlOnly, TypeOK
<1>3. Counted' = Counted
    BY DEF Counted, CallsApart, TypeOK
<1>4. Straying' = Straying
    BY DEF Straying, TypeOK
<1>5. StraysOK'
    BY <1>4 DEF StraysOK
<1> QED
    BY <1>1, <1>2, <1>3, <1>5 DEF Still

(* A stray end: the bound keeps a place for its decrement.                 *)
LEMMA StrayEndStep ==
    ASSUME Shape, NEW t \in Threads, StrayEnd(t)
    PROVE  Shape' /\ Still
<1> USE AdmissionAssumption DEF Shape, Go, StrayEnd, counters
<1>1. TypeOK' /\ call[t] = None
    BY DEF TypeOK, Points, CallsApart
<1>2. CallsApart' /\ ControlOnly' /\ SessionsOK'
    BY <1>1 DEF CallsApart, SessionsOK, ControlOnly, TypeOK
<1>3. Counted' = Counted
    BY <1>1 DEF Counted, CallsApart, TypeOK
<1>4. t \notin Straying /\ Straying' = Straying \cup {t}
    BY <1>1 DEF Straying, TypeOK
<1>5. Cardinality(Straying') = Cardinality(Straying) + 1
    BY <1>4, StrayingFinite, FS_AddElement
<1>6. StraysOK'
    BY <1>5, StrayingFinite DEF StraysOK, Unchecked, TypeOK
<1> QED
    BY <1>1, <1>2, <1>3, <1>6 DEF Still

(* fetch_sub: one call less in the set and in the counter, or one stray    *)
(* end more.                                                               *)
LEMMA UncountStep ==
    ASSUME Shape, NEW t \in Threads, UncountCall(t)
    PROVE  /\ Shape' /\ active' = Lowered(active)
           /\ \/ call[t] \in Counted /\ Counted' = Counted \ {call[t]} /\ strays' = strays
              \/ Counted' = Counted /\ strays' = strays + 1
<1> USE AdmissionAssumption DEF Shape, Go, Leave, Read, UncountCall
<1>1. call[t] \in Calls \cup {None} /\ call[t] \notin sessions
    BY DEF TypeOK, SessionsOK
<1>2. active' \in 0..(Width - 1)
    BY FetchTyped DEF TypeOK
<1>3. CallsApart' /\ ControlOnly' /\ SessionsOK'
    BY <1>1 DEF CallsApart, ControlOnly, SessionsOK, TypeOK
<1>4. CASE call[t] # None
    <2>1. call[t] \in Counted
        BY <1>4 DEF Counted
    <2>2. Counted' = Counted \ {call[t]}
        BY <1>1, <1>4 DEF Counted, CallsApart, TypeOK
    <2>3. Straying' = Straying
        BY <1>4 DEF Straying, TypeOK
    <2>4. StraysOK' /\ TypeOK'
        <3>1. StraysOK'
            BY <1>4, <2>3 DEF StraysOK
        <3>2. strays' = strays
            BY <1>4
        <3>3. TypeOK'
            BY <1>2, <3>2 DEF TypeOK, Points
        <3> QED
            BY <3>1, <3>3
    <2> QED
        BY <1>3, <1>4, <2>1, <2>2, <2>4
<1>5. CASE call[t] = None
    <2>1. Counted' = Counted
        BY <1>5 DEF Counted, CallsApart, TypeOK
    <2>2. t \in Straying /\ Straying' = Straying \ {t}
        BY <1>5 DEF Straying, TypeOK
    <2>3. Cardinality(Straying') = Cardinality(Straying) - 1
        BY <2>2, StrayingFinite, FS_RemoveElement
    <2>4. /\ strays \in Nat /\ strays' = strays + 1
          /\ strays + Cardinality(Straying) <= MaxStrays
        BY <1>5 DEF TypeOK, StraysOK
    <2>5. Cardinality(Straying') \in Nat
        <3>1. IsFiniteSet(Straying \ {t})
            BY StrayingFinite, FS_RemoveElement
        <3> QED
            BY <2>2, <3>1, FS_CardinalityType
    <2>6. strays' \in 0..MaxStrays /\ strays' + Cardinality(Straying') <= MaxStrays
        <3> DEFINE k == Cardinality(Straying)
                   l == Cardinality(Straying')
        <3>1. k \in Nat /\ l \in Nat /\ l = k - 1 /\ MaxStrays \in Nat
            BY <2>3, <2>5, StrayingFinite
        <3> HIDE DEF k, l
        <3>2. strays \in Nat /\ strays' = strays + 1 /\ strays + k <= MaxStrays
            BY <2>4 DEF k
        <3>3. strays' \in Nat /\ strays' + l <= MaxStrays
            BY <3>1, <3>2
        <3> QED
            BY <3>1, <3>3 DEF l
    <2>7. service' # "control"
        BY <2>2 DEF StraysOK
    <2>8. StraysOK'
        BY <2>6, <2>7 DEF StraysOK
    <2>9. TypeOK'
        BY <1>2, <2>6 DEF TypeOK, Points
    <2> QED
        BY <1>3, <1>5, <2>1, <2>8, <2>9
<1> QED
    BY <1>4, <1>5

LEMMA TickStep ==
    ASSUME Shape, Tick
    PROVE  Shape' /\ Still
<1> USE DEF Shape, Tick
<1>1. TypeOK' /\ CallsApart' /\ SessionsOK' /\ ControlOnly' /\ Counted' = Counted
    BY DEF TypeOK, CallsApart, SessionsOK, ControlOnly, Counted
<1>2. StraysOK'
    BY DEF StraysOK, Straying
<1> QED
    BY <1>1, <1>2 DEF Still

LEMMA StutterStep ==
    ASSUME Shape, UNCHANGED vars
    PROVE  Shape' /\ Still
<1> USE DEF Shape, vars
<1>1. TypeOK' /\ CallsApart' /\ SessionsOK' /\ ControlOnly' /\ Counted' = Counted
    BY DEF TypeOK, CallsApart, SessionsOK, ControlOnly, Counted
<1>2. StraysOK'
    BY DEF StraysOK, Straying
<1> QED
    BY <1>1, <1>2 DEF Still

-----------------------------------------------------------------------------
(* Every step leaves the counted calls and the counter alone, adds one to  *)
(* both, takes one from both, or takes one from the counter for a stray    *)
(* end.                                                                    *)
LEMMA NextShape ==
    ASSUME Shape, [Next]_vars
    PROVE  /\ Shape'
           /\ \/ Still
              \/ \E c : /\ c \notin Counted /\ Counted' = Counted \cup {c}
                        /\ active' = Raised(active) /\ strays' = strays
              \/ \E c : /\ c \in Counted /\ Counted' = Counted \ {c}
                        /\ active' = Lowered(active) /\ strays' = strays
              \/ Counted' = Counted /\ active' = Lowered(active) /\ strays' = strays + 1
<1>1. CASE Tick
    BY <1>1, TickStep
<1>2. CASE UNCHANGED vars
    BY <1>2, StutterStep
<1>3. ASSUME NEW t \in Threads, Inside(t)
      PROVE  Shape' /\ Still
    BY <1>3, InsideStep
<1>4. ASSUME NEW t \in Threads, NEW c \in Calls, Ask(t, c) \/ End(t, c)
      PROVE  Shape' /\ Still
    BY <1>4, AskStep, EndStep
<1>5. ASSUME NEW t \in Threads, StoreSession(t) \/ CountRate(t) \/ StrayEnd(t)
      PROVE  Shape' /\ Still
    BY <1>5, StoreStep, CountRateStep, StrayEndStep
<1>6. ASSUME NEW t \in Threads, CountCall(t)
      PROVE  Shape' /\ \E c : /\ c \notin Counted /\ Counted' = Counted \cup {c}
                              /\ active' = Raised(active) /\ strays' = strays
    BY <1>6, CountStep
<1>7. ASSUME NEW t \in Threads, UncountCall(t)
      PROVE  /\ Shape'
             /\ \/ \E c : /\ c \in Counted /\ Counted' = Counted \ {c}
                          /\ active' = Lowered(active) /\ strays' = strays
                \/ Counted' = Counted /\ active' = Lowered(active) /\ strays' = strays + 1
    BY <1>7, UncountStep
<1> QED
    BY <1>1, <1>2, <1>3, <1>4, <1>5, <1>6, <1>7 DEF Next, Inside

LEMMA NextKeepsInv == AdmissionInv /\ [Next]_vars => AdmissionInv'
<1> SUFFICES ASSUME AdmissionInv, [Next]_vars PROVE AdmissionInv'
    OBVIOUS
<1>1. Shape /\ Shape'
    BY NextShape DEF AdmissionInv
<1>2. /\ IsFiniteSet(Counted) /\ Cardinality(Counted) \in Nat /\ strays \in Nat
      /\ Cardinality(Counted) + strays < Width
      /\ active = Shown(Cardinality(Counted), strays)
    BY <1>1, CountedFinite DEF AdmissionInv, Shape, CountersAgree, Shown
<1>3. active' = Shown(Cardinality(Counted'), strays')
    <2>1. CASE Still
        BY <1>2, <2>1 DEF Still
    <2>2. ASSUME NEW c, c \notin Counted, Counted' = Counted \cup {c},
                 active' = Raised(active), strays' = strays
          PROVE  active' = Shown(Cardinality(Counted'), strays')
        <3>1. Cardinality(Counted') = Cardinality(Counted) + 1
            BY <1>2, <2>2, FS_AddElement
        <3>2. Counted' \subseteq Calls /\ strays' \in 0..MaxStrays
            BY <1>1 DEF Shape, Counted, TypeOK
        <3>3. Cardinality(Counted') + strays' < Width
            BY <3>2, FewEnough
        <3>4. Cardinality(Counted) + 1 + strays < Width
            BY <2>2, <3>1, <3>3
        <3> QED
            BY <1>2, <2>2, <3>1, <3>4, ShownMoves
    <2>3. ASSUME NEW c, c \in Counted, Counted' = Counted \ {c},
                 active' = Lowered(active), strays' = strays
          PROVE  active' = Shown(Cardinality(Counted'), strays')
        <3>1. Cardinality(Counted') = Cardinality(Counted) - 1 /\ Cardinality(Counted') \in Nat
            BY <1>2, <2>3, FS_RemoveElement, FS_CardinalityType
        <3>2. Cardinality(Counted) > 0
            BY <1>2, <3>1
        <3> QED
            BY <1>2, <2>3, <3>1, <3>2, ShownMoves
    <2>4. CASE Counted' = Counted /\ active' = Lowered(active) /\ strays' = strays + 1
        BY <1>2, <2>4, ShownMoves
    <2> QED
        BY <1>1, <2>1, <2>2, <2>3, <2>4, NextShape
<1>4. CountersAgree'
    BY <1>1, <1>3 DEF CountersAgree, Shown, Shape, StraysOK
<1> QED
    BY <1>1, <1>4 DEF AdmissionInv

LEMMA AdmissionInvariant == Spec => []AdmissionInv
    BY InitShape, NextKeepsInv, PTL DEF Spec

(* The variables keep their types: the counter wraps around (the fetch_sub *)
(* of end_call, call_control.rs, line 267; termination_routing.rs, 463).   *)
THEOREM AdmissionTypeCorrect == Spec => []TypeOK
<1>1. AdmissionInv => TypeOK
    BY DEF AdmissionInv, Shape
<1> QED
    BY <1>1, AdmissionInvariant, PTL

(* The counter is, modulo its width, the number of the calls registered    *)
(* and not ended, but for the calls threads are working on and less one    *)
(* for each end that was reported too often; and those only the trunk's    *)
(* service lets through (termination_routing.rs, lines 460-465).           *)
THEOREM CountersAlwaysAgree == Spec => []CountersAgree
<1>1. AdmissionInv => CountersAgree
    BY DEF AdmissionInv
<1> QED
    BY <1>1, AdmissionInvariant, PTL

-----------------------------------------------------------------------------
GrantedSet == {t \in Threads : Granted(t)}

(* A step is one of CallQuota's, or leaves its variables alone.            *)
LEMMA StepImplements ==
    AdmissionInv /\ [Next]_vars => [Quota!QuotaNext]_Quota!quotaVars
<1> SUFFICES ASSUME AdmissionInv, [Next]_vars
             PROVE  [Quota!QuotaNext]_Quota!quotaVars
    OBVIOUS
<1> USE DEF Quota!quotaVars, Quota!QuotaNext, Go, Leave, Read, counters
<1>0. TypeOK /\ Shape /\ CountersAgree
    BY DEF AdmissionInv, Shape
<1>1. CASE Tick \/ UNCHANGED vars
    <2>1. Still
        BY <1>0, <1>1, TickStep, StutterStep
    <2> QED
        BY <1>1, <2>1 DEF Tick, vars, Granted, Still
<1>2. ASSUME NEW t \in Threads, NEW c \in Calls, Ask(t, c)
      PROVE  Quota!Grant(t)
    <2>1. Still
        BY <1>0, <1>2, AskStep
    <2>2. Cardinality(Counted) < Max + strays
        <3>1. active < Max /\ Max \in Nat /\ Cardinality(Counted) \in Nat /\ strays \in Nat
            BY <1>0, <1>2, CountedFinite, AdmissionAssumption DEF Ask, BelowLimit
        <3> QED
            BY <1>0, <3>1 DEF CountersAgree
    <2> QED
        BY <1>0, <1>2, <2>1, <2>2 DEF Ask, Granted, Quota!Grant, TypeOK, Still
<1>3. ASSUME NEW t \in Threads, CountCall(t)
      PROVE  Quota!Count(t)
    <2>1. Cardinality(Counted') = Cardinality(Counted) + 1 /\ strays' = strays
        BY <1>0, <1>3, CountStep, CountedFinite, FS_AddElement
    <2> QED
        BY <1>0, <1>3, <2>1 DEF CountCall, Granted, Quota!Count, TypeOK
<1>4. ASSUME NEW t \in Threads, UncountCall(t)
      PROVE  Quota!Uncount \/ Quota!Miscount
    <2>1. GrantedSet' = GrantedSet
        BY <1>0, <1>4 DEF UncountCall, Granted, GrantedSet, TypeOK
    <2>2. CASE call[t] \in Counted /\ Counted' = Counted \ {call[t]} /\ strays' = strays
        <3>1. /\ IsFiniteSet(Counted') /\ Cardinality(Counted') = Cardinality(Counted) - 1
            BY <1>0, <2>2, CountedFinite, FS_RemoveElement
        <3>2. Cardinality(Counted') \in Nat
            BY <3>1, FS_CardinalityType
        <3>3. Cardinality(Counted) > 0
            BY <1>0, <3>1, <3>2, CountedFinite
        <3> QED
            BY <2>1, <2>2, <3>1, <3>3 DEF Quota!Uncount, GrantedSet
    <2>3. CASE Counted' = Counted /\ strays' = strays + 1
        BY <2>1, <2>3 DEF Quota!Miscount, GrantedSet
    <2> QED
        BY <1>0, <1>4, <2>2, <2>3, UncountStep
<1>5. ASSUME NEW t \in Threads, StrayEnd(t) \/ \E c \in Calls : End(t, c)
      PROVE  UNCHANGED Quota!quotaVars
    <2>1. Still
        BY <1>0, <1>5, EndStep, StrayEndStep
    <2> QED
        BY <1>0, <1>5, <2>1 DEF End, StrayEnd, Granted, TypeOK, Still
<1>6. ASSUME NEW t \in Threads,
             ReadReset(t) \/ Exchange(t) \/ StoreZero(t) \/ ScanShard(t) \/ StoreSession(t)
                \/ CountRate(t)
      PROVE  UNCHANGED Quota!quotaVars
    <2>1. Still
        BY <1>0, <1>6, InsideStep, StoreStep, CountRateStep DEF Inside
    <2>2. GrantedSet' = GrantedSet
        BY <1>0, <1>6 DEF ReadReset, Exchange, Exchanged, StoreZero, ScanShard, StoreSession,
                          CountRate, Granted, GrantedSet, TypeOK
    <2> QED
        BY <2>1, <2>2 DEF Still, GrantedSet
<1>7. ASSUME NEW t \in Threads, ReadRate(t) \/ EndScan(t) \/ Abandon(t)
      PROVE  Quota!Withdraw(t) \/ UNCHANGED Quota!quotaVars
    <2>1. Still
        BY <1>0, <1>7, InsideStep DEF Inside
    <2>2. t \in GrantedSet /\ (GrantedSet' = GrantedSet \/ GrantedSet' = GrantedSet \ {t})
        BY <1>0, <1>7 DEF ReadRate, EndScan, Abandon, Granted, GrantedSet, TypeOK
    <2> QED
        BY <2>1, <2>2 DEF Still, GrantedSet, Quota!Withdraw
<1> QED
    BY <1>1, <1>2, <1>3, <1>4, <1>5, <1>6, <1>7 DEF Next

(* The gate and the counters implement the promise of CallQuota.           *)
THEOREM AdmissionImplementsQuota == Spec => QuotaImplemented
<1>1. Init => Quota!QuotaInit
    <2> SUFFICES ASSUME Init PROVE Quota!QuotaInit
        OBVIOUS
    <2>1. Counted = {}
        BY DEF Init, Counted
    <2> QED
        BY <2>1, FS_EmptySet DEF Init, Granted, Quota!QuotaInit
<1> QED
    BY <1>1, StepImplements, AdmissionInvariant, PTL DEF Spec, QuotaImplemented, Quota!QuotaSpec

(* What CallQuota promises: the limit is exceeded by fewer calls than      *)
(* there are threads and miscounts.                                        *)
LEMMA QuotaInitKept ==
    Quota!QuotaInit => Quota!QuotaTypeOK /\ QuotaKept
<1> SUFFICES ASSUME Quota!QuotaInit PROVE Quota!QuotaTypeOK /\ QuotaKept
    OBVIOUS
<1>1. Cardinality({}) = 0 /\ IsFiniteSet(Threads) /\ Cardinality(Threads) \in Nat
    BY AdmissionAssumption, FS_EmptySet, FS_CardinalityType
<1>2. Cardinality(Threads) # 0
    BY AdmissionAssumption, FS_EmptySet
<1>3. Cardinality({t \in Threads : Granted(t)}) = 0
    BY <1>1 DEF Quota!QuotaInit
<1>4. /\ Cardinality(Counted) = 0 /\ strays = 0 /\ Max \in Nat
      /\ {t \in Threads : Granted(t)} \subseteq Threads
    BY AdmissionAssumption DEF Quota!QuotaInit
<1>5. QuotaKept
    BY <1>1, <1>2, <1>3, <1>4 DEF QuotaKept
<1>6. Quota!QuotaTypeOK
    BY <1>4 DEF Quota!QuotaTypeOK
<1> QED
    BY <1>5, <1>6

LEMMA QuotaStepKept ==
    Quota!QuotaTypeOK /\ QuotaKept /\ [Quota!QuotaNext]_Quota!quotaVars
        => (Quota!QuotaTypeOK /\ QuotaKept)'
<1> SUFFICES ASSUME Quota!QuotaTypeOK, QuotaKept, [Quota!QuotaNext]_Quota!quotaVars
             PROVE  (Quota!QuotaTypeOK /\ QuotaKept)'
    OBVIOUS
<1> DEFINE G == GrantedSet
           n == Cardinality(Counted)
           m == Cardinality(Counted')
           size == Cardinality(Threads)
<1> USE DEF Quota!QuotaTypeOK, QuotaKept, Quota!quotaVars
<1>0. /\ IsFiniteSet(Threads) /\ size \in Nat /\ Max \in Nat
      /\ G \subseteq Threads /\ IsFiniteSet(G) /\ Cardinality(G) \in Nat
      /\ G' \subseteq Threads /\ IsFiniteSet(G') /\ Cardinality(G') \in Nat
      /\ Cardinality(G') <= size
    <2>1. G \subseteq Threads /\ G' \subseteq Threads
        BY DEF GrantedSet
    <2> QED
        BY <2>1, AdmissionAssumption, FS_Subset, FS_CardinalityType
<1>1. n \in Nat /\ strays \in Nat /\ n + Cardinality(G) <= Max - 1 + size + strays
    BY DEF GrantedSet
<1> SUFFICES m \in Nat /\ strays' \in Nat /\ m + Cardinality(G') <= Max - 1 + size + strays'
    BY DEF GrantedSet
<1>2. CASE \E t \in Threads : Quota!Grant(t)
    <2>1. n < Max + strays /\ m = n /\ strays' = strays
        BY <1>2 DEF Quota!Grant
    <2> HIDE DEF n, m, G, size
    <2> QED
        BY <1>0, <1>1, <2>1
<1>3. CASE \E t \in Threads : Quota!Count(t) \/ Quota!Withdraw(t)
    <2>1. PICK t \in G : G' = G \ {t} /\ m \in {n, n + 1} /\ strays' = strays
        BY <1>3 DEF Quota!Count, Quota!Withdraw, GrantedSet
    <2> HIDE DEF n, m, G, size
    <2>2. Cardinality(G') = Cardinality(G) - 1
        BY <1>0, <2>1, FS_RemoveElement
    <2> QED
        BY <1>0, <1>1, <2>1, <2>2
<1>4. CASE Quota!Uncount \/ Quota!Miscount \/ UNCHANGED Quota!quotaVars
    <2>1. G' = G /\ \/ n > 0 /\ m = n - 1 /\ strays' = strays
                    \/ m = n /\ strays' \in {strays, strays + 1}
        BY <1>4 DEF Quota!Uncount, Quota!Miscount, GrantedSet
    <2> HIDE DEF n, m, G, size
    <2> QED
        BY <1>0, <1>1, <2>1
<1> QED
    BY <1>2, <1>3, <1>4 DEF Quota!QuotaNext

(* However the threads interleave between their check and their increment, *)
(* the limit is exceeded by at most one call for every other thread, and   *)
(* one for every end reported too often.                                   *)
THEOREM QuotaIsKept == Spec => []QuotaKept
<1>1. QuotaImplemented => []QuotaKept
    BY QuotaInitKept, QuotaStepKept, PTL DEF QuotaImplemented, Quota!QuotaSpec
<1> QED
    BY <1>1, AdmissionImplementsQuota, PTL
-----------------------------------------------------------------------------
(* The calls up on the trunk.  For the bound on their number each is given *)
(* a past that no variable keeps: the calls that were up when it was       *)
(* stored and are still up, itself included, and the thread that stored it.*)
Up == sessions \cap OnTrunk

(* The pasts are nested, as the calls were stored one after the other.     *)
Nested(older) ==
    \A x, y \in Up :
        /\ x \in older[x] /\ older[x] \subseteq Up
        /\ x \in older[y] \/ y \in older[x]
        /\ x \in older[y] => older[x] \subseteq older[y]

(* Of two calls stored by one thread the older one was seen, with its      *)
(* past, by the scan for the later one.                                    *)
SeenLater(older, by) ==
    \A x, y \in Up :
        x # y /\ by[x] = by[y] /\ x \in older[y] => Cardinality(older[x]) < TrunkMax

Scanned(t, past) == {y \in past : ShardOf[y] < read[t][2]}

(* A scan has found what was up before it began, is still up and is in the *)
(* shards it has read; what came or went meanwhile it may have missed.     *)
FoundOK(older, by) ==
    \A t \in Threads : pc[t] = "scan" =>
        \A x \in Up : by[x] = t => Cardinality(Scanned(t, older[x])) <= read[t][1]

(* So a thread that was let through has itself stored only calls with a    *)
(* small past.                                                             *)
PassedOK(older, by) ==
    \A t \in Threads : pc[t] = "register" /\ call[t] \in OnTrunk =>
        TrunkMax > 0 /\ \A x \in Up : by[x] = t => Cardinality(older[x]) < TrunkMax

History(older, by) ==
    /\ Up # {} => TrunkMax > 0
    /\ Nested(older)
    /\ SeenLater(older, by)
    /\ FoundOK(older, by)
    /\ PassedOK(older, by)

TrunkInv ==
    service = "control" =>
        \E older \in [Calls -> SUBSET Calls], by \in [Calls -> Threads] : History(older, by)

LEMMA SmallerPast ==
    ASSUME NEW S, NEW T, T \subseteq Calls, S \subseteq T
    PROVE  Cardinality(S) \in Nat /\ Cardinality(T) \in Nat /\ Cardinality(S) <= Cardinality(T)
BY CallsFinite, FS_Subset

LEMMA InitTrunk == Init => TrunkInv
<1> SUFFICES ASSUME Init PROVE TrunkInv
    OBVIOUS
<1>1. Up = {}
    BY DEF Init, Up
<1>2. PICK t \in Threads : TRUE
    BY AdmissionAssumption
<1>3. \E older \in [Calls -> SUBSET Calls] : TRUE
    <2>1. [c \in Calls |-> {}] \in [Calls -> SUBSET Calls]
        OBVIOUS
    <2> QED
        BY <2>1
<1>4. \E by \in [Calls -> Threads] : TRUE
    <2>1. [c \in Calls |-> t] \in [Calls -> Threads]
        OBVIOUS
    <2> QED
        BY <2>1
<1>5. ASSUME NEW older, NEW by PROVE History(older, by)
    BY <1>1 DEF History, Nested, SeenLater, FoundOK, PassedOK, Init
<1> QED
    BY <1>3, <1>4, <1>5 DEF TrunkInv

-----------------------------------------------------------------------------
(* The steps that leave the calls up on the trunk alone.                   *)
LEMMA SameUp ==
    ASSUME NEW older, NEW by, History(older, by),
           Up' = Up, FoundOK(older, by)', PassedOK(older, by)'
    PROVE  History(older, by)'
BY DEF History, Nested, SeenLater

(* So do, for FoundOK and PassedOK, the steps of threads that neither are  *)
(* at a scan or a registration after the step nor change what the others   *)
(* are at.                                                                 *)
LEMMA OutsideStep ==
    ASSUME NEW older, NEW by, History(older, by), Up' = Up,
           \A t \in Threads :
               pc'[t] \in {"scan", "register"} =>
                   pc'[t] = pc[t] /\ call'[t] = call[t] /\ read'[t] = read[t]
    PROVE  History(older, by)'
<1>1. FoundOK(older, by)'
    BY DEF History, FoundOK, Scanned
<1>2. PassedOK(older, by)'
    BY DEF History, PassedOK
<1> QED
    BY <1>1, <1>2, SameUp

(* A scan begins with nothing found and no shard read; a call that names   *)
(* no limited trunk goes on to its registration.                           *)
LEMMA BeginScan ==
    ASSUME Shape, NEW older \in [Calls -> SUBSET Calls], NEW by, History(older, by),
           NEW t \in Threads, ReadRate(t)
    PROVE  History(older, by)'
<1> USE AdmissionAssumption DEF Shape, Go, Leave, Read, counters
<1>0. Up' = Up /\ Up \subseteq Calls
    BY DEF ReadRate, Up, TypeOK
<1>1. FoundOK(older, by)'
    <2> SUFFICES ASSUME NEW u \in Threads, pc'[u] = "scan", NEW x \in Up, by[x] = u
                 PROVE  Cardinality({y \in older[x] : ShardOf[y] < read'[u][2]}) <= read'[u][1]
        BY <1>0 DEF FoundOK, Scanned
    <2>1. CASE u = t
        <3>1. read'[u] = <<0, 1>>
            BY <2>1 DEF ReadRate, TypeOK
        <3>2. older[x] \subseteq Calls
            BY <1>0
        <3>3. {y \in older[x] : ShardOf[y] < 1} = {}
            BY <3>2
        <3> QED
            BY <3>1, <3>3, FS_EmptySet
    <2>2. CASE u # t
        <3>1. pc[u] = "scan" /\ read'[u] = read[u]
            BY <2>2 DEF ReadRate, TypeOK
        <3> QED
            BY <3>1 DEF History, FoundOK, Scanned
    <2> QED
        BY <2>1, <2>2
<1>2. PassedOK(older, by)'
    <2> SUFFICES ASSUME NEW u \in Threads, pc'[u] = "register", call'[u] \in OnTrunk
                 PROVE  pc[u] = "register" /\ call[u] = call'[u]
        BY <1>0 DEF History, PassedOK
    <2> QED
        BY DEF ReadRate, TypeOK, CallsApart
<1> QED
    BY <1>0, <1>1, <1>2, SameUp

(* A shard is read: of the calls of a past in it, all are found.           *)
LEMMA ReadShard ==
    ASSUME Shape, NEW older \in [Calls -> SUBSET Calls], NEW by, History(older, by),
           NEW t \in Threads, ScanShard(t)
    PROVE  History(older, by)'
<1> USE AdmissionAssumption DEF Shape, Read, counters
<1>0. Up' = Up /\ Up \subseteq Calls
    BY DEF ScanShard, Up, TypeOK
<1>1. FoundOK(older, by)'
    <2> SUFFICES ASSUME NEW u \in Threads, pc'[u] = "scan", NEW x \in Up, by[x] = u
                 PROVE  Cardinality({y \in older[x] : ShardOf[y] < read'[u][2]}) <= read'[u][1]
        BY <1>0 DEF FoundOK, Scanned
    <2>1. CASE u = t
        <3> DEFINE s == read[t][2]
                   A == {y \in older[x] : ShardOf[y] < s}
                   B == {y \in older[x] : ShardOf[y] = s}
                   F == {c \in sessions \cap OnTrunk : ShardOf[c] = s}
        <3>1. /\ pc[t] = "scan" /\ read[t] \in Nat \X Nat /\ s \in Nat /\ read[t][1] \in Nat
              /\ read'[u][1] = read[t][1] + Cardinality(F) /\ read'[u][2] = s + 1
            BY <2>1 DEF ScanShard, TypeOK
        <3>2. older[x] \subseteq Up /\ older[x] \subseteq Calls
            BY <1>0 DEF History, Nested
        <3>3. {y \in older[x] : ShardOf[y] < s + 1} = A \cup B
            BY <3>1, <3>2
        <3>4. B \subseteq F /\ F \subseteq Calls /\ A \subseteq Calls /\ B \subseteq Calls
            BY <1>0, <3>2 DEF Up
        <3>5. Cardinality(A) <= read[t][1]
            BY <2>1, <3>1 DEF History, FoundOK, Scanned
        <3>6. Cardinality(A \cup B) <= Cardinality(A) + Cardinality(B)
            <4>1. IsFiniteSet(A) /\ IsFiniteSet(B) /\ A \cap B \subseteq Calls
                BY <3>4, CallsFinite
            <4>2. Cardinality(A \cup B) = Cardinality(A) + Cardinality(B) - Cardinality(A \cap B)
                BY <4>1, FS_Union
            <4>3. Cardinality(A) \in Nat /\ Cardinality(B) \in Nat /\ Cardinality(A \cap B) \in Nat
                BY <3>4, <4>1, CallsFinite
            <4> QED
                BY <4>2, <4>3
        <3>7. Cardinality(B) <= Cardinality(F)
            BY <3>4, SmallerPast
        <3>8. /\ Cardinality(A) \in Nat /\ Cardinality(B) \in Nat /\ Cardinality(F) \in Nat
              /\ Cardinality(A \cup B) \in Nat
            <4>1. A \cup B \subseteq Calls
                BY <3>4
            <4> QED
                BY <3>4, <4>1, CallsFinite
        <3>9. Cardinality({y \in older[x] : ShardOf[y] < read'[u][2]}) = Cardinality(A \cup B)
            BY <3>1, <3>3
        <3> HIDE DEF A, B, F, s
        <3>10. Cardinality(A \cup B) <= read[t][1] + Cardinality(F)
            BY <3>1, <3>5, <3>6, <3>7, <3>8
        <3> QED
            BY <3>1, <3>9, <3>10
    <2>2. CASE u # t
        <3>1. pc[u] = "scan" /\ read'[u] = read[u]
            BY <2>2 DEF ScanShard, TypeOK
        <3> QED
            BY <3>1 DEF History, FoundOK, Scanned
    <2> QED
        BY <2>1, <2>2
<1>2. PassedOK(older, by)'
    <2>1. UNCHANGED <<pc, call>>
        BY DEF ScanShard
    <2> QED
        BY <1>0, <2>1 DEF History, PassedOK
<1> QED
    BY <1>0, <1>1, <1>2, SameUp

(* After the last shard a past has been scanned whole: if fewer than       *)
(* TrunkMax calls were found, it is small.                                 *)
LEMMA PassScan ==
    ASSUME Shape, NEW older \in [Calls -> SUBSET Calls], NEW by, History(older, by),
           NEW t \in Threads, EndScan(t)
    PROVE  History(older, by)'
<1> USE AdmissionAssumption DEF Shape, Go, Leave, Read, counters
<1>0. Up' = Up /\ Up \subseteq Calls
    BY DEF EndScan, Up, TypeOK
<1>1. FoundOK(older, by)'
    <2> SUFFICES ASSUME NEW u \in Threads, pc'[u] = "scan"
                 PROVE  pc[u] = "scan" /\ read'[u] = read[u]
        BY <1>0 DEF History, FoundOK, Scanned
    <2> QED
        BY DEF EndScan, TypeOK
<1>2. PassedOK(older, by)'
    <2> SUFFICES ASSUME NEW u \in Threads, pc'[u] = "register", call'[u] \in OnTrunk
                 PROVE  TrunkMax > 0 /\ \A x \in Up : by[x] = u => Cardinality(older[x]) < TrunkMax
        BY <1>0 DEF PassedOK
    <2>1. CASE u = t
        <3>1. /\ pc[t] = "scan" /\ read[t][2] > Shards /\ read[t][1] < TrunkMax
              /\ read[t][1] \in Nat /\ read[t][2] \in Nat
            BY <2>1 DEF EndScan, TrunkFull, TypeOK
        <3>2. ASSUME NEW x \in Up, by[x] = t PROVE Cardinality(older[x]) < TrunkMax
            <4>1. older[x] \subseteq Calls /\ Cardinality(older[x]) \in Nat
                BY <1>0, CallsFinite
            <4>2. Scanned(t, older[x]) = older[x]
                BY <3>1, <4>1 DEF Scanned
            <4>3. Cardinality(older[x]) <= read[t][1]
                BY <3>1, <3>2, <4>2 DEF History, FoundOK
            <4> QED
                BY <3>1, <4>1, <4>3
        <3> QED
            BY <2>1, <3>1, <3>2
    <2>2. CASE u # t
        <3>1. pc[u] = "register" /\ call[u] \in OnTrunk
            BY <2>2 DEF EndScan, TypeOK
        <3> QED
            BY <3>1 DEF History, PassedOK
    <2> QED
        BY <2>1, <2>2
<1> QED
    BY <1>0, <1>1, <1>2, SameUp


(* A call is stored: everything that is up, and the call, is its past.     *)
LEMMA StoreOnTrunk ==
    ASSUME Shape, NEW older \in [Calls -> SUBSET Calls], NEW by \in [Calls -> Threads],
           History(older, by),
           NEW t \in Threads, StoreSession(t), call[t] \in OnTrunk
    PROVE  \E o \in [Calls -> SUBSET Calls], b \in [Calls -> Threads] : History(o, b)'
<1> USE AdmissionAssumption DEF Shape, Go
<1>1. PICK c \in Calls : c = call[t]
    BY DEF StoreSession, CallsApart, TypeOK
<1>2. /\ Up' = Up \cup {c} /\ c \notin Up /\ Up \subseteq Calls
      /\ pc[t] = "register" /\ pc' = [pc EXCEPT ![t] = "count"]
      /\ UNCHANGED <<call, read>>
    BY <1>1 DEF StoreSession, SessionsOK, TypeOK, Up
<1>3. PICK o \in [Calls -> SUBSET Calls] :
          o[c] = Up \cup {c} /\ \A x \in Up : o[x] = older[x]
    <2>1. [older EXCEPT ![c] = Up \cup {c}] \in [Calls -> SUBSET Calls]
        BY <1>2
    <2> QED
        BY <1>2, <2>1
<1>4. PICK b \in [Calls -> Threads] : b[c] = t /\ \A x \in Up : b[x] = by[x]
    <2>1. [by EXCEPT ![c] = t] \in [Calls -> Threads]
        OBVIOUS
    <2> QED
        BY <1>2, <2>1
<1>5. TrunkMax > 0 /\ \A x \in Up : by[x] = t => Cardinality(older[x]) < TrunkMax
    BY <1>2 DEF History, PassedOK
<1>6. Nested(o)'
    <2> SUFFICES ASSUME NEW x \in Up \cup {c}, NEW y \in Up \cup {c}
                 PROVE  /\ x \in o[x] /\ o[x] \subseteq Up \cup {c}
                        /\ x \in o[y] \/ y \in o[x]
                        /\ x \in o[y] => o[x] \subseteq o[y]
        BY <1>2 DEF Nested
    <2>1. \A z \in Up : z \in o[z] /\ o[z] \subseteq Up
        BY <1>3 DEF History, Nested
    <2>2. CASE x \in Up /\ y \in Up
        BY <1>3, <2>2 DEF History, Nested
    <2>3. CASE x = c
        BY <1>2, <1>3, <2>1, <2>3
    <2>4. CASE x \in Up /\ y = c
        BY <1>2, <1>3, <2>1, <2>4
    <2> QED
        BY <2>2, <2>3, <2>4
<1>7. SeenLater(o, b)'
    <2> SUFFICES ASSUME NEW x \in Up \cup {c}, NEW y \in Up \cup {c},
                        x # y, b[x] = b[y], x \in o[y]
                 PROVE  Cardinality(o[x]) < TrunkMax
        BY <1>2 DEF SeenLater
    <2>1. CASE y \in Up
        <3>1. x \in Up
            BY <1>2, <1>3, <2>1 DEF History, Nested
        <3> QED
            BY <1>3, <1>4, <2>1, <3>1 DEF History, SeenLater
    <2>2. CASE y = c
        BY <1>3, <1>4, <1>5, <2>2
    <2> QED
        BY <2>1, <2>2
<1>8. FoundOK(o, b)'
    <2> SUFFICES ASSUME NEW u \in Threads, pc'[u] = "scan", NEW x \in Up \cup {c}, b[x] = u
                 PROVE  Cardinality({y \in o[x] : ShardOf[y] < read[u][2]}) <= read[u][1]
        BY <1>2 DEF FoundOK, Scanned
    <2>1. u # t /\ pc[u] = "scan"
        BY <1>2 DEF TypeOK
    <2>2. x \in Up /\ o[x] = older[x] /\ by[x] = u
        BY <1>3, <1>4, <2>1
    <2> QED
        BY <2>1, <2>2 DEF History, FoundOK, Scanned
<1>9. PassedOK(o, b)'
    <2> SUFFICES ASSUME NEW u \in Threads, pc'[u] = "register", call[u] \in OnTrunk
                 PROVE  TrunkMax > 0 /\ \A x \in Up \cup {c} : b[x] = u => Cardinality(o[x]) < TrunkMax
        BY <1>2 DEF PassedOK
    <2>1. u # t /\ pc[u] = "register"
        BY <1>2 DEF TypeOK
    <2>2. ASSUME NEW x \in Up \cup {c}, b[x] = u PROVE Cardinality(o[x]) < TrunkMax
        <3>1. x \in Up /\ o[x] = older[x] /\ by[x] = u
            BY <1>3, <1>4, <2>1, <2>2
        <3> QED
            BY <2>1, <3>1 DEF History, PassedOK
    <2> QED
        BY <1>5, <2>2
<1>10. History(o, b)'
    BY <1>5, <1>6, <1>7, <1>8, <1>9 DEF History
<1> QED
    BY <1>10

(* A call ends: it is struck out of the pasts.                             *)
LEMMA EndOnTrunk ==
    ASSUME Shape, NEW older \in [Calls -> SUBSET Calls], NEW by, History(older, by),
           NEW t \in Threads, NEW c \in Calls, End(t, c)
    PROVE  \E o \in [Calls -> SUBSET Calls] : History(o, by)'
<1> USE AdmissionAssumption DEF Shape, Go
<1>1. /\ Up' = Up \ {c} /\ Up \subseteq Calls
      /\ pc' = [pc EXCEPT ![t] = "uncount"] /\ call' = [call EXCEPT ![t] = c]
      /\ UNCHANGED read
    BY DEF End, TypeOK, Up
<1>2. PICK o \in [Calls -> SUBSET Calls] : \A x \in Calls : o[x] = older[x] \ {c}
    <2>1. [x \in Calls |-> older[x] \ {c}] \in [Calls -> SUBSET Calls]
        OBVIOUS
    <2> QED
        BY <2>1
<1>3. ASSUME NEW x \in Up
      PROVE  /\ older[x] \subseteq Calls /\ o[x] = older[x] \ {c} /\ o[x] \subseteq older[x]
             /\ Cardinality(o[x]) \in Nat /\ Cardinality(older[x]) \in Nat
             /\ Cardinality(o[x]) <= Cardinality(older[x])
    <2>1. older[x] \subseteq Calls /\ o[x] = older[x] \ {c}
        BY <1>1, <1>2
    <2> QED
        BY <2>1, SmallerPast
<1>4. Nested(o)'
    <2> SUFFICES ASSUME NEW x \in Up \ {c}, NEW y \in Up \ {c}
                 PROVE  /\ x \in o[x] /\ o[x] \subseteq Up \ {c}
                        /\ x \in o[y] \/ y \in o[x]
                        /\ x \in o[y] => o[x] \subseteq o[y]
        BY <1>1 DEF Nested
    <2>1. o[x] = older[x] \ {c} /\ o[y] = older[y] \ {c}
        BY <1>3
    <2>2. /\ x \in older[x] /\ older[x] \subseteq Up
          /\ x \in older[y] \/ y \in older[x]
          /\ x \in older[y] => older[x] \subseteq older[y]
        BY DEF History, Nested
    <2> QED
        BY <2>1, <2>2
<1>5. SeenLater(o, by)'
    <2> SUFFICES ASSUME NEW x \in Up \ {c}, NEW y \in Up \ {c},
                        x # y, by[x] = by[y], x \in o[y]
                 PROVE  Cardinality(o[x]) < TrunkMax
        BY <1>1 DEF SeenLater
    <2>1. Cardinality(older[x]) < TrunkMax
        BY <1>3 DEF History, SeenLater
    <2> QED
        BY <1>3, <2>1
<1>6. FoundOK(o, by)'
    <2> SUFFICES ASSUME NEW u \in Threads, pc'[u] = "scan", NEW x \in Up \ {c}, by[x] = u
                 PROVE  Cardinality({y \in o[x] : ShardOf[y] < read[u][2]}) <= read[u][1]
        BY <1>1 DEF FoundOK, Scanned
    <2> DEFINE A == {y \in o[x] : ShardOf[y] < read[u][2]}
               B == {y \in older[x] : ShardOf[y] < read[u][2]}
    <2>1. pc[u] = "scan" /\ read[u][1] \in Nat
        BY <1>1 DEF TypeOK
    <2>2. Cardinality(B) <= read[u][1]
        BY <2>1 DEF History, FoundOK, Scanned
    <2>3. A \subseteq B /\ B \subseteq Calls
        BY <1>3
    <2>4. Cardinality(A) \in Nat /\ Cardinality(B) \in Nat /\ Cardinality(A) <= Cardinality(B)
        BY <2>3, SmallerPast
    <2> HIDE DEF A, B
    <2>5. Cardinality(A) <= read[u][1]
        BY <2>1, <2>2, <2>4
    <2> QED
        BY <2>5 DEF A
<1>7. PassedOK(o, by)'
    <2> SUFFICES ASSUME NEW u \in Threads, pc'[u] = "register", call'[u] \in OnTrunk
                 PROVE  TrunkMax > 0 /\ \A x \in Up \ {c} : by[x] = u => Cardinality(o[x]) < TrunkMax
        BY <1>1 DEF PassedOK
    <2>1. pc[u] = "register" /\ call[u] \in OnTrunk
        BY <1>1 DEF TypeOK
    <2>2. TrunkMax > 0 /\ \A x \in Up : by[x] = u => Cardinality(older[x]) < TrunkMax
        BY <2>1 DEF History, PassedOK
    <2> QED
        BY <1>3, <2>2
<1>8. Up' # {} => TrunkMax > 0
    BY <1>1 DEF History
<1>9. History(o, by)'
    BY <1>4, <1>5, <1>6, <1>7, <1>8 DEF History
<1> QED
    BY <1>9

LEMMA NextKeepsTrunk == AdmissionInv /\ TrunkInv /\ [Next]_vars => TrunkInv'
<1> SUFFICES ASSUME AdmissionInv, TrunkInv, [Next]_vars, service' = "control"
             PROVE  \E o \in [Calls -> SUBSET Calls], b \in [Calls -> Threads] : History(o, b)'
    BY DEF TrunkInv
<1> USE DEF Go, Leave, Read, counters
<1>0. Shape /\ TypeOK /\ SessionsOK
    BY DEF AdmissionInv, Shape
<1>1. service = "control"
    BY DEF Next, vars, Tick, ReadReset, Exchange, StoreZero, ReadRate, ScanShard, EndScan,
           StoreSession, Abandon, CountCall, CountRate, UncountCall, StrayEnd, Ask, End
<1>2. PICK older \in [Calls -> SUBSET Calls], by \in [Calls -> Threads] : History(older, by)
    BY <1>1 DEF TrunkInv
<1>3. CASE Tick \/ UNCHANGED vars
    <2>1. History(older, by)'
        BY <1>2, <1>3, OutsideStep DEF Tick, vars, Up
    <2> QED
        BY <2>1
<1>4. ASSUME NEW t \in Threads, NEW c \in Calls, Ask(t, c)
      PROVE  History(older, by)'
    BY <1>0, <1>2, <1>4, OutsideStep DEF Ask, TypeOK, Up
<1>5. ASSUME NEW t \in Threads,
             ReadReset(t) \/ Exchange(t) \/ StoreZero(t) \/ Abandon(t) \/ CountCall(t)
                \/ StrayEnd(t) \/ UncountCall(t)
      PROVE  History(older, by)'
    <2>1. Up' = Up
        BY <1>5 DEF ReadReset, Exchange, StoreZero, Abandon, CountCall, StrayEnd, UncountCall, Up
    <2>2. ASSUME NEW u \in Threads, pc'[u] \in {"scan", "register"}
          PROVE  pc'[u] = pc[u] /\ call'[u] = call[u] /\ read'[u] = read[u]
        BY <1>0, <1>5, <2>2 DEF ReadReset, Exchange, Exchanged, StoreZero, Abandon, CountCall,
                                StrayEnd, UncountCall, TypeOK
    <2> QED
        BY <1>2, <2>1, <2>2, OutsideStep
<1>6. ASSUME NEW t \in Threads, CountRate(t)
      PROVE  History(older, by)'
    <2>1. Up' = Up
        BY <1>0, <1>1, <1>6 DEF CountRate, SessionsOK, Up
    <2>2. ASSUME NEW u \in Threads, pc'[u] \in {"scan", "register"}
          PROVE  pc'[u] = pc[u] /\ call'[u] = call[u] /\ read'[u] = read[u]
        BY <1>0, <1>6, <2>2 DEF CountRate, TypeOK
    <2> QED
        BY <1>2, <2>1, <2>2, OutsideStep
<1>7. ASSUME NEW t \in Threads, ReadRate(t) \/ ScanShard(t) \/ EndScan(t)
      PROVE  History(older, by)'
    BY <1>0, <1>2, <1>7, BeginScan, ReadShard, PassScan
<1>8. ASSUME NEW t \in Threads, StoreSession(t)
      PROVE  \E o \in [Calls -> SUBSET Calls], b \in [Calls -> Threads] : History(o, b)'
    <2>1. CASE call[t] \in OnTrunk
        BY <1>0, <1>2, <1>8, <2>1, StoreOnTrunk
    <2>2. CASE call[t] \notin OnTrunk
        <3>1. Up' = Up
            BY <1>8, <2>2 DEF StoreSession, Up
        <3>2. ASSUME NEW u \in Threads, pc'[u] \in {"scan", "register"}
              PROVE  pc'[u] = pc[u] /\ call'[u] = call[u] /\ read'[u] = read[u]
            BY <1>0, <1>8, <3>2 DEF StoreSession, TypeOK
        <3>3. History(older, by)'
            BY <1>2, <3>1, <3>2, OutsideStep
        <3> QED
            BY <3>3
    <2> QED
        BY <2>1, <2>2
<1>9. ASSUME NEW t \in Threads, NEW c \in Calls, End(t, c)
      PROVE  \E o \in [Calls -> SUBSET Calls] : History(o, by)'
    BY <1>0, <1>2, <1>9, EndOnTrunk
<1> QED
    BY <1>2, <1>3, <1>4, <1>5, <1>6, <1>7, <1>8, <1>9 DEF Next

-----------------------------------------------------------------------------
(* A set of numbers up to n has a greatest one.                            *)
LEMMA GreatestUpTo ==
    ASSUME NEW S, NEW n \in Nat, S \subseteq 0..n, S # {}
    PROVE  \E m \in S : \A k \in S : k <= m
<1> DEFINE R == OpToRel(<, Nat)
           T == {n - k : k \in S}
<1>0. \A k \in S : k \in Int /\ n - k \in Nat
    <2>1. \A k \in S : k \in 0..n
        OBVIOUS
    <2> QED
        BY <2>1
<1>1. T \subseteq Nat /\ T # {}
    BY <1>0
<1>2. PICK x \in T : \A y \in T : ~(<<y, x>> \in R)
    BY <1>1, WFMin, NatLessThanWellFounded
<1>3. \A y \in T : ~(y < x)
    BY <1>1, <1>2 DEF OpToRel
<1>4. PICK m \in S : x = n - m
    BY <1>2
<1>5. ASSUME NEW k \in S PROVE k <= m
    <2>1. n - k \in T /\ ~(n - k < n - m)
        BY <1>3, <1>4
    <2>2. n \in Int /\ k \in Int /\ m \in Int
        BY <1>0
    <2>3. \A a, b, d \in Int : ~(a - b < a - d) => b <= d
        OBVIOUS
    <2> QED
        BY <2>1, <2>2, <2>3
<1> QED
    BY <1>5

(* The calls with a small past all lie in the past of one of them, so      *)
(* there are fewer than TrunkMax; each of the others was stored by another *)
(* thread.                                                                 *)
LEMMA HistoryBounds ==
    ASSUME TypeOK, NEW older \in [Calls -> SUBSET Calls], NEW by \in [Calls -> Threads],
           History(older, by)
    PROVE  Cardinality(Up) <= TrunkMax - 1 + Cardinality(Threads)
<1> USE AdmissionAssumption
<1> DEFINE Small == {x \in Up : Cardinality(older[x]) < TrunkMax}
           Big == {x \in Up : ~(Cardinality(older[x]) < TrunkMax)}
<1>0. /\ IsFiniteSet(Threads) /\ Cardinality(Threads) \in Nat /\ Cardinality(Threads) # 0
      /\ Up \subseteq Calls /\ Small \subseteq Calls /\ Big \subseteq Calls
    <2>1. Up \subseteq Calls
        BY DEF Up, TypeOK
    <2> QED
        BY <2>1, FS_CardinalityType, FS_EmptySet
<1>1. /\ IsFiniteSet(Up) /\ Cardinality(Up) \in Nat
      /\ IsFiniteSet(Small) /\ Cardinality(Small) \in Nat
      /\ IsFiniteSet(Big) /\ Cardinality(Big) \in Nat
    BY <1>0, CallsFinite
<1>2. ASSUME NEW x \in Up
      PROVE  /\ older[x] \subseteq Calls /\ IsFiniteSet(older[x])
             /\ Cardinality(older[x]) \in Nat
    <2>1. older[x] \subseteq Calls
        BY <1>0
    <2> QED
        BY <2>1, CallsFinite
<1>3. CASE Up = {}
    BY <1>0, <1>3, FS_EmptySet
<1>4. CASE Up # {}
    <2>0. TrunkMax > 0 /\ TrunkMax \in Nat
        BY <1>4 DEF History
    <2>1. Cardinality(Small) <= TrunkMax - 1
        <3>1. CASE Small = {}
            BY <2>0, <3>1, FS_EmptySet
        <3>2. CASE Small # {}
            <4> DEFINE S == {Cardinality(older[x]) : x \in Small}
            <4>1. S \subseteq 0..TrunkMax /\ S # {}
                BY <1>2, <2>0, <3>2
            <4>2. PICK k \in S : \A j \in S : j <= k
                BY <2>0, <4>1, GreatestUpTo
            <4>3. PICK m \in Small : k = Cardinality(older[m])
                BY <4>2
            <4>4. \A x \in Small : Cardinality(older[x]) <= Cardinality(older[m])
                BY <4>2, <4>3
            <4>5. ASSUME NEW x \in Small PROVE x \in older[m]
                <5>1. x \in older[x] /\ (x \in older[m] \/ older[m] \subseteq older[x])
                    BY DEF History, Nested
                <5>2. CASE older[m] \subseteq older[x]
                    <6>1. Cardinality(older[m]) <= Cardinality(older[x])
                        BY <1>2, <5>2, FS_Subset
                    <6>2. Cardinality(older[m]) = Cardinality(older[x])
                        BY <1>2, <4>4, <6>1
                    <6>3. older[m] = older[x]
                        BY <1>2, <5>2, <6>2, FS_Subset
                    <6> QED
                        BY <5>1, <6>3
                <5> QED
                    BY <5>1, <5>2
            <4>6. Cardinality(Small) <= Cardinality(older[m])
                BY <1>2, <4>5, SmallerPast
            <4>7. Cardinality(older[m]) \in Nat /\ Cardinality(older[m]) < TrunkMax
                BY <1>2
            <4> HIDE DEF Small
            <4> QED
                BY <1>1, <2>0, <4>6, <4>7
        <3> QED
            BY <3>1, <3>2
    <2>2. Cardinality(Big) <= Cardinality(Threads)
        <3> SUFFICES ASSUME Cardinality(Threads) < Cardinality(Big) PROVE FALSE
            BY <1>0, <1>1
        <3>1. PICK f : f = [x \in Big |-> by[x]]
            OBVIOUS
        <3>2. f \in [Big -> Threads]
            BY <1>0, <3>1
        <3>3. PICK x \in Big, y \in Big : x # y /\ f[x] = f[y]
            BY <1>0, <1>1, <3>2, FS_PigeonHole
        <3>4. by[x] = by[y] /\ x \in Up /\ y \in Up
            BY <3>1, <3>3
        <3>5. x \in older[y] \/ y \in older[x]
            BY <3>4 DEF History, Nested
        <3>6. Cardinality(older[x]) < TrunkMax \/ Cardinality(older[y]) < TrunkMax
            BY <3>3, <3>4, <3>5 DEF History, SeenLater
        <3> QED
            BY <3>3, <3>6
    <2>3. Cardinality(Up) = Cardinality(Small) + Cardinality(Big)
        <3>1. Up = Small \cup Big /\ Small \cap Big = {}
            OBVIOUS
        <3> HIDE DEF Small, Big
        <3>2. Cardinality(Small \cup Big)
                  = Cardinality(Small) + Cardinality(Big) - Cardinality(Small \cap Big)
            BY <1>1, FS_Union
        <3>3. Cardinality(Small \cap Big) = 0
            BY <3>1, FS_EmptySet
        <3> QED
            BY <1>1, <3>1, <3>2, <3>3
    <2> HIDE DEF Small, Big
    <2> QED
        BY <1>0, <1>1, <2>0, <2>1, <2>2, <2>3
<1> QED
    BY <1>3, <1>4

(* A scan that sees no state the sessions were ever in still bounds the    *)
(* calls of a trunk: the limit is exceeded by fewer than there are threads.*)
THEOREM TrunkIsKept == Spec => []TrunkKept
<1>1. AdmissionInv /\ TrunkInv => TrunkKept
    BY HistoryBounds DEF AdmissionInv, Shape, TrunkInv, TrunkKept, Up
<1>2. Spec => []TrunkInv
    BY InitTrunk, NextKeepsTrunk, AdmissionInvariant, PTL DEF Spec
<1> QED
    BY <1>1, <1>2, AdmissionInvariant, PTL

-----------------------------------------------------------------------------
(* The calls counted in one second.  Threads that have won the exchange,   *)
(* or can still win it with a time that is past, will each wipe the rate   *)
(* out once more; the other threads can fill it in between.                *)
Wiping == {t \in Threads : pc[t] = "zero"}
Late == {t \in Threads :
            pc[t] = "exchange" /\ read[t][2] = lastReset /\ read[t][1] < now}
Passed == {t \in Threads : pc[t] \in {"scan", "register", "count", "countRate"}}

Size == Cardinality(Threads)

(* Of the late ones one can win.  The threads that will not wipe:          *)
Spare(wiping, late) == Size - Cardinality(wiping) - (IF late = {} THEN 0 ELSE 1)

(* How many calls can still be counted before the next wipe, with f spare  *)
(* threads of which c have passed the check: all but one overshoot.        *)
Room(f, c, r) == IF r < Rate /\ f > 0 THEN Rate - r + f - 1 ELSE c

(* Twice what the wipes still to come make room for: Rate + f calls for    *)
(* the wipe that makes the number of spare threads f + 1.                  *)
Later(f) == 2 * ((Size - f) * Rate) + (Size * (Size - 1) - f * (f - 1))

(* What one more wipe makes room for, if the exchange can be won with the  *)
(* time of now.                                                            *)
OneMore == IF lastReset < now THEN Rate + Size - 1 ELSE 0

Bound == 2 * ((Size + 1) * Rate) + (Size - 1) * (Size + 2)

Budget(f, c, r, counted, more) ==
    2 * counted + 2 * Room(f, c, r) + Later(f) + 2 * more <= Bound

(* A thread at its exchange has read times that were so.                   *)
ClockOK ==
    /\ lastReset <= now
    /\ \A t \in Threads : pc[t] = "exchange" =>
         read[t][2] <= lastReset /\ read[t][2] < read[t][1] /\ read[t][1] <= now

InBudget == Budget(Spare(Wiping, Late), Cardinality(Passed), rate, second, OneMore)

RateInv == ClockOK /\ (Rate > 0 => InBudget)

-----------------------------------------------------------------------------
LEMMA SizeTyped == Size \in Nat /\ Size > 0
<1>1. IsFiniteSet(Threads) /\ Threads # {}
    BY AdmissionAssumption
<1>2. Size \in Nat /\ Size # 0
    BY <1>1, FS_CardinalityType, FS_EmptySet DEF Size
<1> QED
    BY <1>2

LEMMA ThreadsFinite ==
    ASSUME NEW S, S \subseteq Threads
    PROVE  IsFiniteSet(S) /\ Cardinality(S) \in Nat /\ Cardinality(S) <= Size
BY AdmissionAssumption, FS_Subset, FS_CardinalityType DEF Size

(* The spare threads are no fewer than those that neither wipe nor are late. *)
LEMMA SpareBounds ==
    ASSUME NEW Z, NEW L, NEW P, Z \subseteq Threads, L \subseteq Threads, P \subseteq Threads,
           Z \cap L = {}, Z \cap P = {}, L \cap P = {}
    PROVE  /\ Spare(Z, L) \in 0..Size
           /\ Cardinality(P) \in 0..Spare(Z, L)
           /\ Cardinality(Z) \in Nat
<1>1. PICK W : /\ W \subseteq Threads /\ W \cap P = {}
               /\ Cardinality(W) = Cardinality(Z) + (IF L = {} THEN 0 ELSE 1)
    <2>1. CASE L = {}
        <3>1. Cardinality(Z) = Cardinality(Z) + 0
            BY ThreadsFinite
        <3> QED
            BY <2>1, <3>1
    <2>2. CASE L # {}
        <3>1. PICK s \in L : TRUE
            BY <2>2
        <3>2. Cardinality(Z \cup {s}) = Cardinality(Z) + 1
            BY <3>1, ThreadsFinite, FS_AddElement
        <3>3. Z \cup {s} \subseteq Threads /\ (Z \cup {s}) \cap P = {}
            BY <3>1
        <3> QED
            BY <2>2, <3>2, <3>3
    <2> QED
        BY <2>1, <2>2
<1>2. /\ IsFiniteSet(W) /\ IsFiniteSet(P) /\ Cardinality(Z) \in Nat
      /\ Cardinality(W) \in Nat /\ Cardinality(P) \in Nat
    BY <1>1, ThreadsFinite
<1>3. Cardinality(W \cup P) = Cardinality(W) + Cardinality(P)
    <2>1. Cardinality(W \cup P) = Cardinality(W) + Cardinality(P) - Cardinality(W \cap P)
        BY <1>2, FS_Union
    <2>2. Cardinality(W \cap P) = 0
        BY <1>1, FS_EmptySet
    <2> QED
        BY <1>2, <2>1, <2>2
<1>4. Cardinality(W \cup P) <= Size
    <2>1. W \cup P \subseteq Threads
        BY <1>1
    <2> QED
        BY <2>1, ThreadsFinite
<1>5. Size \in Nat
    BY SizeTyped
<1>6. Spare(Z, L) = Size - Cardinality(W)
    BY <1>1, <1>2, <1>5 DEF Spare
<1> QED
    BY <1>2, <1>3, <1>4, <1>5, <1>6

(* The value of Later from one number of spare threads to the next.        *)
LEMMA LaterStep ==
    ASSUME NEW f \in Nat
    PROVE  Later(f) \in Int /\ Later(f) = Later(f + 1) + 2 * (Rate + f)
<1> DEFINE n == Size
<1>1. n \in Nat /\ Rate \in Nat
    BY SizeTyped, AdmissionAssumption
<1> HIDE DEF n
<1>2. (n - f) * Rate = (n - (f + 1)) * Rate + Rate
    BY <1>1
<1>3. (f + 1) * ((f + 1) - 1) = f * (f - 1) + 2 * f
    BY <1>1
<1>4. (n - f) * Rate \in Int /\ (n - (f + 1)) * Rate \in Int /\ n * (n - 1) \in Int
      /\ f * (f - 1) \in Int /\ (f + 1) * ((f + 1) - 1) \in Int
    BY <1>1
<1>5. /\ Later(f) = 2 * ((n - f) * Rate) + (n * (n - 1) - f * (f - 1))
      /\ Later(f + 1) = 2 * ((n - (f + 1)) * Rate) + (n * (n - 1) - (f + 1) * ((f + 1) - 1))
    BY DEF Later, n
<1> QED
    BY <1>1, <1>2, <1>3, <1>4, <1>5

(* A second begins with as much as the bound.                              *)
LEMMA LaterBound ==
    ASSUME NEW f \in 0..Size
    PROVE  /\ Bound \in Int
           /\ Later(f) + 2 * (Rate + Size - 1) <= Bound
           /\ f > 0 => Later(f) + 2 * (Rate + f - 1) + 2 * (Rate + Size - 1) <= Bound
<1> DEFINE n == Size
<1>1. n \in Nat /\ Rate \in Nat /\ f \in Nat /\ f <= n
    BY SizeTyped, AdmissionAssumption
<1>2. /\ Later(f) = 2 * ((n - f) * Rate) + (n * (n - 1) - f * (f - 1))
      /\ Bound = 2 * ((n + 1) * Rate) + (n - 1) * (n + 2)
    BY DEF Later, Bound, n
<1> HIDE DEF n
<1>3. (n + 1) * Rate = n * Rate + Rate /\ (n - f) * Rate = n * Rate - f * Rate
    BY <1>1
<1>4. (n - 1) * (n + 2) = n * (n - 1) + 2 * (n - 1)
    BY <1>1
<1>5. f * Rate \in Nat /\ (f > 0 => f * Rate >= Rate)
    <2>1. f > 0 => f * Rate = (f - 1) * Rate + Rate /\ (f - 1) * Rate \in Nat
        BY <1>1
    <2>2. f * Rate \in Nat
        BY <1>1
    <2> QED
        BY <1>1, <2>1, <2>2
<1>6. f * (f - 1) \in Int /\ f * (f - 1) >= 0 /\ (f > 0 => f * (f - 1) >= 2 * (f - 1))
    <2>1. CASE f = 0 \/ f = 1
        BY <2>1
    <2>2. CASE f >= 2
        <3>1. f * (f - 1) = (f - 2) * (f - 1) + 2 * (f - 1)
            BY <1>1
        <3>2. (f - 2) * (f - 1) \in Nat
            BY <1>1, <2>2
        <3> QED
            BY <1>1, <2>2, <3>1, <3>2
    <2> QED
        BY <1>1, <2>1, <2>2
<1>7. n * Rate \in Int /\ n * (n - 1) \in Int
    BY <1>1
<1>8. Bound = 2 * (n * Rate) + 2 * Rate + n * (n - 1) + 2 * (n - 1)
    BY <1>1, <1>2, <1>3, <1>4, <1>7
<1>9. Later(f) = 2 * (n * Rate) - 2 * (f * Rate) + n * (n - 1) - f * (f - 1)
    BY <1>1, <1>2, <1>3, <1>5, <1>6, <1>7
<1>10. Size = n
    BY DEF n
<1> QED
    BY <1>1, <1>5, <1>6, <1>7, <1>8, <1>9, <1>10

-----------------------------------------------------------------------------
(* What the steps do to the budget.                                        *)
LEMMA RoomTyped ==
    ASSUME NEW f \in 0..Size, NEW c \in 0..f, NEW r \in Nat
    PROVE  /\ f \in Nat /\ c \in Nat /\ c <= f /\ f <= Size
           /\ Size \in Nat /\ Size > 0 /\ Rate \in Nat
           /\ Room(f, c, r) \in Nat /\ Later(f) \in Int /\ Bound \in Int
<1>1. /\ f \in Nat /\ c \in Nat /\ c <= f /\ f <= Size
      /\ Size \in Nat /\ Size > 0 /\ Rate \in Nat
    BY SizeTyped, AdmissionAssumption
<1>2. Later(f) \in Int /\ Bound \in Int
    BY <1>1, LaterStep, LaterBound
<1>3. Room(f, c, r) \in Nat
    BY <1>1 DEF Room
<1> QED
    BY <1>1, <1>2, <1>3

LEMMA FewerPassed ==
    ASSUME NEW f \in 0..Size, NEW c \in 0..f, NEW r \in Nat, NEW s \in Nat,
           NEW more \in Nat, Budget(f, c, r, s, more),
           NEW d \in 0..f, d <= c \/ r < Rate
    PROVE  Budget(f, d, r, s, more)
<1>1. /\ f \in Nat /\ c \in Nat /\ c <= f /\ d \in Nat /\ d <= f /\ Rate \in Nat
      /\ Room(f, c, r) \in Nat /\ Room(f, d, r) \in Nat /\ Later(f) \in Int /\ Bound \in Int
    BY RoomTyped
<1>2. Room(f, d, r) <= Room(f, c, r)
    BY <1>1 DEF Room
<1> QED
    BY <1>1, <1>2 DEF Budget

(* A late thread loses the exchange.                                       *)
LEMMA OneSpared ==
    ASSUME Rate > 0, NEW f \in 0..Size, NEW c \in 0..f, NEW r \in Nat, NEW s \in Nat,
           NEW more \in Nat, Budget(f, c, r, s, more), f + 1 \in 0..Size
    PROVE  Budget(f + 1, c, r, s, more)
<1>1. /\ f \in Nat /\ c \in Nat /\ Rate \in Nat /\ Size \in Nat
      /\ Room(f, c, r) \in Nat /\ Bound \in Int
    BY RoomTyped
<1>2. Later(f) = Later(f + 1) + 2 * (Rate + f) /\ Later(f + 1) \in Int
    BY <1>1, LaterStep
<1>3. Room(f + 1, c, r) <= Room(f, c, r) + Rate /\ Room(f + 1, c, r) \in Int
    BY <1>1 DEF Room
<1> QED
    BY <1>1, <1>2, <1>3 DEF Budget

(* The rate is wiped out, and who did it can count again.                  *)
LEMMA OneWiped ==
    ASSUME Rate > 0, NEW f \in 0..Size, NEW c \in 0..f, NEW r \in Nat, NEW s \in Nat,
           NEW more \in Nat, Budget(f, c, r, s, more), f + 1 \in 0..Size
    PROVE  Budget(f + 1, c, 0, s, more)
<1>1. /\ f \in Nat /\ c \in Nat /\ Rate \in Nat /\ Size \in Nat
      /\ Room(f, c, r) \in Nat /\ Bound \in Int
    BY RoomTyped
<1>2. Later(f) = Later(f + 1) + 2 * (Rate + f) /\ Later(f + 1) \in Int
    BY <1>1, LaterStep
<1>3. Room(f + 1, c, 0) = Rate + f
    BY <1>1 DEF Room
<1> QED
    BY <1>1, <1>2, <1>3 DEF Budget

(* The exchange is won with the time of now, for the last time.            *)
LEMMA LastWin ==
    ASSUME NEW f \in 0..Size, NEW c \in 0..f, NEW r \in Nat, NEW s \in Nat,
           Budget(f, c, r, s, Rate + Size - 1)
    PROVE  /\ Budget(f, c, r, s, 0)
           /\ \A g \in 0..Size : f = g + 1 /\ c <= g => Budget(g, c, r, s, 0)
<1>1. /\ f \in Nat /\ c \in Nat /\ f <= Size /\ Rate \in Nat /\ Size \in Nat /\ Size > 0
      /\ Room(f, c, r) \in Nat /\ Later(f) \in Int /\ Bound \in Int
    BY RoomTyped
<1>2. Budget(f, c, r, s, 0)
    BY <1>1 DEF Budget
<1>3. ASSUME NEW g \in 0..Size, f = g + 1, c <= g PROVE Budget(g, c, r, s, 0)
    <2>0. g \in Nat /\ g + 1 <= Size
        BY <1>1, <1>3
    <2>1. Later(g) = Later(f) + 2 * (Rate + g)
        BY <1>3, <2>0, LaterStep
    <2>2. Room(g, c, r) <= Room(f, c, r) /\ Room(g, c, r) \in Int
        BY <1>1, <1>3, <2>0 DEF Room
    <2> QED
        BY <1>1, <2>0, <2>1, <2>2 DEF Budget
<1> QED
    BY <1>2, <1>3

(* A call is counted.                                                      *)
LEMMA OneCounted ==
    ASSUME NEW f \in 0..Size, NEW c \in 0..f, NEW r \in Nat, NEW s \in Nat,
           NEW more \in Nat, Budget(f, c, r, s, more), c > 0
    PROVE  Budget(f, c - 1, r + 1, s + 1, more)
<1>1. /\ f \in Nat /\ c \in Nat /\ c <= f /\ Rate \in Nat /\ Size \in Nat
      /\ Room(f, c, r) \in Nat /\ Later(f) \in Int /\ Bound \in Int
    BY RoomTyped
<1>2. Room(f, c - 1, r + 1) <= Room(f, c, r) - 1 /\ Room(f, c - 1, r + 1) \in Int
    BY <1>1 DEF Room
<1> QED
    BY <1>1, <1>2 DEF Budget

LEMMA NewSecond ==
    ASSUME Rate > 0, NEW f \in 0..Size, NEW c \in 0..f, NEW r \in Nat
    PROVE  Budget(f, c, r, 0, Rate + Size - 1) /\ Budget(f, c, r, 0, 0)
<1>1. /\ f \in Nat /\ c \in Nat /\ Rate \in Nat /\ Size \in Nat /\ Size > 0
      /\ Room(f, c, r) \in Nat /\ Later(f) \in Int /\ Bound \in Int
    BY RoomTyped
<1>2. IF f > 0 THEN Room(f, c, r) <= Rate + f - 1 ELSE Room(f, c, r) = 0
    BY <1>1 DEF Room
<1>3. Budget(f, c, r, 0, Rate + Size - 1)
    <2>1. CASE f > 0
        <3>1. Later(f) + 2 * (Rate + f - 1) + 2 * (Rate + Size - 1) <= Bound
            BY <2>1, LaterBound
        <3> QED
            BY <1>1, <1>2, <2>1, <3>1 DEF Budget
    <2>2. CASE f = 0
        <3>1. Later(f) + 2 * (Rate + Size - 1) <= Bound
            BY LaterBound
        <3> QED
            BY <1>1, <1>2, <2>2, <3>1 DEF Budget
    <2> QED
        BY <1>1, <2>1, <2>2
<1> QED
    BY <1>1, <1>3 DEF Budget

-----------------------------------------------------------------------------
(* The steps.                                                              *)
LEMMA SpareNow ==
    /\ Spare(Wiping, Late) \in 0..Size
    /\ Cardinality(Passed) \in 0..Spare(Wiping, Late)
    /\ Cardinality(Wiping) \in Nat
<1>1. /\ Wiping \subseteq Threads /\ Late \subseteq Threads /\ Passed \subseteq Threads
      /\ Wiping \cap Late = {} /\ Wiping \cap Passed = {} /\ Late \cap Passed = {}
    BY DEF Wiping, Late, Passed
<1> QED
    BY <1>1, SpareBounds

LEMMA SpareNext ==
    /\ Spare(Wiping', Late') \in 0..Size
    /\ Cardinality(Passed') \in 0..Spare(Wiping', Late')
    /\ Cardinality(Wiping') \in Nat
<1>1. /\ Wiping' \subseteq Threads /\ Late' \subseteq Threads /\ Passed' \subseteq Threads
      /\ Wiping' \cap Late' = {} /\ Wiping' \cap Passed' = {} /\ Late' \cap Passed' = {}
    BY DEF Wiping, Late, Passed
<1> QED
    BY <1>1, SpareBounds

LEMMA InBudgetNext ==
    InBudget' <=> Budget(Spare(Wiping', Late'), Cardinality(Passed'), rate', second', OneMore')
BY DEF InBudget, Budget, Spare

LEMMA OneMoreTyped == Rate \in Nat /\ Size \in Nat /\ Size > 0 /\ OneMore \in Nat
BY SizeTyped, AdmissionAssumption DEF OneMore

(* Threads come to their check, go through it and leave, but neither win   *)
(* nor lose an exchange.                                                   *)
LEMMA PassingStep ==
    ASSUME TypeOK, InBudget, Wiping' = Wiping, Late' = Late,
           UNCHANGED <<now, lastReset, rate, second>>,
           Passed' \subseteq Passed \/ rate < Rate
    PROVE  InBudget'
<1> DEFINE f == Spare(Wiping, Late)
           c == Cardinality(Passed)
           d == Cardinality(Passed')
<1>1. f \in 0..Size /\ c \in 0..f /\ d \in 0..f
    BY SpareNow, SpareNext
<1>2. d <= c \/ rate < Rate
    <2>1. IsFiniteSet(Passed)
        BY ThreadsFinite DEF Passed
    <2> QED
        BY <2>1, FS_Subset
<1>3. Budget(f, c, rate, second, OneMore) /\ OneMore \in Nat /\ OneMore' = OneMore
    BY OneMoreTyped DEF InBudget, OneMore
<1>4. rate \in Nat /\ second \in Nat
    BY DEF TypeOK
<1> HIDE DEF f, c, d
<1>5. Budget(f, d, rate, second, OneMore)
    BY <1>1, <1>2, <1>3, <1>4, FewerPassed
<1> QED
    BY <1>3, <1>5, InBudgetNext DEF f, d

(* A thread that was late, or not, goes on to the check without a win.     *)
LEMMA LosingStep ==
    ASSUME TypeOK, InBudget, Rate > 0, Wiping' = Wiping, Late' \subseteq Late,
           Passed' = Passed, UNCHANGED <<now, lastReset, rate, second>>
    PROVE  InBudget'
<1> DEFINE f == Spare(Wiping, Late)
           g == Spare(Wiping', Late')
           c == Cardinality(Passed)
<1>1. f \in 0..Size /\ c \in 0..f /\ g \in 0..Size /\ Cardinality(Wiping) \in Nat
    BY SpareNow, SpareNext
<1>2. g = f \/ g = f + 1
    BY <1>1, SizeTyped DEF Spare
<1>3. Budget(f, c, rate, second, OneMore) /\ OneMore \in Nat /\ OneMore' = OneMore
    BY OneMoreTyped DEF InBudget, OneMore
<1>4. rate \in Nat /\ second \in Nat
    BY DEF TypeOK
<1> HIDE DEF f, g, c
<1>5. Budget(g, c, rate, second, OneMore)
    BY <1>1, <1>2, <1>3, <1>4, OneSpared
<1> QED
    BY <1>3, <1>5, InBudgetNext DEF g, c

(* The exchange is won: whoever else is at it is no longer late.           *)
LEMMA WinningStep ==
    ASSUME TypeOK, ClockOK, InBudget, Rate > 0, NEW t \in Threads,
           pc[t] = "exchange", Exchanged(t),
           UNCHANGED <<now, read, rate, second>>
    PROVE  InBudget'
<1> DEFINE f == Spare(Wiping, Late)
           g == Spare(Wiping', Late')
           c == Cardinality(Passed)
<1>0. /\ now \in Nat /\ lastReset \in Nat /\ rate \in Nat /\ second \in Nat
      /\ \A u \in Threads : read[u][1] \in Nat /\ read[u][2] \in Nat
    BY DEF TypeOK
<1>1. /\ lastReset = read[t][2] /\ lastReset' = read[t][1]
      /\ read[t][2] < read[t][1] /\ read[t][1] <= now
    BY DEF Exchanged, ClockOK
<1>2. /\ Wiping' = Wiping \cup {t} /\ t \notin Wiping /\ Passed' = Passed
      /\ Wiping \subseteq Threads
    BY DEF Exchanged, Go, Wiping, Passed, TypeOK
<1>3. Late' = {}
    <2> SUFFICES ASSUME NEW u \in Threads, pc'[u] = "exchange", read[u][2] = lastReset'
                 PROVE  FALSE
        BY DEF Late
    <2>1. pc[u] = "exchange"
        BY DEF Exchanged, Go, TypeOK
    <2>2. read[u][2] <= lastReset
        BY <2>1 DEF ClockOK
    <2> QED
        BY <1>0, <1>1, <2>2
<1>4. Cardinality(Wiping') = Cardinality(Wiping) + 1
    <2>1. IsFiniteSet(Wiping)
        BY <1>2, ThreadsFinite
    <2> QED
        BY <1>2, <2>1, FS_AddElement
<1>5. /\ f \in 0..Size /\ c \in 0..f /\ g \in 0..Size /\ c \in 0..g
      /\ Cardinality(Wiping) \in Nat
    BY <1>2, SpareNow, SpareNext
<1>6. IF Late = {} THEN f = g + 1 ELSE f = g
    BY <1>3, <1>4, <1>5, SizeTyped DEF Spare
<1>7. Budget(f, c, rate, second, OneMore) /\ OneMore = Rate + Size - 1
    BY <1>0, <1>1 DEF InBudget, OneMore
<1>8. Budget(g, c, rate, second, OneMore')
    <2>1. CASE read[t][1] < now
        <3>1. Late # {}
            BY <1>1, <2>1 DEF Late
        <3>2. OneMore' = OneMore
            BY <1>0, <1>1, <2>1 DEF OneMore
        <3> QED
            BY <1>6, <1>7, <3>1, <3>2
    <2>2. CASE read[t][1] = now
        <3>1. OneMore' = 0
            BY <1>0, <1>1, <2>2 DEF OneMore
        <3> HIDE DEF f, g, c
        <3>2. Budget(g, c, rate, second, 0)
            BY <1>0, <1>5, <1>6, <1>7, LastWin
        <3> QED
            BY <3>1, <3>2
    <2> QED
        BY <1>0, <1>1, <2>1, <2>2
<1> QED
    BY <1>2, <1>8, InBudgetNext

LEMMA WipingStep ==
    ASSUME TypeOK, InBudget, Rate > 0, NEW t \in Threads, StoreZero(t)
    PROVE  InBudget'
<1> DEFINE f == Spare(Wiping, Late)
           g == Spare(Wiping', Late')
           c == Cardinality(Passed)
<1>0. rate \in Nat /\ second \in Nat
    BY DEF TypeOK
<1>1. /\ Wiping' = Wiping \ {t} /\ t \in Wiping /\ Passed' = Passed /\ Late' = Late
      /\ rate' = 0 /\ second' = second /\ Wiping \subseteq Threads
      /\ OneMore' = OneMore
    BY DEF StoreZero, Go, Wiping, Passed, Late, TypeOK, OneMore
<1>2. Cardinality(Wiping') = Cardinality(Wiping) - 1
    <2>1. IsFiniteSet(Wiping)
        BY <1>1, ThreadsFinite
    <2> QED
        BY <1>1, <2>1, FS_RemoveElement
<1>3. f \in 0..Size /\ c \in 0..f /\ g \in 0..Size /\ Cardinality(Wiping) \in Nat
    BY SpareNow, SpareNext
<1>4. g = f + 1
    BY <1>1, <1>2, <1>3, SizeTyped DEF Spare
<1>5. Budget(f, c, rate, second, OneMore) /\ OneMore \in Nat
    BY OneMoreTyped DEF InBudget
<1> HIDE DEF f, g, c
<1>6. Budget(g, c, 0, second, OneMore)
    BY <1>0, <1>3, <1>4, <1>5, OneWiped
<1> QED
    BY <1>1, <1>6, InBudgetNext DEF g, c

LEMMA CountingStep ==
    ASSUME TypeOK, InBudget, NEW t \in Threads, CountRate(t)
    PROVE  InBudget'
<1> DEFINE f == Spare(Wiping, Late)
           c == Cardinality(Passed)
<1>0. rate \in Nat /\ second \in Nat
    BY DEF TypeOK
<1>1. /\ Passed' = Passed \ {t} /\ t \in Passed /\ Wiping' = Wiping /\ Late' = Late
      /\ rate' = rate + 1 /\ second' = second + 1 /\ OneMore' = OneMore
      /\ Passed \subseteq Threads
    BY DEF CountRate, Go, Leave, Read, Wiping, Passed, Late, TypeOK, OneMore
<1>2. Cardinality(Passed') = c - 1
    <2>1. IsFiniteSet(Passed)
        BY <1>1, ThreadsFinite
    <2> QED
        BY <1>1, <2>1, FS_RemoveElement
<1>3. f \in 0..Size /\ c \in 0..f /\ Cardinality(Passed') \in Nat
    BY SpareNow, SpareNext
<1>4. Budget(f, c, rate, second, OneMore) /\ OneMore \in Nat
    BY OneMoreTyped DEF InBudget
<1> HIDE DEF f, c
<1>5. c > 0
    BY <1>2, <1>3
<1>6. Budget(f, c - 1, rate + 1, second + 1, OneMore)
    BY <1>0, <1>3, <1>4, <1>5, OneCounted
<1> QED
    BY <1>1, <1>2, <1>6, InBudgetNext DEF f

LEMMA TickingStep ==
    ASSUME TypeOK, Rate > 0, Tick
    PROVE  InBudget'
<1> DEFINE f == Spare(Wiping', Late')
           c == Cardinality(Passed')
<1>1. f \in 0..Size /\ c \in 0..f
    BY SpareNext
<1>2. rate \in Nat /\ rate' = rate /\ second' = 0
    BY DEF TypeOK, Tick
<1>3. OneMore' = Rate + Size - 1 \/ OneMore' = 0
    BY DEF OneMore
<1> HIDE DEF f, c
<1>4. Budget(f, c, rate, 0, Rate + Size - 1) /\ Budget(f, c, rate, 0, 0)
    BY <1>1, <1>2, NewSecond
<1> QED
    BY <1>2, <1>3, <1>4, InBudgetNext DEF f, c

LEMMA InitRate == Init => RateInv
<1> SUFFICES ASSUME Init PROVE RateInv
    OBVIOUS
<1>1. ClockOK
    BY DEF Init, ClockOK
<1>2. ASSUME Rate > 0 PROVE InBudget
    <2> DEFINE f == Spare(Wiping, Late)
               c == Cardinality(Passed)
    <2>1. f \in 0..Size /\ c \in 0..f
        BY SpareNow
    <2>2. rate = 0 /\ second = 0 /\ OneMore = 0
        BY DEF Init, OneMore
    <2> HIDE DEF f, c
    <2>3. Budget(f, c, 0, 0, 0)
        BY <1>2, <2>1, NewSecond
    <2> QED
        BY <2>2, <2>3 DEF InBudget, f, c
<1> QED
    BY <1>1, <1>2 DEF RateInv

LEMMA ClockKept == TypeOK /\ ClockOK /\ [Next]_vars => ClockOK'
<1> SUFFICES ASSUME TypeOK, ClockOK, [Next]_vars PROVE ClockOK'
    OBVIOUS
<1> USE DEF Go, Leave, Read, counters
<1>0. /\ now \in Nat /\ lastReset \in Nat
      /\ \A u \in Threads : read[u][1] \in Nat /\ read[u][2] \in Nat
    BY DEF TypeOK
<1>1. ASSUME now' >= now, now' \in Nat, lastReset' = lastReset,
             \A u \in Threads : pc'[u] = "exchange" => pc[u] = "exchange" /\ read'[u] = read[u]
      PROVE  ClockOK'
    BY <1>0, <1>1 DEF ClockOK
<1>2. CASE Tick \/ UNCHANGED vars
    BY <1>0, <1>1, <1>2 DEF Tick, vars
<1>3. ASSUME NEW t \in Threads, ReadReset(t) PROVE ClockOK'
    <2>1. UNCHANGED <<now, lastReset>> /\ read'[t] = <<now, lastReset>>
        BY <1>3 DEF ReadReset, TypeOK
    <2>2. pc'[t] = "exchange" => now > lastReset
        BY <1>3 DEF ReadReset, TypeOK
    <2>3. \A u \in Threads \ {t} : pc'[u] = pc[u] /\ read'[u] = read[u]
        BY <1>3 DEF ReadReset, TypeOK
    <2>4. ASSUME NEW u \in Threads, pc'[u] = "exchange"
          PROVE  read'[u][2] <= lastReset /\ read'[u][2] < read'[u][1] /\ read'[u][1] <= now
        <3>1. CASE u = t
            BY <1>0, <2>1, <2>2, <2>4, <3>1
        <3>2. CASE u # t
            BY <2>3, <2>4, <3>2 DEF ClockOK
        <3> QED
            BY <3>1, <3>2
    <2> QED
        BY <2>1, <2>4 DEF ClockOK
<1>4. ASSUME NEW t \in Threads, pc[t] = "exchange", Exchanged(t), UNCHANGED <<now, read>>
      PROVE  ClockOK'
    <2>1. /\ lastReset = read[t][2] /\ lastReset' = read[t][1]
          /\ read[t][2] < read[t][1] /\ read[t][1] <= now
        BY <1>4 DEF Exchanged, ClockOK
    <2>2. \A u \in Threads : pc'[u] = "exchange" => pc[u] = "exchange"
        BY <1>4 DEF Exchanged, TypeOK
    <2> QED
        BY <1>0, <1>4, <2>1, <2>2 DEF ClockOK
<1>5. ASSUME NEW t \in Threads, Exchange(t) PROVE ClockOK'
    <2>1. CASE Exchanged(t)
        BY <1>4, <1>5, <2>1 DEF Exchange
    <2>2. CASE Go(t, "rate") /\ UNCHANGED lastReset
        BY <1>0, <1>1, <1>5, <2>2 DEF Exchange, TypeOK
    <2> QED
        BY <1>5, <2>1, <2>2 DEF Exchange
<1>6. ASSUME NEW t \in Threads,
             StoreZero(t) \/ ReadRate(t) \/ ScanShard(t) \/ EndScan(t) \/ StoreSession(t)
                \/ Abandon(t) \/ CountCall(t) \/ CountRate(t) \/ StrayEnd(t) \/ UncountCall(t)
                \/ \E c \in Calls : Ask(t, c) \/ End(t, c)
      PROVE  ClockOK'
    <2>1. UNCHANGED <<now, lastReset>>
        BY <1>6 DEF StoreZero, ReadRate, ScanShard, EndScan, StoreSession, Abandon, CountCall,
                    CountRate, StrayEnd, UncountCall, Ask, End
    <2>2. ASSUME NEW u \in Threads, pc'[u] = "exchange"
          PROVE  pc[u] = "exchange" /\ read'[u] = read[u]
        BY <1>6, <2>2 DEF StoreZero, ReadRate, ScanShard, EndScan, StoreSession, Abandon,
                    CountCall, CountRate, StrayEnd, UncountCall, Ask, End, TypeOK
    <2> QED
        BY <1>0, <1>1, <2>1, <2>2
<1> QED
    BY <1>2, <1>3, <1>5, <1>6 DEF Next

LEMMA BudgetKept == TypeOK /\ RateInv /\ [Next]_vars /\ Rate > 0 => InBudget'
<1> SUFFICES ASSUME TypeOK, RateInv, [Next]_vars, Rate > 0 PROVE InBudget'
    OBVIOUS
<1> USE DEF Go, Leave, Read, counters
<1>0. ClockOK /\ InBudget
    BY DEF RateInv
<1>1. CASE Tick
    BY <1>1, TickingStep
<1>2. ASSUME NEW t \in Threads, Exchange(t) PROVE InBudget'
    <2>1. CASE Exchanged(t)
        BY <1>0, <1>2, <2>1, WinningStep DEF Exchange
    <2>2. CASE Go(t, "rate") /\ UNCHANGED lastReset
        <3>1. /\ Wiping' = Wiping /\ Late' \subseteq Late /\ Passed' = Passed
              /\ UNCHANGED <<now, lastReset, rate, second>>
            BY <1>2, <2>2 DEF Exchange, Wiping, Late, Passed, TypeOK
        <3> QED
            BY <1>0, <3>1, LosingStep
    <2> QED
        BY <1>2, <2>1, <2>2 DEF Exchange
<1>3. ASSUME NEW t \in Threads, StoreZero(t) \/ CountRate(t) PROVE InBudget'
    BY <1>0, <1>3, WipingStep, CountingStep
<1>4. ASSUME NEW t \in Threads, ReadReset(t) \/ ReadRate(t)
      PROVE  InBudget'
    <2>1. /\ Wiping' = Wiping /\ Late' = Late
          /\ UNCHANGED <<now, lastReset, rate, second>>
          /\ Passed' \subseteq Passed \/ rate < Rate
        <3>1. CASE ReadReset(t)
            BY <3>1 DEF ReadReset, Wiping, Late, Passed, TypeOK
        <3>2. CASE ReadRate(t)
            BY <3>2, AdmissionAssumption DEF ReadRate, Wiping, Late, Passed, TypeOK
        <3> QED
            BY <1>4, <3>1, <3>2
    <2> QED
        BY <1>0, <2>1, PassingStep
<1>5. ASSUME NEW t \in Threads,
             ScanShard(t) \/ EndScan(t) \/ StoreSession(t) \/ Abandon(t) \/ CountCall(t)
                \/ StrayEnd(t) \/ UncountCall(t) \/ \E c \in Calls : Ask(t, c) \/ End(t, c)
      PROVE  InBudget'
    <2>1. UNCHANGED <<now, lastReset, rate, second>>
        BY <1>5 DEF ScanShard, EndScan, StoreSession, Abandon, CountCall, StrayEnd, UncountCall,
                    Ask, End
    <2>2. Wiping' = Wiping /\ Late' = Late
        BY <1>5, <2>1 DEF ScanShard, EndScan, StoreSession, Abandon, CountCall, StrayEnd,
                    UncountCall, Ask, End, Wiping, Late, TypeOK
    <2>3. Passed' \subseteq Passed
        BY <1>5 DEF ScanShard, EndScan, StoreSession, Abandon, CountCall, StrayEnd, UncountCall,
                    Ask, End, Passed, TypeOK
    <2> QED
        BY <1>0, <2>1, <2>2, <2>3, PassingStep
<1>6. CASE UNCHANGED vars
    BY <1>0, <1>6 DEF vars, InBudget, Wiping, Late, Passed, OneMore
<1> QED
    BY <1>1, <1>2, <1>3, <1>4, <1>5, <1>6 DEF Next

LEMMA LaterIsNat == ASSUME NEW f \in 0..Size PROVE Later(f) \in Nat
<1> DEFINE n == Size
<1>1. n \in Nat /\ Rate \in Nat /\ f \in Nat /\ f <= n
    BY SizeTyped, AdmissionAssumption
<1>2. Later(f) = 2 * ((n - f) * Rate) + (n * (n - 1) - f * (f - 1))
    BY DEF Later, n
<1> HIDE DEF n
<1>3. (n - f) * Rate \in Nat
    BY <1>1
<1>4. n * (n - 1) - f * (f - 1) = (n - f) * (n + f - 1)
    BY <1>1
<1>5. (n - f) * (n + f - 1) \in Nat
    <2>1. CASE n = f
        BY <1>1, <2>1
    <2>2. CASE n # f
        BY <1>1, <2>2
    <2> QED
        BY <2>1, <2>2
<1> QED
    BY <1>2, <1>3, <1>4, <1>5

(* How far the calls of one second exceed the limit of the rate, however   *)
(* long the threads that wipe it out have been delayed (call_control.rs,   *)
(* lines 139-147; termination_routing.rs, lines 353-360).                  *)
THEOREM RateIsKept == Spec => []RateKept
<1>1. TypeOK /\ RateInv => RateKept
    <2> SUFFICES ASSUME TypeOK, InBudget, Rate > 0
                 PROVE  second <= (Size + 1) * Rate + ((Size - 1) * (Size + 2)) \div 2
        BY DEF RateInv, RateKept, Size
    <2> DEFINE f == Spare(Wiping, Late)
               c == Cardinality(Passed)
               A == (Size + 1) * Rate
               B == (Size - 1) * (Size + 2)
    <2>1. f \in 0..Size /\ c \in 0..f /\ rate \in Nat /\ second \in Nat
        BY SpareNow DEF TypeOK
    <2>2. Room(f, c, rate) \in Nat /\ Later(f) \in Nat /\ OneMore \in Nat
        BY <2>1, RoomTyped, LaterIsNat, OneMoreTyped
    <2>3. A \in Int /\ B \in Int
        BY OneMoreTyped
    <2>4. 2 * second + 2 * Room(f, c, rate) + Later(f) + 2 * OneMore <= 2 * A + B
        BY DEF InBudget, Budget, Bound
    <2> HIDE DEF f, c, A, B
    <2>5. 2 * second <= 2 * A + B
        BY <2>1, <2>2, <2>3, <2>4
    <2>6. second <= A + B \div 2
        BY <2>1, <2>3, <2>5
    <2> QED
        BY <2>6 DEF A, B
<1>2. Spec => []RateInv
    <2>1. AdmissionInv => TypeOK
        BY DEF AdmissionInv, Shape
    <2>2. TypeOK /\ RateInv /\ [Next]_vars => RateInv'
        BY ClockKept, BudgetKept DEF RateInv
    <2> QED
        BY <2>1, <2>2, InitRate, AdmissionInvariant, PTL DEF Spec
<1>3. AdmissionInv => TypeOK
    BY DEF AdmissionInv, Shape
<1> QED
    BY <1>1, <1>2, <1>3, AdmissionInvariant, PTL
=============================================================================
