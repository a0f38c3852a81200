------------------------ MODULE RouteAdvancementProofs ------------------------
(***************************************************************************)
(* Proofs about RouteAdvancement, for every set of calls and trunks, every *)
(* limit, every offer of the LCR engine and every number of attempts.      *)
(***************************************************************************)
EXTENDS RouteAdvancement, FiniteSetTheorems, SequenceTheorems, TLAPS

(***************************************************************************)
(* The inductive invariant                                                 *)
(***************************************************************************)

Routed(c) == routing[c] # None /\ routing[c].current # None

\* Only a call whose last word was a route has one, and a call that has not
\* been started has neither a state nor a past.
ToldMatches ==
    \A c \in Calls :
        /\ told[c] = None => routing[c] = None /\ tried[c] = <<>>
        /\ Routed(c) => told[c] = "RouteToNext"

\* The service counts every call that is routed to a trunk, and counts none
\* beyond the limit.
LoadCovers ==
    \A t \in Trunks : Cardinality(RoutedTo(t)) <= load[t] /\ load[t] <= Limit[t]

RoutingInv ==
    /\ TypeOK /\ RecordMatches /\ NoTrunkTwice /\ AttemptsBounded
    /\ ToldMatches /\ LoadCovers

-----------------------------------------------------------------------------
(***************************************************************************)
(* What an operation of the service and of the engine does                 *)
(***************************************************************************)

\* A route that is found goes to a trunk below its limit and counts the call
\* there, and the attempt is not the last.
LEMMA RouteFoundFacts ==
    ASSUME TypeOK, NEW t \in Trunks, NEW failed, NEW n \in Nat, RouteFound(n, failed, t)
    PROVE  /\ n < MaxAttempts
           /\ load[t] < Limit[t]
           /\ load' = [load EXCEPT ![t] = @ + 1]
           /\ load' \in [Trunks -> Nat]
  <1>1. n < MaxAttempts /\ load' = [load EXCEPT ![t] = @ + 1]
    BY DEF RouteFound
  <1>2. load[t] < Limit[t]
    BY DEF RouteFound, Selects, Selectable
  <1>3. load' \in [Trunks -> Nat]
    BY <1>1 DEF TypeOK
  <1> QED
    BY <1>1, <1>2, <1>3

LEMMA CodeKept ==
    ASSUME TypeOK, NEW c \in Calls, NEW k \in Codes, Responds(c, k)
    PROVE  code' \in [Calls -> Codes \cup {None}]
  BY DEF Responds, TypeOK

\* A failure comes to a call with a state and a trunk, and the failed attempt it
\* adds is one of that trunk.
LEMMA RespondsFacts ==
    ASSUME TypeOK, NEW c \in Calls, NEW k \in Codes, Responds(c, k), Advances(k)
    PROVE  /\ Routed(c)
           /\ routing[c] \in States
           /\ routing[c].current \in Trunks
           /\ Failures(c, k) \in FailedAttempts
           /\ Len(Failures(c, k)) = Len(routing[c].failed) + 1
           /\ \A i \in 1..Len(routing[c].failed) : Failures(c, k)[i] = routing[c].failed[i]
           /\ Failures(c, k)[Len(routing[c].failed) + 1]
                = [trunk |-> routing[c].current, code |-> k]
  <1>1. Routed(c)
    <2>1. k >= 300
      BY RoutingAssumption DEF Advances, NamedCodes, StopCodes
    <2> QED
      BY <2>1 DEF Responds, Routed
  <1>2. routing[c] \in States
    BY <1>1 DEF TypeOK, Routed
  <1>3. routing[c].current \in Trunks /\ routing[c].failed \in FailedAttempts
    BY <1>1, <1>2 DEF States, Routed
  <1>4. [trunk |-> routing[c].current, code |-> k] \in [trunk : Trunks, code : Codes]
    BY <1>3
  <1>5. /\ Failures(c, k) \in FailedAttempts
        /\ Len(Failures(c, k)) = Len(routing[c].failed) + 1
        /\ \A i \in 1..Len(routing[c].failed) : Failures(c, k)[i] = routing[c].failed[i]
        /\ Failures(c, k)[Len(routing[c].failed) + 1]
             = [trunk |-> routing[c].current, code |-> k]
    BY <1>3, <1>4, AppendProperties DEF Failures, FailedAttempts
  <1> QED
    BY <1>1, <1>2, <1>3, <1>5

\* Under the invariant, the trunks that have failed a call once it gets a
\* response are all it was ever told to use.
LEMMA FailedAreTried ==
    ASSUME TypeOK, RecordMatches, NEW c \in Calls, NEW k \in Codes, Responds(c, k), Advances(k)
    PROVE  /\ tried[c] \in Seq(Trunks)
           /\ Len(tried[c]) = Len(routing[c].failed) + 1
           /\ routing[c].attempt = Len(tried[c])
           /\ \A i \in 1..Len(tried[c]) : Failures(c, k)[i].trunk = tried[c][i]
           /\ \A i \in 1..Len(tried[c]) : tried[c][i] \in FailedTrunks(Failures(c, k))
  <1>1. tried[c] \in Seq(Trunks)
    BY DEF TypeOK
  <1>2. Len(tried[c]) \in Nat /\ routing[c] \in States
    BY <1>1, RespondsFacts, LenProperties
  <1>3. Len(routing[c].failed) \in Nat
    BY <1>2, LenProperties DEF States, FailedAttempts
  <1>4. /\ routing[c].attempt = Len(tried[c])
        /\ routing[c].attempt = Len(routing[c].failed) + 1
        /\ routing[c].current = tried[c][Len(tried[c])]
        /\ \A i \in 1..Len(routing[c].failed) : routing[c].failed[i].trunk = tried[c][i]
    BY RespondsFacts DEF RecordMatches, Routed
  <1>5. \A i \in 1..Len(tried[c]) : Failures(c, k)[i].trunk = tried[c][i]
    <2> SUFFICES ASSUME NEW i \in 1..Len(tried[c])
                 PROVE  Failures(c, k)[i].trunk = tried[c][i]
      OBVIOUS
    <2>1. CASE i = Len(tried[c])
      <3>1. i = Len(routing[c].failed) + 1 /\ routing[c].current = tried[c][i]
        BY <2>1, <1>4
      <3>2. Failures(c, k)[Len(routing[c].failed) + 1]
              = [trunk |-> routing[c].current, code |-> k]
        BY RespondsFacts
      <3>3. Failures(c, k)[Len(routing[c].failed) + 1].trunk = routing[c].current
        BY <3>2
      <3> QED
        BY <3>1, <3>3
    <2>2. CASE i # Len(tried[c])
      <3>1. i \in 1..Len(routing[c].failed)
        BY <2>2, <1>2, <1>3, <1>4
      <3> QED
        BY <3>1, <1>4, RespondsFacts
    <2> QED
      BY <2>1, <2>2
  <1>6. Len(Failures(c, k)) = Len(tried[c])
    BY <1>4, RespondsFacts
  <1> QED
    BY <1>1, <1>4, <1>5, <1>6 DEF FailedTrunks

-----------------------------------------------------------------------------
(***************************************************************************)
(* Two kinds of steps.  A step either sends one call to one more trunk, or *)
(* takes the routes of some calls away.                                    *)
(***************************************************************************)

\* Call c, new or on another trunk, is sent to trunk t, which the service has
\* just counted.
Sends(c, t) ==
    /\ told[c] = None \/ Routed(c)
    /\ load[t] < Limit[t]
    /\ load' = [load EXCEPT ![t] = @ + 1]
    /\ tried' = [tried EXCEPT ![c] = Append(@, t)]
    /\ told' = [told EXCEPT ![c] = "RouteToNext"]
    /\ Len(tried[c]) + 1 < MaxAttempts
    /\ \A i \in 1..Len(tried[c]) : tried[c][i] # t
    /\ \E failed \in FailedAttempts :
          /\ routing' = [routing EXCEPT ![c] = [attempt |-> Len(tried[c]) + 1,
                                                failed |-> failed, current |-> t]]
          /\ Len(failed) = Len(tried[c])
          /\ \A i \in 1..Len(failed) :
                failed[i].trunk = tried[c][i] /\ Advances(failed[i].code)

\* Every call keeps its state or is left without a route, and is told so; no
\* trunk is given a call, though the service may count one.
Withdraws ==
    /\ UNCHANGED tried
    /\ routing' \in [Calls -> States \cup {None}]
    /\ \A c \in Calls : Routed(c)' => routing'[c] = routing[c] /\ told'[c] = told[c]
    /\ \A c \in Calls : told'[c] = None => told[c] = None /\ (routing'[c] = None)
    /\ load' \in [Trunks -> Nat]
    /\ \A t \in Trunks : load[t] <= load'[t] /\ (load'[t] <= Limit[t] \/ load'[t] = load[t])

LEMMA StartRoutedSends ==
    ASSUME RoutingInv, NEW c \in Calls, StartRouted(c)
    PROVE  \E t \in Trunks : Sends(c, t)
  <1>1. TypeOK /\ told[c] = None /\ tried[c] = <<>>
    BY DEF RoutingInv, StartRouted, Fresh, ToldMatches
  <1>2. PICK t \in Trunks :
            /\ RouteFound(1, <<>>, t)
            /\ routing' = [routing EXCEPT ![c] = [attempt |-> 1, failed |-> <<>>, current |-> t]]
            /\ TellRoute(c, t)
    BY DEF StartRouted
  <1>3. Len(tried[c]) = 0 /\ <<>> \in FailedAttempts /\ Len(<<>>) = 0
    BY <1>1 DEF FailedAttempts
  <1>4. 1 < MaxAttempts /\ load[t] < Limit[t] /\ load' = [load EXCEPT ![t] = @ + 1]
    BY <1>1, <1>2, RouteFoundFacts
  <1>5. Len(tried[c]) + 1 = 1
    BY <1>3
  <1>6. /\ routing' = [routing EXCEPT ![c] = [attempt |-> Len(tried[c]) + 1,
                                              failed |-> <<>>, current |-> t]]
        /\ tried' = [tried EXCEPT ![c] = Append(@, t)]
        /\ told' = [told EXCEPT ![c] = "RouteToNext"]
    BY <1>2, <1>5 DEF TellRoute, Tell
  <1>7. \A i \in 1..0 : FALSE
    OBVIOUS
  <1>8. \E failed \in FailedAttempts :
            /\ routing' = [routing EXCEPT ![c] = [attempt |-> Len(tried[c]) + 1,
                                                  failed |-> failed, current |-> t]]
            /\ Len(failed) = Len(tried[c])
            /\ \A i \in 1..Len(failed) :
                  failed[i].trunk = tried[c][i] /\ Advances(failed[i].code)
    <2>1. \A i \in 1..Len(<<>>) : <<>>[i].trunk = tried[c][i] /\ Advances(<<>>[i].code)
      BY <1>3, <1>7
    <2>2. Len(<<>>) = Len(tried[c])
      BY <1>3
    <2> QED
      BY <1>3, <1>6, <2>1, <2>2
  <1> QED
    BY <1>1, <1>3, <1>4, <1>5, <1>6, <1>7, <1>8 DEF Sends

LEMMA AdvanceSends ==
    ASSUME RoutingInv, NEW c \in Calls, NEW k \in Codes, Advance(c, k)
    PROVE  \E t \in Trunks : Sends(c, t)
  <1>1. TypeOK /\ RecordMatches /\ Responds(c, k) /\ Advances(k)
    BY DEF RoutingInv, Advance
  <1>2. PICK t \in Trunks :
            /\ RouteFound(routing[c].attempt + 1, Failures(c, k), t)
            /\ t \notin FailedTrunks(Failures(c, k))
            /\ routing' = [routing EXCEPT ![c] = [attempt |-> @.attempt + 1,
                                                  failed |-> Failures(c, k), current |-> t]]
            /\ TellRoute(c, t)
    BY DEF Advance
  <1>3. /\ Len(tried[c]) \in Nat
        /\ routing[c].attempt = Len(tried[c])
        /\ Len(Failures(c, k)) = Len(tried[c])
        /\ Len(tried[c]) = Len(routing[c].failed) + 1
    BY <1>1, RespondsFacts, FailedAreTried, LenProperties
  <1>4. /\ routing[c].attempt + 1 < MaxAttempts /\ load[t] < Limit[t]
        /\ load' = [load EXCEPT ![t] = @ + 1]
    BY <1>1, <1>2, <1>3, RouteFoundFacts
  <1>5. \A i \in 1..Len(tried[c]) : tried[c][i] # t
    BY <1>1, <1>2, FailedAreTried
  <1>6. Failures(c, k) \in FailedAttempts
    BY <1>1, RespondsFacts
  <1>7. \A i \in 1..Len(Failures(c, k)) :
            /\ Failures(c, k)[i].trunk = tried[c][i]
            /\ Advances(Failures(c, k)[i].code)
    <2> SUFFICES ASSUME NEW i \in 1..Len(Failures(c, k))
                 PROVE  Advances(Failures(c, k)[i].code)
      BY <1>1, <1>3, FailedAreTried
    <2>1. CASE i = Len(tried[c])
      <3>1. i = Len(routing[c].failed) + 1
        BY <2>1, <1>3
      <3>2. Failures(c, k)[Len(routing[c].failed) + 1]
              = [trunk |-> routing[c].current, code |-> k]
        BY <1>1, RespondsFacts
      <3>3. Failures(c, k)[Len(routing[c].failed) + 1].code = k
        BY <3>2
      <3> QED
        BY <3>1, <3>3, <1>1
    <2>2. CASE i # Len(tried[c])
      <3>1. i \in 1..Len(routing[c].failed)
        <4>1. Len(routing[c].failed) \in Nat
          BY <1>1, RespondsFacts, LenProperties DEF States, FailedAttempts
        <4> QED
          BY <4>1, <2>2, <1>3
      <3>2. Advances(routing[c].failed[i].code)
        BY <3>1, <1>1, RespondsFacts DEF RecordMatches, Routed
      <3> QED
        BY <3>1, <3>2, <1>1, RespondsFacts
    <2> QED
      BY <2>1, <2>2
  <1>8. routing' = [routing EXCEPT ![c] = [attempt |-> Len(tried[c]) + 1,
                                           failed |-> Failures(c, k), current |-> t]]
    BY <1>2, <1>3
  <1>9. Routed(c)
    BY <1>1, RespondsFacts
  <1> QED
    BY <1>2, <1>3, <1>4, <1>5, <1>6, <1>7, <1>8, <1>9 DEF Sends, TellRoute, Tell

\* Each of the other actions withdraws.
LEMMA CompleteWithdraws ==
    ASSUME RoutingInv, NEW c \in Calls, NEW a \in Actions, Complete(c, a),
           load' \in [Trunks -> Nat],
           \A t \in Trunks : load[t] <= load'[t] /\ (load'[t] <= Limit[t] \/ load'[t] = load[t])
    PROVE  Withdraws
  <1>1. /\ routing \in [Calls -> States \cup {None}] /\ told \in [Calls -> Actions \cup {None}]
        /\ routing' = [routing EXCEPT ![c] = None] /\ told' = [told EXCEPT ![c] = a]
        /\ UNCHANGED tried
    BY DEF RoutingInv, TypeOK, Complete, Tell
  <1>2. routing' \in [Calls -> States \cup {None}]
    BY <1>1
  <1>3. \A d \in Calls : Routed(d)' => routing'[d] = routing[d] /\ told'[d] = told[d]
    BY <1>1 DEF Routed
  <1>4. a # None
    BY RoutingAssumption
  <1>5. \A d \in Calls : told'[d] = None => told[d] = None /\ routing'[d] = None
    BY <1>1, <1>4 DEF RoutingInv, ToldMatches
  <1> QED
    BY <1>1, <1>2, <1>3, <1>5 DEF Withdraws

\* A load that is left alone, and one to which the service adds a call.
LEMMA LoadKept ==
    ASSUME TypeOK, UNCHANGED load
    PROVE  /\ load' \in [Trunks -> Nat]
           /\ \A t \in Trunks :
                 load[t] <= load'[t] /\ (load'[t] <= Limit[t] \/ load'[t] = load[t])
  BY DEF TypeOK

LEMMA LoadAdded ==
    ASSUME TypeOK, NEW t \in Trunks, load[t] < Limit[t], load' = [load EXCEPT ![t] = @ + 1]
    PROVE  /\ load' \in [Trunks -> Nat]
           /\ \A u \in Trunks :
                 load[u] <= load'[u] /\ (load'[u] <= Limit[u] \/ load'[u] = load[u])
  <1>1. load \in [Trunks -> Nat] /\ Limit \in [Trunks -> Nat]
    BY RoutingAssumption DEF TypeOK
  <1> QED
    BY <1>1

LEMMA StartRejectedWithdraws ==
    ASSUME RoutingInv, NEW c \in Calls, StartRejected(c)
    PROVE  Withdraws
  <1>1. TypeOK /\ UNCHANGED load /\ UNCHANGED tried
    BY DEF RoutingInv, StartRejected, RouteMissing
  <1>2. /\ routing' = [routing EXCEPT ![c] = [attempt |-> 1, failed |-> <<>>, current |-> None]]
        /\ told' = [told EXCEPT ![c] = "RejectCall"]
    BY DEF StartRejected, Tell
  <1>3. [attempt |-> 1, failed |-> <<>>, current |-> None] \in States
    BY DEF States, FailedAttempts
  <1>4. routing' \in [Calls -> States \cup {None}]
    BY <1>1, <1>2, <1>3 DEF TypeOK
  <1>5. \A d \in Calls : Routed(d)' => routing'[d] = routing[d] /\ told'[d] = told[d]
    BY <1>1, <1>2 DEF Routed, TypeOK
  <1>6. "RejectCall" # None
    BY RoutingAssumption DEF Actions
  <1>7. \A d \in Calls : told'[d] = None => told[d] = None /\ routing'[d] = None
    BY <1>1, <1>2, <1>6 DEF TypeOK, RoutingInv, ToldMatches
  <1> QED
    BY <1>1, <1>4, <1>5, <1>7, LoadKept DEF Withdraws

LEMMA FinalResponseWithdraws ==
    ASSUME RoutingInv, NEW c \in Calls, NEW k \in Codes, FinalResponse(c, k)
    PROVE  Withdraws
  <1>1. TypeOK /\ UNCHANGED load /\ Complete(c, "CompleteCall") /\ "CompleteCall" \in Actions
    BY DEF RoutingInv, FinalResponse, Actions
  <1> QED
    BY <1>1, LoadKept, CompleteWithdraws

LEMMA SkipFailedWithdraws ==
    ASSUME RoutingInv, NEW c \in Calls, NEW k \in Codes, SkipFailed(c, k)
    PROVE  Withdraws
  <1>1. /\ TypeOK /\ RecordMatches /\ Responds(c, k) /\ Advances(k)
        /\ Complete(c, "RejectCall") /\ "RejectCall" \in Actions
    BY DEF RoutingInv, SkipFailed, Actions
  <1>2. PICK t \in FailedTrunks(Failures(c, k)) :
            RouteFound(routing[c].attempt + 1, Failures(c, k), t)
    BY DEF SkipFailed
  <1>3. t \in Trunks
    <2>1. Failures(c, k) \in Seq([trunk : Trunks, code : Codes])
      BY <1>1, RespondsFacts DEF FailedAttempts
    <2>2. PICK i \in 1..Len(Failures(c, k)) : t = Failures(c, k)[i].trunk
      BY DEF FailedTrunks
    <2>3. Failures(c, k)[i] \in [trunk : Trunks, code : Codes]
      BY <2>1, <2>2, ElementOfSeq
    <2> QED
      BY <2>2, <2>3
  <1>4. routing[c].attempt + 1 \in Nat
    <2>1. routing[c] \in States
      BY <1>1, RespondsFacts
    <2>2. routing[c].attempt \in Nat
      BY <2>1 DEF States
    <2> QED
      BY <2>2
  <1>5. load[t] < Limit[t] /\ load' = [load EXCEPT ![t] = @ + 1]
    BY <1>1, <1>2, <1>3, <1>4, RouteFoundFacts
  <1> QED
    BY <1>1, <1>3, <1>5, LoadAdded, CompleteWithdraws

LEMMA NoRouteWithdraws ==
    ASSUME RoutingInv, NEW c \in Calls, NEW k \in Codes, NoRoute(c, k)
    PROVE  Withdraws
  <1>1. TypeOK /\ UNCHANGED load /\ Complete(c, "RejectCall") /\ "RejectCall" \in Actions
    BY DEF RoutingInv, NoRoute, RouteMissing, Actions
  <1> QED
    BY <1>1, LoadKept, CompleteWithdraws

LEMMA CleanupWithdraws ==
    ASSUME RoutingInv, CleanupExpired
    PROVE  Withdraws
  <1>1. TypeOK /\ UNCHANGED <<load, tried, told>>
    BY DEF RoutingInv, CleanupExpired
  <1>2. PICK old \in SUBSET {c \in Calls : routing[c] # None} :
            routing' = [c \in Calls |-> IF c \in old THEN None ELSE routing[c]]
    BY DEF CleanupExpired
  <1>3. routing' \in [Calls -> States \cup {None}]
    BY <1>1, <1>2 DEF TypeOK
  <1>4. \A d \in Calls : routing'[d] = routing[d] \/ routing'[d] = None
    BY <1>2
  <1>5. \A d \in Calls : Routed(d)' => routing'[d] = routing[d] /\ told'[d] = told[d]
    BY <1>1, <1>4 DEF Routed
  <1>6. \A d \in Calls : told'[d] = None => told[d] = None /\ routing'[d] = None
    BY <1>1, <1>4 DEF RoutingInv, ToldMatches
  <1> QED
    BY <1>1, <1>3, <1>5, <1>6, LoadKept DEF Withdraws

-----------------------------------------------------------------------------
(***************************************************************************)
(* The invariant is inductive                                              *)
(***************************************************************************)

\* Every step sends, withdraws, or does nothing the invariant is about.
LEMMA StepKinds ==
    ASSUME RoutingInv, [Next]_vars
    PROVE  /\ \/ \E c \in Calls, t \in Trunks : Sends(c, t)
              \/ Withdraws
              \/ UNCHANGED vars
           /\ code' \in [Calls -> Codes \cup {None}]
  <1>1. TypeOK
    BY DEF RoutingInv
  <1>2. ASSUME NEW c \in Calls, StartRouted(c) \/ StartRejected(c)
        PROVE  UNCHANGED code /\ (Withdraws \/ \E t \in Trunks : Sends(c, t))
    BY <1>2, StartRoutedSends, StartRejectedWithdraws DEF StartRouted, StartRejected
  <1>3. ASSUME NEW c \in Calls, NEW k \in Codes,
               FinalResponse(c, k) \/ Advance(c, k) \/ SkipFailed(c, k) \/ NoRoute(c, k)
        PROVE  Responds(c, k) /\ (Withdraws \/ \E t \in Trunks : Sends(c, t))
    <2>1. Responds(c, k)
      BY <1>3 DEF FinalResponse, Advance, SkipFailed, NoRoute
    <2>2. CASE Advance(c, k)
      BY <2>1, <2>2, AdvanceSends
    <2>3. CASE ~Advance(c, k)
      BY <1>3, <2>1, <2>3, FinalResponseWithdraws, SkipFailedWithdraws, NoRouteWithdraws
    <2> QED
      BY <2>2, <2>3
  <1>4. CASE CleanupExpired
    BY <1>1, <1>4, CleanupWithdraws DEF CleanupExpired, TypeOK
  <1>5. CASE UNCHANGED vars
    BY <1>1, <1>5 DEF vars, TypeOK
  <1>6. CASE \E c \in Calls : StartRouted(c) \/ StartRejected(c)
    BY <1>1, <1>2, <1>6 DEF TypeOK
  <1>7. CASE \E c \in Calls, k \in Codes :
                FinalResponse(c, k) \/ Advance(c, k) \/ SkipFailed(c, k) \/ NoRoute(c, k)
    <2>1. PICK c \in Calls, k \in Codes :
              FinalResponse(c, k) \/ Advance(c, k) \/ SkipFailed(c, k) \/ NoRoute(c, k)
      BY <1>7
    <2>2. Responds(c, k) /\ (Withdraws \/ \E t \in Trunks : Sends(c, t))
      BY <2>1, <1>3
    <2>3. code' \in [Calls -> Codes \cup {None}]
      BY <1>1, <2>2, CodeKept
    <2> QED
      BY <2>2, <2>3
  <1> QED
    BY <1>4, <1>5, <1>6, <1>7 DEF Next

LEMMA SendsKeepsInv ==
    ASSUME RoutingInv, NEW c \in Calls, NEW t \in Trunks, Sends(c, t),
           code' \in [Calls -> Codes \cup {None}]
    PROVE  RoutingInv'
  <1>1. /\ TypeOK /\ RecordMatches /\ NoTrunkTwice /\ AttemptsBounded
        /\ ToldMatches /\ LoadCovers
    BY DEF RoutingInv
  <1>2. PICK failed \in FailedAttempts :
            /\ routing' = [routing EXCEPT ![c] = [attempt |-> Len(tried[c]) + 1,
                                                  failed |-> failed, current |-> t]]
            /\ Len(failed) = Len(tried[c])
            /\ \A i \in 1..Len(failed) :
                  failed[i].trunk = tried[c][i] /\ Advances(failed[i].code)
    BY DEF Sends
  <1>3. PICK n \in Nat : n = Len(tried[c])
    BY <1>1, LenProperties DEF TypeOK
  <1>4. PICK state \in States :
            /\ state = [attempt |-> n + 1, failed |-> failed, current |-> t]
            /\ state.attempt = n + 1 /\ state.failed = failed /\ state.current = t
            /\ routing' = [routing EXCEPT ![c] = state]
    <2>1. [attempt |-> n + 1, failed |-> failed, current |-> t] \in States
      BY <1>2, <1>3 DEF States
    <2> QED
      BY <1>2, <1>3, <2>1
  <1>5. PICK past \in Seq(Trunks) :
            /\ past = Append(tried[c], t)
            /\ tried' = [tried EXCEPT ![c] = past]
            /\ Len(past) = n + 1 /\ past[n + 1] = t
            /\ \A i \in 1..n : past[i] = tried[c][i]
    <2>1. tried[c] \in Seq(Trunks)
      BY <1>1 DEF TypeOK
    <2>2. tried' = [tried EXCEPT ![c] = Append(tried[c], t)]
      BY DEF Sends
    <2>3. /\ Append(tried[c], t) \in Seq(Trunks)
          /\ Len(Append(tried[c], t)) = Len(tried[c]) + 1
          /\ \A i \in 1..Len(tried[c]) : Append(tried[c], t)[i] = tried[c][i]
          /\ Append(tried[c], t)[Len(tried[c]) + 1] = t
      BY <2>1, AppendProperties
    <2> QED
      BY <1>3, <2>2, <2>3
  <1>6. /\ routing'[c] = state /\ tried'[c] = past /\ told'[c] = "RouteToNext"
        /\ \A d \in Calls : d # c => routing'[d] = routing[d] /\ tried'[d] = tried[d]
                                                          /\ told'[d] = told[d]
        /\ routing' \in [Calls -> States \cup {None}]
        /\ tried' \in [Calls -> Seq(Trunks)]
        /\ told' \in [Calls -> Actions \cup {None}]
    BY <1>1, <1>4, <1>5 DEF TypeOK, Sends, Actions
  <1>7. TypeOK'
    <2>1. load' \in [Trunks -> Nat]
      BY <1>1, LoadAdded DEF Sends
    <2> QED
      BY <1>6, <2>1 DEF TypeOK
  <1>8. RecordMatches'
    <2> SUFFICES ASSUME NEW d \in Calls, routing'[d] # None, routing'[d].current # None
                 PROVE  /\ routing'[d].attempt = Len(tried'[d])
                        /\ routing'[d].attempt = Len(routing'[d].failed) + 1
                        /\ routing'[d].current = tried'[d][Len(tried'[d])]
                        /\ \A i \in 1..Len(routing'[d].failed) :
                              /\ routing'[d].failed[i].trunk = tried'[d][i]
                              /\ Advances(routing'[d].failed[i].code)
      BY DEF RecordMatches
    <2>1. CASE d = c
      BY <2>1, <1>2, <1>3, <1>4, <1>5, <1>6
    <2>2. CASE d # c
      <3>1. routing'[d] = routing[d] /\ tried'[d] = tried[d]
        BY <2>2, <1>6
      <3>2. routing[d] # None /\ routing[d].current # None
        BY <3>1
      <3>3. /\ routing[d].attempt = Len(tried[d])
            /\ routing[d].attempt = Len(routing[d].failed) + 1
            /\ routing[d].current = tried[d][Len(tried[d])]
            /\ \A i \in 1..Len(routing[d].failed) :
                  /\ routing[d].failed[i].trunk = tried[d][i]
                  /\ Advances(routing[d].failed[i].code)
        BY <3>2, <1>1 DEF RecordMatches
      <3> QED
        BY <3>1, <3>3
    <2> QED
      BY <2>1, <2>2
  <1>9. NoTrunkTwice'
    <2> SUFFICES ASSUME NEW d \in Calls, NEW i \in 1..Len(tried'[d]), NEW j \in 1..Len(tried'[d]),
                        tried'[d][i] = tried'[d][j]
                 PROVE  i = j
      BY DEF NoTrunkTwice
    <2>1. CASE d # c
      BY <2>1, <1>1, <1>6 DEF NoTrunkTwice
    <2>2. CASE d = c
      <3>1. i \in 1..(n + 1) /\ j \in 1..(n + 1) /\ past[i] = past[j]
        BY <2>2, <1>5, <1>6
      <3>2. \A m \in 1..n : past[m] = tried[c][m] /\ past[m] # t
        BY <1>3, <1>5 DEF Sends
      <3>3. CASE i = n + 1 \/ j = n + 1
        BY <3>1, <3>2, <3>3, <1>5
      <3>4. CASE i # n + 1 /\ j # n + 1
        <4>1. i \in 1..n /\ j \in 1..n
          BY <3>1, <3>4
        <4>2. tried[c][i] = tried[c][j]
          BY <3>1, <3>2, <4>1
        <4> QED
          BY <4>1, <4>2, <1>1, <1>3 DEF NoTrunkTwice
      <3> QED
        BY <3>3, <3>4
    <2> QED
      BY <2>1, <2>2
  <1>10. AttemptsBounded'
    <2>1. n + 1 < MaxAttempts
      BY <1>3 DEF Sends
    <2> QED
      BY <2>1, <1>1, <1>5, <1>6 DEF AttemptsBounded
  <1>11. ToldMatches'
    <2>1. "RouteToNext" # None
      BY RoutingAssumption DEF Actions
    <2> QED
      BY <2>1, <1>1, <1>6 DEF ToldMatches, Routed
  <1>12. LoadCovers'
    <2> SUFFICES ASSUME NEW u \in Trunks
                 PROVE  Cardinality(RoutedTo(u)') <= load'[u] /\ load'[u] <= Limit[u]
      BY DEF LoadCovers
    <2>1. /\ load[u] \in Nat /\ Limit[u] \in Nat
          /\ Cardinality(RoutedTo(u)) <= load[u] /\ load[u] <= Limit[u]
      BY <1>1, RoutingAssumption DEF LoadCovers, TypeOK
    <2>2. RoutedTo(u) \subseteq Calls /\ IsFiniteSet(RoutedTo(u))
      BY RoutingAssumption, FS_Subset DEF RoutedTo
    <2>3. Cardinality(RoutedTo(u)) \in Nat
      BY <2>2, FS_CardinalityType
    <2>4. CASE u = t
      <3>1. load'[u] = load[u] + 1 /\ load[u] < Limit[u]
        BY <2>4, <1>1 DEF Sends, TypeOK
      <3>2. RoutedTo(u)' \subseteq RoutedTo(u) \cup {c}
        BY <1>6 DEF RoutedTo
      <3>3. /\ IsFiniteSet(RoutedTo(u) \cup {c})
            /\ Cardinality(RoutedTo(u) \cup {c}) <= Cardinality(RoutedTo(u)) + 1
        <4>1. /\ IsFiniteSet(RoutedTo(u) \cup {c})
              /\ Cardinality(RoutedTo(u) \cup {c})
                   = IF c \in RoutedTo(u) THEN Cardinality(RoutedTo(u))
                                          ELSE Cardinality(RoutedTo(u)) + 1
          BY <2>2, FS_AddElement
        <4> QED
          BY <4>1, <2>3
      <3>4. /\ Cardinality(RoutedTo(u)') <= Cardinality(RoutedTo(u) \cup {c})
            /\ Cardinality(RoutedTo(u)') \in Nat /\ Cardinality(RoutedTo(u) \cup {c}) \in Nat
        BY <3>2, <3>3, FS_Subset, FS_CardinalityType
      <3> QED
        BY <3>1, <3>3, <3>4, <2>1, <2>3
    <2>5. CASE u # t
      <3>1. load'[u] = load[u]
        BY <2>5, <1>1 DEF Sends, TypeOK
      <3>2. RoutedTo(u)' \subseteq RoutedTo(u)
        BY <2>5, <1>4, <1>6 DEF RoutedTo
      <3>3. Cardinality(RoutedTo(u)') <= Cardinality(RoutedTo(u)) /\ Cardinality(RoutedTo(u)') \in Nat
        BY <3>2, <2>2, FS_Subset, FS_CardinalityType
      <3> QED
        BY <3>1, <3>3, <2>1, <2>3
    <2> QED
      BY <2>4, <2>5
  <1> QED
    BY <1>7, <1>8, <1>9, <1>10, <1>11, <1>12 DEF RoutingInv

LEMMA WithdrawsKeepsInv ==
    ASSUME RoutingInv, Withdraws, code' \in [Calls -> Codes \cup {None}],
           told' \in [Calls -> Actions \cup {None}]
    PROVE  RoutingInv'
  <1>1. /\ TypeOK /\ RecordMatches /\ NoTrunkTwice /\ AttemptsBounded
        /\ ToldMatches /\ LoadCovers
    BY DEF RoutingInv
  <1>2. tried' = tried
    BY DEF Withdraws
  <1>3. \A d \in Calls : routing'[d] # None /\ routing'[d].current # None
                             => /\ routing'[d] = routing[d] /\ told'[d] = told[d]
                                /\ routing[d] # None /\ routing[d].current # None
    BY DEF Withdraws, Routed
  <1>4. TypeOK'
    BY <1>1, <1>2 DEF TypeOK, Withdraws
  <1>5. RecordMatches'
    <2> SUFFICES ASSUME NEW d \in Calls, routing'[d] # None, routing'[d].current # None
                 PROVE  /\ routing'[d].attempt = Len(tried'[d])
                        /\ routing'[d].attempt = Len(routing'[d].failed) + 1
                        /\ routing'[d].current = tried'[d][Len(tried'[d])]
                        /\ \A i \in 1..Len(routing'[d].failed) :
                              /\ routing'[d].failed[i].trunk = tried'[d][i]
                              /\ Advances(routing'[d].failed[i].code)
      BY DEF RecordMatches
    <2>1. /\ routing[d].attempt = Len(tried[d])
          /\ routing[d].attempt = Len(routing[d].failed) + 1
          /\ routing[d].current = tried[d][Len(tried[d])]
          /\ \A i \in 1..Len(routing[d].failed) :
                /\ routing[d].failed[i].trunk = tried[d][i]
                /\ Advances(routing[d].failed[i].code)
      BY <1>1, <1>3 DEF RecordMatches
    <2> QED
      BY <2>1, <1>2, <1>3
  <1>6. NoTrunkTwice' /\ AttemptsBounded'
    BY <1>1, <1>2 DEF NoTrunkTwice, AttemptsBounded
  <1>7. ToldMatches'
    <2> SUFFICES ASSUME NEW d \in Calls
                 PROVE  /\ told'[d] = None => routing'[d] = None /\ tried'[d] = <<>>
                        /\ Routed(d)' => told'[d] = "RouteToNext"
      BY DEF ToldMatches
    <2>1. told'[d] = None => routing'[d] = None /\ tried'[d] = <<>>
      BY <1>1, <1>2 DEF Withdraws, ToldMatches
    <2>2. Routed(d)' => told'[d] = "RouteToNext"
      BY <1>1, <1>3 DEF Routed, ToldMatches
    <2> QED
      BY <2>1, <2>2
  <1>8. LoadCovers'
    <2> SUFFICES ASSUME NEW u \in Trunks
                 PROVE  Cardinality(RoutedTo(u)') <= load'[u] /\ load'[u] <= Limit[u]
      BY DEF LoadCovers
    <2>1. /\ load[u] \in Nat /\ load'[u] \in Nat /\ Limit[u] \in Nat
          /\ Cardinality(RoutedTo(u)) <= load[u] /\ load[u] <= Limit[u]
      BY <1>1, <1>4, RoutingAssumption DEF LoadCovers, TypeOK
    <2>2. load[u] <= load'[u] /\ (load'[u] <= Limit[u] \/ load'[u] = load[u])
      BY DEF Withdraws
    <2>3. RoutedTo(u)' \subseteq RoutedTo(u)
      <3>1. u # None
        BY RoutingAssumption
      <3> QED
        BY <3>1, <1>3 DEF RoutedTo
    <2>4. IsFiniteSet(RoutedTo(u))
      BY RoutingAssumption, FS_Subset DEF RoutedTo
    <2>5. /\ Cardinality(RoutedTo(u)') <= Cardinality(RoutedTo(u))
          /\ Cardinality(RoutedTo(u)') \in Nat /\ Cardinality(RoutedTo(u)) \in Nat
      BY <2>3, <2>4, FS_Subset, FS_CardinalityType
    <2> QED
      BY <2>1, <2>2, <2>5
  <1> QED
    BY <1>4, <1>5, <1>6, <1>7, <1>8 DEF RoutingInv

LEMMA NextKeepsInv == RoutingInv /\ [Next]_vars => RoutingInv'
  <1> SUFFICES ASSUME RoutingInv, [Next]_vars
               PROVE  RoutingInv'
    OBVIOUS
  <1>1. TypeOK /\ told \in [Calls -> Actions \cup {None}]
    BY DEF RoutingInv, TypeOK
  <1>2. code' \in [Calls -> Codes \cup {None}]
    BY StepKinds
  <1>3. told' \in [Calls -> Actions \cup {None}]
    BY <1>1 DEF Next, vars, StartRouted, StartRejected, FinalResponse, Advance, SkipFailed,
                NoRoute, CleanupExpired, Complete, TellRoute, Tell, Actions
  <1>4. CASE \E c \in Calls, t \in Trunks : Sends(c, t)
    BY <1>2, <1>4, SendsKeepsInv
  <1>5. CASE Withdraws
    BY <1>2, <1>3, <1>5, WithdrawsKeepsInv
  <1>6. CASE UNCHANGED vars
    BY <1>6 DEF vars, RoutingInv, TypeOK, RecordMatches, NoTrunkTwice, AttemptsBounded,
                ToldMatches, Routed, LoadCovers, RoutedTo
  <1> QED
    BY <1>4, <1>5, <1>6, StepKinds

LEMMA InitInv == Init => RoutingInv
  <1> SUFFICES ASSUME Init
               PROVE  RoutingInv
    OBVIOUS
  <1>1. TypeOK
    BY DEF Init, TypeOK
  <1>2. \A c \in Calls : routing[c] = None /\ tried[c] = <<>> /\ told[c] = None
    BY DEF Init
  <1>3. RecordMatches /\ AttemptsBounded /\ ToldMatches
    BY <1>2 DEF RecordMatches, AttemptsBounded, ToldMatches, Routed
  <1>4. NoTrunkTwice
    BY <1>2 DEF NoTrunkTwice
  <1>5. LoadCovers
    <2> SUFFICES ASSUME NEW t \in Trunks
                 PROVE  Cardinality(RoutedTo(t)) <= load[t] /\ load[t] <= Limit[t]
      BY DEF LoadCovers
    <2>1. RoutedTo(t) = {}
      BY <1>2 DEF RoutedTo
    <2>2. load[t] = 0 /\ Limit[t] \in Nat
      BY RoutingAssumption DEF Init
    <2> QED
      BY <2>1, <2>2, FS_EmptySet
  <1> QED
    BY <1>1, <1>3, <1>4, <1>5 DEF RoutingInv

-----------------------------------------------------------------------------
(***************************************************************************)
(* The theorems                                                            *)
(***************************************************************************)

\* The invariant holds in every reachable state.
THEOREM RoutingInvariant == Spec => []RoutingInv
  BY InitInv, NextKeepsInv, PTL DEF Spec

\* Every variable keeps its type: active_calls holds routing states, the
\* service's counters stay natural numbers.
THEOREM RoutingTypeCorrect == Spec => []TypeOK
  <1>1. RoutingInv => TypeOK
    BY DEF RoutingInv
  <1> QED
    BY <1>1, RoutingInvariant, PTL

\* The engine never sends a call to a trunk that has failed it
\* (the previously_failed test of advance_to_next_route).
THEOREM NeverTheSameTrunk == Spec => []NoTrunkTwice
  <1>1. RoutingInv => NoTrunkTwice
    BY DEF RoutingInv
  <1> QED
    BY <1>1, RoutingInvariant, PTL

\* The engine's CallRoutingState is the true record of a routed call.
THEOREM RecordIsTrue == Spec => []RecordMatches
  <1>1. RoutingInv => RecordMatches
    BY DEF RoutingInv
  <1> QED
    BY <1>1, RoutingInvariant, PTL

\* A call makes fewer than max_route_attempts attempts.
THEOREM AttemptsAreBounded == Spec => []AttemptsBounded
  <1>1. RoutingInv => AttemptsBounded
    BY DEF RoutingInv
  <1> QED
    BY <1>1, RoutingInvariant, PTL

\* However the calls interleave, no trunk carries more calls than its
\* concurrent_call_limit.
THEOREM LimitIsRespected == Spec => []LimitRespected
  <1>1. RoutingInv => LimitRespected
    <2> SUFFICES ASSUME RoutingInv, NEW t \in Trunks
                 PROVE  Cardinality(RoutedTo(t)) <= Limit[t]
      BY DEF LimitRespected
    <2>1. /\ load[t] \in Nat /\ Limit[t] \in Nat
          /\ Cardinality(RoutedTo(t)) <= load[t] /\ load[t] <= Limit[t]
      BY RoutingAssumption DEF RoutingInv, LoadCovers, TypeOK
    <2>2. IsFiniteSet(RoutedTo(t))
      BY RoutingAssumption, FS_Subset DEF RoutedTo
    <2>3. Cardinality(RoutedTo(t)) \in Nat
      BY <2>2, FS_CardinalityType
    <2> QED
      BY <2>1, <2>3
  <1> QED
    BY <1>1, RoutingInvariant, PTL

\* A call the engine has completed or rejected is never routed again, and a completed
\* one is never told anything else.
THEOREM FinalStaysFinal == Spec => FinalIsFinal
  <1>1. RoutingInv /\ [Next]_vars
          => [\A c \in Calls : told[c] \in {"CompleteCall", "RejectCall"} =>
                 /\ told'[c] \in {told[c], "CompleteCall"}
                 /\ tried'[c] = tried[c]]_vars
    <2> SUFFICES ASSUME RoutingInv, [Next]_vars, NEW c \in Calls,
                        told[c] \in {"CompleteCall", "RejectCall"}
                 PROVE  told'[c] \in {told[c], "CompleteCall"} /\ tried'[c] = tried[c]
      OBVIOUS
    <2>1. /\ told \in [Calls -> Actions \cup {None}] /\ tried \in [Calls -> Seq(Trunks)]
          /\ told[c] # None /\ told[c] # "RouteToNext" /\ ~Routed(c) /\ TypeOK
      BY RoutingAssumption DEF RoutingInv, TypeOK, ToldMatches, Actions
    <2>2. ASSUME NEW d \in Calls, StartRouted(d) \/ StartRejected(d)
          PROVE  told'[c] = told[c] /\ tried'[c] = tried[c]
      <3>1. d # c
        BY <2>1, <2>2 DEF StartRouted, StartRejected, Fresh
      <3> QED
        BY <2>1, <2>2, <3>1 DEF StartRouted, StartRejected, TellRoute, Tell
    <2>3. ASSUME NEW d \in Calls, NEW k \in Codes, FinalResponse(d, k)
          PROVE  told'[c] \in {told[c], "CompleteCall"} /\ tried'[c] = tried[c]
      BY <2>1, <2>3 DEF FinalResponse, Complete, Tell
    <2>4. ASSUME NEW d \in Calls, NEW k \in Codes,
                 Advance(d, k) \/ SkipFailed(d, k) \/ NoRoute(d, k)
          PROVE  told'[c] = told[c] /\ tried'[c] = tried[c]
      <3>1. Responds(d, k) /\ Advances(k)
        BY <2>4 DEF Advance, SkipFailed, NoRoute
      <3>2. d # c
        BY <2>1, <3>1, RespondsFacts
      <3> QED
        BY <2>1, <2>4, <3>2 DEF Advance, SkipFailed, NoRoute, Complete, TellRoute, Tell
    <2>5. CASE CleanupExpired \/ UNCHANGED vars
      BY <2>5 DEF CleanupExpired, vars
    <2> QED
      BY <2>2, <2>3, <2>4, <2>5 DEF Next
  <1> QED
    BY <1>1, RoutingInvariant, PTL DEF Spec, FinalIsFinal

-----------------------------------------------------------------------------
(***************************************************************************)
(* The refinement: a step that sends a call is a Send of Failover, a step  *)
(* that withdraws is a Finish of the calls it leaves without a route.      *)
(***************************************************************************)

\* Failover's own copy of Cardinality is Cardinality.
LEMMA SameCardinality ==
    ASSUME NEW S
    PROVE  Engine!Cardinality(S) = Cardinality(S)
  BY DEF Engine!Cardinality, Cardinality, Engine!IsFiniteSet, IsFiniteSet

\* The calls Failover sees on a trunk are those the engine has routed to it.
LEMMA OnIsRoutedTo ==
    ASSUME RoutingInv, NEW t \in Trunks
    PROVE  Engine!On(t) = RoutedTo(t)
  <1>1. \A c \in Calls : Phase[c] = "routed" <=> Routed(c)
    BY RoutingAssumption DEF Phase, Routed, RoutingInv, ToldMatches, Actions
  <1>2. \A c \in Calls : Routed(c) => routing[c].current = tried[c][Len(tried[c])]
    BY DEF RoutingInv, RecordMatches, Routed
  <1>3. t # None
    BY RoutingAssumption
  <1>4. \A c \in Calls : Phase[c] = "routed" /\ tried[c][Len(tried[c])] = t
                            <=> routing[c] # None /\ routing[c].current = t
    BY <1>1, <1>2, <1>3 DEF Routed
  <1> QED
    BY <1>4 DEF Engine!On, RoutedTo

LEMMA SendsIsSend ==
    ASSUME RoutingInv, NEW c \in Calls, NEW t \in Trunks, Sends(c, t)
    PROVE  Engine!Send(c, t)
  <1>1. /\ routing \in [Calls -> States \cup {None}] /\ told \in [Calls -> Actions \cup {None}]
        /\ load \in [Trunks -> Nat] /\ Limit \in [Trunks -> Nat]
    BY RoutingAssumption DEF RoutingInv, TypeOK
  <1>2. "RouteToNext" # None /\ t # None
    BY RoutingAssumption DEF Actions
  <1>3. PICK state :
            routing' = [routing EXCEPT ![c] = state] /\ state.current = t /\ state # None
    <2>1. PICK failed \in FailedAttempts :
              routing' = [routing EXCEPT ![c] = [attempt |-> Len(tried[c]) + 1,
                                                 failed |-> failed, current |-> t]]
      BY DEF Sends
    <2>2. \E state \in States :
              /\ routing' = [routing EXCEPT ![c] = state]
              /\ state.current = t
      <3>1. tried[c] \in Seq(Trunks)
        BY DEF RoutingInv, TypeOK
      <3>2. [attempt |-> Len(tried[c]) + 1, failed |-> failed, current |-> t] \in States
        BY <3>1, LenProperties DEF States
      <3> QED
        BY <2>1, <3>2
    <2>3. None \notin States
      BY RoutingAssumption
    <2> QED
      BY <2>2, <2>3
  <1>4. Phase[c] # "over"
    BY DEF Phase, Sends, Routed
  <1>5. Phase' = [Phase EXCEPT ![c] = "routed"]
    <2>1. /\ told'[c] = "RouteToNext" /\ routing'[c] = state
          /\ \A d \in Calls : d # c => told'[d] = told[d] /\ routing'[d] = routing[d]
      BY <1>1, <1>3 DEF Sends
    <2> QED
      BY <2>1, <1>2, <1>3 DEF Phase
  <1>6. Engine!Cardinality(Engine!On(t)) < Limit[t]
    <2>1. Cardinality(RoutedTo(t)) <= load[t] /\ load[t] < Limit[t]
      BY DEF RoutingInv, LoadCovers, Sends
    <2>2. IsFiniteSet(RoutedTo(t)) /\ load[t] \in Nat /\ Limit[t] \in Nat
      BY <1>1, RoutingAssumption, FS_Subset DEF RoutedTo
    <2>3. Cardinality(RoutedTo(t)) \in Nat
      BY <2>2, FS_CardinalityType
    <2>4. Cardinality(RoutedTo(t)) < Limit[t]
      BY <2>1, <2>2, <2>3
    <2> QED
      BY <2>4, OnIsRoutedTo, SameCardinality
  <1> QED
    BY <1>4, <1>5, <1>6 DEF Engine!Send, Sends

LEMMA WithdrawsIsFinish ==
    ASSUME RoutingInv, Withdraws
    PROVE  \E ended \in SUBSET Calls : Engine!Finish(ended)
  <1> DEFINE ended == {c \in Calls : Phase[c] # "over" /\ Phase'[c] = "over"}
  <1>1. \A c \in Calls : Phase'[c] = Phase[c] \/ Phase'[c] = "over"
    <2> SUFFICES ASSUME NEW c \in Calls, Phase'[c] # "over"
                 PROVE  Phase'[c] = Phase[c]
      OBVIOUS
    <2>1. CASE told'[c] = None
      <3>1. told[c] = None
        BY <2>1 DEF Withdraws
      <3> QED
        BY <2>1, <3>1 DEF Phase
    <2>2. CASE told'[c] # None
      <3>1. Routed(c)'
        BY <2>2 DEF Phase, Routed
      <3>2. routing'[c] = routing[c] /\ told'[c] = told[c]
        BY <3>1 DEF Withdraws
      <3> QED
        BY <3>2 DEF Phase
    <2> QED
      BY <2>1, <2>2
  <1>2. Phase' = [c \in Calls |-> IF c \in ended THEN "over" ELSE Phase[c]]
    <2>1. \A c \in Calls : Phase'[c] = IF c \in ended THEN "over" ELSE Phase[c]
      BY <1>1
    <2>2. Phase' = [c \in Calls |-> Phase'[c]]
      BY DEF Phase
    <2> QED
      BY <2>1, <2>2
  <1>3. Engine!Finish(ended)
    BY <1>2 DEF Engine!Finish, Withdraws
  <1>4. ended \in SUBSET Calls
    OBVIOUS
  <1> QED
    BY <1>3, <1>4

\* The engine over the service implements Failover: whatever the offers of the
\* LCR engine and the responses of the gateways, and however the calls
\* interleave, it does nothing but send a call that is not over to a trunk that
\* is new to it and has room, and end calls.
THEOREM RoutingImplementsFailover == Spec => FailoverImplemented
  <1>1. Init => Engine!FailoverInit
    <2> SUFFICES ASSUME Init
                 PROVE  Engine!FailoverInit
      OBVIOUS
    <2>1. Phase = [c \in Calls |-> "new"] /\ tried = [c \in Calls |-> <<>>]
      BY DEF Init, Phase
    <2> QED
      BY <2>1 DEF Engine!FailoverInit
  <1>2. RoutingInv /\ [Next]_vars => [Engine!FailoverNext]_(Engine!failoverVars)
    <2> SUFFICES ASSUME RoutingInv, [Next]_vars
                 PROVE  [Engine!FailoverNext]_(Engine!failoverVars)
      OBVIOUS
    <2>1. CASE \E c \in Calls, t \in Trunks : Sends(c, t)
      BY <2>1, SendsIsSend DEF Engine!FailoverNext
    <2>2. CASE Withdraws
      BY <2>2, WithdrawsIsFinish DEF Engine!FailoverNext
    <2>3. CASE UNCHANGED vars
      BY <2>3 DEF vars, Phase, Engine!failoverVars
    <2> QED
      BY <2>1, <2>2, <2>3, StepKinds
  <1> QED
    BY <1>1, <1>2, RoutingInvariant, PTL DEF Spec, FailoverImplemented, Engine!FailoverSpec
=============================================================================
