-------------------------- MODULE Class4B2BUAProofs --------------------------
(***************************************************************************)
(* Proofs about Class4B2BUA, for any number of sessions, callers, trunks   *)
(* and cleanup tasks.                                                      *)
(*                                                                         *)
(* The inductive invariant has parts about the tables (FreshOK, LiveOK,    *)
(* MappingOK), one about the locals of the handler (MainOK), and three     *)
(* that relate the two: what has been billed (BillingOK), what the clone   *)
(* is worth (CloneOK) and the B-leg that is stored and then mapped         *)
(* (BLegsOK).                                                              *)
(***************************************************************************)
EXTENDS Class4Blocking, FiniteSetTheorems, TLAPS

\* The points at which the handler works on a clone that it has not billed.
Working == {"begin", "route", "attempt", "mapb", "sendb", "answer", "forward"}

MainOK ==
    /\ main.at \in Working \cup {"terminate", "remove"} => main.s \in Created
    /\ main.at \in Working \cup {"remove"} => main.r \in Records
    /\ main.at = "terminate" => main.cause \in Causes
    /\ main.at = "admit" => main.c \in ALegs /\ mapping[main.c] = None
    /\ main.at = "reply" => main.c \in CallIds

\* Nothing is known of a session id that has not been given out.
FreshOK ==
    /\ \A s \in SessionIds \ Created :
          s \notin Live /\ s \notin reaped /\ cdrs[s] = <<>> /\ \A c \in CallIds : mapping[c] # s
    /\ \A w \in Sweepers : sweep[w] \subseteq Created

\* The legs of a session are its caller's and its own.
LiveOK ==
    \A s \in Live :
        /\ sessions[s].a = caller[s]
        /\ sessions[s].b \in {None, BLeg(s)}
        /\ sessions[s].state = "Connected" => sessions[s].answer # None
        /\ sessions[s].answer # None => sessions[s].answer <= now
        /\ s \notin reaped /\ mapping[BLeg(s)] = s => sessions[s].b = BLeg(s)
        /\ mapping[caller[s]] = s \/ \E z \in reaped : caller[z] = caller[s]

\* A Call-ID maps to a session of that Call-ID, which lives or was reaped.
MappingOK ==
    \A c \in CallIds : mapping[c] # None =>
        /\ c \in {caller[mapping[c]], BLeg(mapping[c])}
        /\ mapping[c] \in Live \cup reaped

BillingOK ==
    /\ BilledOnce
    /\ main.at \in Working => cdrs[main.s] = <<>>
    /\ main.at = "remove" => cdrs[main.s] # <<>>

\* The state of a clone that is being routed.
RoutingOK ==
    /\ main.at = "begin" => main.r.state = "Originating"
    /\ main.at = "route" => main.r.state = "Routing"
    /\ main.at = "attempt" => main.r.state = "Terminating"

\* A clone that goes back to the table has the legs of its session, and the
\* clone of an answer is no older than the session it replaces.
CloneOK ==
    /\ CloneIsCurrent
    /\ main.at \in Working =>
          /\ main.s \in Live \cup reaped
          /\ main.r.a = caller[main.s] /\ main.r.b \in {None, BLeg(main.s)}
          /\ main.r.state = "Connected" => main.r.answer # None
          /\ main.r.answer # None => main.r.answer <= now
    /\ main.at = "mapb" => main.r.b = BLeg(main.s)
    /\ RoutingOK
    /\ main.at = "answer" =>
          /\ main.r.state = "Connected"
          /\ main.s \in Live =>
               /\ main.r.b = sessions[main.s].b
               /\ sessions[main.s].answer # None => sessions[main.s].answer <= main.r.answer

BLegsOK ==
    \A s \in Live :
        \/ sessions[s].b = None
        \/ mapping[BLeg(s)] = s
        \/ main.at = "mapb" /\ main.s = s
        \/ s \in reaped

B2BInv ==
    TypeOK /\ MainOK /\ FreshOK /\ LiveOK /\ MappingOK /\ BillingOK /\ CloneOK /\ BLegsOK

-----------------------------------------------------------------------------

LEMMA Ids ==
    /\ None \notin SessionIds /\ None \notin CallIds /\ None \notin Trunks
    /\ None \notin Nat /\ None \notin Records
    /\ ALegs \subseteq CallIds
    /\ \A s \in SessionIds : BLeg(s) \in CallIds \ ALegs /\ BLeg(s) # None
    /\ \A s, z \in SessionIds : BLeg(s) = BLeg(z) => s = z
BY B2BUAAssumption DEF CallIds, BLeg

LEMMA RecordFields ==
    /\ \A r \in Records :
          /\ r.a \in ALegs
          /\ r.answer \in Time \cup {None}
    /\ Time \subseteq Nat /\ 0 \in Time
    /\ \A s \in SessionIds : \A r \in Records : \A t \in Trunks : \A st \in SessionStates :
          /\ [r EXCEPT !.state = st] \in Records
          /\ [r EXCEPT !.trunk = t, !.state = st] \in Records
          /\ [r EXCEPT !.b = BLeg(s), !.state = st] \in Records
    /\ \A r \in Records : \A n \in Time : [r EXCEPT !.state = "Connected", !.answer = n] \in Records
<1>1. Time \subseteq Nat /\ 0 \in Time
    BY B2BUAAssumption DEF Time
<1>2. \A r \in Records : r.a \in ALegs /\ r.answer \in Time \cup {None}
    BY DEF Records
<1>3. \A r \in Records : \A t \in Trunks : \A st \in SessionStates :
        [r EXCEPT !.state = st] \in Records /\ [r EXCEPT !.trunk = t, !.state = st] \in Records
    BY DEF Records
<1>4. \A s \in SessionIds : \A r \in Records : \A st \in SessionStates :
        [r EXCEPT !.b = BLeg(s), !.state = st] \in Records
    BY DEF Records
<1>5. \A r \in Records : \A n \in Time : [r EXCEPT !.state = "Connected", !.answer = n] \in Records
    BY DEF Records, SessionStates
<1> QED
    BY <1>1, <1>2, <1>3, <1>4, <1>5

LEMMA InitInv == Init => B2BInv
<1> SUFFICES ASSUME Init PROVE B2BInv
    OBVIOUS
<1> USE DEF Init, Receiving, StoreInit
<1>1. Created = {} /\ Live = {}
    BY DEF Created, Live
<1>2. TypeOK
  <2>1. 0 \in Time
      BY RecordFields
  <2>2. \A t \in Trunks : 0 \in 0..TrunkLimit
      BY B2BUAAssumption
  <2>3. StoreTypeOK
      BY DEF StoreTypeOK, Stats
  <2> QED
      BY <2>1, <2>2, <2>3 DEF TypeOK, Points
<1>3. MainOK /\ CloneOK /\ BLegsOK /\ LiveOK
    BY <1>1 DEF MainOK, CloneOK, CloneIsCurrent, RoutingOK, BLegsOK, LiveOK, Working
<1>4. FreshOK
    BY <1>1, Ids DEF FreshOK
<1>5. MappingOK
    BY DEF MappingOK
<1>6. BillingOK
    BY <1>1 DEF BillingOK, BilledOnce, Working
<1> QED
    BY <1>2, <1>3, <1>4, <1>5, <1>6 DEF B2BInv

-----------------------------------------------------------------------------
(***************************************************************************)
(* Types                                                                   *)
(***************************************************************************)

MainType ==
    [at : Points, s : SessionIds \cup {None}, r : Records \cup {None},
     c : CallIds \cup {None}, cause : Causes \cup {None}]

CdrType == [call : ALegs, cause : Causes, answered : BOOLEAN]

LEMMA ReceivingType == Receiving \in MainType
BY DEF Receiving, MainType, Points

LEMMA LiveIds ==
    ASSUME TypeOK
    PROVE  /\ Live \subseteq SessionIds
           /\ \A s \in Live : sessions[s] \in Records
           /\ \A c \in CallIds : Lookup(c) # None => Lookup(c) = mapping[c] /\ Lookup(c) \in Live
           /\ Created \subseteq SessionIds
           /\ \A s \in Created : caller[s] \in ALegs
           /\ \A s \in SessionIds : s \notin Live => sessions[s] = None
BY DEF TypeOK, StoreTypeOK, Live, Lookup, Created

LEMMA AddType ==
    ASSUME StoreTypeOK, NEW s \in SessionIds, NEW r \in Records, AddSession(s, r)
    PROVE  StoreTypeOK'
<1>1. sessions' \in [SessionIds -> Records \cup {None}]
    BY DEF StoreTypeOK, AddSession
<1>2. mapping' \in [CallIds -> SessionIds \cup {None}]
    BY DEF StoreTypeOK, AddSession
<1>3. /\ stats \in Stats
      /\ stats.total + 1 \in Nat /\ stats.active + 1 \in Nat /\ stats.peak \in Nat
    BY DEF StoreTypeOK, Stats
<1>4. Larger(stats.peak, stats.active + 1) \in Nat
    BY <1>3 DEF Larger
<1>5. stats' \in Stats
    BY <1>3, <1>4 DEF AddSession, Stats
<1> QED
    BY <1>1, <1>2, <1>5 DEF StoreTypeOK

LEMMA UpdateType ==
    ASSUME StoreTypeOK, NEW s \in SessionIds, NEW r \in Records, UpdateSession(s, r)
    PROVE  StoreTypeOK'
BY DEF StoreTypeOK, UpdateSession

LEMMA RemoveType ==
    ASSUME StoreTypeOK, NEW s \in SessionIds, RemoveSession(s)
    PROVE  StoreTypeOK'
<1>1. CASE sessions[s] = None
    BY <1>1 DEF StoreTypeOK, RemoveSession, storeVars
<1>2. CASE sessions[s] # None
  <2>1. RemovePresent(s)
      BY <1>2 DEF RemoveSession
  <2>2. sessions' \in [SessionIds -> Records \cup {None}]
      BY <2>1 DEF StoreTypeOK, RemovePresent
  <2>3. mapping' \in [CallIds -> SessionIds \cup {None}]
      BY <2>1 DEF StoreTypeOK, RemovePresent
  <2>4. /\ stats \in Stats
        /\ stats.active \in Nat /\ stats.successful + 1 \in Nat /\ stats.failed + 1 \in Nat
      BY DEF StoreTypeOK, Stats
  <2>5. Decrement(stats.active) \in Nat
      BY <2>4 DEF Decrement
  <2>6. stats' \in Stats
      BY <2>1, <2>4, <2>5 DEF RemovePresent, Stats
  <2> QED
      BY <2>2, <2>3, <2>6 DEF StoreTypeOK
<1> QED
    BY <1>1, <1>2

\* The parts of TypeOK that are not the store's or the handler's.
OtherTypes ==
    /\ sweep \in [Sweepers -> SUBSET SessionIds]
    /\ trunkCalls \in [Trunks -> 0..TrunkLimit]
    /\ cdrs \in [SessionIds -> Seq(CdrType)]
    /\ now \in Time
    /\ caller \in [SessionIds -> ALegs \cup {None}]
    /\ reaped \subseteq SessionIds

LEMMA TypeParts == TypeOK <=> StoreTypeOK /\ main \in MainType /\ OtherTypes
BY DEF TypeOK, MainType, OtherTypes, CdrType

LEMMA TypePartsNext == TypeOK' <=> StoreTypeOK' /\ main' \in MainType /\ OtherTypes'
BY DEF TypeOK, MainType, OtherTypes, CdrType

\* A step that leaves the store and the bookkeeping alone.
LEMMA SameTypes ==
    ASSUME UNCHANGED <<sessions, mapping, stats>>
    PROVE  StoreTypeOK => StoreTypeOK'
BY DEF StoreTypeOK

LEMMA SameOthers ==
    ASSUME UNCHANGED <<sweep, trunkCalls, cdrs, now, caller, reaped>>
    PROVE  OtherTypes => OtherTypes'
BY DEF OtherTypes

LEMMA GotoType ==
    ASSUME main \in MainType, NEW p \in Points
    PROVE  [main EXCEPT !.at = p] \in MainType
BY DEF MainType

LEMMA WriteBackType ==
    ASSUME TypeOK, MainOK, main.at \in Working, NEW r \in Records, NEW p \in Points,
           WriteBack(r, p)
    PROVE  StoreTypeOK' /\ main' \in MainType
<1>1. main.s \in SessionIds
    BY LiveIds DEF MainOK
<1>2. StoreTypeOK'
    BY <1>1, UpdateType DEF WriteBack, TypeOK
<1>3. main' \in MainType
    BY TypeParts DEF WriteBack, MainType
<1> QED
    BY <1>2, <1>3

LEMMA ReceiveTypes ==
    ASSUME TypeOK, MainOK, Receive
    PROVE  TypeOK'
<1>1. StoreTypeOK' /\ OtherTypes'
  <2>1. UNCHANGED <<sessions, mapping, stats, sweep, trunkCalls, cdrs, now, caller, reaped>>
      BY DEF Receive, ReceiveInvite, ReceiveAck, ReceiveCancel, ReceiveBye, ReceiveProvisional,
             ReceiveAnswer, Hangup, history
  <2> QED
      BY <2>1, SameTypes, SameOthers, TypeParts
<1>2. main' \in MainType
  <2>1. ASSUME NEW c \in ALegs, ReceiveInvite(c) PROVE main' \in MainType
    <3>1. [Receiving EXCEPT !.at = "admit", !.c = c] \in MainType
        BY Ids DEF Receiving, MainType, Points
    <3> QED
        BY <2>1, <3>1, ReceivingType DEF ReceiveInvite, Done
  <2>2. ASSUME NEW c \in CallIds, NEW cause \in Causes, Hangup(c, cause) PROVE main' \in MainType
    <3>1. Lookup(c) \in SessionIds
        BY <2>2, LiveIds DEF Hangup
    <3>2. [Receiving EXCEPT !.at = "terminate", !.s = Lookup(c), !.c = c, !.cause = cause]
              \in MainType
        BY <3>1 DEF Receiving, MainType, Points
    <3> QED
        BY <2>2, <3>2 DEF Hangup
  <2>3. ASSUME NEW s \in SessionIds, ReceiveAnswer(s) PROVE main' \in MainType
    <3> DEFINE id == Lookup(BLeg(s))
               r == [sessions[id] EXCEPT !.state = "Connected", !.answer = now]
    <3>1. id \in SessionIds /\ sessions[id] \in Records /\ now \in Time
        BY <2>3, LiveIds, Ids DEF ReceiveAnswer, TypeOK
    <3>2. r \in Records
        BY <3>1, RecordFields
    <3>3. main' = [Receiving EXCEPT !.at = "answer", !.s = id, !.r = r]
        BY <2>3 DEF ReceiveAnswer
    <3> HIDE DEF id, r
    <3> QED
        BY <3>1, <3>2, <3>3 DEF Receiving, MainType, Points
  <2>4. "200" \in Causes /\ "487" \in Causes /\ main \in MainType /\ ALegs \subseteq CallIds
      BY TypeParts, Ids DEF Causes
  <2>5. ASSUME NEW c \in ALegs, ReceiveAck(c) PROVE main' \in MainType
      BY <2>5, <2>4 DEF ReceiveAck
  <2>6. ASSUME NEW s \in SessionIds, ReceiveProvisional(s) PROVE main' \in MainType
      BY <2>6, <2>4 DEF ReceiveProvisional
  <2> QED
      BY <2>1, <2>2, <2>3, <2>4, <2>5, <2>6 DEF Receive, ReceiveCancel, ReceiveBye
<1> QED
    BY <1>1, <1>2, TypePartsNext

LEMMA HandleTypes ==
    ASSUME TypeOK, MainOK, Handle
    PROVE  TypeOK'
<1> USE TypeParts, TypePartsNext
<1>0. /\ \A p \in Points : [main EXCEPT !.at = p] \in MainType
      /\ {"attempt", "route", "mapb", "sendb", "forward", "remove", "reply"} \subseteq Points
    BY GotoType DEF Points
<1>1. CASE RefuseInvite \/ RouteUnusable \/ SendBLegInvite \/ ForwardAnswer \/ ReplyOk
  <2>1. UNCHANGED <<sessions, mapping, stats, sweep, trunkCalls, cdrs, now, caller, reaped>>
        /\ main' = Receiving
      BY <1>1 DEF RefuseInvite, RouteUnusable, SendBLegInvite, ForwardAnswer, ReplyOk, Done, history
  <2> QED
      BY <2>1, SameTypes, SameOthers, ReceivingType
<1>2. CASE AdmitInvite
  <2>1. PICK s \in SessionIds \ Created :
          /\ AddSession(s, NewRecord(main.c))
          /\ caller' = [caller EXCEPT ![s] = main.c]
          /\ \/ main' = [main EXCEPT !.at = "begin", !.s = s, !.r = NewRecord(main.c), !.c = None]
             \/ Done
      BY <1>2 DEF AdmitInvite
  <2>2. main.c \in ALegs
      BY <1>2 DEF AdmitInvite, MainOK
  <2>3. NewRecord(main.c) \in Records
      BY <2>2 DEF NewRecord, Records, SessionStates, OtherTypes
  <2>4. StoreTypeOK'
      BY <2>1, <2>3, AddType
  <2>5. main' \in MainType
      BY <2>1, <2>3, ReceivingType DEF MainType, Points, Done
  <2>6. OtherTypes'
      BY <1>2, <2>1, <2>2 DEF OtherTypes, AdmitInvite
  <2> QED
      BY <2>4, <2>5, <2>6
<1>3. CASE BeginRouting
  <2>1. main.r \in Records /\ main.at \in Working /\ "Routing" \in SessionStates
      BY <1>3 DEF BeginRouting, MainOK, Working, SessionStates
  <2>2. [main.r EXCEPT !.state = "Routing"] \in Records
      BY <2>1, RecordFields DEF Records
  <2>3. StoreTypeOK' /\ main' \in MainType
      BY <1>0, <1>3, <2>1, <2>2, WriteBackType DEF BeginRouting
  <2>4. OtherTypes'
      BY <1>3, SameOthers DEF BeginRouting, history
  <2> QED
      BY <2>3, <2>4
<1>4. CASE RouteMissing
  <2>1. main' \in MainType
      BY <1>4 DEF RouteMissing, MainType, Points, Causes
  <2> QED
      BY <1>4, <2>1, SameTypes, SameOthers DEF RouteMissing, history
<1>5. ASSUME NEW t \in Trunks, RouteFound(t) PROVE TypeOK'
  <2>1. main.r \in Records /\ main.at \in Working /\ "Terminating" \in SessionStates
      BY <1>5 DEF RouteFound, MainOK, Working, SessionStates
  <2>2. [main.r EXCEPT !.trunk = t, !.state = "Terminating"] \in Records
      BY <2>1 DEF Records
  <2>3. StoreTypeOK' /\ main' \in MainType
      BY <1>0, <1>5, <2>1, <2>2, WriteBackType DEF RouteFound
  <2>4. trunkCalls' \in [Trunks -> 0..TrunkLimit]
      BY <1>5, B2BUAAssumption DEF RouteFound, OtherTypes
  <2>5. OtherTypes'
      BY <1>5, <2>4 DEF RouteFound, OtherTypes, history
  <2> QED
      BY <2>3, <2>5
<1>6. CASE AttemptTermination
  <2>1. main.r \in Records /\ main.at \in Working /\ main.s \in SessionIds
        /\ "Terminating" \in SessionStates
      BY <1>6, LiveIds DEF AttemptTermination, MainOK, Working, SessionStates
  <2>2. [main.r EXCEPT !.b = BLeg(main.s), !.state = "Terminating"] \in Records
      BY <2>1 DEF Records
  <2>3. StoreTypeOK' /\ main' \in MainType
      BY <1>0, <1>6, <2>1, <2>2, WriteBackType DEF AttemptTermination
  <2>4. OtherTypes'
      BY <1>6, SameOthers DEF AttemptTermination, history
  <2> QED
      BY <2>3, <2>4
<1>7. CASE MapBLeg
  <2>1. main.s \in SessionIds
      BY <1>7, LiveIds DEF MapBLeg, MainOK, Working
  <2>2. StoreTypeOK'
      BY <1>7, <2>1 DEF MapBLeg, MapCallId, StoreTypeOK
  <2>3. main' \in MainType
      BY <1>0, <1>7 DEF MapBLeg, Goto
  <2> QED
      BY <1>7, <2>2, <2>3, SameOthers DEF MapBLeg, history
<1>8. CASE StoreAnswer
  <2>1. main.r \in Records /\ main.at \in Working
      BY <1>8 DEF StoreAnswer, MainOK, Working
  <2>2. StoreTypeOK' /\ main' \in MainType
      BY <1>0, <1>8, <2>1, WriteBackType DEF StoreAnswer
  <2> QED
      BY <1>8, <2>2, SameOthers DEF StoreAnswer, history
<1>9. AfterTerminate => main' \in MainType
    BY <1>0, ReceivingType DEF AfterTerminate, Done, Goto
<1>10. CASE TerminateSession
  <2>1. CASE sessions[main.s] = None
      BY <1>9, <1>10, <2>1, SameTypes, SameOthers DEF TerminateSession, history
  <2>2. CASE sessions[main.s] # None
    <3>1. main.s \in SessionIds /\ sessions[main.s] \in Records /\ main.cause \in Causes
        BY <1>10, <2>2, LiveIds DEF TerminateSession, MainOK, Live
    <3>2. Cdr(sessions[main.s], main.cause) \in CdrType
        BY <3>1, RecordFields DEF Cdr, CdrType
    <3>3. cdrs' = [cdrs EXCEPT ![main.s] = Append(@, Cdr(sessions[main.s], main.cause))]
          /\ main' = [main EXCEPT !.at = "remove", !.r = sessions[main.s]]
        BY <1>10, <2>2 DEF TerminateSession, Publish
    <3>4. Append(cdrs[main.s], Cdr(sessions[main.s], main.cause)) \in Seq(CdrType)
        BY <3>1, <3>2 DEF OtherTypes
    <3>5. cdrs' \in [SessionIds -> Seq(CdrType)]
        BY <3>1, <3>3, <3>4 DEF OtherTypes
    <3>6. OtherTypes'
        BY <1>10, <3>5 DEF TerminateSession, OtherTypes, history
    <3>7. main' \in MainType
        BY <3>1, <3>3 DEF MainType, Points
    <3> QED
        BY <1>10, <3>6, <3>7, SameTypes DEF TerminateSession
  <2> QED
      BY <2>1, <2>2
<1>11. CASE RemoveTerminated
  <2>1. main.s \in SessionIds
      BY <1>11, LiveIds DEF RemoveTerminated, MainOK
  <2>2. StoreTypeOK'
      BY <1>11, <2>1, RemoveType DEF RemoveTerminated
  <2> QED
      BY <1>9, <1>11, <2>2, SameOthers DEF RemoveTerminated, history
<1> QED
    BY <1>1, <1>2, <1>3, <1>4, <1>5, <1>6, <1>7, <1>8, <1>10, <1>11 DEF Handle

LEMMA OtherStepTypes ==
    ASSUME TypeOK, Sweep \/ Tick
    PROVE  TypeOK'
<1> USE TypeParts, TypePartsNext
<1>1. CASE Tick
  <2>1. now' \in Time
      BY <1>1, B2BUAAssumption DEF Tick, Time, OtherTypes
  <2>2. OtherTypes'
      BY <1>1, <2>1 DEF Tick, OtherTypes, history
  <2> QED
      BY <1>1, <2>2, SameTypes DEF Tick
<1>2. ASSUME NEW w \in Sweepers, StartSweep(w) PROVE TypeOK'
  <2>1. Expired \subseteq SessionIds
      BY DEF Expired, Live
  <2>2. sweep' \in [Sweepers -> SUBSET SessionIds]
      BY <1>2, <2>1 DEF StartSweep, OtherTypes
  <2> QED
      BY <1>2, <2>2, SameTypes DEF StartSweep, OtherTypes, history
<1>3. ASSUME NEW w \in Sweepers, RemoveExpired(w) PROVE TypeOK'
  <2>1. PICK s \in sweep[w] :
          /\ RemoveSession(s)
          /\ sweep' = [sweep EXCEPT ![w] = @ \ {s}]
          /\ reaped' = IF s \in Live THEN reaped \cup {s} ELSE reaped
          /\ UNCHANGED <<main, trunkCalls, cdrs, sent, now, caller>>
      BY <1>3 DEF RemoveExpired
  <2>2. s \in SessionIds
      BY DEF OtherTypes
  <2>3. StoreTypeOK'
      BY <2>1, <2>2, RemoveType
  <2>4. sweep' \in [Sweepers -> SUBSET SessionIds]
      BY <2>1 DEF OtherTypes
  <2>5. OtherTypes'
      BY <2>1, <2>2, <2>4 DEF OtherTypes
  <2> QED
      BY <2>1, <2>3, <2>5
<1> QED
    BY <1>1, <1>2, <1>3 DEF Sweep

-----------------------------------------------------------------------------
(***************************************************************************)
(* What each operation of the store does to the tables                     *)
(***************************************************************************)

Tables == FreshOK /\ LiveOK /\ MappingOK

\* A step that changes none of the tables.
LEMMA QuietTables ==
    ASSUME TypeOK, TypeOK', Tables, UNCHANGED <<sessions, mapping, caller, reaped, cdrs>>,
           now' >= now, \A w \in Sweepers : sweep'[w] \subseteq Created
    PROVE  Tables' /\ Live' = Live /\ Created' = Created
<1>1. Live' = Live /\ Created' = Created
    BY DEF Live, Created
<1>2. FreshOK' /\ MappingOK'
    BY <1>1 DEF Tables, FreshOK, MappingOK
<1>3. LiveOK'
  <2>1. SUFFICES ASSUME NEW s \in Live, sessions[s].answer # None
                 PROVE  sessions[s].answer <= now'
      BY <1>1 DEF Tables, LiveOK
  <2>2. sessions[s].answer \in Nat /\ now \in Nat /\ now' \in Nat /\ sessions[s].answer <= now
      BY <2>1, LiveIds, RecordFields DEF Tables, LiveOK, TypeOK
  <2> QED
      BY <2>2
<1> QED
    BY <1>1, <1>2, <1>3 DEF Tables

LEMMA UpdateTables ==
    ASSUME TypeOK, Tables, NEW x \in Created, x \in Live \cup reaped,
           NEW r \in Records, r.a = caller[x], r.b \in {None, BLeg(x)},
           r.state = "Connected" => r.answer # None,
           r.answer # None => r.answer <= now,
           x \notin reaped /\ mapping[BLeg(x)] = x => r.b = BLeg(x),
           UpdateSession(x, r), UNCHANGED <<caller, reaped, cdrs, now, sweep>>
    PROVE  Tables' /\ Live' = Live \cup {x} /\ Created' = Created
<1>1. x \in SessionIds /\ r # None
    BY LiveIds, Ids
<1>2. /\ sessions' = [sessions EXCEPT ![x] = r] /\ mapping' = mapping
      /\ sessions'[x] = r /\ \A s \in SessionIds \ {x} : sessions'[s] = sessions[s]
    BY <1>1 DEF UpdateSession, TypeOK, StoreTypeOK
<1>3. Live' = Live \cup {x} /\ Created' = Created
    BY <1>1, <1>2 DEF Live, Created
<1>4. FreshOK'
    BY <1>2, <1>3 DEF Tables, FreshOK
<1>5. LiveOK'
  <2>1. ASSUME NEW s \in Live, s # x PROVE sessions'[s] = sessions[s]
      BY <1>2, <2>1, LiveIds
  <2>2. x \in Live => mapping[caller[x]] = x \/ \E z \in reaped : caller[z] = caller[x]
      BY DEF Tables, LiveOK
  <2> QED
      BY <1>2, <1>3, <2>1, <2>2 DEF Tables, LiveOK
<1>6. MappingOK'
    BY <1>2, <1>3 DEF Tables, MappingOK
<1> QED
    BY <1>3, <1>4, <1>5, <1>6 DEF Tables

LEMMA AddTables ==
    ASSUME TypeOK, Tables, NEW c \in ALegs, mapping[c] = None,
           NEW x \in SessionIds \ Created, AddSession(x, NewRecord(c)),
           caller' = [caller EXCEPT ![x] = c], UNCHANGED <<reaped, cdrs, now, sweep>>
    PROVE  /\ Tables' /\ Live' = Live \cup {x} /\ Created' = Created \cup {x}
           /\ caller'[x] = c /\ sessions'[x] = NewRecord(c) /\ x \notin reaped
           /\ \A s \in Live : s # x /\ sessions'[s] = sessions[s]
           /\ \A s \in Live : mapping'[BLeg(s)] = mapping[BLeg(s)]
<1> DEFINE r == NewRecord(c)
<1>1. /\ r.a = c /\ r.b = None /\ r.state = "Originating" /\ r.answer = None
      /\ r \in Records
    BY RecordFields DEF NewRecord, Records, SessionStates, TypeOK
<1>2. r # None /\ Legs(r) = {c} /\ c # None
    BY <1>1, Ids DEF Legs
<1>3. /\ sessions' = [sessions EXCEPT ![x] = r]
      /\ sessions'[x] = r /\ \A s \in SessionIds \ {x} : sessions'[s] = sessions[s]
      /\ mapping'[c] = x /\ \A d \in CallIds \ {c} : mapping'[d] = mapping[d]
    BY <1>2, Ids DEF AddSession, TypeOK, StoreTypeOK
<1>4. caller'[x] = c /\ \A s \in SessionIds \ {x} : caller'[s] = caller[s]
    BY DEF TypeOK
<1> HIDE DEF r
<1>5. /\ x \notin Live /\ x \notin reaped /\ \A d \in CallIds : mapping[d] # x
      /\ \A z \in reaped : z \in Created /\ z # x /\ caller'[z] = caller[z]
    BY <1>4 DEF Tables, FreshOK, TypeOK
<1>6. Live' = Live \cup {x} /\ Created' = Created \cup {x}
    BY <1>2, <1>3, <1>4 DEF Live, Created
<1>7. \A s \in Live : /\ s \in SessionIds /\ s # x /\ sessions'[s] = sessions[s]
                      /\ caller'[s] = caller[s]
                      /\ BLeg(s) \in CallIds \ {c} /\ mapping'[BLeg(s)] = mapping[BLeg(s)]
    BY <1>3, <1>4, <1>5, Ids DEF Live
<1>8. FreshOK'
    BY <1>3, <1>5, <1>6 DEF Tables, FreshOK
<1>9. LiveOK'
  <2>1. SUFFICES ASSUME NEW s \in Live'
                 PROVE  /\ sessions'[s].a = caller'[s]
                        /\ sessions'[s].b \in {None, BLeg(s)}
                        /\ sessions'[s].state = "Connected" => sessions'[s].answer # None
                        /\ sessions'[s].answer # None => sessions'[s].answer <= now
                        /\ s \notin reaped /\ mapping'[BLeg(s)] = s => sessions'[s].b = BLeg(s)
                        /\ \/ mapping'[caller'[s]] = s
                           \/ \E z \in reaped : caller'[z] = caller'[s]
      BY DEF LiveOK
  <2>2. CASE s = x
    <3>1. mapping'[BLeg(x)] # x
        BY <1>3, <1>5, Ids
    <3> QED
        BY <1>1, <1>3, <1>4, <2>2, <3>1
  <2>3. CASE s # x
    <3>1. s \in Live /\ caller[s] \in CallIds
        BY <1>6, <2>3, LiveIds, Ids DEF Tables, FreshOK
    <3>2. mapping[caller[s]] = s => mapping'[caller[s]] = s
        BY <1>3, <3>1, Ids, LiveIds
    <3> QED
        BY <1>5, <1>7, <3>1, <3>2 DEF Tables, LiveOK
  <2> QED
      BY <2>2, <2>3
<1>10. MappingOK'
  <2>1. SUFFICES ASSUME NEW d \in CallIds, mapping'[d] # None
                 PROVE  /\ d \in {caller'[mapping'[d]], BLeg(mapping'[d])}
                        /\ mapping'[d] \in Live' \cup reaped
      BY DEF MappingOK
  <2>2. CASE d = c
      BY <1>3, <1>4, <1>6, <2>2
  <2>3. CASE d # c
    <3>1. mapping'[d] = mapping[d] /\ mapping[d] \in Live \cup reaped
          /\ d \in {caller[mapping[d]], BLeg(mapping[d])}
        BY <1>3, <2>1, <2>3 DEF Tables, MappingOK
    <3>2. caller'[mapping[d]] = caller[mapping[d]]
        BY <1>5, <1>7, <3>1
    <3> QED
        BY <1>6, <3>1, <3>2
  <2> QED
      BY <2>2, <2>3
<1> QED
    BY <1>3, <1>4, <1>5, <1>6, <1>7, <1>8, <1>9, <1>10 DEF Tables, r

\* Removing session x frees no Call-ID but its own, and not the B-leg of another.
LEMMA RemoveTables ==
    ASSUME TypeOK, Tables, NEW x \in Created, RemoveSession(x),
           UNCHANGED <<caller, cdrs, now>>,
           reaped \subseteq reaped', reaped' \subseteq reaped \cup {x},
           \A w \in Sweepers : sweep'[w] \subseteq Created
    PROVE  /\ Tables' /\ Live' = Live \ {x} /\ Created' = Created
           /\ \A s \in Live' : sessions'[s] = sessions[s]
           /\ \A s \in Live' : mapping[BLeg(s)] = s => mapping'[BLeg(s)] = s
           /\ \A c \in CallIds : mapping[c] = None => mapping'[c] = None
<1>1. CASE x \notin Live
  <2>1. UNCHANGED <<sessions, mapping>> /\ Live' = Live /\ Created' = Created
      BY <1>1, LiveIds DEF RemoveSession, storeVars, Live, Created
  <2>2. FreshOK'
      BY <2>1 DEF Tables, FreshOK
  <2>3. LiveOK'
      BY <2>1 DEF Tables, LiveOK
  <2>4. MappingOK'
      BY <2>1 DEF Tables, MappingOK
  <2> QED
      BY <1>1, <2>1, <2>2, <2>3, <2>4 DEF Tables
<1>2. CASE x \in Live
  <2> DEFINE legs == Legs(sessions[x])
  <2>1. x \in SessionIds /\ sessions[x] # None /\ sessions[x].a = caller[x]
        /\ sessions[x].b \in {None, BLeg(x)} /\ caller[x] \in ALegs
      BY <1>2, LiveIds DEF Live, Tables, LiveOK
  <2>2. caller[x] \in legs /\ legs \subseteq {caller[x], BLeg(x)}
      BY <2>1, Ids DEF Legs
  <2>3. sessions[x].b = BLeg(x) => BLeg(x) \in legs
      BY <2>1, Ids DEF Legs
  <2>4. /\ sessions' = [sessions EXCEPT ![x] = None]
        /\ \A c \in CallIds : mapping'[c] = IF c \in legs THEN None ELSE mapping[c]
      BY <2>1 DEF RemoveSession, RemovePresent
  <2> HIDE DEF legs
  <2>5. sessions'[x] = None /\ \A s \in SessionIds \ {x} : sessions'[s] = sessions[s]
      BY <2>1, <2>4 DEF TypeOK, StoreTypeOK
  <2>6. Live' = Live \ {x} /\ Created' = Created
      BY <2>5 DEF Live, Created
  <2>7. \A s \in Live' : s \in Live /\ s \in SessionIds /\ s # x /\ sessions'[s] = sessions[s]
      BY <2>5, <2>6, LiveIds
  <2>8. \A s \in Live' : mapping'[BLeg(s)] = mapping[BLeg(s)]
      BY <2>1, <2>2, <2>4, <2>7, Ids
  <2>9. \A c \in CallIds : mapping'[c] # None => mapping'[c] = mapping[c]
      BY <2>4
  <2>10. FreshOK'
      BY <2>6, <2>9, Ids DEF Tables, FreshOK
  <2>11. LiveOK'
    <3>1. SUFFICES ASSUME NEW s \in Live', mapping[caller[s]] = s, mapping'[caller[s]] # s
                   PROVE  \E z \in reaped : caller[z] = caller[s]
        BY <2>7, <2>8 DEF Tables, LiveOK
    <3>2. caller[s] \in ALegs /\ caller[s] \in CallIds
        BY <2>7, LiveIds, Ids DEF Tables, FreshOK
    <3>3. caller[s] = caller[x]
        BY <2>1, <2>2, <2>4, <3>1, <3>2, Ids
    <3> QED
        BY <1>2, <2>7, <3>1, <3>3 DEF Tables, LiveOK
  <2>12. MappingOK'
    <3>1. SUFFICES ASSUME NEW c \in CallIds, mapping'[c] # None, mapping[c] = x, x \notin reaped
                   PROVE  FALSE
        BY <2>6, <2>9 DEF Tables, MappingOK
    <3>2. c \notin legs
        BY <2>4, <3>1
    <3>3. c = BLeg(x)
      <4>1. mapping[c] # None
          BY <2>1, <3>1, Ids
      <4>2. c \in {caller[x], BLeg(x)}
          BY <3>1, <4>1 DEF Tables, MappingOK
      <4> QED
          BY <2>2, <3>2, <4>2
    <3> QED
        BY <1>2, <2>3, <3>1, <3>2, <3>3 DEF Tables, LiveOK
  <2> QED
      BY <2>6, <2>7, <2>8, <2>9, <2>10, <2>11, <2>12 DEF Tables
<1> QED
    BY <1>1, <1>2

\* The B-leg of a session that was written back with it is mapped.
LEMMA MapTables ==
    ASSUME TypeOK, Tables, NEW x \in Created, x \in Live \cup reaped,
           x \in Live => sessions[x].b = BLeg(x),
           MapCallId(BLeg(x), x), UNCHANGED <<caller, reaped, cdrs, now, sweep>>
    PROVE  /\ Tables' /\ Live' = Live /\ Created' = Created
           /\ mapping'[BLeg(x)] = x
           /\ \A c \in CallIds \ {BLeg(x)} : mapping'[c] = mapping[c]
<1>1. x \in SessionIds /\ BLeg(x) \in CallIds \ ALegs
    BY LiveIds, Ids
<1>2. /\ mapping'[BLeg(x)] = x /\ sessions' = sessions
      /\ \A c \in CallIds \ {BLeg(x)} : mapping'[c] = mapping[c]
    BY <1>1 DEF MapCallId, TypeOK, StoreTypeOK
<1>3. Live' = Live /\ Created' = Created
    BY <1>2 DEF Live, Created
<1>4. \A s \in Live : /\ s \in SessionIds /\ caller[s] \in CallIds \ {BLeg(x)}
                      /\ s # x => mapping'[BLeg(s)] = mapping[BLeg(s)]
    BY <1>1, <1>2, LiveIds, Ids DEF Tables, FreshOK
<1>5. FreshOK'
    BY <1>2, <1>3 DEF Tables, FreshOK
<1>6. LiveOK'
    BY <1>2, <1>3, <1>4 DEF Tables, LiveOK
<1>7. MappingOK'
    BY <1>2, <1>3 DEF Tables, MappingOK
<1> QED
    BY <1>2, <1>3, <1>5, <1>6, <1>7 DEF Tables

-----------------------------------------------------------------------------
(***************************************************************************)
(* The invariant is inductive                                              *)
(***************************************************************************)

\* What remains to be shown of a step once the types and the tables are done.
HandlerInv == MainOK /\ BillingOK /\ CloneOK /\ BLegsOK

LEMMA InvParts == B2BInv <=> TypeOK /\ Tables /\ HandlerInv
BY DEF B2BInv, Tables, HandlerInv

LEMMA InvPartsNext == B2BInv' <=> TypeOK' /\ Tables' /\ HandlerInv'
BY DEF B2BInv, Tables, HandlerInv

\* A step to a point where there is no clone, which changes no table.
LEMMA LeaveStep ==
    ASSUME B2BInv, TypeOK', main.at \notin {"mapb", "remove"},
           main'.at \in {"recv", "admit", "terminate", "reply"}, MainOK',
           UNCHANGED <<sessions, mapping, caller, reaped, cdrs, now, sweep>>
    PROVE  B2BInv'
<1> USE DEF B2BInv
<1>1. now \in Nat
    BY RecordFields DEF TypeOK
<1>2. Tables' /\ Live' = Live /\ Created' = Created
    BY <1>1, QuietTables DEF Tables, FreshOK
<1>3. BillingOK'
    BY <1>2 DEF BillingOK, BilledOnce, Working
<1>4. CloneOK'
    BY DEF CloneOK, CloneIsCurrent, RoutingOK, Working
<1>5. BLegsOK'
    BY <1>2 DEF BLegsOK
<1> QED
    BY <1>2, <1>3, <1>4, <1>5, InvPartsNext DEF HandlerInv

LEMMA ReceiveStep ==
    ASSUME B2BInv, Receive
    PROVE  B2BInv'
<1> USE DEF B2BInv
<1>2. UNCHANGED <<sessions, mapping, caller, reaped, cdrs, now, sweep>> /\ main.at = "recv"
      /\ TypeOK'
    BY ReceiveTypes DEF Receive, ReceiveInvite, ReceiveAck, ReceiveCancel, ReceiveBye,
       ReceiveProvisional, ReceiveAnswer, Hangup, GatewayMaySend, history
<1>3. Live' = Live /\ Created' = Created /\ now \in Nat
    BY <1>2, RecordFields DEF Live, Created, TypeOK
<1>4. \A c \in CallIds : Lookup(c) # None =>
          /\ Lookup(c) \in Live /\ Lookup(c) \in SessionIds /\ Lookup(c) \in Created
          /\ cdrs[Lookup(c)] = <<>>
    BY <1>2, LiveIds DEF FreshOK, BillingOK, BilledOnce
<1>5. ASSUME NEW c \in ALegs, ReceiveInvite(c) PROVE B2BInv'
  <2>1. main' = Receiving \/ main' = [Receiving EXCEPT !.at = "admit", !.c = c]
      BY <1>5 DEF ReceiveInvite, Done
  <2>2. mapping'[c] = None
      BY <1>2, <1>5 DEF ReceiveInvite
  <2>3. main'.at \in {"recv", "admit"} /\ (main'.at = "admit" => main'.c = c)
    <3>1. CASE main' = Receiving
        BY <3>1 DEF Receiving
    <3>2. CASE main' = [Receiving EXCEPT !.at = "admit", !.c = c]
        BY <3>2 DEF Receiving
    <3> QED
        BY <2>1, <3>1, <3>2
  <2>4. MainOK'
      BY <2>2, <2>3 DEF MainOK, Working
  <2> QED
      BY <1>2, <2>3, <2>4, LeaveStep
<1>6. ASSUME NEW c \in CallIds, NEW cause \in Causes, Hangup(c, cause) PROVE B2BInv'
  <2>1. /\ main'.at = "terminate" /\ main'.s = Lookup(c) /\ main'.cause = cause
        /\ Lookup(c) # None
      BY <1>6 DEF Hangup, Receiving
  <2>2. MainOK'
      BY <1>3, <1>4, <2>1 DEF MainOK, Working
  <2> QED
      BY <1>2, <2>1, <2>2, LeaveStep
<1>7. ASSUME NEW s \in SessionIds, ReceiveAnswer(s) PROVE B2BInv'
  <2> DEFINE id == Lookup(BLeg(s))
             r == [sessions[id] EXCEPT !.state = "Connected", !.answer = now]
  <2>1. id \in Live /\ id \in Created /\ cdrs[id] = <<>>
      BY <1>4, <1>7, Ids DEF ReceiveAnswer
  <2>2. main' = [Receiving EXCEPT !.at = "answer", !.s = id, !.r = r]
      BY <1>7 DEF ReceiveAnswer
  <2>3. sessions[id] \in Records /\ now \in Time
      BY <2>1, LiveIds DEF TypeOK
  <2>4. /\ r \in Records /\ r.a = sessions[id].a /\ r.b = sessions[id].b
        /\ r.state = "Connected" /\ r.answer = now /\ now # None
    <3>1. r \in Records
        BY <2>3, RecordFields
    <3>2. now # None
        BY <1>3, Ids
    <3> QED
        BY <2>3, <3>1, <3>2 DEF Records
  <2> HIDE DEF id, r
  <2>5. main'.at = "answer" /\ main'.s = id /\ main'.r = r
      BY <2>2 DEF Receiving
  <2>6. Tables'
      BY <1>2, <1>3, QuietTables DEF Tables, FreshOK
  <2>7. MainOK'
      BY <1>3, <2>1, <2>4, <2>5 DEF MainOK, Working
  <2>8. BillingOK'
      BY <1>2, <1>3, <2>1, <2>5 DEF BillingOK, BilledOnce, Working
  <2>9. /\ sessions[id].a = caller[id] /\ sessions[id].b \in {None, BLeg(id)}
        /\ sessions[id].answer # None => sessions[id].answer <= now
      BY <2>1 DEF LiveOK
  <2>10. CloneOK'
      BY <1>2, <1>3, <2>1, <2>4, <2>5, <2>9 DEF CloneOK, CloneIsCurrent, RoutingOK, Working
  <2>11. BLegsOK'
      BY <1>2, <1>3 DEF BLegsOK
  <2> QED
      BY <1>2, <2>6, <2>7, <2>8, <2>10, <2>11, InvPartsNext DEF HandlerInv
<1>8. UNCHANGED main => B2BInv'
  <2>1. SUFFICES ASSUME UNCHANGED main PROVE B2BInv'
      OBVIOUS
  <2>2. MainOK'
      BY <1>2, <2>1 DEF MainOK, Working
  <2> QED
      BY <1>2, <2>1, <2>2, LeaveStep
<1>9. "200" \in Causes /\ "487" \in Causes /\ ALegs \subseteq CallIds
    BY Ids DEF Causes
<1>10. \A c \in ALegs : ReceiveAck(c) => UNCHANGED main
    BY DEF ReceiveAck
<1>11. \A s \in SessionIds : ReceiveProvisional(s) => UNCHANGED main
    BY DEF ReceiveProvisional
<1> QED
    BY <1>5, <1>6, <1>7, <1>8, <1>9, <1>10, <1>11 DEF Receive, ReceiveCancel, ReceiveBye

LEMMA AdmitStep ==
    ASSUME B2BInv, AdmitInvite
    PROVE  B2BInv'
<1> USE DEF B2BInv
<1>1. PICK x \in SessionIds \ Created :
        /\ AddSession(x, NewRecord(main.c))
        /\ caller' = [caller EXCEPT ![x] = main.c]
        /\ \/ main' = [main EXCEPT !.at = "begin", !.s = x, !.r = NewRecord(main.c), !.c = None]
           \/ Done
    BY DEF AdmitInvite
<1>2. main.at = "admit" /\ main.c \in ALegs /\ mapping[main.c] = None
      /\ UNCHANGED <<reaped, cdrs, now, sweep>>
    BY DEF AdmitInvite, MainOK
<1>3. TypeOK' /\ main \in MainType
    BY HandleTypes, TypeParts DEF Handle
<1>4. /\ Tables' /\ Live' = Live \cup {x} /\ Created' = Created \cup {x}
      /\ caller'[x] = main.c /\ sessions'[x] = NewRecord(main.c) /\ x \notin reaped
      /\ \A s \in Live : s # x /\ sessions'[s] = sessions[s]
      /\ \A s \in Live : mapping'[BLeg(s)] = mapping[BLeg(s)]
    BY <1>1, <1>2, AddTables DEF Tables
<1> DEFINE r == NewRecord(main.c)
<1>5. /\ r.a = main.c /\ r.b = None /\ r.state = "Originating" /\ r.answer = None
    BY DEF NewRecord
<1>6. r \in Records
    BY <1>3, <1>4, LiveIds DEF TypeOK, StoreTypeOK, Live
<1>7. cdrs[x] = <<>>
    BY DEF FreshOK
<1> HIDE DEF r
<1>8. BilledOnce' /\ BLegsOK'
  <2>1. BilledOnce'
      BY <1>2, <1>4, <1>7 DEF BillingOK, BilledOnce
  <2>2. BLegsOK'
      BY <1>2, <1>4, <1>5 DEF BLegsOK, r
  <2> QED
      BY <2>1, <2>2
<1>9. CASE main' = [main EXCEPT !.at = "begin", !.s = x, !.r = r, !.c = None]
  <2>1. main'.at = "begin" /\ main'.s = x /\ main'.r = r
      BY <1>3, <1>9 DEF MainType
  <2>2. MainOK'
      BY <1>4, <1>6, <2>1 DEF MainOK, Working
  <2>3. BillingOK'
      BY <1>2, <1>7, <1>8, <2>1 DEF BillingOK, Working
  <2>4. CloneOK'
      BY <1>4, <1>5, <2>1 DEF CloneOK, CloneIsCurrent, RoutingOK, Working, r
  <2> QED
      BY <1>3, <1>4, <1>8, <2>2, <2>3, <2>4, InvPartsNext DEF HandlerInv
<1>10. CASE Done
  <2>1. main'.at = "recv"
      BY <1>10 DEF Done, Receiving
  <2>2. MainOK' /\ BillingOK' /\ CloneOK'
      BY <1>8, <2>1 DEF MainOK, BillingOK, CloneOK, CloneIsCurrent, RoutingOK, Working
  <2> QED
      BY <1>3, <1>4, <1>8, <2>2, InvPartsNext DEF HandlerInv
<1> QED
    BY <1>1, <1>9, <1>10 DEF r

\* What a handler that works on its clone knows of the session.
LEMMA AtWork ==
    ASSUME B2BInv, main.at \in Working
    PROVE  /\ main.s \in Created /\ main.s \in SessionIds /\ main.r \in Records
           /\ main.s \in Live \cup reaped /\ cdrs[main.s] = <<>>
           /\ main.r.a = caller[main.s] /\ main.r.b \in {None, BLeg(main.s)}
           /\ main.r.state = "Connected" => main.r.answer # None
           /\ main.r.answer # None => main.r.answer <= now
           /\ main.s \in Live => main.r.b = sessions[main.s].b
BY LiveIds DEF B2BInv, MainOK, BillingOK, CloneOK, CloneIsCurrent, Working

\* A clone that is written back becomes the session.
LEMMA WriteBackStep ==
    ASSUME B2BInv, TypeOK', main.at \in {"begin", "route", "attempt", "answer"},
           NEW p \in {"route", "attempt", "mapb", "forward"},
           NEW r \in Records, WriteBack(r, p),
           r.a = main.r.a, r.answer = main.r.answer,
           r.b = main.r.b \/ (p = "mapb" /\ r.b = BLeg(main.s)),
           r.state = "Connected" => main.r.state = "Connected",
           p = "mapb" => r.b = BLeg(main.s),
           p = "route" => r.state = "Routing",
           p = "attempt" => r.state = "Terminating",
           UNCHANGED <<caller, reaped, cdrs, now, sweep>>
    PROVE  B2BInv'
<1> DEFINE x == main.s
<1> USE DEF B2BInv
<1>1. main.at \in Working /\ p \in Working /\ main \in MainType
    BY TypeParts DEF Working
<1>2. /\ x \in Created /\ x \in SessionIds /\ x \in Live \cup reaped /\ cdrs[x] = <<>>
      /\ r.a = caller[x] /\ r.b \in {None, BLeg(x)}
      /\ r.state = "Connected" => r.answer # None
      /\ r.answer # None => r.answer <= now
    BY <1>1, AtWork
<1>3. x \notin reaped /\ mapping[BLeg(x)] = x => r.b = BLeg(x)
    BY <1>1, <1>2, AtWork DEF LiveOK
<1>4. Tables' /\ Live' = Live \cup {x} /\ Created' = Created
    BY <1>2, <1>3, UpdateTables DEF Tables, WriteBack
<1>5. /\ main'.at = p /\ main'.r = r /\ main'.s = x
    BY <1>1 DEF WriteBack, MainType
<1>6. /\ sessions'[x] = r /\ \A s \in SessionIds \ {x} : sessions'[s] = sessions[s]
      /\ UNCHANGED mapping
    BY <1>2 DEF WriteBack, UpdateSession, TypeOK, StoreTypeOK
<1>7. MainOK'
    BY <1>1, <1>2, <1>4, <1>5 DEF MainOK, Working
<1>8. BillingOK'
    BY <1>1, <1>2, <1>4, <1>5 DEF BillingOK, BilledOnce, Working
<1>9. CloneOK'
    BY <1>1, <1>2, <1>4, <1>5, <1>6 DEF CloneOK, CloneIsCurrent, RoutingOK, Working
<1>10. BLegsOK'
  <2>1. ASSUME NEW s \in Live', s # x
        PROVE  \/ sessions'[s].b = None \/ mapping'[BLeg(s)] = s \/ s \in reaped
      BY <1>1, <1>4, <1>6, <2>1, LiveIds DEF BLegsOK
  <2>2. \/ r.b = None \/ mapping'[BLeg(x)] = x \/ p = "mapb" \/ x \in reaped
    <3>1. CASE p # "mapb" /\ x \in Live
        BY <1>1, <1>6, <3>1, AtWork DEF BLegsOK
    <3> QED
        BY <1>2, <3>1
  <2> QED
      BY <1>5, <1>6, <2>1, <2>2 DEF BLegsOK
<1> QED
    BY <1>4, <1>7, <1>8, <1>9, <1>10, InvPartsNext DEF HandlerInv

LEMMA MapStep ==
    ASSUME B2BInv, MapBLeg
    PROVE  B2BInv'
<1> DEFINE x == main.s
<1> USE DEF B2BInv
<1>1. main.at = "mapb" /\ main.at \in Working /\ main \in MainType /\ TypeOK'
    BY HandleTypes, TypeParts DEF MapBLeg, Working, Handle
<1>2. /\ x \in Created /\ x \in SessionIds /\ x \in Live \cup reaped /\ main.r.b = BLeg(x)
      /\ x \in Live => sessions[x].b = BLeg(x)
    BY <1>1, AtWork DEF CloneOK
<1>3. main' = [main EXCEPT !.at = "sendb"] /\ MapCallId(BLeg(x), x)
      /\ UNCHANGED <<sessions, caller, reaped, cdrs, now, sweep>>
    BY DEF MapBLeg, Goto, MapCallId, history
<1>4. /\ Tables' /\ Live' = Live /\ Created' = Created /\ mapping'[BLeg(x)] = x
      /\ \A c \in CallIds \ {BLeg(x)} : mapping'[c] = mapping[c]
    BY <1>2, <1>3, MapTables DEF Tables
<1>5. main'.at = "sendb" /\ main'.s = x /\ main'.r = main.r
    BY <1>1, <1>3 DEF MainType
<1>6. MainOK'
    BY <1>1, <1>4, <1>5 DEF MainOK, Working
<1>7. BillingOK'
    BY <1>1, <1>3, <1>4, <1>5 DEF BillingOK, BilledOnce, Working
<1>8. CloneOK'
    BY <1>1, <1>3, <1>4, <1>5 DEF CloneOK, CloneIsCurrent, RoutingOK, Working
<1>9. BLegsOK'
    BY <1>1, <1>2, <1>3, <1>4, LiveIds, Ids DEF BLegsOK
<1> QED
    BY <1>1, <1>4, <1>6, <1>7, <1>8, <1>9, InvPartsNext DEF HandlerInv

LEMMA TerminateStep ==
    ASSUME B2BInv, TerminateSession
    PROVE  B2BInv'
<1> DEFINE x == main.s
<1> USE DEF B2BInv
<1>1. main.at = "terminate" /\ x \in Created /\ x \in SessionIds /\ main \in MainType
      /\ TypeOK' /\ UNCHANGED <<sessions, mapping, caller, reaped, now, sweep>>
    BY HandleTypes, TypeParts, LiveIds DEF TerminateSession, MainOK, Handle, history
<1>2. CASE sessions[x] = None
  <2>1. UNCHANGED cdrs /\ AfterTerminate
      BY <1>2 DEF TerminateSession
  <2>2. main'.at \in {"recv", "reply"} /\ (main'.at = "reply" => main'.c \in CallIds)
      BY <1>1, <2>1 DEF AfterTerminate, Done, Goto, Receiving, MainType
  <2>3. MainOK'
      BY <2>2 DEF MainOK, Working
  <2> QED
      BY <1>1, <2>1, <2>2, <2>3, LeaveStep
<1>3. CASE sessions[x] # None
  <2> DEFINE cdr == Cdr(sessions[x], main.cause)
  <2>1. /\ main' = [main EXCEPT !.at = "remove", !.r = sessions[x]]
        /\ cdrs' = [cdrs EXCEPT ![x] = Append(@, cdr)]
      BY <1>3 DEF TerminateSession, Publish
  <2> HIDE DEF cdr
  <2>2. main'.at = "remove" /\ main'.s = x /\ main'.r = sessions[x]
      BY <1>1, <2>1 DEF MainType
  <2>3. x \in Live /\ sessions[x] \in Records
      BY <1>1, <1>3, LiveIds DEF Live
  <2>4. cdrs[x] = <<>>
      BY <1>1, <2>3 DEF BillingOK, BilledOnce
  <2>5. cdrs'[x] = <<cdr>> /\ \A s \in SessionIds \ {x} : cdrs'[s] = cdrs[s]
      BY <1>1, <2>1, <2>4 DEF TypeOK
  <2>6. Live' = Live /\ Created' = Created
      BY <1>1 DEF Live, Created
  <2>7. FreshOK'
      BY <1>1, <2>5, <2>6 DEF FreshOK
  <2>8. LiveOK' /\ MappingOK'
      BY <1>1, <2>6 DEF LiveOK, MappingOK
  <2>9. MainOK'
      BY <1>1, <2>2, <2>3, <2>6 DEF MainOK, Working
  <2>10. BillingOK'
    <3>1. Len(cdrs'[x]) <= 1 /\ cdrs'[x] # <<>>
      <4>1. Len(<<cdr>>) <= 1 /\ <<cdr>> # <<>>
          OBVIOUS
      <4> QED
          BY <2>5, <4>1
    <3>2. ASSUME NEW s \in SessionIds
          PROVE  Len(cdrs'[s]) <= 1 /\ (cdrs'[s] # <<>> /\ s \in Live' => s = x)
      <4>1. CASE s = x
          BY <3>1, <4>1
      <4>2. CASE s # x
          BY <1>1, <2>5, <2>6, <4>2 DEF BillingOK, BilledOnce
      <4> QED
          BY <4>1, <4>2
    <3>3. BilledOnce'
        BY <2>2, <3>2 DEF BilledOnce
    <3> QED
        BY <2>2, <2>5, <3>1, <3>3 DEF BillingOK, Working
  <2>11. CloneOK'
      BY <1>1, <2>2, <2>6 DEF CloneOK, CloneIsCurrent, RoutingOK, Working
  <2>12. BLegsOK'
      BY <1>1, <2>6 DEF BLegsOK
  <2> QED
      BY <1>1, <2>7, <2>8, <2>9, <2>10, <2>11, <2>12, InvPartsNext DEF HandlerInv, Tables
<1> QED
    BY <1>2, <1>3

LEMMA RemoveTerminatedStep ==
    ASSUME B2BInv, RemoveTerminated
    PROVE  B2BInv'
<1> DEFINE x == main.s
<1> USE DEF B2BInv
<1>1. main.at = "remove" /\ x \in Created /\ x \in SessionIds /\ main \in MainType
      /\ TypeOK' /\ UNCHANGED <<caller, reaped, cdrs, now, sweep>> /\ RemoveSession(x)
      /\ AfterTerminate
    BY HandleTypes, TypeParts, LiveIds DEF RemoveTerminated, MainOK, Handle, history
<1>2. /\ Tables' /\ Live' = Live \ {x} /\ Created' = Created
      /\ \A s \in Live' : sessions'[s] = sessions[s]
      /\ \A s \in Live' : mapping[BLeg(s)] = s => mapping'[BLeg(s)] = s
    BY <1>1, RemoveTables DEF Tables, FreshOK
<1>3. main'.at \in {"recv", "reply"} /\ (main'.at = "reply" => main'.c \in CallIds)
    BY <1>1 DEF AfterTerminate, Done, Goto, Receiving, MainType
<1>4. MainOK' /\ CloneOK'
    BY <1>3 DEF MainOK, CloneOK, CloneIsCurrent, RoutingOK, Working
<1>5. BillingOK'
    BY <1>1, <1>2, <1>3 DEF BillingOK, BilledOnce, Working
<1>6. BLegsOK'
    BY <1>1, <1>2 DEF BLegsOK
<1> QED
    BY <1>1, <1>2, <1>4, <1>5, <1>6, InvPartsNext DEF HandlerInv

LEMMA RemoveExpiredStep ==
    ASSUME B2BInv, NEW w \in Sweepers, RemoveExpired(w)
    PROVE  B2BInv'
<1> USE DEF B2BInv
<1>1. PICK x \in sweep[w] :
        /\ RemoveSession(x)
        /\ sweep' = [sweep EXCEPT ![w] = @ \ {x}]
        /\ reaped' = IF x \in Live THEN reaped \cup {x} ELSE reaped
        /\ UNCHANGED <<main, trunkCalls, cdrs, sent, now, caller>>
    BY DEF RemoveExpired
<1>2. x \in Created /\ TypeOK' /\ reaped \subseteq reaped' /\ reaped' \subseteq reaped \cup {x}
    BY <1>1, OtherStepTypes DEF FreshOK, Sweep
<1>3. \A u \in Sweepers : sweep'[u] \subseteq Created
    BY <1>1 DEF FreshOK, TypeOK
<1>4. /\ Tables' /\ Live' = Live \ {x} /\ Created' = Created
      /\ \A s \in Live' : sessions'[s] = sessions[s]
      /\ \A s \in Live' : mapping[BLeg(s)] = s => mapping'[BLeg(s)] = s
      /\ \A c \in CallIds : mapping[c] = None => mapping'[c] = None
    BY <1>1, <1>2, <1>3, RemoveTables DEF Tables
<1>5. MainOK'
    BY <1>1, <1>4, Ids DEF MainOK, Working
<1>6. BillingOK'
    BY <1>1, <1>4 DEF BillingOK, BilledOnce, Working
<1>7. CloneOK'
  <2>1. main.s \in Live \cup reaped => main.s \in Live' \cup reaped'
      BY <1>1, <1>2, <1>4
  <2>2. main.s \in Live' => main.s \in Live /\ sessions'[main.s] = sessions[main.s]
      BY <1>4
  <2> QED
      BY <1>1, <2>1, <2>2 DEF CloneOK, CloneIsCurrent, RoutingOK, Working
<1>8. BLegsOK'
    BY <1>1, <1>2, <1>4 DEF BLegsOK
<1> QED
    BY <1>2, <1>4, <1>5, <1>6, <1>7, <1>8, InvPartsNext DEF HandlerInv

\* Time passes, or a cleanup pass collects its ids.
LEMMA PassStep ==
    ASSUME B2BInv, Tick \/ \E w \in Sweepers : StartSweep(w)
    PROVE  B2BInv'
<1> USE DEF B2BInv
<1>1. TypeOK' /\ UNCHANGED <<sessions, mapping, main, cdrs, caller, reaped>>
    BY OtherStepTypes DEF Tick, StartSweep, Sweep, history
<1>2. now \in Nat /\ now' \in Nat /\ now' >= now
  <2>1. now \in Nat /\ (now' = now + 1 \/ now' = now)
      BY RecordFields DEF Tick, StartSweep, TypeOK
  <2> QED
      BY <2>1
<1>3. Expired \subseteq Created
    BY DEF Expired, FreshOK, Live
<1>4. \A u \in Sweepers : sweep'[u] \subseteq Created
    BY <1>3 DEF Tick, StartSweep, FreshOK, TypeOK
<1>5. Tables' /\ Live' = Live /\ Created' = Created
    BY <1>1, <1>2, <1>4, QuietTables DEF Tables
<1>6. MainOK' /\ BillingOK' /\ BLegsOK'
    BY <1>1, <1>5 DEF MainOK, BillingOK, BilledOnce, BLegsOK, Working
<1>7. CloneOK'
  <2>1. ASSUME main.at \in Working, main.r.answer # None PROVE main.r.answer <= now'
    <3>1. main.r.answer \in Nat /\ main.r.answer <= now
        BY <2>1, AtWork, RecordFields
    <3> QED
        BY <1>2, <3>1
  <2> QED
      BY <1>1, <1>5, <2>1 DEF CloneOK, CloneIsCurrent, RoutingOK
<1> QED
    BY <1>1, <1>5, <1>6, <1>7, InvPartsNext DEF HandlerInv

LEMMA HandleStep ==
    ASSUME B2BInv, Handle
    PROVE  B2BInv'
<1> USE DEF B2BInv
<1>1. TypeOK' /\ main \in MainType
    BY HandleTypes, TypeParts
<1>2. CASE RefuseInvite \/ RouteUnusable \/ SendBLegInvite \/ ForwardAnswer \/ ReplyOk
  <2>1. main.at \in {"admit", "attempt", "sendb", "forward", "reply"} /\ main' = Receiving
      BY <1>2 DEF RefuseInvite, RouteUnusable, SendBLegInvite, ForwardAnswer, ReplyOk, Done
  <2>2. UNCHANGED <<sessions, mapping, caller, reaped, cdrs, now, sweep>>
      BY <1>2 DEF RefuseInvite, RouteUnusable, SendBLegInvite, ForwardAnswer, ReplyOk, history
  <2>3. main'.at = "recv"
      BY <2>1 DEF Receiving
  <2>4. MainOK'
      BY <2>3 DEF MainOK, Working
  <2> QED
      BY <1>1, <2>1, <2>2, <2>3, <2>4, LeaveStep
<1>3. CASE RouteMissing
  <2>1. /\ main.at = "route" /\ main'.at = "terminate" /\ main'.s = main.s /\ main'.cause = "503"
        /\ UNCHANGED <<sessions, mapping, caller, reaped, cdrs, now, sweep>>
      BY <1>1, <1>3 DEF RouteMissing, MainType, history
  <2>2. MainOK'
      BY <2>1 DEF MainOK, Working, Causes, Created
  <2> QED
      BY <1>1, <2>1, <2>2, LeaveStep
<1>4. main.at \in Working => main.r \in Records /\ main.s \in SessionIds
    BY AtWork
<1>5. {"Routing", "Terminating"} \subseteq SessionStates
    BY DEF SessionStates
<1>6. CASE BeginRouting
  <2> DEFINE r == [main.r EXCEPT !.state = "Routing"]
  <2>1. main.at = "begin" /\ WriteBack(r, "route")
        /\ UNCHANGED <<caller, reaped, cdrs, now, sweep>>
      BY <1>6 DEF BeginRouting, history
  <2>2. r \in Records /\ r.a = main.r.a /\ r.b = main.r.b /\ r.answer = main.r.answer
        /\ r.state = "Routing"
      BY <1>4, <1>5, <2>1 DEF Records, Working
  <2> HIDE DEF r
  <2> QED
      BY <1>1, <2>1, <2>2, WriteBackStep
<1>7. ASSUME NEW t \in Trunks, RouteFound(t) PROVE B2BInv'
  <2> DEFINE r == [main.r EXCEPT !.trunk = t, !.state = "Terminating"]
  <2>1. main.at = "route" /\ WriteBack(r, "attempt")
        /\ UNCHANGED <<caller, reaped, cdrs, now, sweep>>
      BY <1>7 DEF RouteFound, history
  <2>2. r \in Records /\ r.a = main.r.a /\ r.b = main.r.b /\ r.answer = main.r.answer
        /\ r.state = "Terminating"
      BY <1>4, <1>5, <2>1 DEF Records, Working
  <2> HIDE DEF r
  <2> QED
      BY <1>1, <2>1, <2>2, WriteBackStep
<1>8. CASE AttemptTermination
  <2> DEFINE r == [main.r EXCEPT !.b = BLeg(main.s), !.state = "Terminating"]
  <2>1. main.at = "attempt" /\ WriteBack(r, "mapb")
        /\ UNCHANGED <<caller, reaped, cdrs, now, sweep>>
      BY <1>8 DEF AttemptTermination, history
  <2>2. r \in Records /\ r.a = main.r.a /\ r.b = BLeg(main.s) /\ r.answer = main.r.answer
        /\ r.state = "Terminating"
      BY <1>4, <1>5, <2>1 DEF Records, Working
  <2> HIDE DEF r
  <2> QED
      BY <1>1, <2>1, <2>2, WriteBackStep
<1>9. CASE MapBLeg
    BY <1>9, MapStep
<1>10. CASE StoreAnswer
  <2>1. main.at = "answer" /\ WriteBack(main.r, "forward") /\ main.r \in Records
        /\ UNCHANGED <<caller, reaped, cdrs, now, sweep>>
      BY <1>4, <1>10 DEF StoreAnswer, Working, history
  <2> QED
      BY <1>1, <2>1, WriteBackStep
<1> QED
    BY <1>2, <1>3, <1>6, <1>7, <1>8, <1>9, <1>10, AdmitStep, TerminateStep, RemoveTerminatedStep
    DEF Handle

LEMMA StutterStep ==
    ASSUME B2BInv, UNCHANGED vars
    PROVE  B2BInv'
<1> USE DEF B2BInv, vars
<1>1. TypeOK' /\ Live' = Live /\ Created' = Created
    BY DEF TypeOK, StoreTypeOK, Live, Created
<1>2. FreshOK' /\ LiveOK' /\ MappingOK'
    BY <1>1 DEF FreshOK, LiveOK, MappingOK
<1>3. MainOK' /\ BillingOK'
    BY <1>1 DEF MainOK, BillingOK, BilledOnce
<1>4. CloneOK' /\ BLegsOK'
    BY <1>1 DEF CloneOK, CloneIsCurrent, RoutingOK, BLegsOK
<1> QED
    BY <1>1, <1>2, <1>3, <1>4

LEMMA StepInv == B2BInv /\ [Next]_vars => B2BInv'
BY ReceiveStep, HandleStep, RemoveExpiredStep, PassStep, StutterStep DEF Next, Sweep

LEMMA InvAlways == Spec => []B2BInv
BY InitInv, StepInv, PTL DEF Spec

\* terminate_session has billed the session it removes.
LEMMA RemovalStep ==
    ASSUME B2BInv, [Next]_vars
    PROVE  \A s \in Live \ Live' : cdrs[s] # <<>> \/ s \in reaped'
<1> USE DEF B2BInv
<1>1. SUFFICES ASSUME NEW s \in Live, s \notin Live'
               PROVE  cdrs[s] # <<>> \/ s \in reaped'
    OBVIOUS
<1>2. s \in SessionIds /\ sessions[s] # None /\ sessions'[s] = None
    BY <1>1 DEF Live
<1>3. ASSUME NEW x \in SessionIds, NEW r \in Records, UpdateSession(x, r) PROVE FALSE
    BY <1>2, <1>3, Ids DEF UpdateSession, TypeOK, StoreTypeOK
<1>4. \A x \in SessionIds : RemoveSession(x) => x = s
  <2>1. SUFFICES ASSUME NEW x \in SessionIds, RemoveSession(x), x # s PROVE FALSE
      OBVIOUS
  <2> QED
      BY <1>2, <2>1 DEF RemoveSession, RemovePresent, storeVars, TypeOK, StoreTypeOK
<1>5. CASE RemoveTerminated
  <2>1. main.s = s /\ main.at = "remove"
      BY <1>4, <1>5, LiveIds DEF RemoveTerminated, MainOK
  <2> QED
      BY <2>1 DEF BillingOK
<1>6. ASSUME NEW w \in Sweepers, RemoveExpired(w) PROVE s \in reaped'
  <2>1. PICK x \in sweep[w] :
          RemoveSession(x) /\ reaped' = IF x \in Live THEN reaped \cup {x} ELSE reaped
      BY <1>6 DEF RemoveExpired
  <2>2. x \in SessionIds
      BY DEF TypeOK
  <2> QED
      BY <1>1, <1>4, <2>1, <2>2
<1>7. CASE AdmitInvite
  <2>1. PICK x \in SessionIds \ Created : AddSession(x, NewRecord(main.c))
      BY <1>7 DEF AdmitInvite
  <2>2. NewRecord(main.c) # None
    <3>1. main.c \in ALegs
        BY <1>7 DEF AdmitInvite, MainOK
    <3>2. NewRecord(main.c) \in Records
        BY <3>1 DEF NewRecord, Records, SessionStates, TypeOK
    <3> QED
        BY <3>2, Ids
  <2> QED
      BY <1>2, <2>1, <2>2 DEF AddSession, TypeOK, StoreTypeOK
<1>8. main.at \in Working => main.s \in SessionIds /\ main.r \in Records
    BY AtWork
<1>9. CASE BeginRouting \/ AttemptTermination \/ StoreAnswer \/ \E t \in Trunks : RouteFound(t)
  <2>1. main.at \in Working
      BY <1>9 DEF BeginRouting, AttemptTermination, StoreAnswer, RouteFound, Working
  <2>2. PICK r : UpdateSession(main.s, r) /\ r \in Records
    <3>1. /\ [main.r EXCEPT !.state = "Routing"] \in Records
          /\ [main.r EXCEPT !.b = BLeg(main.s), !.state = "Terminating"] \in Records
          /\ \A t \in Trunks : [main.r EXCEPT !.trunk = t, !.state = "Terminating"] \in Records
        BY <1>8, <2>1 DEF Records, SessionStates
    <3> QED
        BY <1>8, <1>9, <2>1, <3>1
        DEF BeginRouting, AttemptTermination, StoreAnswer, RouteFound, WriteBack
  <2> QED
      BY <1>3, <1>8, <2>1, <2>2
<1>10. ~UNCHANGED sessions
    BY <1>2
<1> QED
    BY <1>5, <1>6, <1>7, <1>9, <1>10
    DEF Next, Receive, Handle, Sweep, vars, Tick, StartSweep, ReceiveInvite, ReceiveAck,
        ReceiveCancel, ReceiveBye, ReceiveProvisional, ReceiveAnswer, Hangup, RefuseInvite,
        RouteMissing, RouteUnusable, MapBLeg, MapCallId, SendBLegInvite, ForwardAnswer,
        TerminateSession, ReplyOk

\* A handler that writes an answered session back writes the answer.
LEMMA AnsweredStep ==
    ASSUME B2BInv, [Next]_vars, NEW s \in Live \cap Live', sessions[s].state = "Connected"
    PROVE  sessions'[s].state = "Connected" /\ sessions'[s].answer >= sessions[s].answer
<1> USE DEF B2BInv
<1>1. /\ s \in SessionIds /\ sessions[s] \in Records /\ sessions[s].answer \in Nat
      /\ sessions[s] # None /\ s \in Created
    BY LiveIds, RecordFields DEF LiveOK, FreshOK, Live
<1>2. CASE sessions'[s] = sessions[s]
    BY <1>1, <1>2
<1>3. \A x \in SessionIds : RemoveSession(x) => sessions'[s] = sessions[s]
  <2>1. SUFFICES ASSUME NEW x \in SessionIds, RemoveSession(x) PROVE sessions'[s] = sessions[s]
      OBVIOUS
  <2>2. sessions'[s] # None
      BY DEF Live
  <2> QED
      BY <1>1, <2>1, <2>2 DEF RemoveSession, RemovePresent, storeVars, TypeOK, StoreTypeOK
<1>4. \A x \in SessionIds \ Created : \A r : AddSession(x, r) => sessions'[s] = sessions[s]
    BY <1>1 DEF AddSession, TypeOK, StoreTypeOK
<1>5. CASE BeginRouting \/ AttemptTermination \/ \E t \in Trunks : RouteFound(t)
  <2>1. main.at \in {"begin", "route", "attempt"} /\ main.at \in Working
      BY <1>5 DEF BeginRouting, AttemptTermination, RouteFound, Working
  <2>2. main.s # s
      BY <2>1 DEF CloneOK, CloneIsCurrent, RoutingOK
  <2>3. main.s \in SessionIds /\ \E r : UpdateSession(main.s, r)
      BY <1>5, <2>1, AtWork DEF BeginRouting, AttemptTermination, RouteFound, WriteBack
  <2>4. sessions'[s] = sessions[s]
      BY <1>1, <2>2, <2>3 DEF UpdateSession, TypeOK, StoreTypeOK
  <2> QED
      BY <1>2, <2>4
<1>6. CASE StoreAnswer
  <2>1. main.at = "answer" /\ main.at \in Working /\ UpdateSession(main.s, main.r)
      BY <1>6 DEF StoreAnswer, WriteBack, Working
  <2>2. main.s \in SessionIds /\ main.r.state = "Connected"
        /\ main.r.answer \in Nat
      BY <2>1, AtWork, RecordFields DEF CloneOK
  <2>3. CASE main.s = s
    <3>1. sessions'[s] = main.r
        BY <1>1, <2>1, <2>3 DEF UpdateSession, TypeOK, StoreTypeOK
    <3>2. sessions[s].answer # None
        BY DEF LiveOK
    <3>3. sessions[s].answer <= main.r.answer
        BY <2>1, <2>3, <3>2 DEF CloneOK
    <3> QED
        BY <1>1, <2>2, <3>1, <3>3
  <2>4. CASE main.s # s
      BY <1>1, <1>2, <2>1, <2>2, <2>4 DEF UpdateSession, TypeOK, StoreTypeOK
  <2> QED
      BY <2>3, <2>4
<1>7. CASE RemoveTerminated
    BY <1>2, <1>3, <1>7, LiveIds DEF RemoveTerminated, MainOK
<1>8. ASSUME NEW w \in Sweepers, RemoveExpired(w) PROVE sessions'[s] = sessions[s]
  <2>1. PICK x \in sweep[w] : RemoveSession(x)
      BY <1>8 DEF RemoveExpired
  <2> QED
      BY <1>3, <2>1 DEF TypeOK
<1>9. CASE AdmitInvite
    BY <1>2, <1>4, <1>9 DEF AdmitInvite
<1>10. CASE UNCHANGED sessions
    BY <1>2, <1>10
<1> QED
    BY <1>2, <1>5, <1>6, <1>7, <1>8, <1>9, <1>10
    DEF Next, Receive, Handle, Sweep, vars, Tick, StartSweep, ReceiveInvite, ReceiveAck,
        ReceiveCancel, ReceiveBye, ReceiveProvisional, ReceiveAnswer, Hangup, RefuseInvite,
        RouteMissing, RouteUnusable, MapBLeg, MapCallId, SendBLegInvite, ForwardAnswer,
        TerminateSession, ReplyOk

-----------------------------------------------------------------------------
(***************************************************************************)
(* The refinement of CallLifecycle.  A step that writes a clone back       *)
(* answers the call, brings it back, or is not seen; the other steps that  *)
(* are seen open a call, bill it and remove it.                            *)
(***************************************************************************)

\* What the phase of a session says of the tables.
LEMMA PhaseOf ==
    ASSUME B2BInv, NEW s \in SessionIds
    PROVE  /\ s \notin Created => Phase[s] = "new"
           /\ s \in Live /\ cdrs[s] = <<>> =>
                 Phase[s] = IF sessions[s].answer # None THEN "answered" ELSE "ringing"
           /\ s \in Live /\ cdrs[s] # <<>> => Phase[s] = "closing"
           /\ s \in Created \ Live => Phase[s] = IF cdrs[s] # <<>> THEN "over" ELSE "dropped"
           /\ Phase[s] \in {"ringing", "answered", "closing"} => s \in Live
           /\ Phase[s] = "closing" => cdrs[s] # <<>>
           /\ s \in Live => s \in Created
<1>1. s \in Live => s \in Created
    BY DEF B2BInv, FreshOK
<1>2. s \in Created <=> caller[s] # None
    BY DEF Created
<1>3. s \in Live <=> sessions[s] # None
    BY DEF Live
<1> QED
    BY <1>1, <1>2, <1>3 DEF Phase

\* Nothing changes for a session whose row, caller and CDRs stay.
LEMMA SamePhase ==
    ASSUME NEW s \in SessionIds, caller'[s] = caller[s], sessions'[s] = sessions[s],
           cdrs'[s] = cdrs[s]
    PROVE  Phase'[s] = Phase[s]
BY DEF Phase

LEMMA Becomes ==
    ASSUME NEW x \in SessionIds, NEW p, Phase'[x] = p,
           \A s \in SessionIds \ {x} : Phase'[s] = Phase[s]
    PROVE  Lifecycle!Become(x, p)
<1>1. DOMAIN Phase = SessionIds /\ DOMAIN Phase' = SessionIds
    BY DEF Phase
<1>2. Phase = [s \in SessionIds |-> Phase[s]] /\ Phase' = [s \in SessionIds |-> Phase'[s]]
    BY DEF Phase
<1>3. Phase' = [Phase EXCEPT ![x] = p]
    BY <1>1, <1>2
<1> QED
    BY <1>3 DEF Lifecycle!Become

LEMMA Unseen ==
    ASSUME UNCHANGED <<sessions, caller, cdrs, reaped>>
    PROVE  UNCHANGED Lifecycle!lifecycleVars
BY DEF Lifecycle!lifecycleVars, Phase

\* A step that changes the row or the CDRs of one session only.
LEMMA OthersStay ==
    ASSUME NEW x \in SessionIds, UNCHANGED caller,
           \A s \in SessionIds \ {x} : sessions'[s] = sessions[s] /\ cdrs'[s] = cdrs[s]
    PROVE  \A s \in SessionIds \ {x} : Phase'[s] = Phase[s]
BY SamePhase

\* The handlers that write their clone back.
LEMMA WriteBackKeeps ==
    ASSUME B2BInv, main.at \in {"begin", "route", "attempt", "answer"},
           NEW z \in Records, NEW p, WriteBack(z, p),
           z.answer = main.r.answer, z.last = main.r.last,
           UNCHANGED <<caller, cdrs, reaped, now, sweep>>
    PROVE  /\ main.at \in {"begin", "route", "attempt", "answer"}
           /\ \E r \in Records :
                 /\ UpdateSession(main.s, r) /\ r.answer = main.r.answer /\ r.last = main.r.last
                 /\ main'.s = main.s /\ main'.r = r
           /\ UNCHANGED <<caller, cdrs, reaped, now, sweep>>
<1>1. main \in MainType
    BY TypeParts DEF B2BInv
<1>2. main'.s = main.s /\ main'.r = z /\ UpdateSession(main.s, z)
    BY <1>1 DEF WriteBack, MainType
<1> QED
    BY <1>2

LEMMA WritesBack ==
    ASSUME B2BInv, BeginRouting \/ AttemptTermination \/ StoreAnswer \/ \E t \in Trunks : RouteFound(t)
    PROVE  /\ main.at \in {"begin", "route", "attempt", "answer"}
           /\ \E r \in Records :
                 /\ UpdateSession(main.s, r) /\ r.answer = main.r.answer /\ r.last = main.r.last
                 /\ main'.s = main.s /\ main'.r = r
           /\ UNCHANGED <<caller, cdrs, reaped, now, sweep>>
<1>1. main.at \in {"begin", "route", "attempt", "answer"} =>
        main.r \in Records /\ main.s \in SessionIds
    BY AtWork DEF Working
<1>2. CASE BeginRouting
  <2> DEFINE r == [main.r EXCEPT !.state = "Routing"]
  <2>1. main.at = "begin" /\ WriteBack(r, "route") /\ UNCHANGED <<caller, cdrs, reaped, now, sweep>>
      BY <1>2 DEF BeginRouting, history
  <2>2. r \in Records /\ r.answer = main.r.answer /\ r.last = main.r.last
      BY <1>1, <2>1 DEF Records, SessionStates
  <2> HIDE DEF r
  <2> QED
      BY <2>1, <2>2, WriteBackKeeps
<1>3. CASE AttemptTermination
  <2> DEFINE r == [main.r EXCEPT !.b = BLeg(main.s), !.state = "Terminating"]
  <2>1. main.at = "attempt" /\ WriteBack(r, "mapb") /\ UNCHANGED <<caller, cdrs, reaped, now, sweep>>
      BY <1>3 DEF AttemptTermination, history
  <2>2. r \in Records /\ r.answer = main.r.answer /\ r.last = main.r.last
      BY <1>1, <2>1 DEF Records, SessionStates
  <2> HIDE DEF r
  <2> QED
      BY <2>1, <2>2, WriteBackKeeps
<1>4. CASE StoreAnswer
  <2>1. /\ main.at = "answer" /\ WriteBack(main.r, "forward")
        /\ UNCHANGED <<caller, cdrs, reaped, now, sweep>>
      BY <1>4 DEF StoreAnswer, history
  <2> QED
      BY <1>1, <2>1, WriteBackKeeps
<1>5. CASE \E t \in Trunks : RouteFound(t)
  <2> PICK t \in Trunks : RouteFound(t)
      BY <1>5
  <2> DEFINE r == [main.r EXCEPT !.trunk = t, !.state = "Terminating"]
  <2>1. main.at = "route" /\ WriteBack(r, "attempt") /\ UNCHANGED <<caller, cdrs, reaped, now, sweep>>
      BY DEF RouteFound, history
  <2>2. r \in Records /\ r.answer = main.r.answer /\ r.last = main.r.last
      BY <1>1, <2>1 DEF Records, SessionStates
  <2> HIDE DEF r
  <2> QED
      BY <2>1, <2>2, WriteBackKeeps
<1> QED
    BY <1>2, <1>3, <1>4, <1>5

LEMMA WriteBackRefines ==
    ASSUME B2BInv, B2BInv', main.at \in {"begin", "route", "attempt", "answer"},
           NEW r \in Records, UpdateSession(main.s, r), r.answer = main.r.answer,
           UNCHANGED <<caller, cdrs, reaped>>
    PROVE  [Lifecycle!LifecycleNext]_(Lifecycle!lifecycleVars)
<1> DEFINE x == main.s
<1>1. /\ x \in SessionIds /\ x \in Created /\ cdrs[x] = <<>>
      /\ main.at \in Working
    BY AtWork DEF Working
<1>2. /\ sessions'[x] = r /\ r # None
      /\ \A s \in SessionIds \ {x} : sessions'[s] = sessions[s] /\ cdrs'[s] = cdrs[s]
    BY <1>1, Ids DEF UpdateSession, B2BInv, TypeOK, StoreTypeOK
<1>3. Phase'[x] = IF r.answer # None THEN "answered" ELSE "ringing"
    BY <1>1, <1>2 DEF Phase, Created
<1>4. \A s \in SessionIds \ {x} : Phase'[s] = Phase[s]
    BY <1>1, <1>2, OthersStay
<1>5. CASE x \notin Live
  <2>1. Phase[x] = "dropped"
      BY <1>1, <1>5, PhaseOf
  <2>2. \E p \in {"ringing", "answered"} : Lifecycle!Become(x, p)
      BY <1>1, <1>3, <1>4, Becomes
  <2>3. Lifecycle!Return(x)
      BY <2>1, <2>2 DEF Lifecycle!Return
  <2> QED
      BY <1>1, <2>3 DEF Lifecycle!LifecycleNext
<1>6. CASE x \in Live /\ Phase'[x] = Phase[x]
  <2>1. \A s \in SessionIds : Phase'[s] = Phase[s]
      BY <1>4, <1>6
  <2>2. Phase' = Phase
      BY <2>1 DEF Phase
  <2> QED
      BY <2>2 DEF Lifecycle!lifecycleVars
<1>7. CASE x \in Live /\ Phase'[x] # Phase[x]
  <2>1. Phase[x] = IF sessions[x].answer # None THEN "answered" ELSE "ringing"
      BY <1>1, <1>7, PhaseOf
  <2>2. main.at = "answer"
    <3>1. main.at # "answer" => sessions[x] = main.r
        BY <1>7 DEF B2BInv, CloneOK, CloneIsCurrent
    <3> QED
        BY <1>3, <1>7, <2>1, <3>1
  <2>3. r.answer # None
      BY <1>1, <2>2 DEF B2BInv, CloneOK
  <2>4. Phase[x] = "ringing" /\ Phase'[x] = "answered"
      BY <1>3, <1>7, <2>1, <2>3
  <2>5. Lifecycle!Answer(x)
      BY <1>1, <1>4, <2>4, Becomes DEF Lifecycle!Answer
  <2> QED
      BY <1>1, <2>5 DEF Lifecycle!LifecycleNext
<1> QED
    BY <1>5, <1>6, <1>7

LEMMA AdmitRefines ==
    ASSUME B2BInv, AdmitInvite
    PROVE  Lifecycle!LifecycleNext
<1> DEFINE c == main.c
<1>1. PICK x \in SessionIds \ Created :
        /\ AddSession(x, NewRecord(c))
        /\ caller' = [caller EXCEPT ![x] = c]
        /\ UNCHANGED <<cdrs, reaped>>
    BY DEF AdmitInvite
<1>2. c \in ALegs /\ mapping[c] = None /\ c # None
    BY Ids DEF AdmitInvite, B2BInv, MainOK
<1>3. NewRecord(c) # None /\ NewRecord(c).answer = None
  <2>1. NewRecord(c) \in Records
      BY <1>2 DEF NewRecord, Records, SessionStates, B2BInv, TypeOK
  <2> QED
      BY <2>1, Ids DEF NewRecord
<1>4. /\ sessions'[x] = NewRecord(c) /\ caller'[x] = c /\ cdrs'[x] = <<>>
      /\ \A s \in SessionIds \ {x} : /\ sessions'[s] = sessions[s] /\ caller'[s] = caller[s]
                                       /\ cdrs'[s] = cdrs[s]
    BY <1>1 DEF AddSession, B2BInv, TypeOK, StoreTypeOK, FreshOK
<1>5. Phase[x] = "new" /\ Phase'[x] = "ringing"
    BY <1>1, <1>2, <1>3, <1>4 DEF Phase, Created
<1>6. Lifecycle!Become(x, "ringing")
    BY <1>4, <1>5, SamePhase, Becomes
<1>7. ASSUME NEW z \in SessionIds, Lifecycle!Up(z) \/ Phase[z] = "closing", caller[z] = c
      PROVE  \E y \in reaped : caller[y] = c
  <2>1. z \in Live /\ z # None
      BY <1>7, PhaseOf, Ids DEF Lifecycle!Up
  <2>2. mapping[caller[z]] = z \/ \E y \in reaped : caller[y] = caller[z]
      BY <2>1 DEF B2BInv, LiveOK
  <2> QED
      BY <1>2, <1>7, <2>1, <2>2
<1>8. Lifecycle!Open(x, c)
    BY <1>1, <1>5, <1>6, <1>7 DEF Lifecycle!Open
<1> QED
    BY <1>2, <1>8 DEF Lifecycle!LifecycleNext

LEMMA TerminateRefines ==
    ASSUME B2BInv, TerminateSession
    PROVE  [Lifecycle!LifecycleNext]_(Lifecycle!lifecycleVars)
<1> DEFINE x == main.s
<1>1. /\ main.at = "terminate" /\ x \in Created /\ x \in SessionIds /\ main.cause \in Causes
      /\ UNCHANGED <<sessions, caller, reaped>>
    BY LiveIds DEF TerminateSession, B2BInv, MainOK, history
<1>2. CASE sessions[x] = None
  <2>1. UNCHANGED cdrs
      BY <1>2 DEF TerminateSession
  <2> QED
      BY <1>1, <2>1, Unseen
<1>3. CASE sessions[x] # None
  <2>1. x \in Live /\ sessions[x].a = caller[x]
      BY <1>1, <1>3 DEF Live, B2BInv, LiveOK
  <2>2. cdrs[x] = <<>> /\ \A z \in Live : cdrs[z] = <<>>
      BY <1>1, <2>1, LiveIds DEF B2BInv, BillingOK, BilledOnce
  <2>3. Phase[x] = IF sessions[x].answer # None THEN "answered" ELSE "ringing"
      BY <1>1, <2>1, <2>2, PhaseOf
  <2>4. cdrs' = [cdrs EXCEPT ![x] = Append(@, [call |-> caller[x], cause |-> main.cause,
                                               answered |-> Phase[x] = "answered"])]
    <3>1. (sessions[x].answer # None) = (Phase[x] = "answered")
        BY <2>3
    <3>2. cdrs' = [cdrs EXCEPT ![x] = Append(@, Cdr(sessions[x], main.cause))]
        BY <1>3 DEF TerminateSession, Publish
    <3> QED
        BY <2>1, <3>1, <3>2 DEF Cdr
  <2>5. cdrs'[x] # <<>> /\ \A s \in SessionIds \ {x} : cdrs'[s] = cdrs[s]
    <3> DEFINE cdr == [call |-> caller[x], cause |-> main.cause, answered |-> Phase[x] = "answered"]
    <3>1. cdrs'[x] = Append(<<>>, cdr) /\ \A s \in SessionIds \ {x} : cdrs'[s] = cdrs[s]
        BY <1>1, <2>2, <2>4 DEF B2BInv, TypeOK
    <3> HIDE DEF cdr
    <3>2. Append(<<>>, cdr) # <<>>
        OBVIOUS
    <3> QED
        BY <3>1, <3>2
  <2>6. Phase'[x] = "closing"
      BY <1>1, <1>3, <2>5 DEF Phase, Created
  <2>7. Lifecycle!Become(x, "closing")
      BY <1>1, <2>5, <2>6, OthersStay, Becomes
  <2>8. \A z \in SessionIds : Phase[z] # "closing"
      BY <2>2, PhaseOf
  <2>9. Lifecycle!Bill(x)
      BY <1>1, <2>3, <2>4, <2>7, <2>8 DEF Lifecycle!Bill, Lifecycle!Up
  <2> QED
      BY <1>1, <2>9 DEF Lifecycle!LifecycleNext
<1> QED
    BY <1>2, <1>3

\* The end of a call that was billed, by its handler or by the cleanup, and of
\* one that was not.
LEMMA RemovalRefines ==
    ASSUME B2BInv, NEW x \in SessionIds, RemoveSession(x), UNCHANGED <<caller, cdrs>>,
           \/ reaped' = (IF x \in Live THEN reaped \cup {x} ELSE reaped)
           \/ reaped' = reaped /\ (x \in Live => cdrs[x] # <<>>)
    PROVE  [Lifecycle!LifecycleNext]_(Lifecycle!lifecycleVars)
<1>1. CASE x \notin Live
  <2>1. UNCHANGED sessions /\ UNCHANGED reaped
      BY <1>1 DEF RemoveSession, storeVars, Live
  <2> QED
      BY <2>1, Unseen
<1>2. CASE x \in Live
  <2>1. /\ sessions'[x] = None
        /\ \A s \in SessionIds \ {x} : sessions'[s] = sessions[s] /\ cdrs'[s] = cdrs[s]
      BY <1>2 DEF Live, RemoveSession, RemovePresent, B2BInv, TypeOK, StoreTypeOK
  <2>2. \A s \in SessionIds \ {x} : Phase'[s] = Phase[s]
      BY <2>1, OthersStay
  <2>3. Phase'[x] = IF cdrs[x] # <<>> THEN "over" ELSE "dropped"
      BY <1>2, <2>1, PhaseOf DEF Phase, Created
  <2>4. CASE cdrs[x] # <<>>
    <3>1. Phase[x] = "closing"
        BY <1>2, <2>4, PhaseOf
    <3>2. Lifecycle!End(x)
        BY <1>2, <2>2, <2>3, <2>4, <3>1, Becomes DEF Lifecycle!End
    <3> QED
        BY <3>2 DEF Lifecycle!LifecycleNext
  <2>5. CASE cdrs[x] = <<>>
    <3>1. Lifecycle!Up(x)
        BY <1>2, <2>5, PhaseOf DEF Lifecycle!Up
    <3>2. Lifecycle!Drop(x)
        BY <1>2, <2>2, <2>3, <2>5, <3>1, Becomes DEF Lifecycle!Drop
    <3> QED
        BY <3>2 DEF Lifecycle!LifecycleNext
  <2> QED
      BY <2>4, <2>5
<1> QED
    BY <1>1, <1>2

LEMMA StepRefines ==
    B2BInv /\ B2BInv' /\ [Next]_vars => [Lifecycle!LifecycleNext]_(Lifecycle!lifecycleVars)
<1> SUFFICES ASSUME B2BInv, B2BInv', [Next]_vars
             PROVE  [Lifecycle!LifecycleNext]_(Lifecycle!lifecycleVars)
    OBVIOUS
<1>1. CASE BeginRouting \/ AttemptTermination \/ StoreAnswer \/ \E t \in Trunks : RouteFound(t)
    BY <1>1, WritesBack, WriteBackRefines
<1>2. CASE AdmitInvite
    BY <1>2, AdmitRefines
<1>3. CASE TerminateSession
    BY <1>3, TerminateRefines
<1>4. CASE RemoveTerminated
  <2>1. /\ main.s \in SessionIds /\ cdrs[main.s] # <<>> /\ RemoveSession(main.s)
        /\ UNCHANGED <<caller, cdrs, reaped>>
      BY <1>4, LiveIds DEF RemoveTerminated, B2BInv, MainOK, BillingOK, history
  <2> QED
      BY <2>1, RemovalRefines
<1>5. ASSUME NEW w \in Sweepers, RemoveExpired(w)
      PROVE  [Lifecycle!LifecycleNext]_(Lifecycle!lifecycleVars)
  <2>1. PICK x \in sweep[w] :
          /\ RemoveSession(x) /\ UNCHANGED <<caller, cdrs>>
          /\ reaped' = IF x \in Live THEN reaped \cup {x} ELSE reaped
      BY <1>5 DEF RemoveExpired
  <2>2. x \in SessionIds
      BY DEF B2BInv, TypeOK
  <2> QED
      BY <2>1, <2>2, RemovalRefines
<1>6. CASE UNCHANGED <<sessions, caller, cdrs, reaped>>
    BY <1>6, Unseen
<1> QED
    BY <1>1, <1>2, <1>3, <1>4, <1>5, <1>6
    DEF Next, Receive, Handle, Sweep, vars, history, Tick, StartSweep, ReceiveInvite, ReceiveAck,
        ReceiveCancel, ReceiveBye, ReceiveProvisional, ReceiveAnswer, Hangup, RefuseInvite,
        RouteMissing, RouteUnusable, MapBLeg, MapCallId, SendBLegInvite, ForwardAnswer, ReplyOk

-----------------------------------------------------------------------------
(***************************************************************************)
(* The age of a session.  ReapedHasExpired is not inductive: a clone that  *)
(* goes back to the table must have expired too when the cleanup has       *)
(* removed its session, and must be as old as the session otherwise.       *)
(***************************************************************************)

Aged(r) == r.last + CallTimeout < now

AgeOK ==
    /\ main.at \in Working =>
          /\ main.s \in Live => main.r.last = sessions[main.s].last
          /\ main.s \in reaped => Aged(main.r)
    /\ \A s \in Live \cap reaped : Aged(sessions[s])
    /\ \A w \in Sweepers : \A s \in Live \cap sweep[w] : Aged(sessions[s])

KeepsAge == \A s \in Live \cap Live' : sessions'[s].last = sessions[s].last

\* Time only makes things older.
LEMMA StaysAged ==
    ASSUME B2BInv, B2BInv', now' >= now, NEW r \in Records, NEW z \in Records,
           Aged(r), z.last = r.last
    PROVE  z.last + CallTimeout < now'
<1>1. now \in Nat /\ now' \in Nat /\ r.last \in Nat /\ CallTimeout \in Nat
    BY RecordFields, B2BUAAssumption DEF Records, B2BInv, TypeOK
<1> QED
    BY <1>1 DEF Aged

\* A step that leaves the sessions alone.
LEMMA QuietAge ==
    ASSUME B2BInv, B2BInv', AgeOK, UNCHANGED <<sessions, reaped>>, now' >= now,
           \A w \in Sweepers : sweep'[w] \subseteq sweep[w] \cup Expired,
           main'.at \in Working =>
               \/ main.at \in Working /\ main'.s = main.s /\ main'.r = main.r
               \/ main'.s \in Live /\ main'.r.last = sessions[main'.s].last
    PROVE  AgeOK' /\ KeepsAge
<1>1. Live' = Live /\ sessions' = sessions /\ \A s \in Live : sessions[s] \in Records
    BY LiveIds DEF Live, B2BInv
<1>2. \A s \in Live \cap reaped : Aged(sessions[s])'
    BY <1>1, StaysAged DEF AgeOK, Aged
<1>3. ASSUME NEW w \in Sweepers, NEW s \in Live, s \in sweep'[w] PROVE Aged(sessions[s])'
  <2>1. Aged(sessions[s])
      BY <1>3 DEF AgeOK, Expired, Aged
  <2> QED
      BY <1>1, <2>1, StaysAged DEF Aged
<1>4. CASE main'.at \in Working
  <2>1. main'.r \in Records
      BY <1>4, AtWork DEF B2BInv, MainOK
  <2>2. main'.s \in Live => main'.r.last = sessions[main'.s].last
      BY <1>4 DEF AgeOK
  <2>3. main'.s \in reaped => main'.r.last + CallTimeout < now'
    <3>1. CASE main'.s \in Live
        BY <1>1, <1>2, <2>2, <3>1 DEF Aged
    <3>2. CASE main'.s \notin Live /\ main'.s \in reaped
      <4>1. main.at \in Working /\ main'.s = main.s /\ main'.r = main.r
          BY <1>4, <3>2
      <4>2. Aged(main.r) /\ main.r \in Records
          BY <3>2, <4>1, <2>1 DEF AgeOK
      <4> QED
          BY <2>1, <4>1, <4>2, StaysAged DEF Aged
    <3> QED
        BY <3>1, <3>2
  <2> QED
      BY <1>1, <1>2, <1>3, <2>2, <2>3 DEF AgeOK, KeepsAge, Aged
<1> QED
    BY <1>1, <1>2, <1>3, <1>4 DEF AgeOK, KeepsAge, Aged

\* A new session is not to be removed by anyone.
LEMMA AdmitAge ==
    ASSUME B2BInv, B2BInv', AgeOK, AdmitInvite
    PROVE  AgeOK' /\ KeepsAge
<1>1. PICK x \in SessionIds \ Created :
        /\ AddSession(x, NewRecord(main.c))
        /\ \/ main' = [main EXCEPT !.at = "begin", !.s = x, !.r = NewRecord(main.c), !.c = None]
           \/ Done
    BY DEF AdmitInvite
<1>2. UNCHANGED <<reaped, sweep, now>> /\ main \in MainType
    BY TypeParts DEF AdmitInvite, B2BInv
<1>3. /\ sessions'[x] = NewRecord(main.c)
      /\ \A s \in SessionIds \ {x} : sessions'[s] = sessions[s]
    BY <1>1 DEF AddSession, B2BInv, TypeOK, StoreTypeOK
<1>4. x \notin reaped /\ x \notin Live /\ \A w \in Sweepers : x \notin sweep[w]
    BY <1>1 DEF B2BInv, FreshOK
<1>5. \A s \in Live' : s # x => s \in Live /\ sessions'[s] = sessions[s]
    BY <1>3 DEF Live
<1>6. main'.at \in Working => main'.s = x /\ main'.r = NewRecord(main.c)
  <2>1. CASE main' = [main EXCEPT !.at = "begin", !.s = x, !.r = NewRecord(main.c), !.c = None]
      BY <1>2, <2>1 DEF MainType
  <2>2. CASE main' = Receiving
      BY <2>2 DEF Receiving, Working
  <2> QED
      BY <1>1, <2>1, <2>2 DEF Done
<1> QED
    BY <1>2, <1>3, <1>4, <1>5, <1>6 DEF AgeOK, KeepsAge, Aged

\* A clone that is written back has the age of its session.
LEMMA WriteBackAge ==
    ASSUME B2BInv, B2BInv', AgeOK,
           BeginRouting \/ AttemptTermination \/ StoreAnswer \/ \E t \in Trunks : RouteFound(t)
    PROVE  AgeOK' /\ KeepsAge
<1> DEFINE x == main.s
<1>1. PICK r \in Records : /\ UpdateSession(x, r) /\ r.last = main.r.last
                           /\ main'.s = x /\ main'.r = r
    BY WritesBack
<1>2. UNCHANGED <<reaped, sweep, now>> /\ main.at \in Working
    BY WritesBack DEF Working
<1>3. x \in SessionIds /\ x \in Live \cup reaped
    BY <1>2, AtWork
<1>4. sessions'[x] = r /\ \A s \in SessionIds \ {x} : sessions'[s] = sessions[s]
    BY <1>1, <1>3 DEF UpdateSession, B2BInv, TypeOK, StoreTypeOK
<1>5. \A s \in Live' : s # x => s \in Live /\ sessions'[s] = sessions[s]
    BY <1>4 DEF Live
<1>6. x \in Live => r.last = sessions[x].last
    BY <1>1, <1>2 DEF AgeOK
<1>7. x \in reaped => Aged(r)
    BY <1>1, <1>2 DEF AgeOK, Aged
<1>8. ASSUME NEW w \in Sweepers, x \in sweep[w] PROVE Aged(r)
    BY <1>3, <1>6, <1>7, <1>8 DEF AgeOK, Aged
<1>9. KeepsAge
    BY <1>4, <1>5, <1>6 DEF KeepsAge
<1> QED
    BY <1>1, <1>2, <1>4, <1>5, <1>7, <1>8, <1>9 DEF AgeOK, Aged

\* terminate_session removes the session at which no other handler works.
LEMMA RemoveTerminatedAge ==
    ASSUME B2BInv, B2BInv', AgeOK, RemoveTerminated
    PROVE  AgeOK' /\ KeepsAge
<1>1. main.s \in SessionIds /\ RemoveSession(main.s) /\ UNCHANGED <<reaped, sweep, now>>
    BY LiveIds DEF RemoveTerminated, B2BInv, MainOK, history
<1>2. main'.at \notin Working
    BY TypeParts DEF RemoveTerminated, AfterTerminate, Goto, Done, Receiving, Working, MainType, B2BInv
<1>3. \A s \in Live' : s \in Live /\ sessions'[s] = sessions[s]
    BY <1>1 DEF RemoveSession, RemovePresent, storeVars, Live, B2BInv, TypeOK, StoreTypeOK
<1> QED
    BY <1>1, <1>2, <1>3 DEF AgeOK, KeepsAge, Aged

\* The cleanup removes what has expired, also from under a handler.
LEMMA RemoveExpiredAge ==
    ASSUME B2BInv, B2BInv', AgeOK, NEW w \in Sweepers, RemoveExpired(w)
    PROVE  AgeOK' /\ KeepsAge
<1>1. PICK x \in sweep[w] :
        /\ RemoveSession(x)
        /\ sweep' = [sweep EXCEPT ![w] = @ \ {x}]
        /\ reaped' = IF x \in Live THEN reaped \cup {x} ELSE reaped
    BY DEF RemoveExpired
<1>2. x \in SessionIds /\ UNCHANGED <<main, now>>
    BY DEF RemoveExpired, B2BInv, TypeOK
<1>3. \A s \in Live' : s \in Live /\ sessions'[s] = sessions[s]
    BY <1>1, <1>2 DEF RemoveSession, RemovePresent, storeVars, Live, B2BInv, TypeOK, StoreTypeOK
<1>4. x \notin Live'
    BY <1>1, <1>2 DEF RemoveSession, RemovePresent, storeVars, Live, B2BInv, TypeOK, StoreTypeOK
<1>5. x \in Live => Aged(sessions[x])
    BY DEF AgeOK
<1>6. \A v \in Sweepers : sweep'[v] \subseteq sweep[v]
    BY <1>1 DEF B2BInv, TypeOK
<1>7. main.at \in Working /\ main.s \in reaped' => Aged(main.r)
    BY <1>1, <1>5 DEF AgeOK, Aged
<1> QED
    BY <1>1, <1>2, <1>3, <1>4, <1>6, <1>7 DEF AgeOK, KeepsAge, Aged

LEMMA AgeStep ==
    B2BInv /\ B2BInv' /\ AgeOK /\ [Next]_vars => AgeOK' /\ KeepsAge
<1> SUFFICES ASSUME B2BInv, B2BInv', AgeOK, [Next]_vars PROVE AgeOK' /\ KeepsAge
    OBVIOUS
<1>1. now \in Nat /\ main \in MainType
    BY RecordFields, TypeParts DEF B2BInv, TypeOK
<1>2. CASE Receive
  <2>1. UNCHANGED <<sessions, reaped, now, sweep>>
      BY <1>2 DEF Receive, ReceiveInvite, ReceiveAck, ReceiveCancel, ReceiveBye,
         ReceiveProvisional, ReceiveAnswer, Hangup, GatewayMaySend, history
  <2>2. main'.at \in Working => main'.s \in Live /\ main'.r.last = sessions[main'.s].last
    <3>1. ASSUME NEW s \in SessionIds, ReceiveAnswer(s)
          PROVE  main'.s \in Live /\ main'.r.last = sessions[main'.s].last
      <4> DEFINE id == Lookup(BLeg(s))
                 r == [sessions[id] EXCEPT !.state = "Connected", !.answer = now]
      <4>1. id # None /\ main' = [Receiving EXCEPT !.at = "answer", !.s = id, !.r = r]
          BY <3>1 DEF ReceiveAnswer
      <4>2. id \in Live /\ sessions[id] \in Records
          BY <4>1, Ids, LiveIds DEF B2BInv
      <4>3. r.last = sessions[id].last
          BY <4>2 DEF Records
      <4> HIDE DEF id, r
      <4>4. main'.s = id /\ main'.r = r
          BY <4>1 DEF Receiving
      <4> QED
          BY <4>2, <4>3, <4>4
    <3>2. CASE \E c \in ALegs : ReceiveInvite(c)
      <4>1. PICK c \in ALegs : ReceiveInvite(c)
          BY <3>2
      <4>2. CASE main' = Receiving
          BY <4>2 DEF Receiving, Working
      <4>3. CASE main' = [Receiving EXCEPT !.at = "admit", !.c = c]
          BY <4>3 DEF Receiving, Working
      <4> QED
          BY <4>1, <4>2, <4>3 DEF ReceiveInvite, Done
    <3>3. CASE \E c \in CallIds, cause \in Causes : Hangup(c, cause)
        BY <3>3 DEF Hangup, Receiving, Working
    <3>4. CASE UNCHANGED main /\ main.at = "recv"
        BY <3>4 DEF Working
    <3>5. /\ \A c \in ALegs : ReceiveAck(c) => UNCHANGED main /\ main.at = "recv"
          /\ \A s \in SessionIds : ReceiveProvisional(s) => UNCHANGED main /\ main.at = "recv"
          /\ "200" \in Causes /\ "487" \in Causes /\ ALegs \subseteq CallIds
        BY Ids DEF ReceiveAck, ReceiveProvisional, GatewayMaySend, Causes
    <3> QED
        BY <1>2, <3>1, <3>2, <3>3, <3>4, <3>5 DEF Receive, ReceiveCancel, ReceiveBye
  <2> QED
      BY <1>1, <2>1, <2>2, QuietAge
<1>3. CASE RefuseInvite \/ RouteUnusable \/ SendBLegInvite \/ ForwardAnswer \/ ReplyOk
           \/ RouteMissing \/ TerminateSession \/ MapBLeg
  <2>1. UNCHANGED <<sessions, reaped, now, sweep>>
      BY <1>3 DEF RefuseInvite, RouteUnusable, SendBLegInvite, ForwardAnswer, ReplyOk,
         RouteMissing, TerminateSession, MapBLeg, MapCallId, history
  <2>2. CASE MapBLeg
    <3>1. main.at \in Working /\ main'.s = main.s /\ main'.r = main.r
        BY <1>1, <2>2 DEF MapBLeg, Goto, Working, MainType
    <3> QED
        BY <1>1, <2>1, <3>1, QuietAge
  <2>3. CASE ~MapBLeg
    <3>1. CASE RouteMissing \/ TerminateSession
      <4>1. RouteMissing => main'.at = "terminate"
          BY <1>1 DEF RouteMissing, MainType
      <4>2. AfterTerminate => main'.at \in {"reply", "recv"}
          BY <1>1 DEF AfterTerminate, Goto, Done, Receiving, MainType
      <4>3. TerminateSession => AfterTerminate \/ main'.at = "remove"
          BY <1>1 DEF TerminateSession, MainType
      <4> QED
          BY <1>1, <2>1, <3>1, <4>1, <4>2, <4>3, QuietAge DEF Working
    <3>2. CASE ~(RouteMissing \/ TerminateSession)
      <4>1. main' = Receiving
          BY <1>3, <2>3, <3>2 DEF RefuseInvite, RouteUnusable, SendBLegInvite, ForwardAnswer,
             ReplyOk, Done
      <4>2. main'.at = "recv"
          BY <4>1 DEF Receiving
      <4> QED
          BY <1>1, <2>1, <4>2, QuietAge DEF Working
    <3> QED
        BY <3>1, <3>2
  <2> QED
      BY <2>2, <2>3
<1>4. CASE Tick \/ UNCHANGED vars \/ \E w \in Sweepers : StartSweep(w)
  <2>1. UNCHANGED <<sessions, reaped, main>> /\ now' >= now
      BY <1>1, <1>4 DEF Tick, StartSweep, vars, history
  <2>2. \A w \in Sweepers : sweep'[w] \subseteq sweep[w] \cup Expired
      BY <1>4 DEF Tick, StartSweep, vars, B2BInv, TypeOK
  <2> QED
      BY <2>1, <2>2, QuietAge
<1> QED
    BY <1>2, <1>3, <1>4, AdmitAge, WriteBackAge, RemoveTerminatedAge, RemoveExpiredAge
    DEF Next, Handle, Sweep

-----------------------------------------------------------------------------
(***************************************************************************)
(* Theorems                                                                *)
(***************************************************************************)

\* Every value has its type; in particular no stored session is ever
\* Connecting (handle_ack), and a trunk never carries more than its limit
\* (route_termination).
THEOREM B2BTypeCorrect == Spec => []TypeOK
<1>1. B2BInv => TypeOK
    BY DEF B2BInv
<1> QED
    BY <1>1, InvAlways, PTL

\* A call gets one CDR at most, and none while it goes on, although
\* terminate_session publishes before it removes and update_session may bring a
\* removed session back.
THEOREM CallsBilledOnce == Spec => []BilledOnce
<1>1. B2BInv => BilledOnce
    BY DEF B2BInv, BillingOK
<1> QED
    BY <1>1, InvAlways, PTL

\* No handler works on an outdated clone of a session: the tables are not locked
\* between get_session and update_session.
THEOREM NoLostUpdate == Spec => []CloneIsCurrent
<1>1. B2BInv => CloneIsCurrent
    BY DEF B2BInv, CloneOK
<1> QED
    BY <1>1, InvAlways, PTL

\* A hang-up of either leg finds the session, unless the cleanup interfered.
THEOREM LiveSessionsReachable == Spec => []SessionsAreReachable
<1>1. B2BInv => SessionsAreReachable
  <2>1. SUFFICES ASSUME B2BInv PROVE SessionsAreReachable
      OBVIOUS
  <2>2. \A s \in Live : mapping[caller[s]] = s \/ \E z \in reaped : caller[z] = caller[s]
      BY <2>1 DEF B2BInv, LiveOK
  <2>3. \A s \in Live : \/ sessions[s].b = None
                        \/ mapping[BLeg(s)] = s
                        \/ main.at = "mapb" /\ main.s = s
                        \/ s \in reaped
      BY <2>1 DEF B2BInv, BLegsOK
  <2>4. \A c \in CallIds : mapping[c] # None => mapping[c] \in Live \cup reaped
      BY <2>1 DEF B2BInv, MappingOK
  <2> QED
      BY <2>2, <2>3, <2>4 DEF SessionsAreReachable
<1> QED
    BY <1>1, InvAlways, PTL

\* handle_invite makes one session of a retransmitted INVITE: two sessions with
\* one Call-ID cannot both be in its mapping.
THEOREM OneSessionAtATime == Spec => []OneSessionPerCallId
<1>1. B2BInv => OneSessionPerCallId
  <2>1. SUFFICES ASSUME B2BInv, NEW s \in Live, NEW z \in Live, s # z, caller[s] = caller[z]
                 PROVE  \E y \in reaped : caller[y] = caller[s]
      BY DEF OneSessionPerCallId
  <2>2. ~(mapping[caller[s]] = s /\ mapping[caller[z]] = z)
      BY <2>1
  <2> QED
      BY <2>1, <2>2 DEF B2BInv, LiveOK
<1> QED
    BY <1>1, InvAlways, PTL

\* Only terminate_session, which has billed the session, and the cleanup take a
\* session out of the table.
THEOREM NoSessionEndsUnbilled == Spec => EndsBilledOrReaped
<1>1. B2BInv /\ [Next]_vars => \A s \in Live \ Live' : cdrs[s] # <<>> \/ s \in reaped'
    BY RemovalStep
<1> QED
    BY <1>1, InvAlways, PTL DEF Spec, EndsBilledOrReaped

\* The handlers and the cleanup implement CallLifecycle, for any number of
\* sessions, callers, trunks and cleanup tasks: whatever the peers send, repeat or
\* leave out, a call rings, is answered, billed once as what it then is, and ends,
\* and only the cleanup drops one or lets a second call share its Call-ID.
THEOREM HandlersImplementLifecycle == Spec => LifecycleImplemented
<1>1. Init => Lifecycle!LifecycleInit
  <2>1. SUFFICES ASSUME Init PROVE Lifecycle!LifecycleInit
      OBVIOUS
  <2>2. Phase = [s \in SessionIds |-> "new"]
      BY <2>1 DEF Init, Phase
  <2> QED
      BY <2>1, <2>2 DEF Init, Lifecycle!LifecycleInit
<1>2. B2BInv /\ [Next]_vars => [Lifecycle!LifecycleNext]_(Lifecycle!lifecycleVars)
    BY StepInv, StepRefines
<1> QED
    BY <1>1, <1>2, InvAlways, PTL DEF Spec, LifecycleImplemented, Lifecycle!LifecycleSpec

\* An answered call stays answered: the clones of the routing handlers are taken
\* before the answer, but written before it too.
THEOREM AnswersKept == Spec => AnswerIsKept
<1>1. B2BInv /\ [Next]_vars =>
        \A s \in Live \cap Live' :
          sessions[s].state = "Connected" =>
              /\ sessions'[s].state = "Connected"
              /\ sessions'[s].answer >= sessions[s].answer
    BY AnsweredStep
<1> QED
    BY <1>1, InvAlways, PTL DEF Spec, AnswerIsKept

\* Nothing renews a session's last_activity, so the cleanup finds it expired once
\* call_timeout_seconds have passed, whatever the handlers write back in between;
\* and a session it removed from under a handler comes back expired.
THEOREM SessionsGrowOld == Spec => ActivityNeverRenewed /\ []ReapedHasExpired
<1>1. Init => AgeOK
    BY DEF Init, StoreInit, Live, Receiving, AgeOK, Working
<1>2. B2BInv /\ B2BInv' /\ AgeOK /\ [Next]_vars => AgeOK' /\ KeepsAge
    BY AgeStep
<1>3. B2BInv /\ AgeOK => ReapedHasExpired
    BY LiveIds DEF B2BInv, AgeOK, Aged, ReapedHasExpired, Expired
<1>4. B2BInv /\ B2BInv' /\ AgeOK /\ [Next]_vars =>
        \A s \in Live \cap Live' : sessions'[s].last = sessions[s].last
    BY <1>2 DEF KeepsAge
<1> QED
    BY <1>1, <1>2, <1>3, <1>4, InvAlways, PTL DEF Spec, ActivityNeverRenewed

\* The handlers have no loop: with a runtime that polls them, each of them ends.
THEOREM HandlersOnlyAdvance == Spec => HandlersAdvance
<1>1. B2BInv /\ [Next]_vars =>
        main'.at = main.at \/ main.at = "recv" \/ PointsAhead[main'.at] < PointsAhead[main.at]
  <2> SUFFICES ASSUME B2BInv, [Next]_vars, main'.at # main.at, main.at # "recv"
               PROVE  PointsAhead[main'.at] < PointsAhead[main.at]
      OBVIOUS
  <2>2. main \in MainType
      BY TypeParts DEF B2BInv
  <2>3. /\ PointsAhead["recv"] = 0 /\ PointsAhead["reply"] = 1
        /\ PointsAhead["sendb"] = 1 /\ PointsAhead["forward"] = 1
        /\ PointsAhead["remove"] = 2 /\ PointsAhead["mapb"] = 2 /\ PointsAhead["answer"] = 2
        /\ PointsAhead["terminate"] = 3 /\ PointsAhead["attempt"] = 3
        /\ PointsAhead["route"] = 4 /\ PointsAhead["begin"] = 5 /\ PointsAhead["admit"] = 6
      BY DEF PointsAhead, Points
  <2>4. Done => main'.at = "recv"
      BY DEF Done, Receiving
  <2>5. AfterTerminate => main'.at \in {"recv", "reply"}
      BY <2>2, <2>4 DEF AfterTerminate, Goto, MainType
  <2>6. \A r, p : WriteBack(r, p) => main'.at = p
      BY <2>2 DEF WriteBack, MainType
  <2>7. CASE RefuseInvite \/ RouteUnusable \/ SendBLegInvite \/ ForwardAnswer \/ ReplyOk
    <3>1. main.at \in {"admit", "attempt", "sendb", "forward", "reply"} /\ Done
        BY <2>7 DEF RefuseInvite, RouteUnusable, SendBLegInvite, ForwardAnswer, ReplyOk
    <3> QED
        BY <2>3, <2>4, <3>1
  <2>8. CASE AdmitInvite
    <3>1. main.at = "admit" /\ main'.at \in {"begin", "recv"}
        BY <2>2, <2>4, <2>8 DEF AdmitInvite, MainType
    <3> QED
        BY <2>3, <3>1
  <2>9. CASE BeginRouting
      BY <2>3, <2>6, <2>9 DEF BeginRouting
  <2>10. CASE RouteMissing
      BY <2>2, <2>3, <2>10 DEF RouteMissing, MainType
  <2>11. ASSUME NEW t \in Trunks, RouteFound(t)
         PROVE  PointsAhead[main'.at] < PointsAhead[main.at]
    <3>1. main.at = "route" /\ main'.at = "attempt"
        BY <2>6, <2>11 DEF RouteFound
    <3> QED
        BY <2>3, <3>1
  <2>12. CASE AttemptTermination
      BY <2>3, <2>6, <2>12 DEF AttemptTermination
  <2>13. CASE MapBLeg
      BY <2>2, <2>3, <2>13 DEF MapBLeg, Goto, MainType
  <2>14. CASE StoreAnswer
      BY <2>3, <2>6, <2>14 DEF StoreAnswer
  <2>15. CASE TerminateSession
    <3>1. main.at = "terminate" /\ (AfterTerminate \/ main'.at = "remove")
        BY <2>2, <2>15 DEF TerminateSession, MainType
    <3> QED
        BY <2>3, <2>5, <3>1
  <2>16. CASE RemoveTerminated
    <3>1. main.at = "remove" /\ AfterTerminate
        BY <2>16 DEF RemoveTerminated
    <3> QED
        BY <2>3, <2>5, <3>1
  <2>17. Receive => main.at = "recv"
      BY DEF Receive, ReceiveInvite, ReceiveAck, ReceiveCancel, ReceiveBye,
         ReceiveProvisional, ReceiveAnswer, Hangup, GatewayMaySend
  <2>18. Tick \/ Sweep \/ UNCHANGED vars => main' = main
      BY DEF Tick, Sweep, StartSweep, RemoveExpired, vars
  <2> QED
      BY <2>7, <2>8, <2>9, <2>10, <2>11, <2>12, <2>13, <2>14, <2>15, <2>16, <2>17, <2>18
      DEF Next, Handle
<1> QED
    BY <1>1, InvAlways, PTL DEF Spec, HandlersAdvance

\* The handlers and the cleanup use the tables as SessionManager offers them, one
\* operation at a time: what SessionLocks shows to be atomic is all that they need.
THEOREM HandlersUseManager == Spec => ManagerUsed
<1>1. Init => Manager!ManagerInit
    BY DEF Init, StoreInit, Manager!ManagerInit, Manager!StoreInit
<1>2. B2BInv /\ [Next]_vars => [Manager!ManagerNext]_(Manager!managerVars)
  <2> SUFFICES ASSUME B2BInv, [Next]_vars, ~UNCHANGED storeVars PROVE Manager!Write
      BY DEF Manager!ManagerNext, Manager!managerVars, storeVars
  <2>2. \A x \in SessionIds, r \in Records :
          AddSession(x, r) \/ UpdateSession(x, r) => Manager!Write
      BY DEF AddSession, UpdateSession, Larger, Legs, Manager!Write, Manager!AddSession,
         Manager!UpdateSession, Manager!Larger, Manager!Legs
  <2>3. \A x \in SessionIds : RemoveSession(x) => Manager!Write
      BY DEF RemoveSession, RemovePresent, Decrement, Legs, storeVars, Manager!Write,
         Manager!RemoveSession, Manager!RemovePresent, Manager!Decrement, Manager!Legs,
         Manager!storeVars
  <2>4. \A x \in SessionIds, c \in CallIds : MapCallId(c, x) => Manager!Write
      BY DEF MapCallId, Manager!Write, Manager!MapCallId
  <2>5. CASE BeginRouting \/ AttemptTermination \/ StoreAnswer \/ \E t \in Trunks : RouteFound(t)
    <3>1. main.s \in SessionIds
        BY <2>5, WritesBack, AtWork DEF Working
    <3> QED
        BY <2>2, <2>5, <3>1, WritesBack
  <2>6. CASE AdmitInvite
    <3>1. PICK x \in SessionIds \ Created : AddSession(x, NewRecord(main.c))
        BY <2>6 DEF AdmitInvite
    <3>2. main.c \in ALegs
        BY <2>6 DEF AdmitInvite, B2BInv, MainOK
    <3>3. NewRecord(main.c) \in Records
        BY <3>2 DEF NewRecord, Records, SessionStates, B2BInv, TypeOK
    <3> QED
        BY <2>2, <3>1, <3>3
  <2>7. CASE RemoveTerminated
      BY <2>3, <2>7, LiveIds DEF RemoveTerminated, B2BInv, MainOK
  <2>8. ASSUME NEW w \in Sweepers, RemoveExpired(w) PROVE Manager!Write
      BY <2>3, <2>8 DEF RemoveExpired, B2BInv, TypeOK
  <2>9. CASE MapBLeg
    <3>1. main.s \in SessionIds /\ MapCallId(BLeg(main.s), main.s)
        BY <2>9, AtWork DEF MapBLeg, Working
    <3> QED
        BY <2>4, <3>1, Ids
  <2> QED
      BY <2>5, <2>6, <2>7, <2>8, <2>9
      DEF Next, Receive, Handle, Sweep, vars, storeVars, Tick, StartSweep, ReceiveInvite,
          ReceiveAck, ReceiveCancel, ReceiveBye, ReceiveProvisional, ReceiveAnswer, Hangup,
          RefuseInvite, RouteMissing, RouteUnusable, SendBLegInvite, ForwardAnswer,
          TerminateSession, ReplyOk
<1> QED
    BY <1>1, <1>2, InvAlways, PTL DEF Spec, ManagerUsed, Manager!ManagerSpec

-----------------------------------------------------------------------------
(***************************************************************************)
(* The statistics.  StatsAgree is not inductive: a trunk's counter must    *)
(* also cover the session of a clone that goes back to the table after the *)
(* cleanup has removed it.                                                 *)
(***************************************************************************)

OnTrunk(t) == {s \in Live : sessions[s].trunk = t}

Carried(t) ==
    OnTrunk(t) \cup {s \in SessionIds : main.at \in Working /\ main.s = s /\ main.r.trunk = t}

CountsOK ==
    /\ IsFiniteSet(Live) /\ IsFiniteSet(Created)
    /\ stats.active <= Cardinality(Live)
    /\ stats.total = Cardinality(Created)
    /\ stats.total <= stats.active + stats.successful + stats.failed
    /\ reaped = {} => /\ stats.active = Cardinality(Live)
                      /\ stats.total = stats.active + stats.successful + stats.failed

TrunksOK == \A t \in Trunks : Cardinality(Carried(t)) <= trunkCalls[t]

StatsInv == CountsOK /\ TrunksOK

LEMMA CarriedFinite ==
    ASSUME TypeOK, IsFiniteSet(Live), NEW t
    PROVE  IsFiniteSet(Carried(t))
<1>1. IsFiniteSet(Live \cup {main.s})
    BY FS_AddElement
<1>2. Carried(t) \subseteq Live \cup {main.s}
    BY DEF Carried, OnTrunk
<1> QED
    BY <1>1, <1>2, FS_Subset

LEMMA InitStats == Init => StatsInv
<1> SUFFICES ASSUME Init PROVE StatsInv
    OBVIOUS
<1>1. Live = {} /\ Created = {} /\ \A t \in Trunks : Carried(t) = {}
    BY DEF Init, StoreInit, Receiving, Live, Created, Carried, OnTrunk, Working
<1>2. CountsOK
    BY <1>1, FS_EmptySet DEF CountsOK, Init, StoreInit
<1>3. TrunksOK
  <2>1. SUFFICES ASSUME NEW t \in Trunks PROVE Cardinality(Carried(t)) <= trunkCalls[t]
      BY DEF TrunksOK
  <2>2. Cardinality(Carried(t)) = 0
      BY <1>1, FS_EmptySet
  <2>3. trunkCalls[t] = 0
      BY DEF Init
  <2> QED
      BY <2>2, <2>3
<1> QED
    BY <1>2, <1>3 DEF StatsInv

\* The counters of trunks that did not lose a call.
LEMMA SameTrunks ==
    ASSUME TypeOK, StatsInv, UNCHANGED trunkCalls,
           \A t \in Trunks : Carried(t)' \subseteq Carried(t)
    PROVE  TrunksOK'
<1>1. SUFFICES ASSUME NEW t \in Trunks PROVE Cardinality(Carried(t)') <= trunkCalls[t]
    BY DEF TrunksOK
<1>2. IsFiniteSet(Carried(t)) /\ Carried(t)' \subseteq Carried(t)
    BY CarriedFinite DEF StatsInv, CountsOK
<1>3. /\ IsFiniteSet(Carried(t)') /\ Cardinality(Carried(t)') <= Cardinality(Carried(t))
    BY <1>2, FS_Subset
<1>4. Cardinality(Carried(t)') \in Nat /\ Cardinality(Carried(t)) \in Nat
    BY <1>2, <1>3, FS_CardinalityType
<1>5. trunkCalls[t] \in Nat /\ Cardinality(Carried(t)) <= trunkCalls[t]
    BY B2BUAAssumption DEF StatsInv, TrunksOK, TypeOK
<1> QED
    BY <1>3, <1>4, <1>5

LEMMA SameCounts ==
    ASSUME StatsInv, UNCHANGED <<sessions, stats, caller, reaped>>
    PROVE  CountsOK'
<1>1. Live' = Live /\ Created' = Created
    BY DEF Live, Created
<1> QED
    BY <1>1 DEF StatsInv, CountsOK

LEMMA AddCounts ==
    ASSUME TypeOK, StatsInv, NEW x \in SessionIds \ Created, x \notin Live, NEW r \in Records,
           NEW c \in ALegs, AddSession(x, r), caller' = [caller EXCEPT ![x] = c],
           UNCHANGED reaped
    PROVE  CountsOK'
<1>1. Live' = Live \cup {x} /\ Created' = Created \cup {x}
    BY Ids DEF AddSession, Live, Created, TypeOK, StoreTypeOK
<1>2. /\ stats'.total = stats.total + 1 /\ stats'.active = stats.active + 1
      /\ stats'.successful = stats.successful /\ stats'.failed = stats.failed
  <2>1. stats \in Stats
      BY DEF TypeOK, StoreTypeOK
  <2> QED
      BY <2>1 DEF AddSession, Stats
<1>3. /\ IsFiniteSet(Live') /\ Cardinality(Live') = Cardinality(Live) + 1
      /\ IsFiniteSet(Created') /\ Cardinality(Created') = Cardinality(Created) + 1
    BY <1>1, FS_AddElement DEF StatsInv, CountsOK
<1>4. /\ stats.total \in Nat /\ stats.active \in Nat /\ stats.successful \in Nat
      /\ stats.failed \in Nat /\ Cardinality(Live) \in Nat /\ Cardinality(Created) \in Nat
    BY FS_CardinalityType DEF TypeOK, StoreTypeOK, Stats, StatsInv, CountsOK
<1> QED
    BY <1>2, <1>3, <1>4 DEF StatsInv, CountsOK

LEMMA UpdateCounts ==
    ASSUME TypeOK, StatsInv, NEW x \in SessionIds, x \in Live \cup reaped, NEW r \in Records,
           UpdateSession(x, r), UNCHANGED <<caller, reaped>>
    PROVE  CountsOK'
<1>1. Live' = Live \cup {x} /\ Created' = Created /\ UNCHANGED stats
    BY Ids DEF UpdateSession, Live, Created, TypeOK, StoreTypeOK
<1>2. /\ IsFiniteSet(Live')
      /\ Cardinality(Live') = IF x \in Live THEN Cardinality(Live) ELSE Cardinality(Live) + 1
    BY <1>1, FS_AddElement DEF StatsInv, CountsOK
<1>3. Cardinality(Live) \in Nat /\ stats.active \in Nat
    BY FS_CardinalityType DEF StatsInv, CountsOK, TypeOK, StoreTypeOK, Stats
<1>4. stats.active <= Cardinality(Live')
    BY <1>2, <1>3 DEF StatsInv, CountsOK
<1>5. reaped = {} => Cardinality(Live') = Cardinality(Live)
    BY <1>2
<1> QED
    BY <1>1, <1>2, <1>4, <1>5 DEF StatsInv, CountsOK

LEMMA RemoveCounts ==
    ASSUME TypeOK, StatsInv, NEW x \in SessionIds, RemoveSession(x),
           UNCHANGED caller, reaped \subseteq reaped'
    PROVE  CountsOK'
<1>1. CASE x \notin Live
  <2>1. UNCHANGED <<sessions, stats>>
      BY <1>1 DEF RemoveSession, storeVars, Live
  <2>2. Live' = Live /\ Created' = Created
      BY <2>1 DEF Live, Created
  <2> QED
      BY <2>1, <2>2 DEF StatsInv, CountsOK
<1>2. CASE x \in Live
  <2>1. RemovePresent(x)
      BY <1>2 DEF RemoveSession, Live
  <2>2. Live' = Live \ {x} /\ Created' = Created
      BY <2>1 DEF RemovePresent, Live, Created, TypeOK, StoreTypeOK
  <2>3. /\ IsFiniteSet(Live') /\ Cardinality(Live') = Cardinality(Live) - 1
      BY <1>2, <2>2, FS_RemoveElement DEF StatsInv, CountsOK
  <2>4. /\ stats \in Stats /\ stats.total \in Nat /\ stats.active \in Nat
        /\ stats.successful \in Nat /\ stats.failed \in Nat
        /\ Cardinality(Live) \in Nat /\ Cardinality(Live') \in Nat
      BY <2>3, FS_CardinalityType DEF TypeOK, StoreTypeOK, Stats, StatsInv, CountsOK
  <2>5. /\ stats'.total = stats.total /\ stats'.active = Decrement(stats.active)
        /\ \/ stats'.successful = stats.successful + 1 /\ stats'.failed = stats.failed
           \/ stats'.successful = stats.successful /\ stats'.failed = stats.failed + 1
      BY <2>1, <2>4 DEF RemovePresent, Stats
  <2>6. /\ Decrement(stats.active) \in Nat
        /\ stats.active <= Decrement(stats.active) + 1
        /\ stats.active = 0 \/ stats.active = Decrement(stats.active) + 1
        /\ stats.active = 0 => Decrement(stats.active) = 0
      BY <2>4 DEF Decrement
  <2>7. /\ stats'.active <= Cardinality(Live')
        /\ stats.total <= stats'.active + stats'.successful + stats'.failed
      BY <2>3, <2>4, <2>5, <2>6 DEF StatsInv, CountsOK
  <2>8. reaped' = {} => /\ stats'.active = Cardinality(Live')
                        /\ stats.total = stats'.active + stats'.successful + stats'.failed
    <3>1. SUFFICES ASSUME reaped' = {}
                   PROVE  /\ stats'.active = Cardinality(Live')
                          /\ stats.total = stats'.active + stats'.successful + stats'.failed
        OBVIOUS
    <3>2. reaped = {}
        BY <3>1
    <3>3. stats.active = Cardinality(Live)
          /\ stats.total = stats.active + stats.successful + stats.failed
        BY <3>2 DEF StatsInv, CountsOK
    <3> QED
        BY <2>3, <2>4, <2>5, <2>6, <3>3
  <2> QED
      BY <2>2, <2>3, <2>5, <2>7, <2>8 DEF StatsInv, CountsOK
<1> QED
    BY <1>1, <1>2

\* Wherever the clone that is written back was worked on, it had its trunk.
LEMMA UpdateTrunks ==
    ASSUME TypeOK, StatsInv, main.at \in Working, main.s \in SessionIds,
           NEW r \in Records, NEW p \in Working, WriteBack(r, p), r.trunk = main.r.trunk,
           UNCHANGED trunkCalls
    PROVE  TrunksOK'
<1>1. /\ main'.at = p /\ main'.s = main.s /\ main'.r = r /\ main \in MainType
    BY TypeParts DEF WriteBack, MainType
<1>2. /\ sessions'[main.s] = r /\ \A s \in SessionIds \ {main.s} : sessions'[s] = sessions[s]
    BY DEF WriteBack, UpdateSession, TypeOK, StoreTypeOK
<1>3. ASSUME NEW t \in Trunks PROVE Carried(t)' \subseteq Carried(t)
  <2>1. SUFFICES ASSUME NEW s \in Carried(t)' PROVE s \in Carried(t)
      OBVIOUS
  <2>2. CASE s = main.s
    <3>1. r.trunk = t
        BY <1>1, <1>2, <2>2 DEF Carried, OnTrunk
    <3> QED
        BY <2>2, <3>1 DEF Carried
  <2>3. CASE s # main.s
      BY <1>1, <1>2, <2>3 DEF Carried, OnTrunk, Live
  <2> QED
      BY <2>2, <2>3
<1> QED
    BY <1>3, SameTrunks

LEMMA RouteTrunks ==
    ASSUME TypeOK, StatsInv, main.s \in SessionIds, main.r \in Records,
           NEW t \in Trunks, RouteFound(t)
    PROVE  TrunksOK'
<1> DEFINE r == [main.r EXCEPT !.trunk = t, !.state = "Terminating"]
<1>1. /\ WriteBack(r, "attempt") /\ trunkCalls' = [trunkCalls EXCEPT ![t] = @ + 1]
      /\ r.trunk = t /\ r \in Records
    BY DEF RouteFound, Records, SessionStates
<1> HIDE DEF r
<1>2. /\ main'.at = "attempt" /\ main'.s = main.s /\ main'.r = r
    BY <1>1, TypeParts DEF WriteBack, MainType
<1>3. /\ sessions'[main.s] = r /\ \A s \in SessionIds \ {main.s} : sessions'[s] = sessions[s]
    BY <1>1 DEF WriteBack, UpdateSession, TypeOK, StoreTypeOK
<1>4. SUFFICES ASSUME NEW u \in Trunks PROVE Cardinality(Carried(u)') <= trunkCalls'[u]
    BY DEF TrunksOK
<1>5. IsFiniteSet(Carried(u)) /\ Cardinality(Carried(u)) \in Nat
      /\ trunkCalls[u] \in Nat /\ Cardinality(Carried(u)) <= trunkCalls[u]
  <2>1. IsFiniteSet(Carried(u))
      BY CarriedFinite DEF StatsInv, CountsOK
  <2>2. trunkCalls[u] \in Nat /\ Cardinality(Carried(u)) <= trunkCalls[u]
      BY B2BUAAssumption DEF StatsInv, TrunksOK, TypeOK
  <2> QED
      BY <2>1, <2>2, FS_CardinalityType
<1>6. Carried(u)' \subseteq Carried(u) \cup {main.s}
    BY <1>2, <1>3 DEF Carried, OnTrunk, Live
<1>7. CASE u = t
  <2>1. IsFiniteSet(Carried(u) \cup {main.s})
        /\ Cardinality(Carried(u) \cup {main.s}) \in Nat
        /\ Cardinality(Carried(u) \cup {main.s}) <= Cardinality(Carried(u)) + 1
    <3>1. /\ IsFiniteSet(Carried(u) \cup {main.s})
          /\ \/ Cardinality(Carried(u) \cup {main.s}) = Cardinality(Carried(u))
             \/ Cardinality(Carried(u) \cup {main.s}) = Cardinality(Carried(u)) + 1
        BY <1>5, FS_AddElement
    <3> QED
        BY <1>5, <3>1
  <2>2. IsFiniteSet(Carried(u)') /\ Cardinality(Carried(u)') \in Nat
        /\ Cardinality(Carried(u)') <= Cardinality(Carried(u) \cup {main.s})
      BY <1>6, <2>1, FS_Subset, FS_CardinalityType
  <2>3. trunkCalls'[u] = trunkCalls[u] + 1
      BY <1>1, <1>7 DEF TypeOK
  <2> QED
      BY <1>5, <2>1, <2>2, <2>3
<1>8. CASE u # t
  <2>1. trunkCalls'[u] = trunkCalls[u]
      BY <1>1, <1>8 DEF TypeOK
  <2>2. main.s \notin Carried(u)'
      BY <1>1, <1>2, <1>3, <1>8 DEF Carried, OnTrunk
  <2>3. IsFiniteSet(Carried(u)') /\ Cardinality(Carried(u)') \in Nat
        /\ Cardinality(Carried(u)') <= Cardinality(Carried(u))
      BY <1>5, <1>6, <2>2, FS_Subset, FS_CardinalityType
  <2> QED
      BY <1>5, <2>1, <2>3
<1> QED
    BY <1>7, <1>8

\* A step that changes no counter and takes no clone that is not in the table.
LEMMA QuietStats ==
    ASSUME TypeOK, StatsInv, UNCHANGED <<sessions, stats, caller, reaped, trunkCalls>>,
           main'.at \in Working =>
               \/ main.at \in Working /\ main'.s = main.s /\ main'.r = main.r
               \/ main'.s \in Live /\ main'.r.trunk = sessions[main'.s].trunk
    PROVE  StatsInv'
<1>1. Live' = Live
    BY DEF Live
<1>2. \A t \in Trunks : Carried(t)' \subseteq Carried(t)
    BY <1>1 DEF Carried, OnTrunk
<1> QED
    BY <1>2, SameCounts, SameTrunks DEF StatsInv

\* A step after which the main loop waits for a message.
LEMMA LeaveStats ==
    ASSUME TypeOK, StatsInv, main'.at \notin Working, UNCHANGED trunkCalls,
           \A s \in Live' : s \in Live /\ sessions'[s] = sessions[s]
    PROVE  TrunksOK'
<1>1. \A t \in Trunks : Carried(t)' \subseteq Carried(t)
    BY DEF Carried, OnTrunk
<1> QED
    BY <1>1, SameTrunks

LEMMA ReceiveStats ==
    ASSUME B2BInv, StatsInv, Receive
    PROVE  StatsInv'
<1> USE DEF B2BInv
<1>1. UNCHANGED <<sessions, stats, caller, reaped, trunkCalls>>
    BY DEF Receive, ReceiveInvite, ReceiveAck, ReceiveCancel, ReceiveBye, ReceiveProvisional,
           ReceiveAnswer, Hangup, history
<1>2. ASSUME NEW s \in SessionIds, ReceiveAnswer(s) PROVE StatsInv'
  <2> DEFINE id == Lookup(BLeg(s))
             r == [sessions[id] EXCEPT !.state = "Connected", !.answer = now]
  <2>1. id \in Live /\ sessions[id] \in Records
      BY <1>2, LiveIds, Ids DEF ReceiveAnswer
  <2>2. main' = [Receiving EXCEPT !.at = "answer", !.s = id, !.r = r]
      BY <1>2 DEF ReceiveAnswer
  <2>3. r.trunk = sessions[id].trunk
      BY <2>1 DEF Records
  <2> HIDE DEF id, r
  <2>4. main'.s = id /\ main'.r = r
      BY <2>2 DEF Receiving
  <2> QED
      BY <1>1, <2>1, <2>3, <2>4, QuietStats
<1>3. ASSUME NEW c \in ALegs, ReceiveInvite(c) PROVE main'.at \in {"recv", "admit"}
  <2>1. CASE main' = Receiving
      BY <2>1 DEF Receiving
  <2>2. CASE main' = [Receiving EXCEPT !.at = "admit", !.c = c]
      BY <2>2 DEF Receiving
  <2> QED
      BY <1>3, <2>1, <2>2 DEF ReceiveInvite, Done
<1>4. \A c \in CallIds : \A cause \in Causes : Hangup(c, cause) => main'.at = "terminate"
    BY DEF Hangup, Receiving
<1>5. ASSUME main'.at \notin Working \/ UNCHANGED main PROVE StatsInv'
    BY <1>1, <1>5, QuietStats
<1>6. "200" \in Causes /\ "487" \in Causes /\ ALegs \subseteq CallIds
    BY Ids DEF Causes
<1> QED
    BY <1>2, <1>3, <1>4, <1>5, <1>6
    DEF Receive, ReceiveCancel, ReceiveBye, ReceiveAck, ReceiveProvisional, Working

LEMMA HandleStats ==
    ASSUME B2BInv, StatsInv, Handle
    PROVE  StatsInv'
<1> USE DEF B2BInv
<1>0. main \in MainType /\ B2BInv'
    BY TypeParts, HandleStep
<1>1. CASE RefuseInvite \/ RouteUnusable \/ SendBLegInvite \/ ForwardAnswer \/ ReplyOk
  <2>1. main' = Receiving
      BY <1>1 DEF RefuseInvite, RouteUnusable, SendBLegInvite, ForwardAnswer, ReplyOk, Done
  <2>2. UNCHANGED <<sessions, stats, caller, reaped, trunkCalls>>
      BY <1>1 DEF RefuseInvite, RouteUnusable, SendBLegInvite, ForwardAnswer, ReplyOk, history
  <2>3. main'.at \notin Working
      BY <2>1 DEF Receiving, Working
  <2> QED
      BY <2>2, <2>3, QuietStats
<1>2. CASE RouteMissing
  <2>1. main'.at \notin Working /\ UNCHANGED <<sessions, stats, caller, reaped, trunkCalls>>
      BY <1>0, <1>2 DEF RouteMissing, MainType, history, Working
  <2> QED
      BY <2>1, QuietStats
<1>3. CASE MapBLeg
  <2>1. /\ UNCHANGED <<sessions, stats, caller, reaped, trunkCalls>>
        /\ main.at \in Working /\ main'.s = main.s /\ main'.r = main.r
      BY <1>0, <1>3 DEF MapBLeg, MapCallId, Goto, MainType, history, Working
  <2> QED
      BY <2>1, QuietStats
<1>4. AfterTerminate => main'.at \notin Working
    BY <1>0 DEF AfterTerminate, Done, Goto, Receiving, MainType, Working
<1>5. CASE TerminateSession
  <2>1. UNCHANGED <<sessions, stats, caller, reaped, trunkCalls>>
      BY <1>5 DEF TerminateSession, history
  <2>2. main'.at \notin Working
    <3>1. CASE main' = [main EXCEPT !.at = "remove", !.r = sessions[main.s]]
        BY <1>0, <3>1 DEF MainType, Working
    <3> QED
        BY <1>4, <1>5, <3>1 DEF TerminateSession
  <2> QED
      BY <2>1, <2>2, QuietStats
<1>6. CASE RemoveTerminated
  <2>1. RemoveSession(main.s) /\ UNCHANGED <<caller, reaped, trunkCalls, cdrs, now, sweep>>
        /\ AfterTerminate /\ main.s \in Created /\ main.s \in SessionIds
      BY <1>6, LiveIds DEF RemoveTerminated, MainOK, history
  <2>2. CountsOK'
      BY <2>1, RemoveCounts
  <2>3. \A s \in Live' : s \in Live /\ sessions'[s] = sessions[s]
      BY <2>1, RemoveTables DEF Tables, FreshOK
  <2> QED
      BY <1>4, <2>1, <2>2, <2>3, LeaveStats DEF StatsInv
<1>7. CASE AdmitInvite
  <2>1. PICK x \in SessionIds \ Created :
          /\ AddSession(x, NewRecord(main.c))
          /\ caller' = [caller EXCEPT ![x] = main.c]
          /\ \/ main' = [main EXCEPT !.at = "begin", !.s = x, !.r = NewRecord(main.c), !.c = None]
             \/ Done
      BY <1>7 DEF AdmitInvite
  <2>2. main.c \in ALegs /\ mapping[main.c] = None
        /\ UNCHANGED <<reaped, cdrs, now, sweep, trunkCalls>>
      BY <1>7 DEF AdmitInvite, MainOK
  <2>3. /\ Live' = Live \cup {x} /\ sessions'[x] = NewRecord(main.c)
        /\ \A s \in Live : sessions'[s] = sessions[s]
      BY <2>1, <2>2, AddTables DEF Tables
  <2>4. NewRecord(main.c) \in Records /\ NewRecord(main.c).trunk = None
      BY <2>2 DEF NewRecord, Records, SessionStates, TypeOK
  <2>5. CountsOK'
      BY <2>1, <2>2, <2>4, AddCounts DEF FreshOK
  <2>6. main'.at \in Working => main'.s = x /\ main'.r = NewRecord(main.c)
    <3>1. CASE Done
        BY <3>1 DEF Done, Receiving, Working
    <3> QED
        BY <1>0, <2>1, <3>1 DEF MainType
  <2>7. \A t \in Trunks : Carried(t)' \subseteq Carried(t)
      BY <2>3, <2>4, <2>6, Ids DEF Carried, OnTrunk
  <2> QED
      BY <2>2, <2>5, <2>7, SameTrunks DEF StatsInv
<1>8. main.at \in Working =>
        main.s \in SessionIds /\ main.r \in Records /\ main.s \in Live \cup reaped
    BY AtWork
<1>9. ASSUME NEW r \in Records, NEW p \in Working, WriteBack(r, p), main.at \in Working,
             UNCHANGED <<caller, reaped>>
      PROVE  CountsOK'
    BY <1>8, <1>9, UpdateCounts DEF WriteBack
<1>10. CASE BeginRouting
  <2> DEFINE r == [main.r EXCEPT !.state = "Routing"]
  <2>1. main.at \in Working /\ "route" \in Working /\ WriteBack(r, "route")
        /\ UNCHANGED <<caller, reaped, trunkCalls>>
      BY <1>10 DEF BeginRouting, history, Working
  <2>2. r \in Records /\ r.trunk = main.r.trunk
      BY <1>8, <2>1 DEF Records, SessionStates
  <2> HIDE DEF r
  <2> QED
      BY <1>8, <1>9, <2>1, <2>2, UpdateTrunks DEF StatsInv
<1>11. ASSUME NEW t \in Trunks, RouteFound(t) PROVE StatsInv'
  <2> DEFINE r == [main.r EXCEPT !.trunk = t, !.state = "Terminating"]
  <2>1. main.at \in Working /\ "attempt" \in Working /\ WriteBack(r, "attempt")
        /\ UNCHANGED <<caller, reaped>>
      BY <1>11 DEF RouteFound, history, Working
  <2>2. r \in Records
      BY <1>8, <2>1 DEF Records, SessionStates
  <2> HIDE DEF r
  <2> QED
      BY <1>8, <1>9, <1>11, <2>1, <2>2, RouteTrunks DEF StatsInv
<1>12. CASE AttemptTermination
  <2> DEFINE r == [main.r EXCEPT !.b = BLeg(main.s), !.state = "Terminating"]
  <2>1. main.at \in Working /\ "mapb" \in Working /\ WriteBack(r, "mapb")
        /\ UNCHANGED <<caller, reaped, trunkCalls>>
      BY <1>12 DEF AttemptTermination, history, Working
  <2>2. r \in Records /\ r.trunk = main.r.trunk
      BY <1>8, <2>1 DEF Records, SessionStates
  <2> HIDE DEF r
  <2> QED
      BY <1>8, <1>9, <2>1, <2>2, UpdateTrunks DEF StatsInv
<1>13. CASE StoreAnswer
  <2>1. main.at \in Working /\ "forward" \in Working /\ WriteBack(main.r, "forward")
        /\ UNCHANGED <<caller, reaped, trunkCalls>>
      BY <1>13 DEF StoreAnswer, history, Working
  <2> QED
      BY <1>8, <1>9, <2>1, UpdateTrunks DEF StatsInv
<1> QED
    BY <1>1, <1>2, <1>3, <1>5, <1>6, <1>7, <1>10, <1>11, <1>12, <1>13 DEF Handle

LEMMA OtherStats ==
    ASSUME B2BInv, StatsInv, Sweep \/ Tick \/ UNCHANGED vars
    PROVE  StatsInv'
<1> USE DEF B2BInv
<1>1. CASE Tick \/ (\E w \in Sweepers : StartSweep(w)) \/ UNCHANGED vars
  <2>1. UNCHANGED <<sessions, stats, caller, reaped, trunkCalls, main>>
      BY <1>1 DEF Tick, StartSweep, vars, history
  <2> QED
      BY <2>1, QuietStats
<1>2. ASSUME NEW w \in Sweepers, RemoveExpired(w) PROVE StatsInv'
  <2>1. PICK x \in sweep[w] :
          /\ RemoveSession(x)
          /\ sweep' = [sweep EXCEPT ![w] = @ \ {x}]
          /\ reaped' = IF x \in Live THEN reaped \cup {x} ELSE reaped
          /\ UNCHANGED <<main, trunkCalls, cdrs, sent, now, caller>>
      BY <1>2 DEF RemoveExpired
  <2>2. x \in Created /\ x \in SessionIds
        /\ reaped \subseteq reaped' /\ reaped' \subseteq reaped \cup {x}
      BY <2>1, LiveIds DEF FreshOK
  <2>3. \A u \in Sweepers : sweep'[u] \subseteq Created
      BY <2>1 DEF FreshOK, TypeOK
  <2>4. \A s \in Live' : s \in Live /\ sessions'[s] = sessions[s]
      BY <2>1, <2>2, <2>3, RemoveTables DEF Tables
  <2>5. CountsOK'
      BY <2>1, <2>2, RemoveCounts
  <2>6. \A t \in Trunks : Carried(t)' \subseteq Carried(t)
      BY <2>1, <2>4 DEF Carried, OnTrunk
  <2> QED
      BY <2>1, <2>5, <2>6, SameTrunks DEF StatsInv
<1> QED
    BY <1>1, <1>2 DEF Sweep

LEMMA StatsAlways == Spec => []StatsInv
<1>1. B2BInv /\ StatsInv /\ [Next]_vars => StatsInv'
    BY ReceiveStats, HandleStats, OtherStats DEF Next
<1> QED
    BY <1>1, InitStats, InvAlways, PTL DEF Spec

\* The statistics count what is in the table, up to the sessions that the
\* cleanup removed; every session that was added is in them, and a trunk's
\* counter covers its live sessions (add_session, remove_session,
\* update_session, route_termination).
THEOREM StatisticsAgree == Spec => []StatsAgree
<1>1. TypeOK /\ StatsInv => StatsAgree
  <2>1. SUFFICES ASSUME TypeOK, StatsInv, NEW t \in Trunks
                 PROVE  Cardinality(OnTrunk(t)) <= trunkCalls[t]
      BY DEF StatsInv, CountsOK, StatsAgree, OnTrunk
  <2>2. IsFiniteSet(Carried(t)) /\ OnTrunk(t) \subseteq Carried(t)
      BY <2>1, CarriedFinite DEF StatsInv, CountsOK, Carried
  <2>3. Cardinality(OnTrunk(t)) <= Cardinality(Carried(t))
        /\ Cardinality(OnTrunk(t)) \in Nat /\ Cardinality(Carried(t)) \in Nat
      BY <2>2, FS_Subset, FS_CardinalityType
  <2>4. trunkCalls[t] \in Nat /\ Cardinality(Carried(t)) <= trunkCalls[t]
      BY <2>1, B2BUAAssumption DEF StatsInv, TrunksOK, TypeOK
  <2> QED
      BY <2>3, <2>4
<1> QED
    BY <1>1, B2BTypeCorrect, StatsAlways, PTL

\* The look-up and the cleanup that block each other change no table: whatever holds
\* of the handlers and the cleanup holds until then and afterwards
\* (get_session_by_any_call_id, remove_session).
THEOREM BlockingChangesNothing == BlockingSpec => Spec
<1>1. BlockingInit => Init
    BY DEF BlockingInit
<1>2. [BlockingNext]_blockingVars => [Next]_vars
    BY DEF BlockingNext, Free, Block, TickBlocked, Next, blockingVars
<1> QED
    BY <1>1, <1>2, PTL DEF BlockingSpec, Spec
=============================================================================
