---------------------------- MODULE LrnDipProofs ----------------------------
(***************************************************************************)
(* Proofs about LrnDip, for any number of dips, numbers and servers.       *)
(*                                                                         *)
(* AnswersWereAsked is not inductive alone: a dip takes its answer from    *)
(* the socket or from the cache, so the responses on the socket must       *)
(* answer questions too (InboxAsked).  FailoverComplete needs to know how  *)
(* many servers a dip has turned to at each point (Started).               *)
(* RoundRobinBalanced follows from what the index says of every server's   *)
(* turns (TurnsTaken).                                                     *)
(***************************************************************************)
EXTENDS LrnDip, FiniteSetTheorems, TLAPS

\* The responses on the socket answer requests that were sent.
InboxAsked ==
    \A m \in inbox : m.of \in asked /\ (m.reply = "error" \/ WasAsked(m.reply))

\* A dip has turned to no server before it has the socket, and to one at least
\* while it waits.
Started ==
    \A d \in Dips :
        /\ dip[d] \in {"idle", "expired", "dial"} => tried[d] = <<>>
        /\ dip[d] \in {"send", "wait"} => tried[d] # <<>>

LrnInv == TypeOK /\ InboxAsked /\ AnswersWereAsked /\ Started /\ FailoverComplete

-----------------------------------------------------------------------------

LEMMA NumbersAnswers ==
    /\ \A d \in Dips : NumberOf[d] \in Numbers /\ Lrn[NumberOf[d]] \in Answers
    /\ None \in Answers /\ "error" \notin Answers
BY LrnAssumption DEF Numbers, Answers

LEMMA InitInv == Init => LrnInv
<1> SUFFICES ASSUME Init PROVE LrnInv
    OBVIOUS
<1> USE DEF Init
<1>1. TypeOK
    <2>1. tried \in [Dips -> Seq(1..N)]
        OBVIOUS
    <2>2. answer \in [Dips -> Answers]
        BY NumbersAnswers
    <2>3. dip \in [Dips -> Points]
        BY DEF Points
    <2> QED
        BY <2>1, <2>2, <2>3, LrnAssumption DEF TypeOK, Time
<1>2. InboxAsked
    BY DEF InboxAsked
<1>3. AnswersWereAsked
    BY DEF AnswersWereAsked
<1>4. Started
    BY DEF Started
<1>5. FailoverComplete
    BY DEF FailoverComplete
<1> QED
    BY <1>1, <1>2, <1>3, <1>4, <1>5 DEF LrnInv

-----------------------------------------------------------------------------
(***************************************************************************)
(* Turning to a server                                                     *)
(***************************************************************************)

\* What a server more means for the list of a dip's servers.
LEMMA OneMore ==
    ASSUME NEW q \in Seq(1..N), NEW k \in 1..N
    PROVE  /\ Append(q, k) \in Seq(1..N) /\ Append(q, k) # <<>>
           /\ Len(Append(q, k)) = Len(q) + 1
           /\ \A i \in 1..Len(q) : Append(q, k)[i] = q[i]
           /\ Append(q, k)[Len(q) + 1] = k
OBVIOUS

\* The index of the round robin leads to a server.
LEMMA TurnInRange == ASSUME TypeOK PROVE (index % N) + 1 \in 1..N
BY LrnAssumption DEF TypeOK

LEMMA TurnToEffect ==
    ASSUME TypeOK, NEW d \in Dips, NEW k \in 1..N, TurnTo(d, k)
    PROVE  /\ tried' \in [Dips -> Seq(1..N)] /\ dip' \in [Dips -> Points]
           /\ dip'[d] = "send" /\ tried'[d] = Append(tried[d], k)
           /\ \A e \in Dips \ {d} : dip'[e] = dip[e] /\ tried'[e] = tried[e]
<1>1. tried[d] \in Seq(1..N)
    BY DEF TypeOK
<1>2. Append(tried[d], k) \in Seq(1..N)
    BY <1>1, OneMore
<1> QED
    BY <1>2 DEF TypeOK, TurnTo, Points

\* A dip that starts: with the first server, or with the next in turn.
LEMMA DialEffect ==
    ASSUME TypeOK, Started, NEW d \in Dips, Dial(d)
    PROVE  \E k \in 1..N :
              /\ TurnTo(d, k) /\ tried[d] = <<>>
              /\ strategy = "priority" => k = 1
<1>1. 1 \in 1..N
    BY LrnAssumption
<1>2. tried[d] = <<>>
    BY DEF Dial, Started
<1>3. CASE strategy = "round_robin"
    BY <1>2, <1>3, TurnInRange DEF Dial
<1>4. CASE strategy # "round_robin"
    BY <1>1, <1>2, <1>4 DEF Dial
<1> QED
    BY <1>3, <1>4

\* A dip whose server has failed: the next one, or the end.
LEMMA NextServerEffect ==
    ASSUME TypeOK, NEW d \in Dips, NextServer(d)
    PROVE  \/ /\ strategy = "priority" /\ Len(tried[d]) < N
              /\ Len(tried[d]) + 1 \in 1..N
              /\ TurnTo(d, Len(tried[d]) + 1)
           \/ /\ strategy = "priority" => Len(tried[d]) >= N
              /\ dip' = [dip EXCEPT ![d] = "failed"] /\ tried' = tried
<1>1. Len(tried[d]) \in Nat /\ N \in Nat
    <2>1. tried[d] \in Seq(1..N)
        BY DEF TypeOK
    <2> QED
        BY <2>1, LrnAssumption
<1> QED
    BY <1>1 DEF NextServer

\* The steps in which a dip goes on after its server has failed.
Fails(d) == GiveUp(d) \/ ReceiveError(d)

LEMMA FailsEffect ==
    ASSUME TypeOK, NEW d \in Dips, Fails(d)
    PROVE  /\ NextServer(d) /\ Dialling(d)
           /\ inbox' \subseteq inbox
           /\ UNCHANGED <<strategy, open, answer, cache, index, asked, now>>
BY DEF Fails, GiveUp, ReceiveError, Dialling

-----------------------------------------------------------------------------
(***************************************************************************)
(* The parts of the invariant are preserved                                *)
(***************************************************************************)

\* A step of a dip, by the point it comes from.
LEMMA TypeOfDipStep ==
    ASSUME LrnInv, NEW d \in Dips, Proceed(d) \/ Abandon(d)
    PROVE  TypeOK'
<1> USE DEF LrnInv
<1>1. NumberOf[d] \in Numbers /\ None \in Answers
    BY NumbersAnswers
<1>2. Cached(d) \in {None} \cup [lrn : Answers \ {None}, expires : Nat]
    BY <1>1 DEF TypeOK, Cached
<1>3. CASE Hit(d)
    <2>1. Cached(d).lrn \in Answers
        BY <1>2, <1>3 DEF Hit
    <2> QED
        BY <1>3, <2>1 DEF Hit, TypeOK, Points
<1>4. CASE Miss(d)
    BY <1>4 DEF Miss, TypeOK, Points
<1>5. CASE RemoveExpired(d)
    BY <1>1, <1>5 DEF RemoveExpired, TypeOK, Points
<1>6. CASE DialClosed(d)
    BY <1>6 DEF DialClosed, TypeOK, Points
<1>7. CASE Dial(d)
    <2>1. tried' \in [Dips -> Seq(1..N)] /\ dip' \in [Dips -> Points]
        BY <1>7, DialEffect, TurnToEffect
    <2>2. index' \in Nat
        BY <1>7 DEF Dial, TypeOK
    <2> QED
        BY <1>7, <2>1, <2>2 DEF Dial, TypeOK
<1>8. CASE Send(d)
    BY <1>8 DEF Send, TypeOK, Points
<1>9. CASE Fails(d)
    <2>1. tried' \in [Dips -> Seq(1..N)] /\ dip' \in [Dips -> Points]
        <3>1. CASE \E k \in 1..N : TurnTo(d, k)
            BY <3>1, TurnToEffect
        <3>2. CASE dip' = [dip EXCEPT ![d] = "failed"] /\ tried' = tried
            BY <3>2 DEF TypeOK, Points
        <3> QED
            BY <1>9, <3>1, <3>2, FailsEffect, NextServerEffect
    <2> QED
        BY <1>9, <2>1, FailsEffect DEF TypeOK
<1>10. CASE Receive(d)
    <2>1. PICK m \in Accepted(d) :
             /\ m.reply # "error" /\ inbox' = inbox \ {m}
             /\ answer' = [answer EXCEPT ![d] = m.reply]
             /\ cache' = IF m.reply = None THEN cache
                         ELSE [cache EXCEPT ![NumberOf[d]] =
                                 [lrn |-> m.reply, expires |-> now + Lifetime]]
        BY <1>10 DEF Receive
    <2>2. m.reply \in Answers
        BY <2>1 DEF Accepted, TypeOK
    <2>3. now + Lifetime \in Nat
        BY LrnAssumption DEF TypeOK, Time
    <2>4. cache' \in [Numbers -> {None} \cup [lrn : Answers \ {None}, expires : Nat]]
        BY <1>1, <2>1, <2>2, <2>3 DEF TypeOK
    <2> QED
        BY <1>10, <2>1, <2>2, <2>4 DEF Receive, TypeOK, Points
<1>11. CASE Abandon(d)
    BY <1>11 DEF Abandon, TypeOK, Points
<1> QED
    BY <1>3, <1>4, <1>5, <1>6, <1>7, <1>8, <1>9, <1>10, <1>11 DEF Proceed, Fails

LEMMA TypeOfOtherStep ==
    ASSUME LrnInv, RefuseConfig \/ Respond \/ Tick
    PROVE  TypeOK'
<1> USE DEF LrnInv
<1>1. CASE RefuseConfig
    BY <1>1 DEF RefuseConfig, TypeOK
<1>2. CASE Respond
    <2>1. PICK d \in asked : \E reply \in {Lrn[NumberOf[d]], "error"} :
             inbox' = inbox \cup {[of |-> d, reply |-> reply]}
        BY <1>2 DEF Respond
    <2>2. d \in Dips /\ Lrn[NumberOf[d]] \in Answers
        BY <2>1, NumbersAnswers DEF TypeOK
    <2>3. inbox' \subseteq [of : Dips, reply : Answers \cup {"error"}]
        BY <2>1, <2>2 DEF TypeOK
    <2> QED
        BY <1>2, <2>3 DEF Respond, TypeOK
<1>3. CASE Tick
    BY <1>3, LrnAssumption DEF Tick, TypeOK, Time
<1> QED
    BY <1>1, <1>2, <1>3

LEMMA InboxStep == ASSUME LrnInv, Next PROVE InboxAsked'
<1> USE DEF LrnInv
<1>1. CASE inbox' \subseteq inbox /\ asked \subseteq asked'
    BY <1>1 DEF InboxAsked, WasAsked
<1>2. CASE Respond
    <2>1. PICK d \in asked : \E reply \in {Lrn[NumberOf[d]], "error"} :
             inbox' = inbox \cup {[of |-> d, reply |-> reply]}
        BY <1>2 DEF Respond
    <2>2. WasAsked(Lrn[NumberOf[d]]) /\ asked' = asked
        BY <1>2, <2>1 DEF WasAsked, Respond
    <2> QED
        BY <2>1, <2>2 DEF InboxAsked, WasAsked
<1>3. ASSUME NEW d \in Dips, Proceed(d) \/ Abandon(d)
      PROVE  inbox' \subseteq inbox /\ asked \subseteq asked'
    BY <1>3 DEF Proceed, Hit, Miss, RemoveExpired, DialClosed, Dial, Send, GiveUp,
                ReceiveError, Receive, Abandon
<1>4. CASE RefuseConfig \/ Tick
    BY <1>1, <1>4 DEF RefuseConfig, Tick
<1> QED
    BY <1>1, <1>2, <1>3, <1>4 DEF Next

\* The steps that neither answer a dip nor fill the cache nor lose a question.
LEMMA QuietStep ==
    ASSUME LrnInv, answer' = answer, asked \subseteq asked',
           \A d \in Dips : dip'[d] = "answered" => dip[d] = "answered",
           \A n \in Numbers : cache'[n] = cache[n] \/ cache'[n] = None
    PROVE  AnswersWereAsked'
BY DEF LrnInv, AnswersWereAsked, WasAsked

LEMMA AnswersStep == ASSUME LrnInv, Next PROVE AnswersWereAsked'
<1> USE DEF LrnInv
<1>1. ASSUME NEW d \in Dips, Hit(d) PROVE AnswersWereAsked'
    <2>1. NumberOf[d] \in Numbers
        BY NumbersAnswers
    <2>2. Cached(d) # None /\ WasAsked(Cached(d).lrn)
        BY <1>1, <2>1 DEF Hit, Cached, AnswersWereAsked
    <2>3. /\ dip' = [dip EXCEPT ![d] = "answered"]
          /\ answer' = [answer EXCEPT ![d] = Cached(d).lrn]
          /\ asked' = asked /\ cache' = cache
        BY <1>1 DEF Hit
    <2> QED
        BY <2>2, <2>3 DEF AnswersWereAsked, WasAsked, TypeOK
<1>2. ASSUME NEW d \in Dips, Receive(d) PROVE AnswersWereAsked'
    <2>1. PICK m \in Accepted(d) :
             /\ m.reply # "error"
             /\ answer' = [answer EXCEPT ![d] = m.reply]
             /\ cache' = IF m.reply = None THEN cache
                         ELSE [cache EXCEPT ![NumberOf[d]] =
                                 [lrn |-> m.reply, expires |-> now + Lifetime]]
        BY <1>2 DEF Receive
    <2>2. WasAsked(m.reply)
        BY <2>1 DEF Accepted, InboxAsked
    <2>3. dip' = [dip EXCEPT ![d] = "answered"] /\ asked' = asked
        BY <1>2 DEF Receive
    <2>4. \A e \in Dips : dip'[e] = "answered" => WasAsked(answer'[e])
        BY <2>1, <2>2, <2>3 DEF AnswersWereAsked, TypeOK
    <2>5. \A n \in Numbers : cache'[n] # None => WasAsked(cache'[n].lrn)
        BY <2>1, <2>2 DEF AnswersWereAsked, TypeOK
    <2> QED
        BY <2>3, <2>4, <2>5 DEF AnswersWereAsked, WasAsked
<1>3. ASSUME NEW d \in Dips, RemoveExpired(d) PROVE AnswersWereAsked'
    BY <1>3, QuietStep DEF RemoveExpired, TypeOK
<1>4. ASSUME NEW d \in Dips, Dial(d) PROVE AnswersWereAsked'
    BY <1>4, DialEffect, TurnToEffect, QuietStep DEF Dial
<1>5. ASSUME NEW d \in Dips, Fails(d) PROVE AnswersWereAsked'
    <2>1. \A e \in Dips : dip'[e] = "answered" => dip[e] = "answered"
        <3>1. CASE \E k \in 1..N : TurnTo(d, k)
            BY <3>1, TurnToEffect
        <3>2. CASE dip' = [dip EXCEPT ![d] = "failed"] /\ tried' = tried
            BY <3>2 DEF TypeOK
        <3> QED
            BY <1>5, <3>1, <3>2, FailsEffect, NextServerEffect
    <2> QED
        BY <1>5, <2>1, FailsEffect, QuietStep
<1>6. ASSUME NEW d \in Dips, Miss(d) \/ DialClosed(d) \/ Send(d) \/ Abandon(d)
      PROVE  AnswersWereAsked'
    BY <1>6, QuietStep DEF Miss, DialClosed, Send, Abandon, TypeOK
<1>7. CASE RefuseConfig \/ Respond \/ Tick
    BY <1>7, QuietStep DEF RefuseConfig, Respond, Tick
<1> QED
    BY <1>1, <1>2, <1>3, <1>4, <1>5, <1>6, <1>7 DEF Next, Proceed, Fails

\* What FailoverComplete and Started say of one dip.
StartedOne(d) ==
    /\ dip[d] \in {"idle", "expired", "dial"} => tried[d] = <<>>
    /\ dip[d] \in {"send", "wait"} => tried[d] # <<>>

FailoverOne(d) ==
    IF strategy = "priority"
      THEN /\ \A i \in 1..Len(tried[d]) : tried[d][i] = i
           /\ dip[d] = "failed" => Len(tried[d]) = N \/ ~open
      ELSE Len(tried[d]) <= 1

LEMMA OneByOne ==
    /\ Started <=> \A d \in Dips : StartedOne(d)
    /\ FailoverComplete <=> \A d \in Dips : FailoverOne(d)
BY DEF Started, StartedOne, FailoverComplete, FailoverOne

LEMMA OneByOneNext ==
    /\ Started' <=> \A d \in Dips : StartedOne(d)'
    /\ FailoverComplete' <=> \A d \in Dips : FailoverOne(d)'
BY DEF Started, StartedOne, FailoverComplete, FailoverOne

\* In priority order a dip has turned to no more servers than there are.
LEMMA AtMostN ==
    ASSUME TypeOK, NEW d \in Dips, strategy = "priority", FailoverOne(d)
    PROVE  Len(tried[d]) \in Nat /\ Len(tried[d]) <= N
<1>1. tried[d] \in Seq(1..N) /\ N \in Nat
    BY LrnAssumption DEF TypeOK
<1>2. Len(tried[d]) \in Nat
    BY <1>1
<1>3. CASE Len(tried[d]) > 0
    <2>1. tried[d][Len(tried[d])] \in 1..N
        BY <1>1, <1>2, <1>3
    <2>2. tried[d][Len(tried[d])] = Len(tried[d])
        BY <1>2, <1>3 DEF FailoverOne
    <2> QED
        BY <1>1, <1>2, <2>1, <2>2
<1> QED
    BY <1>1, <1>2, <1>3

\* A dip that turns to the server after those it has turned to.
LEMMA TurnKeeps ==
    ASSUME TypeOK, NEW d \in Dips, NEW k \in 1..N, TurnTo(d, k), FailoverOne(d),
           UNCHANGED strategy,
           strategy = "priority" => k = Len(tried[d]) + 1,
           strategy # "priority" => tried[d] = <<>>
    PROVE  StartedOne(d)' /\ FailoverOne(d)'
<1>1. tried[d] \in Seq(1..N) /\ Len(tried[d]) \in Nat
    BY DEF TypeOK
<1>2. dip'[d] = "send" /\ tried'[d] = Append(tried[d], k)
    BY TurnToEffect
<1>3. /\ tried'[d] # <<>> /\ Len(tried'[d]) = Len(tried[d]) + 1
      /\ \A i \in 1..Len(tried[d]) : tried'[d][i] = tried[d][i]
      /\ tried'[d][Len(tried[d]) + 1] = k
    BY <1>1, <1>2, OneMore
<1>4. StartedOne(d)'
    BY <1>2, <1>3 DEF StartedOne
<1>5. CASE strategy = "priority"
    <2>1. \A i \in 1..Len(tried'[d]) : tried'[d][i] = i
        BY <1>1, <1>3, <1>5 DEF FailoverOne
    <2> QED
        BY <1>2, <1>4, <1>5, <2>1 DEF FailoverOne
<1>6. CASE strategy # "priority"
    <2>1. Len(tried'[d]) = 1
        BY <1>3, <1>6
    <2> QED
        BY <1>4, <1>6, <2>1 DEF FailoverOne
<1> QED
    BY <1>5, <1>6

\* A step of dip d that leaves the servers alone.
LEMMA StayKeeps ==
    ASSUME NEW d \in Dips, StartedOne(d), FailoverOne(d),
           UNCHANGED strategy, open' => open, tried'[d] = tried[d],
           dip'[d] \in {"idle", "expired", "dial"} => dip[d] \in {"idle", "expired", "dial"},
           dip'[d] \in {"send", "wait"} => dip[d] \in {"send", "wait"},
           dip'[d] = "failed" => \/ dip[d] = "failed" \/ ~open'
                                 \/ strategy = "priority" => Len(tried[d]) = N
    PROVE  StartedOne(d)' /\ FailoverOne(d)'
<1>1. StartedOne(d)'
    BY DEF StartedOne
<1>2. FailoverOne(d)'
    BY DEF FailoverOne
<1> QED
    BY <1>1, <1>2

\* One dip's step preserves what is said of it and of the others.
LEMMA DipStepKeeps ==
    ASSUME LrnInv, NEW d \in Dips, Proceed(d) \/ Abandon(d)
    PROVE  Started' /\ FailoverComplete'
<1> USE DEF LrnInv
<1>1. \A e \in Dips : StartedOne(e) /\ FailoverOne(e)
    BY OneByOne
<1>2. UNCHANGED <<strategy, open>>
    BY DEF Proceed, Hit, Miss, RemoveExpired, DialClosed, Dial, Send, GiveUp,
           ReceiveError, Receive, Abandon
<1>3. /\ StartedOne(d)' /\ FailoverOne(d)'
      /\ \A e \in Dips \ {d} : dip'[e] = dip[e] /\ tried'[e] = tried[e]
    <2>1. CASE Hit(d) \/ Miss(d) \/ RemoveExpired(d) \/ DialClosed(d) \/ Send(d)
               \/ Receive(d) \/ Abandon(d)
        <3>1. PICK p \in Points :
                 /\ tried' = tried /\ dip' = [dip EXCEPT ![d] = p]
                 /\ p \in {"idle", "expired", "dial"} => dip[d] \in {"idle", "expired", "dial"}
                 /\ p \in {"send", "wait"} => dip[d] \in {"send", "wait"}
                 /\ p = "failed" => ~open'
            BY <2>1, <1>2 DEF Hit, Miss, RemoveExpired, DialClosed, Send, Receive, Abandon,
                              Points
        <3>2. dip'[d] = p /\ \A e \in Dips \ {d} : dip'[e] = dip[e]
            BY <3>1 DEF TypeOK
        <3> QED
            BY <1>1, <1>2, <3>1, <3>2, StayKeeps
    <2>2. CASE Dial(d)
        <3>1. PICK k \in 1..N :
                 TurnTo(d, k) /\ tried[d] = <<>> /\ (strategy = "priority" => k = 1)
            BY <2>2, DialEffect
        <3> QED
            BY <1>1, <1>2, <3>1, TurnKeeps, TurnToEffect
    <2>3. CASE Fails(d)
        <3>1. NextServer(d)
            BY <2>3, FailsEffect
        <3>2. CASE /\ strategy = "priority" /\ Len(tried[d]) + 1 \in 1..N
                   /\ TurnTo(d, Len(tried[d]) + 1)
            BY <1>1, <1>2, <3>2, TurnKeeps, TurnToEffect
        <3>3. CASE /\ strategy = "priority" => Len(tried[d]) >= N
                   /\ dip' = [dip EXCEPT ![d] = "failed"] /\ tried' = tried
            <4>1. strategy = "priority" => Len(tried[d]) = N
                BY <1>1, <3>3, AtMostN, LrnAssumption
            <4> QED
                BY <1>1, <1>2, <3>3, <4>1, StayKeeps DEF TypeOK
        <3> QED
            BY <3>1, <3>2, <3>3, NextServerEffect
    <2> QED
        BY <2>1, <2>2, <2>3 DEF Proceed, Fails
<1>4. ASSUME NEW e \in Dips \ {d} PROVE StartedOne(e)' /\ FailoverOne(e)'
    BY <1>1, <1>2, <1>3, StayKeeps
<1> QED
    BY <1>3, <1>4, OneByOneNext

LEMMA OtherStepKeeps ==
    ASSUME LrnInv, RefuseConfig \/ Respond \/ Tick
    PROVE  Started' /\ FailoverComplete'
<1>1. UNCHANGED <<strategy, dip, tried>> /\ (open' => open)
    BY DEF RefuseConfig, Respond, Tick
<1>2. \A e \in Dips : StartedOne(e) /\ FailoverOne(e)
    BY OneByOne DEF LrnInv
<1>3. \A e \in Dips : StartedOne(e)' /\ FailoverOne(e)'
    BY <1>1, <1>2, StayKeeps
<1> QED
    BY <1>3, OneByOneNext

-----------------------------------------------------------------------------

LEMMA NextInv == LrnInv /\ [Next]_vars => LrnInv'
<1> SUFFICES ASSUME LrnInv, [Next]_vars PROVE LrnInv'
    OBVIOUS
<1>1. CASE Next
    <2>1. TypeOK'
        BY <1>1, TypeOfDipStep, TypeOfOtherStep DEF Next
    <2>2. Started' /\ FailoverComplete'
        BY <1>1, DipStepKeeps, OtherStepKeeps DEF Next
    <2>3. InboxAsked' /\ AnswersWereAsked'
        BY <1>1, InboxStep, AnswersStep
    <2> QED
        BY <2>1, <2>2, <2>3 DEF LrnInv
<1>2. CASE UNCHANGED vars
    BY <1>2 DEF vars, LrnInv, TypeOK, InboxAsked, AnswersWereAsked, WasAsked, Started,
                FailoverComplete
<1> QED
    BY <1>1, <1>2

THEOREM LrnInvAlways == Spec => []LrnInv
BY InitInv, NextInv, PTL DEF Spec

\* The variables keep their types: in particular no dip turns to a server that
\* is not configured (perform_sip_dip).
THEOREM LrnTypeCorrect == Spec => []TypeOK
<1>1. LrnInv => TypeOK
    BY DEF LrnInv
<1> QED
    BY <1>1, LrnInvAlways, PTL

\* Whatever is lost, late, repeated or abandoned, what a dip returns and what the
\* cache keeps answers a question that was sent (dip_lrn, receive_sip_response).
THEOREM AnswersAlwaysAsked == Spec => []AnswersWereAsked
<1>1. LrnInv => AnswersWereAsked
    BY DEF LrnInv
<1> QED
    BY <1>1, LrnInvAlways, PTL

\* A dip fails over to every server in turn, and fails only after the last or
\* for want of a socket (perform_sip_dip).
THEOREM FailoverIsComplete == Spec => []FailoverComplete
<1>1. LrnInv => FailoverComplete
    BY DEF LrnInv
<1> QED
    BY <1>1, LrnInvAlways, PTL
-----------------------------------------------------------------------------
(***************************************************************************)
(* The round robin                                                         *)
(*                                                                         *)
(* A server's starts are known from the index alone: every server has had  *)
(* the same number of turns, and those before the index one turn more.     *)
(***************************************************************************)

Turns == index % N

TurnsTaken ==
    strategy = "round_robin" =>
        \E rounds \in Nat :
            \A k \in 1..N : Starts(k) = rounds + (IF k <= Turns THEN 1 ELSE 0)

LEMMA NextTurn ==
    ASSUME NEW a \in Nat, NEW n \in Nat \ {0}
    PROVE  /\ a % n \in 0..(n - 1)
           /\ (a + 1) % n = IF (a % n) + 1 = n THEN 0 ELSE (a % n) + 1
<1>1. PICK q \in Nat, r \in 0..(n - 1) : a = n * q + r /\ r = a % n
    <2>1. a % n \in 0..(n - 1)
        OBVIOUS
    <2>2. a \div n \in Nat
        OBVIOUS
    <2>3. a = n * (a \div n) + (a % n)
        OBVIOUS
    <2> QED
        BY <2>1, <2>2, <2>3
<1>2. ASSUME NEW b \in Nat, NEW p \in Nat, NEW s \in 0..(n - 1), b = n * p + s
      PROVE  b % n = s
    BY <1>2
<1>3. CASE r + 1 = n
    <2>1. a + 1 = n * (q + 1) + 0
        <3> DEFINE m == n * q
        <3>1. m \in Int /\ n * (q + 1) = m + n
            OBVIOUS
        <3>2. a = m + r /\ a \in Int /\ r \in Int /\ n \in Int
            BY <1>1
        <3> HIDE DEF m
        <3>3. m + n = a + 1
            BY <1>3, <3>1, <3>2
        <3> QED
            BY <3>1, <3>3
    <2>2. q + 1 \in Nat /\ 0 \in 0..(n - 1) /\ a + 1 \in Nat
        OBVIOUS
    <2>3. (a + 1) % n = 0
        BY <1>2, <2>1, <2>2
    <2> QED
        BY <1>1, <1>3, <2>3
<1>4. CASE r + 1 # n
    <2>1. a + 1 = n * q + (r + 1)
        BY <1>1
    <2>2. r + 1 \in 0..(n - 1) /\ a + 1 \in Nat
        BY <1>1, <1>4
    <2>3. (a + 1) % n = r + 1
        BY <1>1, <1>2, <2>1, <2>2
    <2> QED
        BY <1>1, <1>4, <2>3
<1> QED
    BY <1>3, <1>4

\* The dips that started with server k.
StartedAt(k) == {d \in Dips : tried[d] # <<>> /\ tried[d][1] = k}

LEMMA StartsFinite ==
    ASSUME NEW k
    PROVE  IsFiniteSet(StartedAt(k)) /\ Cardinality(StartedAt(k)) \in Nat
<1>1. StartedAt(k) \subseteq Dips
    BY DEF StartedAt
<1> QED
    BY <1>1, LrnAssumption, FS_Subset, FS_CardinalityType

LEMMA InitTurns == Init => TurnsTaken
<1> SUFFICES ASSUME Init PROVE TurnsTaken
    OBVIOUS
<1>1. \A k \in 1..N : Starts(k) = 0
    <2>1. \A k \in 1..N : {d \in Dips : tried[d] # <<>> /\ tried[d][1] = k} = {}
        BY DEF Init
    <2> QED
        BY <2>1, FS_EmptySet DEF Starts
<1>2. Turns = 0
    BY LrnAssumption DEF Init, Turns
<1> QED
    BY <1>1, <1>2 DEF TurnsTaken

\* A dip that starts takes its turn.
LEMMA DialTurns ==
    ASSUME TypeOK, Started, TurnsTaken, NEW d \in Dips, Dial(d), strategy = "round_robin"
    PROVE  TurnsTaken'
<1>0. PICK j \in 1..N : j = Turns + 1
    <2>1. N \in Nat \ {0} /\ index \in Nat
        BY LrnAssumption DEF TypeOK
    <2>2. Turns \in 0..(N - 1)
        BY <2>1, NextTurn DEF Turns
    <2>3. Turns + 1 \in 1..N
        BY <2>1, <2>2
    <2> QED
        BY <2>3
<1>1. /\ index \in Nat /\ N \in Nat \ {0} /\ index' = index + 1
      /\ TurnTo(d, j) /\ tried[d] = <<>> /\ UNCHANGED strategy
    BY <1>0, LrnAssumption DEF TypeOK, Dial, Started, Turns
<1>2. Turns \in 0..(N - 1) /\ j \in 1..N /\ Turns' = IF j = N THEN 0 ELSE j
    <2>1. Turns \in 0..(N - 1)
        BY <1>1, NextTurn DEF Turns
    <2>2. Turns' = IF Turns + 1 = N THEN 0 ELSE Turns + 1
        BY <1>1, NextTurn DEF Turns
    <2> QED
        BY <1>0, <1>1, <2>1, <2>2
<1>3. tried'[d] = Append(tried[d], j) /\ \A e \in Dips \ {d} : tried'[e] = tried[e]
    BY <1>1, <1>2, TurnToEffect
<1>4. tried'[d] # <<>> /\ tried'[d][1] = j
    BY <1>1, <1>2, <1>3
<1>5. PICK rounds \in Nat :
          \A k \in 1..N : Starts(k) = rounds + (IF k <= Turns THEN 1 ELSE 0)
    BY DEF TurnsTaken
<1>6. \A k \in 1..N : Starts(k) = Cardinality(StartedAt(k))
                      /\ Starts(k)' = Cardinality(StartedAt(k)')
    BY DEF Starts, StartedAt
<1>7. Starts(j)' = Starts(j) + 1
    <2>1. StartedAt(j)' = StartedAt(j) \cup {d} /\ d \notin StartedAt(j)
        BY <1>1, <1>3, <1>4 DEF StartedAt
    <2>2. Cardinality(StartedAt(j) \cup {d}) = Cardinality(StartedAt(j)) + 1
        BY <2>1, StartsFinite, FS_AddElement
    <2> QED
        BY <1>2, <1>6, <2>1, <2>2
<1>8. ASSUME NEW k \in 1..N, k # j
      PROVE  Starts(k)' = Starts(k)
    <2>1. StartedAt(k)' = StartedAt(k)
        BY <1>1, <1>3, <1>4, <1>8 DEF StartedAt
    <2> QED
        BY <1>6, <2>1
<1>9. Turns \in Int /\ j \in Int
    BY <1>0, <1>2
<1>10. ASSUME NEW k \in 1..N
       PROVE  Starts(k)' = rounds + (IF k <= j THEN 1 ELSE 0)
    <2>1. CASE k = j
        BY <1>0, <1>2, <1>5, <1>7, <1>9, <2>1
    <2>2. CASE k # j
        BY <1>0, <1>2, <1>5, <1>8, <1>9, <2>2
    <2> QED
        BY <2>1, <2>2
<1>11. CASE j = N
    <2>1. rounds + 1 \in Nat /\ Turns' = 0
        BY <1>2, <1>11
    <2>2. \A k \in 1..N : Starts(k)' = (rounds + 1) + (IF k <= Turns' THEN 1 ELSE 0)
        BY <1>1, <1>10, <1>11, <2>1
    <2> QED
        BY <2>1, <2>2 DEF TurnsTaken
<1>12. CASE j # N
    <2>1. \A k \in 1..N : Starts(k)' = rounds + (IF k <= Turns' THEN 1 ELSE 0)
        BY <1>2, <1>10, <1>12
    <2> QED
        BY <2>1 DEF TurnsTaken
<1> QED
    BY <1>11, <1>12

LEMMA NextTurns == LrnInv /\ TurnsTaken /\ [Next]_vars => TurnsTaken'
<1> SUFFICES ASSUME LrnInv, TurnsTaken, [Next]_vars, strategy' = "round_robin"
             PROVE  TurnsTaken'
    BY DEF TurnsTaken
<1>1. strategy = "round_robin" /\ TypeOK /\ Started
    BY DEF Next, Proceed, Hit, Miss, RemoveExpired, DialClosed, Dial, Send, GiveUp,
           ReceiveError, Receive, Abandon, RefuseConfig, Respond, Tick, vars, LrnInv
<1>2. ASSUME UNCHANGED <<tried, index>> PROVE TurnsTaken'
    BY <1>1, <1>2 DEF TurnsTaken, Starts, Turns
<1>3. ASSUME NEW d \in Dips, Dial(d) PROVE TurnsTaken'
    BY <1>1, <1>3, DialTurns
<1>4. ASSUME NEW d \in Dips, Fails(d) PROVE UNCHANGED <<tried, index>>
    BY <1>1, <1>4, FailsEffect, NextServerEffect
<1>5. ASSUME NEW d \in Dips,
             Hit(d) \/ Miss(d) \/ RemoveExpired(d) \/ DialClosed(d) \/ Send(d)
                \/ Receive(d) \/ Abandon(d)
      PROVE  UNCHANGED <<tried, index>>
    BY <1>5 DEF Hit, Miss, RemoveExpired, DialClosed, Send, Receive, Abandon
<1>6. CASE RefuseConfig \/ Respond \/ Tick \/ UNCHANGED vars
    BY <1>2, <1>6 DEF RefuseConfig, Respond, Tick, vars
<1> QED
    BY <1>2, <1>3, <1>4, <1>5, <1>6 DEF Next, Proceed, Fails

\* However dips overlap, fail and are abandoned, no server is the first of two
\* dips more than another is (get_next_server).
THEOREM RoundRobinIsBalanced == Spec => []RoundRobinBalanced
<1>1. LrnInv /\ TurnsTaken => RoundRobinBalanced
    <2> SUFFICES ASSUME TurnsTaken, strategy = "round_robin", NEW j \in 1..N, NEW k \in 1..N
                 PROVE  Starts(j) <= Starts(k) + 1
        BY DEF RoundRobinBalanced
    <2> QED
        BY DEF TurnsTaken
<1>2. Spec => []TurnsTaken
    BY InitTurns, NextTurns, LrnInvAlways, PTL DEF Spec
<1> QED
    BY <1>1, <1>2, LrnInvAlways, PTL
-----------------------------------------------------------------------------
(***************************************************************************)
(* The end of a dip                                                        *)
(***************************************************************************)

\* A dip has turned to no more servers than there are, and to one at least while
\* it has the socket.
Turned ==
    \A d \in Dips : /\ Len(tried[d]) \in 0..N
                    /\ Dialling(d) => Len(tried[d]) \in 1..N

LEMMA TurnedFromInv == LrnInv => Turned
<1> SUFFICES ASSUME LrnInv, NEW d \in Dips
             PROVE  /\ Len(tried[d]) \in 0..N
                    /\ Dialling(d) => Len(tried[d]) \in 1..N
    BY DEF Turned
<1> USE DEF LrnInv
<1>1. N \in Nat \ {0} /\ tried[d] \in Seq(1..N) /\ Len(tried[d]) \in Nat
    BY LrnAssumption DEF TypeOK
<1>2. StartedOne(d) /\ FailoverOne(d)
    BY OneByOne
<1>3. Len(tried[d]) <= N
  <2>1. CASE strategy = "priority"
      BY <1>2, <2>1, AtMostN
  <2>2. CASE strategy # "priority"
      BY <1>1, <1>2, <2>2 DEF FailoverOne
  <2> QED
      BY <2>1, <2>2
<1>4. Dialling(d) => tried[d] # <<>>
    BY <1>2 DEF Dialling, StartedOne
<1>5. tried[d] # <<>> => Len(tried[d]) # 0
    BY <1>1
<1> QED
    BY <1>1, <1>3, <1>4, <1>5

LEMMA LeftIsNatural == LrnInv => NoneLeftAtEnd
<1> SUFFICES ASSUME LrnInv, NEW d \in Dips
             PROVE  StepsLeft(d) \in Nat /\ (StepsLeft(d) = 0 <=> Ended(d))
    BY DEF NoneLeftAtEnd
<1>1. dip[d] \in Points /\ N \in Nat
    BY LrnAssumption DEF LrnInv, TypeOK
<1>2. CASE Dialling(d)
  <2>1. Len(tried[d]) \in 1..N
      BY <1>2, TurnedFromInv DEF Turned
  <2> QED
      BY <1>1, <1>2, <2>1 DEF StepsLeft, Dialling, Ended
<1>3. CASE ~Dialling(d)
    BY <1>1, <1>3 DEF StepsLeft, Dialling, Ended, Points
<1> QED
    BY <1>2, <1>3

\* What a dip's step does to the steps it has left.
LEMMA OwnStep ==
    ASSUME LrnInv, NEW d \in Dips, Proceed(d) \/ Abandon(d)
    PROVE  /\ StepsLeft(d)' < StepsLeft(d)
           /\ \A e \in Dips \ {d} : dip'[e] = dip[e] /\ tried'[e] = tried[e]
<1> USE DEF LrnInv
<1>1. N \in Nat /\ dip[d] \in Points /\ Len(tried[d]) \in Nat
    BY LrnAssumption, TurnedFromInv DEF TypeOK, Turned
<1>2. Dialling(d) => Len(tried[d]) \in 1..N
    BY TurnedFromInv DEF Turned
<1>3. CASE Hit(d) \/ Miss(d) \/ RemoveExpired(d) \/ DialClosed(d) \/ Send(d) \/ Receive(d) \/ Abandon(d)
  <2>1. PICK p \in Points :
           /\ tried' = tried /\ dip' = [dip EXCEPT ![d] = p]
           /\ \/ dip[d] = "idle" /\ p \in {"answered", "dial", "expired"}
              \/ dip[d] = "expired" /\ p = "dial"
              \/ dip[d] = "send" /\ p = "wait"
              \/ dip[d] \in {"dial", "send", "wait"} /\ p \in {"failed", "answered", "gone"}
      BY <1>3 DEF Hit, Miss, RemoveExpired, DialClosed, Send, Receive, Abandon, Points
  <2>2. dip'[d] = p /\ tried'[d] = tried[d]
        /\ \A e \in Dips \ {d} : dip'[e] = dip[e] /\ tried'[e] = tried[e]
      BY <2>1 DEF TypeOK
  <2>3. dip[d] \in {"send", "wait"} => Len(tried[d]) \in 1..N
      BY <1>2 DEF Dialling
  <2>4. StepsLeft(d)' < StepsLeft(d)
      BY <1>1, <2>1, <2>2, <2>3 DEF StepsLeft
  <2> QED
      BY <2>2, <2>4
<1>4. CASE Dial(d)
  <2>1. PICK k \in 1..N : TurnTo(d, k) /\ tried[d] = <<>>
      BY <1>4, DialEffect
  <2>2. /\ dip'[d] = "send" /\ tried'[d] = Append(tried[d], k)
        /\ \A e \in Dips \ {d} : dip'[e] = dip[e] /\ tried'[e] = tried[e]
      BY <2>1, TurnToEffect
  <2>3. Len(tried'[d]) = 1 /\ dip[d] = "dial"
      BY <1>4, <2>1, <2>2 DEF Dial
  <2> QED
      BY <1>1, <2>2, <2>3 DEF StepsLeft
<1>5. CASE Fails(d)
  <2>1. NextServer(d) /\ dip[d] \in {"send", "wait"} /\ Len(tried[d]) \in 1..N
      BY <1>2, <1>5, FailsEffect DEF Dialling
  <2>2. CASE /\ strategy = "priority" /\ Len(tried[d]) < N
             /\ Len(tried[d]) + 1 \in 1..N
             /\ TurnTo(d, Len(tried[d]) + 1)
    <3>1. /\ dip'[d] = "send" /\ tried'[d] = Append(tried[d], Len(tried[d]) + 1)
          /\ \A e \in Dips \ {d} : dip'[e] = dip[e] /\ tried'[e] = tried[e]
        BY <2>2, TurnToEffect
    <3>2. Len(tried'[d]) = Len(tried[d]) + 1
      <4>1. tried[d] \in Seq(1..N)
          BY DEF TypeOK
      <4> QED
          BY <2>2, <3>1, <4>1, OneMore
    <3> QED
        BY <1>1, <2>1, <2>2, <3>1, <3>2 DEF StepsLeft
  <2>3. CASE dip' = [dip EXCEPT ![d] = "failed"] /\ tried' = tried
    <3>1. dip'[d] = "failed" /\ tried'[d] = tried[d]
          /\ \A e \in Dips \ {d} : dip'[e] = dip[e] /\ tried'[e] = tried[e]
        BY <2>3 DEF TypeOK
    <3> QED
        BY <1>1, <2>1, <3>1 DEF StepsLeft
  <2> QED
      BY <2>1, <2>2, <2>3, NextServerEffect
<1> QED
    BY <1>3, <1>4, <1>5 DEF Proceed, Fails

LEMMA StepAdvances ==
    ASSUME LrnInv, NoneLeftAtEnd, NoneLeftAtEnd', Next, NEW d \in Dips
    PROVE  /\ StepsLeft(d)' <= StepsLeft(d)
           /\ Proceed(d) => StepsLeft(d)' < StepsLeft(d)
<1>1. StepsLeft(d) \in Nat /\ StepsLeft(d)' \in Nat
    BY DEF NoneLeftAtEnd
<1>2. CASE Proceed(d) \/ Abandon(d)
  <2>1. StepsLeft(d)' < StepsLeft(d)
      BY <1>2, OwnStep
  <2> QED
      BY <1>1, <1>2, <2>1
<1>3. CASE ~(Proceed(d) \/ Abandon(d))
  <2>1. dip'[d] = dip[d] /\ tried'[d] = tried[d]
    <3>1. CASE \E e \in Dips : Proceed(e) \/ Abandon(e)
      <4>1. PICK e \in Dips : Proceed(e) \/ Abandon(e)
          BY <3>1
      <4>2. d \in Dips \ {e}
          BY <1>3, <4>1
      <4> QED
          BY <4>1, <4>2, OwnStep
    <3>2. CASE RefuseConfig \/ Respond \/ Tick
        BY <3>2 DEF RefuseConfig, Respond, Tick
    <3> QED
        BY <3>1, <3>2 DEF Next
  <2>2. StepsLeft(d)' = StepsLeft(d)
      BY <2>1 DEF StepsLeft
  <2> QED
      BY <1>1, <1>3, <2>2
<1> QED
    BY <1>2, <1>3

\* Whatever the servers answer, and whether they do, a dip goes from one point to
\* the next and is through after 2 * N + 3 steps at most (dip_lrn,
\* perform_sip_dip, try_server).
THEOREM DipsAlwaysAdvance == Spec => []NoneLeftAtEnd /\ DipsAdvance
<1>1. LrnInv /\ NoneLeftAtEnd /\ NoneLeftAtEnd' /\ [Next]_vars =>
         [\A d \in Dips : /\ StepsLeft(d)' <= StepsLeft(d)
                          /\ Proceed(d) => StepsLeft(d)' < StepsLeft(d)]_vars
    BY StepAdvances
<1> QED
    BY <1>1, LeftIsNatural, LrnInvAlways, PTL DEF Spec, DipsAdvance
=============================================================================
