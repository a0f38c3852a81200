------------------------------- MODULE LrnDip -------------------------------
(***************************************************************************)
(* The look-up of local routing numbers ("LRN dips"), LrnDipService of     *)
(* src/src/lcr/lrn_dip.rs: a query for a called number first looks into a  *)
(* cache and then sends an OPTIONS request to one server after the other.  *)
(*                                                                         *)
(* All dips share one UDP socket.  A dip that waits takes whatever response*)
(* arrives next: receive_sip_response accepts every datagram in which the  *)
(* text "lrn-dip" occurs, and it is part of the Call-ID of every dip.      *)
(* Requests and responses may be lost, late, repeated and out of order,    *)
(* and the caller of a dip may go away in the middle of it.                *)
(***************************************************************************)
EXTENDS Naturals, Sequences, FiniteSets

CONSTANTS
    Dips,        \* the calls of dip_lrn
    NumberOf,    \* the pair of calling and called number each of them asks for
    Lrn,         \* what the servers know: the LRN of each number, if it is ported
    N,           \* how many servers get_servers returns, in the order of priority
    Lifetime,    \* cache_timeout_sec
    MaxTime,     \* bound of the clock
    None

Numbers == {NumberOf[d] : d \in Dips}
Answers == {Lrn[n] : n \in Numbers} \cup {None}
Strategies == {"priority", "round_robin"}
Time == 0..MaxTime

ASSUME LrnAssumption ==
    /\ IsFiniteSet(Dips) /\ DOMAIN NumberOf = Dips
    /\ Numbers \subseteq DOMAIN Lrn
    /\ N \in Nat \ {0}
    /\ Lifetime \in Nat \ {0} /\ MaxTime \in Nat
    /\ None \notin Dips /\ "error" \notin Answers

VARIABLES
    strategy,  \* load_balancing (with any other value only the first server is tried)
    open,      \* client_socket is bound
    dip,       \* what each dip is doing
    tried,     \* the servers each dip has turned to, in order
    answer,    \* the LRN each dip has returned, if any
    cache,     \* LRN and expiry, by number
    index,     \* round_robin_index
    asked,     \* the dips that have sent a request
    inbox,     \* the responses the socket has received
    now

vars == <<strategy, open, dip, tried, answer, cache, index, asked, inbox, now>>

Points == {"idle", "expired", "dial", "send", "wait", "answered", "failed", "gone"}

\* A dip that has the socket's read guard.
Dialling(d) == dip[d] \in {"send", "wait"}

Init ==
    /\ strategy \in Strategies
    /\ open = TRUE
    /\ dip = [d \in Dips |-> "idle"]
    /\ tried = [d \in Dips |-> <<>>]
    /\ answer = [d \in Dips |-> None]
    /\ cache = [n \in Numbers |-> None]
    /\ index = 0
    /\ asked = {}
    /\ inbox = {}
    /\ now = 0

-----------------------------------------------------------------------------
(***************************************************************************)
(* The cache                                                               *)
(***************************************************************************)

Cached(d) == cache[NumberOf[d]]

\* An entry that has not expired is the answer.
Hit(d) ==
    /\ dip[d] = "idle"
    /\ Cached(d) # None /\ Cached(d).expires > now
    /\ dip' = [dip EXCEPT ![d] = "answered"]
    /\ answer' = [answer EXCEPT ![d] = Cached(d).lrn]
    /\ UNCHANGED <<strategy, open, tried, cache, index, asked, inbox, now>>

\* get_cached_lrn works on a clone: the entry is removed by its key later on,
\* when another dip may have replaced it.
Miss(d) ==
    /\ dip[d] = "idle"
    /\ \/ Cached(d) = None
          /\ dip' = [dip EXCEPT ![d] = "dial"]
       \/ Cached(d) # None /\ Cached(d).expires <= now
          /\ dip' = [dip EXCEPT ![d] = "expired"]
    /\ UNCHANGED <<strategy, open, tried, answer, cache, index, asked, inbox, now>>

RemoveExpired(d) ==
    /\ dip[d] = "expired"
    /\ cache' = [cache EXCEPT ![NumberOf[d]] = None]
    /\ dip' = [dip EXCEPT ![d] = "dial"]
    /\ UNCHANGED <<strategy, open, tried, answer, index, asked, inbox, now>>

-----------------------------------------------------------------------------
(***************************************************************************)
(* The servers                                                             *)
(***************************************************************************)

\* The dip turns to server k.
TurnTo(d, k) ==
    /\ tried' = [tried EXCEPT ![d] = Append(@, k)]
    /\ dip' = [dip EXCEPT ![d] = "send"]

\* Without a socket the dip fails before it chooses a server.
DialClosed(d) ==
    /\ dip[d] = "dial" /\ ~open
    /\ dip' = [dip EXCEPT ![d] = "failed"]
    /\ UNCHANGED <<strategy, open, tried, answer, cache, index, asked, inbox, now>>

\* Wrong variant: the index stays.
DialUnturned(d) ==
    /\ dip[d] = "dial" /\ open
    /\ TurnTo(d, IF strategy = "round_robin" THEN (index % N) + 1 ELSE 1)
    /\ UNCHANGED <<strategy, open, answer, cache, index, asked, inbox, now>>

\* perform_sip_dip starts with the first server, or with the next in turn:
\* get_next_server increments the index atomically.
Dial(d) ==
    /\ dip[d] = "dial" /\ open
    /\ IF strategy = "round_robin"
         THEN TurnTo(d, (index % N) + 1) /\ index' = index + 1
         ELSE TurnTo(d, 1) /\ UNCHANGED index
    /\ UNCHANGED <<strategy, open, answer, cache, asked, inbox, now>>

\* The request leaves; the network may still lose it.
Send(d) ==
    /\ dip[d] = "send"
    /\ asked' = asked \cup {d}
    /\ dip' = [dip EXCEPT ![d] = "wait"]
    /\ UNCHANGED <<strategy, open, tried, answer, cache, index, inbox, now>>

\* Wrong variants: a server too many; the first server again; and a number that
\* no server has answered for is taken not to be ported.
NextServerPastLast(d) ==
    IF strategy = "priority" /\ Len(tried[d]) <= N
      THEN TurnTo(d, Len(tried[d]) + 1)
      ELSE dip' = [dip EXCEPT ![d] = "failed"] /\ UNCHANGED tried

NextServerAgain(d) ==
    IF strategy = "priority" /\ Len(tried[d]) <= N
      THEN TurnTo(d, Len(tried[d]))
      ELSE dip' = [dip EXCEPT ![d] = "failed"] /\ UNCHANGED tried

NextServerAnswers(d) ==
    IF strategy = "priority" /\ Len(tried[d]) < N
      THEN TurnTo(d, Len(tried[d]) + 1)
      ELSE dip' = [dip EXCEPT ![d] = "answered"] /\ UNCHANGED tried

\* try_server has failed: with "priority" the next server is tried, else or
\* after the last the dip fails.
NextServer(d) ==
    IF strategy = "priority" /\ Len(tried[d]) < N
      THEN TurnTo(d, Len(tried[d]) + 1)
      ELSE dip' = [dip EXCEPT ![d] = "failed"] /\ UNCHANGED tried

\* Wrong variant: no timeout.
GiveUpUnsent(d) ==
    /\ dip[d] = "send"
    /\ NextServer(d)
    /\ UNCHANGED <<strategy, open, answer, cache, index, asked, inbox, now>>

\* send_to fails, or nothing arrives within the timeout.
GiveUp(d) ==
    /\ Dialling(d)
    /\ NextServer(d)
    /\ UNCHANGED <<strategy, open, answer, cache, index, asked, inbox, now>>

\* A response of another kind than 200 and 302, or a 302 without a Contact.
ReceiveError(d) ==
    /\ dip[d] = "wait"
    /\ \E m \in inbox :
          /\ m.reply = "error"
          /\ inbox' = inbox \ {m}
    /\ NextServer(d)
    /\ UNCHANGED <<strategy, open, answer, cache, index, asked, now>>

\* The responses a waiting dip takes for its own: all that name any dip.
Accepted(d) == {m \in inbox : m.of \in Dips}

\* 302 or 200: the LRN it names, if it names one, is the answer and is cached
\* under the number that this dip has asked for.
Receive(d) ==
    /\ dip[d] = "wait"
    /\ \E m \in Accepted(d) :
          /\ m.reply # "error"
          /\ inbox' = inbox \ {m}
          /\ answer' = [answer EXCEPT ![d] = m.reply]
          /\ cache' = IF m.reply = None THEN cache
                      ELSE [cache EXCEPT ![NumberOf[d]] =
                              [lrn |-> m.reply, expires |-> now + Lifetime]]
    /\ dip' = [dip EXCEPT ![d] = "answered"]
    /\ UNCHANGED <<strategy, open, tried, index, asked, now>>

\* The caller goes away and its future is dropped; the request stays out.
Abandon(d) ==
    /\ dip[d] \in {"dial", "send", "wait"}
    /\ dip' = [dip EXCEPT ![d] = "gone"]
    /\ UNCHANGED <<strategy, open, tried, answer, cache, index, asked, inbox, now>>

\* update_config, with another address: it waits for the dips that hold the
\* socket, closes it, and then refuses the change.
RefuseConfig ==
    /\ open /\ \A d \in Dips : ~Dialling(d)
    /\ open' = FALSE
    /\ UNCHANGED <<strategy, dip, tried, answer, cache, index, asked, inbox, now>>

\* A server answers a request it got, now or later, once or again.
Respond ==
    /\ \E d \in asked : \E reply \in {Lrn[NumberOf[d]], "error"} :
          inbox' = inbox \cup {[of |-> d, reply |-> reply]}
    /\ UNCHANGED <<strategy, open, dip, tried, answer, cache, index, asked, now>>

Tick ==
    /\ now < MaxTime
    /\ now' = now + 1
    /\ UNCHANGED <<strategy, open, dip, tried, answer, cache, index, asked, inbox>>

-----------------------------------------------------------------------------

\* What a dip does without anybody's help.
Proceed(d) ==
    \/ Hit(d) \/ Miss(d) \/ RemoveExpired(d) \/ DialClosed(d) \/ Dial(d) \/ Send(d)
    \/ GiveUp(d) \/ ReceiveError(d) \/ Receive(d)

Next ==
    \/ \E d \in Dips : Proceed(d) \/ Abandon(d)
    \/ RefuseConfig \/ Respond \/ Tick

Spec == Init /\ [][Next]_vars

\* The runtime polls every dip, and its timeout expires.
FairSpec == Spec /\ \A d \in Dips : WF_vars(Proceed(d))

-----------------------------------------------------------------------------
(***************************************************************************)
(* Properties                                                              *)
(***************************************************************************)

TypeOK ==
    /\ strategy \in Strategies /\ open \in BOOLEAN
    /\ dip \in [Dips -> Points]
    /\ tried \in [Dips -> Seq(1..N)]
    /\ answer \in [Dips -> Answers]
    /\ cache \in [Numbers -> {None} \cup [lrn : Answers \ {None}, expires : Nat]]
    /\ index \in Nat /\ asked \subseteq Dips
    /\ inbox \subseteq [of : Dips, reply : Answers \cup {"error"}]
    /\ now \in Time

\* A number somebody has asked a server for has this LRN (or none).
WasAsked(l) == \E d \in asked : Lrn[NumberOf[d]] = l

\* What a dip returns, and what the cache keeps, is the answer to a question
\* that was asked: if all the questions on the socket had one answer, it is right.
AnswersWereAsked ==
    /\ \A d \in Dips : dip[d] = "answered" => WasAsked(answer[d])
    /\ \A n \in Numbers : cache[n] # None => WasAsked(cache[n].lrn)

\* With "priority" a dip turns to the servers in order, to none twice, and fails
\* only after the last, or for want of a socket; else it turns to one server.
FailoverComplete ==
    \A d \in Dips :
        IF strategy = "priority"
          THEN /\ \A i \in 1..Len(tried[d]) : tried[d][i] = i
               /\ dip[d] = "failed" => Len(tried[d]) = N \/ ~open
          ELSE Len(tried[d]) <= 1

Starts(k) == Cardinality({d \in Dips : tried[d] # <<>> /\ tried[d][1] = k})

\* Concurrent dips are spread evenly over the servers.
RoundRobinBalanced ==
    strategy = "round_robin" => \A j, k \in 1..N : Starts(j) <= Starts(k) + 1

Ended(d) == dip[d] \in {"answered", "failed", "gone"}

\* Every dip ends, whatever the servers and the network do.
DipsEnd == \A d \in Dips : dip[d] # "idle" ~> Ended(d)

\* How many steps a dip can still take by itself: one for each access to the cache
\* and the index, two for each server that it may still turn to.
StepsLeft(d) ==
    CASE dip[d] = "idle"    -> 2 * N + 3
      [] dip[d] = "expired" -> 2 * N + 2
      [] dip[d] = "dial"    -> 2 * N + 1
      [] dip[d] = "send"    -> 2 * (N - Len(tried[d])) + 2
      [] dip[d] = "wait"    -> 2 * (N - Len(tried[d])) + 1
      [] OTHER              -> 0

\* A dip has none left exactly when it has ended ...
NoneLeftAtEnd ==
    \A d \in Dips : StepsLeft(d) \in Nat /\ (StepsLeft(d) = 0 <=> Ended(d))

\* ... and however the servers answer and whatever the other dips do, it gets no
\* more, and has fewer after each step of its own.  With the fairness of every
\* dip this is why DipsEnd holds.
DipsAdvance ==
    [][\A d \in Dips :
          /\ StepsLeft(d)' <= StepsLeft(d)
          /\ Proceed(d) => StepsLeft(d)' < StepsLeft(d)]_vars

-----------------------------------------------------------------------------
(***************************************************************************)
(* What the comments say and the code does not do                          *)
(***************************************************************************)

\* receive_sip_response: "Check if this response is for our request", so the LRN
\* a dip returns is that of the number it was asked for.
AnswerIsForNumber ==
    \A d \in Dips : answer[d] # None => answer[d] = Lrn[NumberOf[d]]
=============================================================================
