-------------------------- MODULE CdrPipelineProofs --------------------------
(***************************************************************************)
(* Proofs about CdrPipeline, for any number of records, calls and crashes. *)
(*                                                                         *)
(* SyncedCallReachedBoss is not inductive: the record in the processor's   *)
(* hand has its row once it is past the database, and has reached boss or  *)
(* found no webhook if sending it succeeded (InHand).  TypeOK is, but for  *)
(* the record in hand, which is one while the processor works.             *)
(***************************************************************************)
EXTENDS CdrPipeline, SequenceTheorems, TLAPS

InHand ==
    /\ worker.at # "recv" => worker.cdr \in Cdrs
    /\ worker.at \in {"send", "mark"} => worker.cdr \in Elements(rows)
    /\ worker.at = "mark" /\ worker.ok => worker.cdr \in boss \cup skipped

CdrInv == TypeOK /\ InHand /\ SyncedCallReachedBoss

-----------------------------------------------------------------------------

LEMMA ElementsAppend ==
    ASSUME NEW q \in Seq(Cdrs), NEW c \in Cdrs
    PROVE  Append(q, c) \in Seq(Cdrs) /\ Elements(Append(q, c)) = Elements(q) \cup {c}
<1>1. /\ Len(Append(q, c)) = Len(q) + 1 /\ Len(q) \in Nat
      /\ \A i \in 1..Len(q) : Append(q, c)[i] = q[i]
      /\ Append(q, c)[Len(q) + 1] = c
    OBVIOUS
<1> QED
    BY <1>1 DEF Elements

LEMMA ElementsType == ASSUME NEW q \in Seq(Cdrs) PROVE Elements(q) \subseteq Cdrs
BY DEF Elements

LEMMA InitInv == Init => CdrInv
<1> SUFFICES ASSUME Init PROVE CdrInv
    OBVIOUS
<1>1. Elements(<<>>) = {}
    BY DEF Elements
<1>2. TypeOK
    BY <1>1, PipelineAssumption DEF Init, TypeOK, Waiting
<1>3. InHand
    BY DEF Init, InHand, Waiting
<1>4. SyncedCallReachedBoss
    BY PipelineAssumption DEF Init, SyncedCallReachedBoss
<1> QED
    BY <1>2, <1>3, <1>4 DEF CdrInv

\* The effect of the INSERT: one row more, PENDING, and one status more.
LEMMA InsertEffect ==
    ASSUME TypeOK, worker.cdr \in Cdrs, Insert
    PROVE  /\ rows' \in Seq(Cdrs) /\ Elements(rows') = Elements(rows) \cup {worker.cdr}
           /\ status' \in [Cdrs -> {None, "PENDING", "SYNCED"}]
           /\ \A c \in Cdrs : status'[c] # None <=> c \in Elements(rows')
           /\ \A c \in Cdrs : status'[c] = "SYNCED" => status[c] = "SYNCED"
<1>1. rows' \in Seq(Cdrs) /\ Elements(rows') = Elements(rows) \cup {worker.cdr}
    BY ElementsAppend DEF Insert, TypeOK
<1>2. status' = [status EXCEPT ![worker.cdr] = "PENDING"]
    BY DEF Insert
<1>3. "PENDING" # None /\ "PENDING" # "SYNCED"
    BY PipelineAssumption
<1> QED
    BY <1>1, <1>2, <1>3 DEF TypeOK

\* A step that leaves the tables of the database alone.
LEMMA StoredAlone ==
    ASSUME CdrInv, UNCHANGED <<rows, status>>, skipped \subseteq skipped',
           boss \subseteq boss', boss' \subseteq boss \cup Elements(rows)
    PROVE  SyncedCallReachedBoss'
BY DEF CdrInv, SyncedCallReachedBoss, Elements

-----------------------------------------------------------------------------
(***************************************************************************)
(* The steps                                                               *)
(***************************************************************************)

LEMMA PublishStep == ASSUME CdrInv, NEW c \in Cdrs, Publish(c) PROVE CdrInv'
<1> USE DEF Publish, CdrInv
<1>1. TypeOK'
    BY DEF TypeOK
<1>2. InHand'
    BY DEF InHand
<1> QED
    BY <1>1, <1>2, StoredAlone

LEMMA ReceiveStep == ASSUME CdrInv, Receive PROVE CdrInv'
<1> USE DEF Receive, CdrInv
<1>1. Head(channel) \in Cdrs /\ Tail(channel) \in Seq(Cdrs)
    BY DEF TypeOK
<1>2. TypeOK'
    BY <1>1 DEF TypeOK
<1>3. InHand'
    BY <1>1 DEF InHand
<1> QED
    BY <1>2, <1>3, StoredAlone

\* The two ends of persist_cdr in which the row is there.
LEMMA StoredStep ==
    ASSUME CdrInv, worker.at = "persist", Insert,
           UNCHANGED <<configured, channel, boss, published, lost, skipped, crashes>>,
           worker' = [worker EXCEPT !.at = "send"] \/ worker' = Waiting
    PROVE  CdrInv'
<1> USE DEF CdrInv
<1>1. worker.cdr \in Cdrs
    BY DEF InHand
<1>2. /\ rows' \in Seq(Cdrs) /\ Elements(rows') = Elements(rows) \cup {worker.cdr}
      /\ status' \in [Cdrs -> {None, "PENDING", "SYNCED"}]
      /\ \A c \in Cdrs : status'[c] # None <=> c \in Elements(rows')
      /\ \A c \in Cdrs : status'[c] = "SYNCED" => status[c] = "SYNCED"
    BY <1>1, InsertEffect
<1>3. /\ worker' \in [at : {"recv", "persist", "send", "mark"}, cdr : Cdrs \cup {None},
                      ok : BOOLEAN]
      /\ \/ worker'.at = "send" /\ worker'.cdr = worker.cdr
         \/ worker'.at = "recv"
    <2>1. CASE worker' = [worker EXCEPT !.at = "send"]
        BY <1>1, <2>1 DEF TypeOK
    <2>2. CASE worker' = Waiting
        BY <2>2 DEF Waiting
    <2> QED
        BY <2>1, <2>2
<1>4. TypeOK'
    BY <1>2, <1>3 DEF TypeOK
<1>5. InHand'
    BY <1>1, <1>2, <1>3 DEF InHand
<1>6. SyncedCallReachedBoss'
    BY <1>2 DEF SyncedCallReachedBoss
<1> QED
    BY <1>4, <1>5, <1>6

LEMMA PersistStep == ASSUME CdrInv, Persist \/ PersistFailed PROVE CdrInv'
<1>1. CASE Insert /\ UNCHANGED lost
    BY <1>1, StoredStep DEF Persist, PersistFailed
<1>2. CASE ~(Insert /\ UNCHANGED lost)
    <2>1. /\ worker.at = "persist" /\ lost' = lost \cup {worker.cdr} /\ worker' = Waiting
          /\ UNCHANGED <<configured, channel, rows, status, boss, published, skipped, crashes>>
        BY <1>2 DEF Persist, PersistFailed
    <2>2. TypeOK'
        BY <2>1 DEF CdrInv, TypeOK, InHand, Waiting
    <2>3. InHand'
        BY <2>1 DEF InHand, Waiting
    <2> QED
        BY <2>1, <2>2, <2>3, StoredAlone DEF CdrInv
<1> QED
    BY <1>1, <1>2

\* send_wholesale_cdr, with success only if there is no webhook or boss has the
\* record.
LEMMA SendStep ==
    ASSUME CdrInv, SkipWebhook \/ RefusePayload \/ Post
    PROVE  CdrInv'
<1> USE DEF CdrInv
<1>1. PICK ok \in BOOLEAN :
         /\ worker.at = "send" /\ Sent(ok)
         /\ boss' = boss \/ boss' = boss \cup {worker.cdr}
         /\ \/ skipped' = skipped
            \/ skipped' = skipped \cup {worker.cdr} /\ boss' = boss
         /\ ok => worker.cdr \in boss' \cup skipped'
  <2>1. CASE SkipWebhook
      BY <2>1 DEF SkipWebhook
  <2>2. CASE RefusePayload
      BY <2>2 DEF RefusePayload
  <2>3. CASE Post
      BY <2>3 DEF Post, AwaitsBoss
  <2> QED
      BY <2>1, <2>2, <2>3
<1>2. worker.cdr \in Cdrs /\ worker.cdr \in Elements(rows)
    BY <1>1 DEF InHand
<1>3. TypeOK'
    BY <1>1, <1>2 DEF Sent, TypeOK
<1>4. /\ worker'.at = "mark" /\ worker'.cdr = worker.cdr /\ worker'.ok = ok
      /\ UNCHANGED <<rows, status>>
    BY <1>1 DEF Sent, TypeOK
<1>5. InHand'
    BY <1>1, <1>2, <1>4 DEF InHand
<1>6. SyncedCallReachedBoss'
    BY <1>1, <1>2, <1>4, StoredAlone
<1> QED
    BY <1>3, <1>5, <1>6

LEMMA MarkStep == ASSUME CdrInv, Mark PROVE CdrInv'
<1> USE DEF CdrInv
<1> DEFINE outcome == IF worker.ok THEN "SYNCED" ELSE "PENDING"
<1>1. /\ worker.at = "mark" /\ worker' = Waiting
      /\ UNCHANGED <<configured, channel, rows, boss, published, lost, skipped, crashes>>
      /\ \/ status' = [c \in Cdrs |->
                         IF status[c] # None /\ CallOf[c] = CallOf[worker.cdr]
                           THEN outcome ELSE status[c]]
         \/ UNCHANGED status
    BY DEF Mark
<1>2. outcome \in {"PENDING", "SYNCED"} /\ outcome # None
    BY PipelineAssumption
<1>3. \A c \in Cdrs :
         /\ status'[c] = None <=> status[c] = None
         /\ status'[c] \in {None, "PENDING", "SYNCED"}
         /\ \/ status'[c] = status[c]
            \/ CallOf[c] = CallOf[worker.cdr] /\ status'[c] = outcome
    BY <1>1, <1>2 DEF TypeOK
<1>4. status' \in [Cdrs -> {None, "PENDING", "SYNCED"}]
    BY <1>1, <1>3 DEF TypeOK
<1>5. TypeOK'
    BY <1>1, <1>3, <1>4 DEF TypeOK, Waiting
<1>6. InHand'
    BY <1>1 DEF InHand, Waiting
<1>7. SyncedCallReachedBoss'
    <2>1. outcome = "SYNCED" => worker.cdr \in boss \cup skipped
        BY <1>1 DEF InHand
    <2> QED
        BY <1>1, <1>3, <2>1 DEF SyncedCallReachedBoss
<1> QED
    BY <1>5, <1>6, <1>7

LEMMA CrashStep == ASSUME CdrInv, Crash PROVE CdrInv'
<1> USE DEF CdrInv, Crash
<1>1. Elements(channel) \subseteq Cdrs
    BY ElementsType DEF TypeOK
<1>2. worker.at = "persist" => worker.cdr \in Cdrs
    BY DEF InHand
<1>3. TypeOK'
    BY <1>1, <1>2, PipelineAssumption DEF TypeOK, Waiting
<1>4. InHand'
    BY DEF InHand, Waiting
<1> QED
    BY <1>3, <1>4, StoredAlone

LEMMA NextInv == CdrInv /\ [Next]_vars => CdrInv'
<1>1. CdrInv /\ Next => CdrInv'
    BY PublishStep, ReceiveStep, PersistStep, SendStep, MarkStep, CrashStep DEF Next, Process
<1>2. CdrInv /\ UNCHANGED vars => CdrInv'
    BY DEF vars, CdrInv, TypeOK, InHand, SyncedCallReachedBoss, Elements
<1> QED
    BY <1>1, <1>2

THEOREM CdrInvAlways == Spec => []CdrInv
BY InitInv, NextInv, PTL DEF Spec

\* The variables keep their types, and exactly the records with a row have a
\* status (persist_cdr, mark_boss_synced).
THEOREM CdrTypeCorrect == Spec => []TypeOK
<1>1. CdrInv => TypeOK
    BY DEF CdrInv
<1> QED
    BY <1>1, CdrInvAlways, PTL

\* Boss never has a record the database lacks, and no row is marked SYNCED before a
\* record of its call has reached boss or found no webhook, however often the process
\* dies and whatever the database and boss fail to report (CDRGenerator,
\* send_wholesale_cdr).
THEOREM SyncedOnlyAfterBoss == Spec => []SyncedCallReachedBoss
<1>1. CdrInv => SyncedCallReachedBoss
    BY DEF CdrInv
<1> QED
    BY <1>1, CdrInvAlways, PTL

-----------------------------------------------------------------------------
(***************************************************************************)
(* The refinement of CdrLedger.  Every record is in one place: the         *)
(* processor's hand, the channel, the table, or lost; and the record in    *)
(* hand after the insertion is that of the latest row, which boss does not *)
(* have before it is sent.                                                 *)
(***************************************************************************)

Distinct(q) == \A i, j \in 1..Len(q) : q[i] = q[j] => i = j

Hand == IF worker.at = "persist" THEN {worker.cdr} ELSE {}

Accounted ==
    /\ published = Hand \cup Elements(channel) \cup Elements(rows) \cup lost
    /\ Hand \cap Elements(channel) = {}
    /\ (Hand \cup Elements(channel)) \cap (Elements(rows) \cup lost) = {}
    /\ Elements(rows) \cap lost = {}
    /\ Distinct(channel) /\ Distinct(rows)

Latest ==
    /\ worker.at \in {"send", "mark"} => rows # <<>> /\ worker.cdr = rows[Len(rows)]
    /\ worker.at = "send" => worker.cdr \notin boss

LedgerInv == CdrInv /\ Accounted /\ Latest

LEMMA DistinctAppend ==
    ASSUME NEW q \in Seq(Cdrs), Distinct(q), NEW c \in Cdrs, c \notin Elements(q)
    PROVE  Distinct(Append(q, c))
<1>1. /\ Len(Append(q, c)) = Len(q) + 1 /\ Len(q) \in Nat
      /\ \A i \in 1..Len(q) : Append(q, c)[i] = q[i] /\ q[i] # c
      /\ Append(q, c)[Len(q) + 1] = c
    BY DEF Elements
<1> QED
    BY <1>1 DEF Distinct

LEMMA DistinctTail ==
    ASSUME NEW q \in Seq(Cdrs), Distinct(q), q # <<>>
    PROVE  /\ Head(q) \in Cdrs /\ Tail(q) \in Seq(Cdrs)
           /\ Elements(q) = {Head(q)} \cup Elements(Tail(q))
           /\ Head(q) \notin Elements(Tail(q))
           /\ Distinct(Tail(q))
<1>1. /\ Head(q) \in Cdrs /\ Tail(q) \in Seq(Cdrs) /\ Head(q) = q[1]
      /\ Len(q) \in Nat \ {0} /\ Len(Tail(q)) = Len(q) - 1
      /\ \A i \in 1..Len(Tail(q)) : Tail(q)[i] = q[i + 1]
    BY HeadTailProperties, EmptySeq
<1>2. \A i \in 1..Len(q) : i = 1 \/ (i - 1 \in 1..Len(Tail(q)) /\ q[i] = Tail(q)[i - 1])
    BY <1>1
<1>4. \A i \in 1..Len(Tail(q)) : i + 1 \in 1..Len(q) /\ i + 1 # 1
    BY <1>1
<1>3. Elements(q) = {Head(q)} \cup Elements(Tail(q))
  <2>1. ASSUME NEW i \in 1..Len(q) PROVE q[i] \in {Head(q)} \cup Elements(Tail(q))
    <3>1. CASE i = 1
        BY <1>1, <3>1
    <3>2. CASE i - 1 \in 1..Len(Tail(q)) /\ q[i] = Tail(q)[i - 1]
        BY <3>2 DEF Elements
    <3> QED
        BY <1>2, <3>1, <3>2
  <2>2. 1 \in 1..Len(q)
      BY <1>1
  <2>3. Head(q) \in Elements(q)
      BY <1>1, <2>2 DEF Elements
  <2>4. ASSUME NEW i \in 1..Len(Tail(q)) PROVE Tail(q)[i] \in Elements(q)
      BY <1>1, <1>4 DEF Elements
  <2> QED
      BY <2>1, <2>3, <2>4 DEF Elements
<1>5. Head(q) \notin Elements(Tail(q))
    BY <1>1, <1>4 DEF Distinct, Elements
<1>6. Distinct(Tail(q))
    BY <1>1, <1>4 DEF Distinct
<1> QED
    BY <1>1, <1>3, <1>5, <1>6

\* What CdrLedger sees as the queue.
LEMMA QueueIs ==
    ASSUME CdrInv
    PROVE  /\ worker.at # "persist" => Queue = channel
           /\ worker.at = "persist" =>
                 Queue # <<>> /\ Head(Queue) = worker.cdr /\ Tail(Queue) = channel
           /\ {Queue[i] : i \in 1..Len(Queue)} = Hand \cup Elements(channel)
           /\ Queue \in Seq(Cdrs)
<1>1. channel \in Seq(Cdrs)
    BY DEF CdrInv, TypeOK
<1>2. CASE worker.at # "persist"
    BY <1>1, <1>2, ConcatEmptySeq DEF Queue, Hand, Elements
<1>3. CASE worker.at = "persist"
    <2>1. worker.cdr \in Cdrs
        BY <1>3 DEF CdrInv, InHand
    <2> DEFINE q == <<worker.cdr>> \o channel
    <2>2. <<worker.cdr>> \in Seq(Cdrs) /\ Len(<<worker.cdr>>) = 1 /\ <<worker.cdr>>[1] = worker.cdr
        BY <2>1
    <2>3. /\ q \in Seq(Cdrs) /\ Len(q) = 1 + Len(channel) /\ Len(channel) \in Nat
          /\ q[1] = worker.cdr
          /\ \A i \in 1..Len(channel) : q[i + 1] = channel[i]
        <3>1. /\ q \in Seq(Cdrs) /\ Len(q) = 1 + Len(channel) /\ Len(channel) \in Nat
              /\ \A i \in 1..(1 + Len(channel)) :
                    q[i] = IF i <= 1 THEN worker.cdr ELSE channel[i - 1]
            BY <1>1, <2>2, ConcatProperties, LenProperties
        <3> HIDE DEF q
        <3> QED
            BY <3>1
    <2> HIDE DEF q
    <2>4. q # <<>> /\ Head(q) = worker.cdr
        BY <2>3, EmptySeq
    <2>5. Tail(q) = channel
        <3>1. Tail(q) \in Seq(Cdrs) /\ Len(Tail(q)) = Len(channel)
              /\ \A i \in 1..Len(channel) : Tail(q)[i] = channel[i]
            BY <2>3, <2>4, HeadTailProperties
        <3> QED
            BY <1>1, <3>1, SeqEqual
    <2>6. {q[i] : i \in 1..Len(q)} = {worker.cdr} \cup Elements(channel)
        <3>1. \A i \in 1..Len(q) : i = 1 \/ (i - 1 \in 1..Len(channel) /\ q[i] = channel[i - 1])
            <4>1. \A i \in 1..Len(q) : i # 1 => i - 1 \in 1..Len(channel) /\ (i - 1) + 1 = i
                BY <2>3
            <4> QED
                BY <2>3, <4>1
        <3>2. \A i \in 1..Len(channel) : i + 1 \in 1..Len(q)
            BY <2>3
        <3>3. 1 \in 1..Len(q)
            BY <2>3
        <3>4. ASSUME NEW i \in 1..Len(q) PROVE q[i] \in {worker.cdr} \cup Elements(channel)
          <4>1. CASE i = 1
              BY <2>3, <4>1
          <4>2. CASE i - 1 \in 1..Len(channel) /\ q[i] = channel[i - 1]
              BY <4>2 DEF Elements
          <4> QED
              BY <3>1, <4>1, <4>2
        <3>5. worker.cdr \in {q[i] : i \in 1..Len(q)}
            BY <2>3, <3>3
        <3>6. ASSUME NEW i \in 1..Len(channel) PROVE channel[i] \in {q[j] : j \in 1..Len(q)}
            BY <2>3, <3>2
        <3> QED
            BY <3>4, <3>5, <3>6 DEF Elements
    <2>7. Queue = q
        BY <1>3 DEF Queue, q
    <2> QED
        BY <1>3, <2>3, <2>4, <2>5, <2>6, <2>7 DEF Hand
<1> QED
    BY <1>2, <1>3

LEMMA QueueIsNext ==
    ASSUME CdrInv', worker'.at # "persist"
    PROVE  Queue' = channel'
<1>1. channel' \in Seq(Cdrs)
    BY DEF CdrInv, TypeOK
<1> QED
    BY <1>1, ConcatEmptySeq DEF Queue

-----------------------------------------------------------------------------
(***************************************************************************)
(* Each step keeps LedgerInv and is a step of CdrLedger or not seen.       *)
(***************************************************************************)

LedgerStep == LedgerInv' /\ [Ledger!LedgerNext]_(Ledger!ledgerVars)

LEMMA PublishLedger ==
    ASSUME LedgerInv, CdrInv', NEW c \in Cdrs, Publish(c)
    PROVE  LedgerStep
<1> USE DEF LedgerInv
<1>1. /\ channel \in Seq(Cdrs) /\ channel' = Append(channel, c) /\ published' = published \cup {c}
      /\ UNCHANGED <<worker, rows, boss, lost>>
    BY DEF CdrInv, TypeOK, Publish
<1>2. c \notin Hand /\ c \notin Elements(channel) /\ c \notin Elements(rows) /\ c \notin lost
    BY DEF Publish, Accounted
<1>3. Elements(channel') = Elements(channel) \cup {c} /\ Distinct(channel')
    BY <1>1, <1>2, ElementsAppend, DistinctAppend DEF Accounted
<1>4. Hand' = Hand /\ Elements(rows') = Elements(rows) /\ Distinct(rows)'
    BY <1>1 DEF Hand, Elements, Distinct, Accounted
<1>5. Accounted' /\ Latest'
    BY <1>1, <1>2, <1>3, <1>4 DEF Accounted, Latest
<1>6. Queue' = Append(Queue, c)
  <2> DEFINE h == IF worker.at = "persist" THEN <<worker.cdr>> ELSE <<>>
  <2>1. h \in Seq(Cdrs)
      BY DEF CdrInv, InHand
  <2>2. h \o Append(channel, c) = Append(h \o channel, c)
    <3> HIDE DEF h
    <3>1. <<c>> \in Seq(Cdrs)
        OBVIOUS
    <3>2. Append(channel, c) = channel \o <<c>> /\ Append(h \o channel, c) = (h \o channel) \o <<c>>
        BY <1>1, <2>1, ConcatProperties, AppendIsConcat
    <3> QED
        BY <1>1, <2>1, <3>1, <3>2, ConcatAssociative
  <2> QED
      BY <1>1, <2>2 DEF Queue
<1>7. Ledger!Accept(c)
    BY <1>1, <1>6 DEF Ledger!Accept, Publish
<1> QED
    BY <1>5, <1>7 DEF LedgerStep, Ledger!LedgerNext

LEMMA ReceiveLedger ==
    ASSUME LedgerInv, CdrInv', Receive
    PROVE  LedgerStep
<1> USE DEF LedgerInv
<1>1. /\ worker.at = "recv" /\ channel \in Seq(Cdrs) /\ channel # <<>>
      /\ worker' = [at |-> "persist", cdr |-> Head(channel), ok |-> FALSE]
      /\ channel' = Tail(channel)
      /\ UNCHANGED <<rows, boss, published, lost>>
    BY DEF CdrInv, TypeOK, Receive
<1>2. /\ Head(channel) \in Cdrs /\ Tail(channel) \in Seq(Cdrs)
      /\ Elements(channel) = {Head(channel)} \cup Elements(Tail(channel))
      /\ Head(channel) \notin Elements(Tail(channel)) /\ Distinct(Tail(channel))
    BY <1>1, DistinctTail DEF Accounted
<1>3. Hand = {} /\ Hand' = {Head(channel)} /\ worker'.at = "persist" /\ worker'.cdr = Head(channel)
    BY <1>1 DEF Hand
<1>4. Accounted' /\ Latest'
    BY <1>1, <1>2, <1>3 DEF Accounted, Latest
<1>5. Queue' = Queue
  <2>1. Queue = channel /\ Queue' = <<Head(channel)>> \o Tail(channel)
      BY <1>1, <1>3, QueueIs DEF Queue
  <2>2. <<Head(channel)>> \o Tail(channel) = channel
    <3> DEFINE q == <<Head(channel)>> \o Tail(channel)
    <3>1. <<Head(channel)>> \in Seq(Cdrs) /\ Len(<<Head(channel)>>) = 1
        BY <1>2
    <3>2. /\ Len(Tail(channel)) = Len(channel) - 1 /\ Len(channel) \in Nat /\ channel[1] = Head(channel)
          /\ \A i \in 1..Len(Tail(channel)) : Tail(channel)[i] = channel[i + 1]
        BY <1>1, HeadTailProperties, EmptySeq
    <3>3. /\ q \in Seq(Cdrs) /\ Len(q) = 1 + Len(Tail(channel))
          /\ \A i \in 1..(1 + Len(Tail(channel))) :
                q[i] = IF i <= 1 THEN <<Head(channel)>>[i] ELSE Tail(channel)[i - 1]
        BY <1>2, <3>1, ConcatProperties
    <3> HIDE DEF q
    <3>4. Len(q) = Len(channel)
        BY <3>2, <3>3
    <3>5. ASSUME NEW i \in 1..Len(q) PROVE q[i] = channel[i]
      <4>1. CASE i = 1
          BY <3>2, <3>3, <4>1
      <4>2. CASE i # 1
        <5>1. i - 1 \in 1..Len(Tail(channel)) /\ (i - 1) + 1 = i
            BY <3>2, <3>3, <4>2
        <5> QED
            BY <3>2, <3>3, <4>2, <5>1
      <4> QED
          BY <4>1, <4>2
    <3> QED
        BY <1>1, <3>3, <3>4, <3>5, SeqEqual DEF q
  <2> QED
      BY <2>1, <2>2
<1>6. UNCHANGED Ledger!ledgerVars
    BY <1>1, <1>5 DEF Ledger!ledgerVars
<1> QED
    BY <1>4, <1>6 DEF LedgerStep

\* The record in hand gets its row, whatever the processor is told.
LEMMA StoreLedger ==
    ASSUME LedgerInv, CdrInv', worker.at = "persist", Insert,
           UNCHANGED <<channel, boss, published, lost>>,
           worker' = [worker EXCEPT !.at = "send"] \/ worker' = Waiting
    PROVE  LedgerStep
<1> USE DEF LedgerInv
<1>1. /\ worker.cdr \in Cdrs /\ rows \in Seq(Cdrs) /\ rows' = Append(rows, worker.cdr)
      /\ Hand = {worker.cdr} /\ boss \subseteq Elements(rows)
    BY DEF CdrInv, TypeOK, InHand, Insert, Hand, SyncedCallReachedBoss
<1>2. worker.cdr \notin Elements(rows)
    BY <1>1 DEF Accounted
<1>3. Elements(rows') = Elements(rows) \cup {worker.cdr} /\ Distinct(rows')
    BY <1>1, <1>2, ElementsAppend, DistinctAppend DEF Accounted
<1>4. rows' # <<>> /\ rows'[Len(rows')] = worker.cdr
    BY <1>1
<1>5. \/ worker'.at = "send" /\ worker'.cdr = worker.cdr
      \/ worker'.at = "recv"
  <2>1. CASE worker' = [worker EXCEPT !.at = "send"]
      BY <2>1 DEF CdrInv, TypeOK
  <2>2. CASE worker' = Waiting
      BY <2>2 DEF Waiting
  <2> QED
      BY <2>1, <2>2
<1>6. Hand' = {}
    BY <1>5 DEF Hand
<1>7. Accounted'
    BY <1>1, <1>2, <1>3, <1>6 DEF Accounted
<1>8. Latest'
    BY <1>1, <1>2, <1>4, <1>5 DEF Latest
<1>9. Ledger!Store
  <2>1. Queue # <<>> /\ Head(Queue) = worker.cdr /\ Tail(Queue) = channel
      BY QueueIs
  <2>2. Queue' = channel'
      BY <1>5, QueueIsNext
  <2> QED
      BY <1>1, <2>1, <2>2 DEF Ledger!Store
<1> QED
    BY <1>7, <1>8, <1>9 DEF LedgerStep, Ledger!LedgerNext

LEMMA PersistLedger ==
    ASSUME LedgerInv, CdrInv', Persist \/ PersistFailed
    PROVE  LedgerStep
<1> USE DEF LedgerInv
<1>1. CASE Insert /\ UNCHANGED lost
    BY <1>1, StoreLedger DEF Persist, PersistFailed
<1>2. CASE ~(Insert /\ UNCHANGED lost)
  <2>1. /\ worker.at = "persist" /\ lost' = lost \cup {worker.cdr} /\ worker' = Waiting
        /\ worker'.at = "recv"
        /\ UNCHANGED <<channel, rows, boss, published>>
      BY <1>2 DEF Persist, PersistFailed, Waiting
  <2>2. Hand = {worker.cdr} /\ Hand' = {}
      BY <2>1 DEF Hand
  <2>3. Accounted' /\ Latest'
      BY <2>1, <2>2 DEF Accounted, Latest
  <2>4. Queue # <<>> /\ Head(Queue) = worker.cdr /\ Tail(Queue) = channel /\ Queue' = channel'
      BY <2>1, QueueIs, QueueIsNext
  <2>5. Ledger!Discard
      BY <2>1, <2>4 DEF Ledger!Discard
  <2> QED
      BY <2>3, <2>5 DEF LedgerStep, Ledger!LedgerNext
<1> QED
    BY <1>1, <1>2

LEMMA SendLedger ==
    ASSUME LedgerInv, CdrInv', SkipWebhook \/ RefusePayload \/ Post
    PROVE  LedgerStep
<1> USE DEF LedgerInv
<1>1. PICK ok \in BOOLEAN :
         /\ worker.at = "send" /\ Sent(ok)
         /\ boss' = boss \/ boss' = boss \cup {worker.cdr}
    BY DEF SkipWebhook, RefusePayload, Post, AwaitsBoss
<1>2. /\ worker'.at = "mark" /\ worker'.cdr = worker.cdr
      /\ UNCHANGED <<channel, rows, published, lost>>
    BY <1>1 DEF Sent, CdrInv, TypeOK
<1>3. Hand' = Hand
    BY <1>1, <1>2 DEF Hand
<1>4. Accounted' /\ Latest'
    BY <1>1, <1>2, <1>3 DEF Accounted, Latest
<1>5. Queue' = Queue
    BY <1>1, <1>2, QueueIs, QueueIsNext
<1>6. rows # <<>> /\ worker.cdr = rows[Len(rows)] /\ worker.cdr \notin boss
    BY <1>1 DEF Latest
<1>7. [Ledger!LedgerNext]_(Ledger!ledgerVars)
  <2>1. CASE boss' = boss
      BY <1>2, <1>5, <2>1 DEF Ledger!ledgerVars
  <2>2. CASE boss' = boss \cup {worker.cdr}
      BY <1>2, <1>5, <1>6, <2>2 DEF Ledger!LedgerNext, Ledger!Deliver
  <2> QED
      BY <1>1, <2>1, <2>2
<1> QED
    BY <1>4, <1>7 DEF LedgerStep

LEMMA MarkLedger ==
    ASSUME LedgerInv, CdrInv', Mark
    PROVE  LedgerStep
<1> USE DEF LedgerInv
<1>1. /\ worker.at = "mark" /\ worker'.at = "recv"
      /\ UNCHANGED <<channel, rows, boss, published, lost>>
    BY DEF Mark, Waiting
<1>2. Hand' = Hand /\ Queue' = Queue
    BY <1>1, QueueIs, QueueIsNext DEF Hand
<1>3. Accounted' /\ Latest'
    BY <1>1, <1>2 DEF Accounted, Latest
<1> QED
    BY <1>1, <1>2, <1>3 DEF LedgerStep, Ledger!ledgerVars

LEMMA CrashLedger ==
    ASSUME LedgerInv, CdrInv', Crash
    PROVE  LedgerStep
<1> USE DEF LedgerInv
<1>1. /\ worker'.at = "recv" /\ channel' = <<>> /\ lost' = lost \cup Elements(channel) \cup Hand
      /\ UNCHANGED <<rows, boss, published>>
    BY DEF Crash, Waiting, Hand
<1>2. Hand' = {} /\ Elements(channel') = {} /\ Distinct(channel')
    BY <1>1 DEF Hand, Elements, Distinct
<1>3. Accounted' /\ Latest'
    BY <1>1, <1>2 DEF Accounted, Latest
<1>4. lost' = lost \cup {Queue[i] : i \in 1..Len(Queue)} /\ Queue' = <<>>
    BY <1>1, QueueIs, QueueIsNext
<1>5. Ledger!Forget
    BY <1>1, <1>4 DEF Ledger!Forget
<1> QED
    BY <1>3, <1>5 DEF LedgerStep, Ledger!LedgerNext

LEMMA NextLedger == LedgerInv /\ [Next]_vars => LedgerStep
<1> SUFFICES ASSUME LedgerInv, [Next]_vars PROVE LedgerStep
    OBVIOUS
<1>1. CdrInv'
    BY NextInv DEF LedgerInv
<1>2. CASE UNCHANGED vars
  <2>1. Queue' = Queue /\ Accounted' /\ Latest'
      BY <1>2 DEF vars, LedgerInv, Queue, Accounted, Latest, Hand, Elements, Distinct
  <2> QED
      BY <1>1, <1>2, <2>1 DEF vars, LedgerStep, LedgerInv, Ledger!ledgerVars
<1> QED
    BY <1>1, <1>2, PublishLedger, ReceiveLedger, PersistLedger, SendLedger, MarkLedger, CrashLedger
    DEF Next, Process

LEMMA InitLedger == Init => LedgerInv /\ Ledger!LedgerInit
<1> SUFFICES ASSUME Init PROVE LedgerInv /\ Ledger!LedgerInit
    OBVIOUS
<1>1. /\ channel = <<>> /\ rows = <<>> /\ worker.at = "recv" /\ boss = {} /\ published = {}
      /\ lost = {}
    BY DEF Init, Waiting
<1>2. CdrInv
    BY InitInv
<1>3. Accounted /\ Latest
    BY <1>1 DEF Accounted, Latest, Hand, Elements, Distinct
<1>4. Queue = <<>>
    BY <1>1, <1>2, QueueIs
<1> QED
    BY <1>1, <1>2, <1>3, <1>4 DEF LedgerInv, Ledger!LedgerInit

\* The channel, the processor and the database implement CdrLedger, for any
\* number of records and crashes (start_cdr_processor, persist_cdr,
\* send_wholesale_cdr).
THEOREM PipelineImplementsLedger == Spec => LedgerImplemented
<1>1. LedgerInv /\ [Next]_vars => LedgerInv' /\ [Ledger!LedgerNext]_(Ledger!ledgerVars)
    BY NextLedger DEF LedgerStep
<1> QED
    BY <1>1, InitLedger, PTL DEF Spec, LedgerImplemented, Ledger!LedgerSpec

\* Every record that the B2BUA has published is in exactly one place: still to
\* be stored, stored in one row, or given up.
THEOREM EveryRecordAccounted ==
    Spec => [](/\ published = Elements(Queue) \cup Elements(rows) \cup lost
               /\ Elements(Queue) \cap Elements(rows) = {}
               /\ Elements(Queue) \cap lost = {}
               /\ Elements(rows) \cap lost = {}
               /\ Distinct(rows))
<1>1. LedgerInv /\ [Next]_vars => LedgerInv'
    BY NextLedger DEF LedgerStep
<1>2. LedgerInv =>
        /\ published = Elements(Queue) \cup Elements(rows) \cup lost
        /\ Elements(Queue) \cap Elements(rows) = {}
        /\ Elements(Queue) \cap lost = {}
        /\ Elements(rows) \cap lost = {}
        /\ Distinct(rows)
  <2>1. CdrInv => Elements(Queue) = Hand \cup Elements(channel)
      BY QueueIs DEF Elements
  <2> QED
      BY <2>1 DEF LedgerInv, Accounted
<1> QED
    BY <1>1, <1>2, InitLedger, PTL DEF Spec

-----------------------------------------------------------------------------
(***************************************************************************)
(* The processor gets to every record.                                     *)
(***************************************************************************)

\* What a record has ahead of it, by where it is.
Ahead ==
    /\ \A i \in 1..Len(channel) :
          StepsAhead(channel[i]) = 4 * (i - 1) + Busy + 2
    /\ worker.at = "persist" => StepsAhead(worker.cdr) = 1
    /\ \A c \in published : c \notin Elements(channel) \cup Hand => StepsAhead(c) = 0

LEMMA AheadFromInv == LedgerInv => Ahead
<1> SUFFICES ASSUME LedgerInv PROVE Ahead
    OBVIOUS
<1>1. ASSUME NEW i \in 1..Len(channel)
      PROVE  StepsAhead(channel[i]) = 4 * (i - 1) + Busy + 2
  <2>1. channel[i] \in Elements(channel)
      BY DEF Elements
  <2>2. ~(worker.at = "persist" /\ worker.cdr = channel[i])
      BY <2>1 DEF LedgerInv, Accounted, Hand
  <2>3. Position(channel[i]) = i
      BY DEF Position, LedgerInv, Accounted, Distinct
  <2> QED
      BY <2>1, <2>2, <2>3 DEF StepsAhead
<1>2. worker.at = "persist" => StepsAhead(worker.cdr) = 1
    BY DEF StepsAhead
<1>3. ASSUME NEW c \in published, c \notin Elements(channel) \cup Hand
      PROVE  StepsAhead(c) = 0
    BY <1>3 DEF StepsAhead, Hand
<1> QED
    BY <1>1, <1>2, <1>3 DEF Ahead

LEMMA WaitingHaveSteps == LedgerInv => NoneAheadWhenStored
<1> SUFFICES ASSUME LedgerInv, NEW c \in published
             PROVE  StepsAhead(c) \in Nat /\ (StepsAhead(c) = 0 <=> c \in Elements(rows) \cup lost)
    BY DEF NoneAheadWhenStored
<1>1. Ahead
    BY AheadFromInv
<1>2. c \in Hand \cup Elements(channel) \/ c \in Elements(rows) \cup lost
    BY DEF LedgerInv, Accounted
<1>3. c \in Hand \cup Elements(channel) => c \notin Elements(rows) \cup lost
    BY DEF LedgerInv, Accounted
<1>4. CASE c \in Elements(channel)
  <2>1. PICK i \in 1..Len(channel) : c = channel[i]
      BY <1>4 DEF Elements
  <2>2. StepsAhead(c) = 4 * (i - 1) + Busy + 2
      BY <1>1, <2>1 DEF Ahead
  <2>3. Busy \in Nat /\ i - 1 \in Nat
      BY DEF Busy
  <2> QED
      BY <1>3, <1>4, <2>2, <2>3
<1>5. CASE c \in Hand
    BY <1>1, <1>3, <1>5 DEF Hand, Ahead
<1>6. CASE c \notin Elements(channel) \cup Hand
    BY <1>1, <1>2, <1>6 DEF Ahead
<1> QED
    BY <1>4, <1>5, <1>6

\* The step of the processor that takes the next record out of the channel.
LEMMA ReceiveAhead ==
    ASSUME LedgerInv, Ahead, Ahead', published' = published, Receive, NEW c \in published,
           StepsAhead(c) # 0
    PROVE  StepsAhead(c)' < StepsAhead(c)
<1>1. /\ worker.at = "recv" /\ channel \in Seq(Cdrs) /\ channel # <<>>
      /\ worker'.at = "persist" /\ worker'.cdr = Head(channel)
      /\ channel' = Tail(channel)
    BY DEF LedgerInv, CdrInv, TypeOK, Receive
<1>2. Busy = 0 /\ Busy' = 3
    BY <1>1 DEF Busy
<1>3. PICK i \in 1..Len(channel) : c = channel[i]
    BY <1>1 DEF Ahead, Hand, Elements
<1>4. StepsAhead(c) = 4 * (i - 1) + 2
    BY <1>2, <1>3 DEF Ahead
<1>5. CASE i = 1
  <2>1. c = worker'.cdr
      BY <1>1, <1>3, <1>5
  <2>2. StepsAhead(c)' = 1
      BY <1>1, <2>1 DEF Ahead
  <2> QED
      BY <1>4, <1>5, <2>2
<1>6. CASE i # 1
  <2>1. i - 1 \in 1..Len(channel') /\ channel'[i - 1] = c
      BY <1>1, <1>3, <1>6
  <2>2. StepsAhead(c)' = 4 * ((i - 1) - 1) + 3 + 2
      BY <1>2, <2>1 DEF Ahead
  <2> QED
      BY <1>4, <1>6, <2>2
<1> QED
    BY <1>5, <1>6

\* The other steps of the processor leave the channel alone.
LEMMA WorkAhead ==
    ASSUME LedgerInv, Ahead, Ahead', UNCHANGED <<channel, published>>, Busy' < Busy, Busy \in Nat,
           Busy' \in Nat, Hand' \subseteq Hand, worker'.at # "persist",
           NEW c \in published, StepsAhead(c) # 0
    PROVE  StepsAhead(c)' < StepsAhead(c)
<1>1. CASE c \in Elements(channel)
  <2>1. PICK i \in 1..Len(channel) : c = channel[i]
      BY <1>1 DEF Elements
  <2>2. StepsAhead(c) = 4 * (i - 1) + Busy + 2
      BY <2>1 DEF Ahead
  <2>3. i \in 1..Len(channel') /\ c = channel'[i]
      BY <2>1
  <2>4. StepsAhead(c)' = 4 * (i - 1) + Busy' + 2
      BY <2>3 DEF Ahead
  <2>5. \A k, b, m \in Int : b < m => 4 * (k - 1) + b + 2 < 4 * (k - 1) + m + 2
      OBVIOUS
  <2>6. i \in Int /\ Busy \in Int /\ Busy' \in Int
      OBVIOUS
  <2> QED
      BY <2>2, <2>4, <2>5, <2>6
<1>2. CASE c \notin Elements(channel)
  <2>1. c \in Hand /\ StepsAhead(c) = 1
      BY <1>2 DEF Ahead, Hand
  <2>2. c \notin Elements(channel') \cup Hand'
      BY <1>2 DEF Hand, Elements
  <2>3. StepsAhead(c)' = 0
      BY <2>2 DEF Ahead
  <2> QED
      BY <2>1, <2>3
<1> QED
    BY <1>1, <1>2

LEMMA ProcessorAdvances ==
    ASSUME LedgerInv, Ahead, Ahead', Process \/ Post, NEW c \in published, StepsAhead(c) # 0
    PROVE  StepsAhead(c)' < StepsAhead(c)
<1>1. published' = published
    BY DEF Process, Receive, Persist, PersistFailed, SkipWebhook, RefusePayload, Mark, Post, Sent
<1>2. CASE Receive
    BY <1>1, <1>2, ReceiveAhead
<1>3. CASE ~Receive
  <2>1. /\ worker.at \in {"persist", "send", "mark"} /\ channel' = channel
        /\ \/ worker.at = "persist" /\ (worker' = [worker EXCEPT !.at = "send"] \/ worker' = Waiting)
           \/ worker.at = "send" /\ \E ok \in BOOLEAN : worker' = [worker EXCEPT !.at = "mark", !.ok = ok]
           \/ worker.at = "mark" /\ worker' = Waiting
      BY <1>3 DEF Process, Persist, PersistFailed, SkipWebhook, RefusePayload, Mark, Post, Sent,
                  AwaitsBoss
  <2>2. \/ worker.at = "persist" /\ worker'.at \in {"send", "recv"}
        \/ worker.at = "send" /\ worker'.at = "mark"
        \/ worker.at = "mark" /\ worker'.at = "recv"
    <3>1. CASE worker' = Waiting
        BY <2>1, <3>1 DEF Waiting
    <3>2. CASE worker.at = "persist" /\ worker' = [worker EXCEPT !.at = "send"]
        BY <3>2 DEF LedgerInv, CdrInv, TypeOK
    <3>3. ASSUME worker.at = "send", NEW ok \in BOOLEAN,
                 worker' = [worker EXCEPT !.at = "mark", !.ok = ok]
          PROVE  worker'.at = "mark"
        BY <3>3 DEF LedgerInv, CdrInv, TypeOK
    <3> QED
        BY <2>1, <3>1, <3>2, <3>3
  <2>3. Busy \in Nat /\ Busy' \in Nat /\ Busy' < Busy
      BY <2>2 DEF Busy
  <2>4. worker'.at # "persist" /\ Hand' \subseteq Hand
      BY <2>2 DEF Hand
  <2> QED
      BY <1>1, <2>1, <2>3, <2>4, WorkAhead
<1> QED
    BY <1>2, <1>3

LEMMA NobodyDelays ==
    ASSUME LedgerInv, Ahead, Ahead', NoneAheadWhenStored, NoneAheadWhenStored', Next,
           NEW c \in published
    PROVE  /\ StepsAhead(c)' <= StepsAhead(c)
           /\ (Process \/ Post) /\ StepsAhead(c) # 0 => StepsAhead(c)' < StepsAhead(c)
<1>0. published \subseteq published'
    BY DEF Next, Publish, Process, Receive, Persist, PersistFailed, SkipWebhook, RefusePayload,
           Mark, Post, Sent, Crash
<1>1. StepsAhead(c) \in Nat /\ StepsAhead(c)' \in Nat
    BY <1>0 DEF NoneAheadWhenStored
<1>2. CASE StepsAhead(c) # 0 /\ (Process \/ Post)
    BY <1>1, <1>2, ProcessorAdvances
<1>3. CASE StepsAhead(c) = 0
  <2>1. c \in Elements(rows) \cup lost
      BY <1>3 DEF NoneAheadWhenStored
  <2>2. Elements(rows) \cup lost \subseteq Elements(rows') \cup lost'
    <3>1. rows' = rows \/ (rows' = Append(rows, worker.cdr) /\ worker.cdr \in Cdrs)
        BY DEF Next, Publish, Process, Receive, Persist, PersistFailed, SkipWebhook, RefusePayload,
               Mark, Post, Sent, Crash, Insert, LedgerInv, CdrInv, InHand
    <3>2. lost \subseteq lost'
        BY DEF Next, Publish, Process, Receive, Persist, PersistFailed, SkipWebhook, RefusePayload,
               Mark, Post, Sent, Crash
    <3>3. rows \in Seq(Cdrs)
        BY DEF LedgerInv, CdrInv, TypeOK
    <3>4. Elements(rows) \subseteq Elements(rows')
        BY <3>1, <3>3, ElementsAppend
    <3> QED
        BY <3>2, <3>4
  <2>3. StepsAhead(c)' = 0
      BY <1>0, <2>1, <2>2 DEF NoneAheadWhenStored, Elements
  <2> QED
      BY <1>3, <2>3
<1>4. ASSUME NEW d \in Cdrs, Publish(d), StepsAhead(c) # 0 PROVE StepsAhead(c)' = StepsAhead(c)
  <2>1. channel \in Seq(Cdrs) /\ channel' = Append(channel, d) /\ worker' = worker
      BY <1>4 DEF Publish, LedgerInv, CdrInv, TypeOK
  <2>2. /\ Len(channel) \in Nat /\ Len(channel') = Len(channel) + 1
        /\ \A i \in 1..Len(channel) : channel'[i] = channel[i]
      BY <2>1
  <2>3. CASE c \in Elements(channel)
    <3>1. PICK i \in 1..Len(channel) : c = channel[i]
        BY <2>3 DEF Elements
    <3>2. i \in 1..Len(channel') /\ c = channel'[i]
        BY <2>2, <3>1
    <3>3. StepsAhead(c)' = 4 * (i - 1) + Busy' + 2 /\ StepsAhead(c) = 4 * (i - 1) + Busy + 2
        BY <3>1, <3>2 DEF Ahead
    <3> QED
        BY <2>1, <3>3 DEF Busy
  <2>4. CASE c \notin Elements(channel)
    <3>1. worker.at = "persist" /\ c = worker.cdr
        BY <1>4, <2>4 DEF Ahead, Hand
    <3> QED
        BY <2>1, <3>1 DEF Ahead
  <2> QED
      BY <2>3, <2>4
<1>5. CASE Crash
  <2>1. worker'.at = "recv" /\ channel' = <<>>
      BY <1>5 DEF Crash, Waiting
  <2>2. StepsAhead(c)' = 0
      BY <1>0, <2>1 DEF Ahead, Hand, Elements
  <2> QED
      BY <1>1, <2>2
<1> QED
    BY <1>1, <1>2, <1>3, <1>4, <1>5 DEF Next

\* However many records follow, whatever fails and how often the process dies, every
\* step of the processor brings each published record nearer to its row or its
\* loss (start_cdr_processor).
THEOREM EveryRecordsTurnComes == Spec => []NoneAheadWhenStored /\ NoRecordHeldUp
<1>1. LedgerInv /\ [Next]_vars => LedgerInv'
    BY NextLedger DEF LedgerStep
<1>2. LedgerInv /\ Ahead /\ Ahead' /\ NoneAheadWhenStored /\ NoneAheadWhenStored' /\ [Next]_vars =>
         [\A c \in published :
             /\ StepsAhead(c)' <= StepsAhead(c)
             /\ (Process \/ Post) /\ StepsAhead(c) # 0 => StepsAhead(c)' < StepsAhead(c)]_vars
    BY NobodyDelays
<1> QED
    BY <1>1, <1>2, InitLedger, AheadFromInv, WaitingHaveSteps, PTL DEF Spec, NoRecordHeldUp
=============================================================================
