----------------------------- MODULE CdrPipeline -----------------------------
(***************************************************************************)
(* The way of a call detail record: from the B2BUA through an unbounded    *)
(* channel to one processor task, which inserts it into the database,      *)
(* posts it to the billing system ("boss") and marks its row               *)
(* (CDRGenerator, persist_cdr and mark_boss_synced in                      *)
(* src/src/class4_b2bua.rs, send_wholesale_cdr in src/src/boss_webhook.rs).*)
(*                                                                         *)
(* The process may die at any moment, and with it the channel and the      *)
(* record in hand; the rows stay.  An insertion, a request and an update   *)
(* may each take effect though their sender is told that they failed.      *)
(***************************************************************************)
EXTENDS Naturals, Sequences, FiniteSets

CONSTANTS
    Cdrs,         \* the records the B2BUA may publish
    CallOf,       \* the A-leg Call-ID of each; a caller may use one again
    Rated,        \* those of answered calls that the LCR engine has routed
    MaxCrashes,   \* bound: how often the process dies
    None

ASSUME PipelineAssumption ==
    /\ Rated \subseteq Cdrs
    /\ DOMAIN CallOf = Cdrs
    /\ MaxCrashes \in Nat
    /\ None \notin Cdrs \cup {"PENDING", "SYNCED"}

VARIABLES
    configured,  \* this process has BOSS_WEBHOOK_URL and SWITCH_SHARED_SECRET
    channel,     \* the mpsc channel
    worker,      \* the processor: where it is, the record in hand, the webhook's outcome
    rows,        \* call_detail_records, in the order of insertion
    status,      \* boss_sync_status of each record that has a row
    boss,        \* the records that boss has accepted
    published,   \* history: the records the B2BUA has published
    lost,        \* history: the records that a crash or the database has dropped
    skipped,     \* history: the records that found no webhook configured
    crashes

vars == <<configured, channel, worker, rows, status, boss, published, lost, skipped, crashes>>

Waiting == [at |-> "recv", cdr |-> None, ok |-> FALSE]

Elements(q) == {q[i] : i \in 1..Len(q)}

Init ==
    /\ configured \in BOOLEAN
    /\ channel = <<>>
    /\ worker = Waiting
    /\ rows = <<>>
    /\ status = [c \in Cdrs |-> None]
    /\ boss = {}
    /\ published = {}
    /\ lost = {}
    /\ skipped = {}
    /\ crashes = 0

-----------------------------------------------------------------------------

\* generate_cdr, on the main loop of the B2BUA
Publish(c) ==
    /\ c \notin published
    /\ published' = published \cup {c}
    /\ channel' = Append(channel, c)
    /\ UNCHANGED <<configured, worker, rows, status, boss, lost, skipped, crashes>>

\* receiver.recv()
Receive ==
    /\ worker.at = "recv" /\ channel # <<>>
    /\ worker' = [at |-> "persist", cdr |-> Head(channel), ok |-> FALSE]
    /\ channel' = Tail(channel)
    /\ UNCHANGED <<configured, rows, status, boss, published, lost, skipped, crashes>>

\* The row gets boss_sync_status = 'PENDING' by default.
Insert ==
    /\ rows' = Append(rows, worker.cdr)
    /\ status' = [status EXCEPT ![worker.cdr] = "PENDING"]

\* persist_cdr
Persist ==
    /\ worker.at = "persist"
    /\ Insert
    /\ worker' = [worker EXCEPT !.at = "send"]
    /\ UNCHANGED <<configured, channel, boss, published, lost, skipped, crashes>>

\* Wrong variant: a record whose insertion failed is put into the channel again.
PersistFailedRetried ==
    /\ worker.at = "persist"
    /\ Insert \/ UNCHANGED <<rows, status>>
    /\ worker' = Waiting
    /\ channel' = Append(channel, worker.cdr)
    /\ UNCHANGED <<configured, boss, published, lost, skipped, crashes>>

\* persist_cdr reports an error, with the row inserted or not: the record is
\* logged and dropped.
PersistFailed ==
    /\ worker.at = "persist"
    /\ \/ Insert /\ UNCHANGED lost
       \/ lost' = lost \cup {worker.cdr} /\ UNCHANGED <<rows, status>>
    /\ worker' = Waiting
    /\ UNCHANGED <<configured, channel, boss, published, skipped, crashes>>

\* send_wholesale_cdr has returned.
Sent(ok) ==
    /\ worker' = [worker EXCEPT !.at = "mark", !.ok = ok]
    /\ UNCHANGED <<configured, channel, rows, status, published, lost, crashes>>

\* Without a webhook it returns Ok, and so without a request.
SkipWebhook ==
    /\ worker.at = "send" /\ ~configured
    /\ Sent(TRUE)
    /\ skipped' = skipped \cup {worker.cdr}
    /\ UNCHANGED boss

\* Wrong variant: the processor goes on only with a record it could build.
RefusePayloadStuck ==
    /\ worker.at = "send" /\ configured /\ worker.cdr \notin Rated
    /\ UNCHANGED <<configured, channel, worker, rows, status, boss, published, lost, skipped, crashes>>

\* build_payload refuses a record without a duration or a client rate.
RefusePayload ==
    /\ worker.at = "send" /\ configured /\ worker.cdr \notin Rated
    /\ Sent(FALSE)
    /\ UNCHANGED <<boss, skipped>>

\* The processor awaits a request that has no timeout.
AwaitsBoss == worker.at = "send" /\ configured /\ worker.cdr \in Rated

\* The request ends, if it ever does: boss accepts it, accepts it and the answer
\* is lost, or does not.
Post ==
    /\ AwaitsBoss
    /\ UNCHANGED skipped
    /\ \/ boss' = boss \cup {worker.cdr} /\ \E ok \in BOOLEAN : Sent(ok)
       \/ Sent(FALSE) /\ UNCHANGED boss

\* Wrong variants: every record of the call is marked, with a row or without;
\* and the outcome is not looked at.
MarkUnstored ==
    /\ worker.at = "mark"
    /\ status' = [c \in Cdrs |->
                    IF CallOf[c] = CallOf[worker.cdr]
                      THEN IF worker.ok THEN "SYNCED" ELSE "PENDING"
                      ELSE status[c]]
    /\ worker' = Waiting
    /\ UNCHANGED <<configured, channel, rows, boss, published, lost, skipped, crashes>>

MarkAlways ==
    /\ worker.at = "mark"
    /\ status' = [status EXCEPT ![worker.cdr] = "SYNCED"]
    /\ worker' = Waiting
    /\ UNCHANGED <<configured, channel, rows, boss, published, lost, skipped, crashes>>

\* mark_boss_synced updates every row of the Call-ID; its failure is ignored.
Mark ==
    /\ worker.at = "mark"
    /\ \/ status' = [c \in Cdrs |->
                       IF status[c] # None /\ CallOf[c] = CallOf[worker.cdr]
                         THEN IF worker.ok THEN "SYNCED" ELSE "PENDING"
                         ELSE status[c]]
       \/ UNCHANGED status
    /\ worker' = Waiting
    /\ UNCHANGED <<configured, channel, rows, boss, published, lost, skipped, crashes>>

\* The process dies and starts again with an empty channel, and with a webhook
\* or without: the variables are read when a record is sent.
Crash ==
    /\ crashes < MaxCrashes
    /\ crashes' = crashes + 1
    /\ channel' = <<>>
    /\ worker' = Waiting
    /\ lost' = lost \cup Elements(channel)
                    \cup (IF worker.at = "persist" THEN {worker.cdr} ELSE {})
    /\ configured' \in BOOLEAN
    /\ UNCHANGED <<rows, status, boss, published, skipped>>

-----------------------------------------------------------------------------

\* What the processor does by itself and with the database.
Process == Receive \/ Persist \/ PersistFailed \/ SkipWebhook \/ RefusePayload \/ Mark

Next == (\E c \in Cdrs : Publish(c)) \/ Process \/ Post \/ Crash

Spec == Init /\ [][Next]_vars

\* The runtime polls the processor and the database answers.  Boss need not: there
\* is no fairness of Post.
FairSpec == Spec /\ WF_vars(Process)

-----------------------------------------------------------------------------

\* The values of the variables; a record has a status exactly when it has a row.
TypeOK ==
    /\ configured \in BOOLEAN
    /\ channel \in Seq(Cdrs) /\ rows \in Seq(Cdrs)
    /\ worker \in [at : {"recv", "persist", "send", "mark"}, cdr : Cdrs \cup {None}, ok : BOOLEAN]
    /\ status \in [Cdrs -> {None, "PENDING", "SYNCED"}]
    /\ \A c \in Cdrs : status[c] # None <=> c \in Elements(rows)
    /\ boss \subseteq Cdrs /\ published \subseteq Cdrs
    /\ lost \subseteq Cdrs /\ skipped \subseteq Cdrs
    /\ crashes \in 0..MaxCrashes

\* Boss never has a record that a crash of the switch could make it forget; and a
\* row is marked SYNCED only if a record of its call reached boss or found no
\* webhook configured (mark_boss_synced), whatever the process was restarted with.
SyncedCallReachedBoss ==
    /\ boss \subseteq Elements(rows)
    /\ \A c \in Cdrs : status[c] = "SYNCED" =>
          \E d \in boss \cup skipped : CallOf[d] = CallOf[c]

\* The record in hand, until it is stored, and those in the channel.
Queue == (IF worker.at = "persist" THEN <<worker.cdr>> ELSE <<>>) \o channel

Ledger == INSTANCE CdrLedger WITH queue <- Queue

\* The channel, the processor and the database keep the promise of CdrLedger
\* (start_cdr_processor): whatever crashes, fails or only seems to fail, no record
\* overtakes another, is stored twice, posted twice, or posted after the next one
\* has its row.
LedgerImplemented == Ledger!LedgerSpec

\* How many steps the processor has to take before it is through with c's
\* insertion: four for each record ahead of it in the channel.
Position(c) == CHOOSE i \in 1..Len(channel) : channel[i] = c

Busy == IF worker.at = "persist" THEN 3
        ELSE IF worker.at = "send" THEN 2
        ELSE IF worker.at = "mark" THEN 1 ELSE 0

StepsAhead(c) ==
    IF worker.at = "persist" /\ worker.cdr = c THEN 1
    ELSE IF c \in Elements(channel) THEN 4 * (Position(c) - 1) + Busy + 2
    ELSE 0

\* A published record has no steps ahead only if it has a row or is lost ...
NoneAheadWhenStored ==
    \A c \in published :
        StepsAhead(c) \in Nat /\ (StepsAhead(c) = 0 <=> c \in Elements(rows) \cup lost)

\* ... and every step of the processor, for whatever record, leaves it fewer,
\* while no later record, no failure and no crash gives it more.  With the fairness of
\* the processor this is why EveryCdrIsStored holds; only Post may never come.
NoRecordHeldUp ==
    [][\A c \in published :
          /\ StepsAhead(c)' <= StepsAhead(c)
          /\ (Process \/ Post) /\ StepsAhead(c) # 0 => StepsAhead(c)' < StepsAhead(c)]_vars

\* Every record gets its row, unless a crash or the database drops it or the only
\* processor awaits an answer of boss for ever (send_wholesale_cdr has no timeout):
\* nothing else stops the storing of records.
EveryCdrIsStored ==
    \A c \in Cdrs : c \in published ~> (c \in Elements(rows) \cup lost \/ []AwaitsBoss)
=============================================================================
