------------------------------- MODULE CdrLedger -------------------------------
(***************************************************************************)
(* What the CDR pipeline promises: the records get their rows in the order *)
(* in which they were published, each one row at most, and a record that   *)
(* gets none is given up; the billing system is given the latest row only, *)
(* and a record no more than once.                                         *)
(***************************************************************************)
EXTENDS Naturals, Sequences

CONSTANT Cdrs

VARIABLES
    queue,      \* the records that are still to be stored
    rows,       \* those that are, in the order of insertion
    boss,       \* those the billing system has
    published,  \* all that were ever published
    lost        \* those that have been given up

ledgerVars == <<queue, rows, boss, published, lost>>

LedgerInit ==
    /\ queue = <<>>
    /\ rows = <<>>
    /\ boss = {}
    /\ published = {}
    /\ lost = {}

Accept(c) ==
    /\ c \notin published
    /\ queue' = Append(queue, c)
    /\ published' = published \cup {c}
    /\ UNCHANGED <<rows, boss, lost>>

Store ==
    /\ queue # <<>>
    /\ rows' = Append(rows, Head(queue))
    /\ queue' = Tail(queue)
    /\ UNCHANGED <<boss, published, lost>>

\* The database refuses the record whose turn it is.
Discard ==
    /\ queue # <<>>
    /\ lost' = lost \cup {Head(queue)}
    /\ queue' = Tail(queue)
    /\ UNCHANGED <<rows, boss, published>>

\* The process dies.
Forget ==
    /\ lost' = lost \cup {queue[i] : i \in 1..Len(queue)}
    /\ queue' = <<>>
    /\ UNCHANGED <<rows, boss, published>>

Deliver ==
    /\ rows # <<>>
    /\ rows[Len(rows)] \notin boss
    /\ boss' = boss \cup {rows[Len(rows)]}
    /\ UNCHANGED <<queue, rows, published, lost>>

LedgerNext ==
    \/ \E c \in Cdrs : Accept(c)
    \/ Store \/ Discard \/ Forget \/ Deliver

LedgerSpec == LedgerInit /\ [][LedgerNext]_ledgerVars
=============================================================================
