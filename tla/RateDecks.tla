------------------------------- MODULE RateDecks -------------------------------
(***************************************************************************)
(* The versions of a rate deck (src/src/lcr/deck_loader.rs), their         *)
(* validity in time, and the version a call is rated with                  *)
(* (src/src/lcr/routing.rs).  One family of decks is modelled: those with  *)
(* the same name and owner.  Decks of vendors and of clients are loaded by *)
(* the same code; they differ in how a trunk is led to its deck.           *)
(*                                                                         *)
(* A load reads the latest version and the deck in force outside its       *)
(* transaction, and then inserts the new version, by which a trigger ends  *)
(* the old one, and activates it or schedules its cutover in one.  Loads   *)
(* run concurrently with each other, with the operators' preloading and    *)
(* cancelling and with the deck manager task.                              *)
(*                                                                         *)
(* The rates, the cache (which holds the rates of a deck under its id and  *)
(* is backed by the database) and the history are left out.  So is soft    *)
(* deletion: nothing in src/ calls it, and the migrations that are applied *)
(* do not contain its SQL functions.                                       *)
(***************************************************************************)
EXTENDS Integers, Sequences

CONSTANTS
    Loaders,     \* the tasks that load decks
    Dates,       \* the effective dates they are given
    Lead,        \* preload_minutes
    MaxDecks,    \* bound of the number of versions
    MaxTime,     \* bound of the clock
    MaxTouched,  \* bound of the cutovers that operators preload or cancel
    NoEnd        \* end_date NULL

ASSUME DecksAssumption ==
    /\ Dates \subseteq Nat
    /\ Lead \in Nat /\ MaxDecks \in Nat /\ MaxTime \in Nat /\ MaxTouched \in Nat
    /\ NoEnd \notin Int

VARIABLES
    now,         \* the clock, in seconds
    decks,       \* the committed decks of the family; the version is the index
    schedule,    \* deck_cutover_schedule, in the order of insertion
    loader,      \* what each loader is doing
    manager      \* where the deck manager is, and the schedules it has selected

vars == <<now, decks, schedule, loader, manager>>

Statuses == {"scheduled", "preloaded", "active", "cancelled"}

Decks == [from : Dates, till : Int \cup {NoEnd}, parent : Nat, staged : BOOLEAN]
Cutovers == [old : Nat, new : Nat, cutover : Nat, preload : Int, status : Statuses]

Loads == [at : {"idle", "parent", "insert", "decide", "commit"}, version : Nat, parent : Nat,
          from : Nat, staged : BOOLEAN, activates : BOOLEAN]

Idle == [at |-> "idle", version |-> 0, parent |-> 0, from |-> 0, staged |-> FALSE,
         activates |-> FALSE]

Init ==
    /\ now = 0
    /\ decks = <<>>
    /\ schedule = <<>>
    /\ loader = [l \in Loaders |-> Idle]
    /\ manager = [at |-> "preload", ids |-> {}]

-----------------------------------------------------------------------------
(***************************************************************************)
(* load_vendor_deck, load_client_deck                                      *)
(***************************************************************************)

Becomes(l, r) == loader' = [loader EXCEPT ![l] = r]

\* get_current_vendor_version: the latest version.
ReadVersion(l) ==
    /\ loader[l].at = "idle" /\ Len(decks) < MaxDecks
    /\ \E from \in Dates :
          Becomes(l, [Idle EXCEPT !.at = "parent", !.version = Len(decks) + 1, !.from = from])
    /\ UNCHANGED <<now, decks, schedule, manager>>

HasEnded(d) == d.till # NoEnd /\ d.till <= now

\* get_current_vendor_deck_id, asked after the first version only: the latest
\* of the decks that have not ended, 0 for none.
ParentIs(version, p) ==
    \/ p \in 1..Len(decks) /\ version > 1 /\ ~HasEnded(decks[p])
       /\ \A q \in (p + 1)..Len(decks) : HasEnded(decks[q])
    \/ p = 0 /\ (version = 1 \/ \A q \in 1..Len(decks) : HasEnded(decks[q]))

ReadParent(l) ==
    /\ loader[l].at = "parent"
    /\ \E p \in 0..Len(decks) :
          /\ ParentIs(loader[l].version, p)
          /\ Becomes(l, [loader[l] EXCEPT !.parent = p, !.at = "insert"])
    /\ UNCHANGED <<now, decks, schedule, manager>>

InTransaction(l) == loader[l].at \in {"decide", "commit"}

\* Wrong variant: without the unique constraint.
VersionTakenNever(v) == FALSE

\* The unique constraint on owner, name and version.
VersionTaken(v) == v <= Len(decks)

\* The INSERT.  It waits for another transaction that has inserted the version
\* and fails if that commits.
Insert(l) ==
    /\ loader[l].at = "insert"
    /\ \A k \in Loaders : InTransaction(k) => loader[k].version # loader[l].version
    /\ Becomes(l, IF VersionTaken(loader[l].version) THEN Idle
                  ELSE [loader[l] EXCEPT !.at = "decide", !.staged = loader[l].from > now])
    /\ UNCHANGED <<now, decks, schedule, manager>>

\* By the clock of now, not by that of the INSERT, the new deck is activated or
\* its cutover is to be scheduled.
Decide(l) ==
    /\ loader[l].at = "decide"
    /\ Becomes(l, [loader[l] EXCEPT !.at = "commit", !.activates = loader[l].from <= now])
    /\ UNCHANGED <<now, decks, schedule, manager>>

\* The rates cannot be read or stored: the transaction is rolled back.
Abort(l) ==
    /\ InTransaction(l)
    /\ Becomes(l, Idle)
    /\ UNCHANGED <<now, decks, schedule, manager>>

\* Wrong variant: the deck that is replaced goes on.
EndedForgotten(r) == decks

\* Wrong variant: the deck that is replaced ends at once.
EndedNow(r) == IF r.parent # 0 THEN [decks EXCEPT ![r.parent].till = now] ELSE decks

\* The trigger of the INSERT gives the parent an end, a second before the new
\* deck's start, unless it has one; activate_deck_immediately does whatever it has.
Ended(r) ==
    IF r.parent # 0 /\ (decks[r.parent].till = NoEnd \/ r.activates)
    THEN [decks EXCEPT ![r.parent].till = r.from - 1] ELSE decks

\* Wrong variant: the cutover takes a status that no query selects.
CutoverPending(r) ==
    [old |-> r.parent, new |-> r.version, cutover |-> r.from, preload |-> r.from - Lead,
     status |-> "pending"]

\* schedule_cutover
Cutover(r) ==
    [old |-> r.parent, new |-> r.version, cutover |-> r.from, preload |-> r.from - Lead,
     status |-> "scheduled"]

Commit(l) ==
    LET r == loader[l] IN
    /\ r.at = "commit"
    /\ decks' = Append(Ended(r),
          [from |-> r.from, till |-> NoEnd, parent |-> r.parent,
           staged |-> r.staged /\ ~(r.activates /\ r.parent # 0)])
    /\ schedule' = IF r.activates \/ r.parent = 0 THEN schedule
                   ELSE Append(schedule, Cutover(r))
    /\ Becomes(l, Idle)
    /\ UNCHANGED <<now, manager>>

-----------------------------------------------------------------------------
(***************************************************************************)
(* Cutovers: the operators, and deck_manager_task                          *)
(***************************************************************************)

\* preload_deck, one transaction.
Preloads(i) ==
    /\ schedule' = [schedule EXCEPT ![i].status = "preloaded"]
    /\ decks' = [decks EXCEPT ![schedule[i].new].staged = FALSE]

\* An operator preloads a deck, through the API whatever its cutover's status ...
Preload(i) ==
    /\ Preloads(i)
    /\ UNCHANGED <<now, loader, manager>>

\* ... or cancels a cutover.
Cancel(i) ==
    /\ schedule[i].status # "cancelled"
    /\ schedule' = [schedule EXCEPT ![i].status = "cancelled"]
    /\ UNCHANGED <<now, decks, loader, manager>>

Manage(point, ids) == manager' = [at |-> point, ids |-> ids]

\* get_decks_to_preload selects cutovers whose preloading is yet to come ...
SelectPreload ==
    /\ manager.at = "preload"
    /\ Manage("preloading", {i \in 1..Len(schedule) :
          schedule[i].status = "scheduled" /\ schedule[i].preload > now})
    /\ UNCHANGED <<now, decks, schedule, loader>>

\* ... and the task preloads those of them whose time has come by now.
PreloadSelected ==
    /\ manager.at = "preloading"
    /\ IF manager.ids = {} THEN Manage("activate", {}) /\ UNCHANGED <<decks, schedule>>
       ELSE \E i \in manager.ids :
              /\ Manage("preloading", manager.ids \ {i})
              /\ IF schedule[i].preload <= now THEN Preloads(i)
                 ELSE UNCHANGED <<decks, schedule>>
    /\ UNCHANGED <<now, loader>>

\* Wrong variant: every preloaded cutover is due.
DueAlways(i) == schedule[i].status = "preloaded"

Due(i) == schedule[i].status = "preloaded" /\ schedule[i].cutover <= now

\* activate_due_decks
SelectDue ==
    /\ manager.at = "activate"
    /\ Manage("activating", {i \in 1..Len(schedule) : Due(i)})
    /\ UNCHANGED <<now, decks, schedule, loader>>

ActivateSelected ==
    /\ manager.at = "activating"
    /\ IF manager.ids = {} THEN Manage("preload", {}) /\ UNCHANGED schedule
       ELSE \E i \in manager.ids :
              /\ Manage("activating", manager.ids \ {i})
              /\ schedule' = [schedule EXCEPT ![i].status = "active"]
    /\ UNCHANGED <<now, decks, loader>>

Tick ==
    /\ now < MaxTime
    /\ now' = now + 1
    /\ UNCHANGED <<decks, schedule, loader, manager>>

Next ==
    \/ Tick
    \/ \E l \in Loaders :
          ReadVersion(l) \/ ReadParent(l) \/ Insert(l) \/ Decide(l) \/ Abort(l) \/ Commit(l)
    \/ \E i \in 1..Len(schedule) : i <= MaxTouched /\ (Preload(i) \/ Cancel(i))
    \/ SelectPreload \/ PreloadSelected \/ SelectDue \/ ActivateSelected

Spec == Init /\ [][Next]_vars

-----------------------------------------------------------------------------
(***************************************************************************)
(* Which deck a call at time t is rated with                               *)
(***************************************************************************)

InForce(d, t) == d.from <= t /\ (d.till = NoEnd \/ d.till > t)

\* get_vendor_rate_for_trunk_at_time: the latest version in force, 0 for none.
IsCurrent(v, t) ==
    IF v = 0 THEN \A w \in 1..Len(decks) : ~InForce(decks[w], t)
    ELSE /\ InForce(decks[v], t)
         /\ \A w \in (v + 1)..Len(decks) : ~InForce(decks[w], t)

Current(t) == CHOOSE v \in 0..Len(decks) : IsCurrent(v, t)

\* get_client_rate_at_time, for a request that names version v: that version
\* while it is in force, then the latest of its family.
Requested(v, t) == IF InForce(decks[v], t) THEN v ELSE Current(t)

\* get_client_rate_for_trunk_at_time, for a trunk associated with version v:
\* that version or none.
Associated(v, t) == IF InForce(decks[v], t) THEN v ELSE 0

-----------------------------------------------------------------------------
TypeOK ==
    /\ now \in Nat
    /\ decks \in Seq(Decks)
    /\ schedule \in Seq(Cutovers)
    /\ loader \in [Loaders -> Loads]
    /\ manager \in [at : {"preload", "preloading", "activate", "activating"},
                    ids : SUBSET (1..Len(schedule))]

(* However loads interleave, the versions form a chain: each but the first *)
(* replaces the one before it, which ends a second before it starts, and   *)
(* the last has no end (deck_loader.rs, lines 41-58 and 582; the trigger   *)
(* update_deck_expiry_dates).                                              *)
ChainIntact ==
    \A v \in 1..Len(decks) :
        /\ decks[v].parent = v - 1
        /\ decks[v].till = IF v = Len(decks) THEN NoEnd ELSE decks[v + 1].from - 1

Starts == {decks[v].from : v \in 1..Len(decks)}

(* From the first start on there is a deck in force at every time, but for *)
(* the one second before a start, whatever the order of the dates the      *)
(* decks were loaded with (routing.rs, lines 548-562).                     *)
GapIsASecond ==
    \A t \in 0..MaxTime :
        (\E s \in Starts : s <= t) /\ Current(t) = 0 => t + 1 \in Starts

(* A deck that a cutover has activated is loaded and its date has come, and *)
(* a cutover leads from a deck to the next version at that one's start,     *)
(* whenever operators preload and cancel (deck_loader.rs, lines 310-403).   *)
LoadedBeforeActive ==
    \A i \in 1..Len(schedule) :
        LET c == schedule[i] IN
        /\ c.old \in 1..Len(decks) /\ c.new \in 1..Len(decks) /\ c.new = c.old + 1
        /\ c.cutover = decks[c.new].from
        /\ c.status \in {"preloaded", "active"} => ~decks[c.new].staged
        /\ c.status = "active" => c.cutover <= now

Ascending == \A v, w \in 1..Len(decks) : v < w => decks[v].from < decks[w].from

(* As long as every version starts after the one before, a client's request *)
(* is rated with the same deck, whichever version of it the request names   *)
(* (routing.rs, lines 477-532), as a vendor's trunk is (lines 543-587); and *)
(* a client's trunk with that deck or, left behind by it, with none.        *)
RequestedAgrees ==
    Ascending => \A t \in 0..MaxTime : \A v \in 1..Len(decks) :
                    /\ Requested(v, t) = Current(t)
                    /\ Associated(v, t) \in {0, Current(t)}

Card == INSTANCE RateCard WITH
            Times <- 0..MaxTime,
            versions <- Len(decks),
            pricing <- [t \in 0..MaxTime |-> Current(t)]

(* Loads that overlap and fail, cutovers, operators and the deck manager   *)
(* are no more than RateCard: what prices a time changes only when a load  *)
(* commits, at once, and for no time before the second ahead of that       *)
(* deck's start (deck_loader.rs, lines 41-58 and 224-306).                 *)
CardImplemented == Card!CardSpec

(* Rates do not go back to an older version, but for that same second.     *)
BackForASecond ==
    [][Current(now)' < Current(now) => now' + 1 \in Starts']_vars
=============================================================================
