---------------------------- MODULE RateDecksProofs ----------------------------
(***************************************************************************)
(* Proofs about RateDecks: the versions of a deck form a chain, and what   *)
(* follows from that for the version a call is rated with.                 *)
(***************************************************************************)
EXTENDS RateDecks, SequenceTheorems, WellFoundedInduction, TLAPS

(* A loader that has the version after the latest has the latest as parent, *)
(* and only with such a version does it come into its transaction.          *)
LoadersOK ==
    \A l \in Loaders :
        LET r == loader[l] IN
        /\ r.at # "idle" => r.from \in Dates /\ r.version \in 1..(Len(decks) + 1)
        /\ r.at \in {"insert", "decide", "commit"} /\ r.version = Len(decks) + 1
              => r.parent = Len(decks)
        /\ InTransaction(l) => r.version = Len(decks) + 1

(* The transactions of one family of decks exclude each other.             *)
OneTransaction ==
    \A k, l \in Loaders : InTransaction(k) /\ InTransaction(l) => k = l

(* The cutovers the deck manager is about to activate are due.             *)
SelectedAreDue ==
    manager.at = "activating" =>
        \A i \in manager.ids :
            schedule[i].cutover <= now /\ ~decks[schedule[i].new].staged

DeckInv ==
    /\ TypeOK
    /\ LoadersOK
    /\ OneTransaction
    /\ ChainIntact
    /\ LoadedBeforeActive
    /\ SelectedAreDue

-----------------------------------------------------------------------------
LEMMA IdleLoads == Idle \in Loads
BY DEF Idle, Loads

LEMMA InitDeckInv == Init => DeckInv
<1> SUFFICES ASSUME Init PROVE DeckInv
    OBVIOUS
<1> USE DecksAssumption DEF Init
<1>1. TypeOK
    <2>1. schedule \in Seq(Cutovers) /\ decks \in Seq(Decks)
        BY EmptySeq
    <2>2. loader \in [Loaders -> Loads]
        BY IdleLoads
    <2> QED
        BY <2>1, <2>2 DEF TypeOK
<1>2. LoadersOK /\ OneTransaction
    BY DEF LoadersOK, OneTransaction, InTransaction, Idle
<1>3. ChainIntact /\ LoadedBeforeActive /\ SelectedAreDue
    BY DEF ChainIntact, LoadedBeforeActive, SelectedAreDue
<1> QED
    BY <1>1, <1>2, <1>3 DEF DeckInv

(* Steps that change nothing but a loader leave most of the invariant.     *)
LEMMA LoaderStep ==
    ASSUME DeckInv, UNCHANGED <<now, decks, schedule, manager>>,
           NEW l \in Loaders, NEW r \in Loads, Becomes(l, r)
    PROVE  TypeOK' /\ ChainIntact' /\ LoadedBeforeActive' /\ SelectedAreDue'
<1>1. TypeOK'
    BY DEF DeckInv, TypeOK, Becomes
<1>2. ChainIntact' /\ LoadedBeforeActive' /\ SelectedAreDue'
    BY DEF DeckInv, ChainIntact, LoadedBeforeActive, SelectedAreDue
<1> QED
    BY <1>1, <1>2

LEMMA ReadVersionStep ==
    ASSUME DeckInv, NEW l \in Loaders, ReadVersion(l)
    PROVE  DeckInv'
<1> USE DecksAssumption DEF DeckInv
<1>0. Len(decks) \in Nat
    BY DEF TypeOK
<1>1. PICK from \in Dates :
         Becomes(l, [Idle EXCEPT !.at = "parent", !.version = Len(decks) + 1, !.from = from])
    BY DEF ReadVersion
<1> DEFINE r == [Idle EXCEPT !.at = "parent", !.version = Len(decks) + 1, !.from = from]
<1>2. from \in Nat /\ Len(decks) + 1 \in Nat
    BY <1>0
<1>3. r.at = "parent" /\ r.version = Len(decks) + 1 /\ r.from = from
    BY IdleLoads DEF Loads
<1>4. r \in Loads
    BY <1>2, IdleLoads DEF Loads
<1>5. \A k \in Loaders : loader'[k] = IF k = l THEN r ELSE loader[k]
    BY <1>1 DEF Becomes, TypeOK
<1> HIDE DEF r
<1>6. LoadersOK' /\ OneTransaction'
    BY <1>0, <1>3, <1>5 DEF LoadersOK, OneTransaction, InTransaction, ReadVersion
<1> QED
    BY <1>1, <1>4, <1>6, LoaderStep DEF ReadVersion, r

(* Asked for the version after the latest, the parent is the latest.       *)
LEMMA ParentIsLatest ==
    ASSUME DeckInv, NEW p \in 0..Len(decks), ParentIs(Len(decks) + 1, p)
    PROVE  p = Len(decks)
<1> USE DEF DeckInv
<1>0. Len(decks) \in Nat /\ now \in Nat
    BY DEF TypeOK
<1>1. CASE Len(decks) = 0
    BY <1>0, <1>1
<1>2. CASE Len(decks) # 0
    <2>1. Len(decks) \in 1..Len(decks)
        BY <1>0, <1>2
    <2>2. ~HasEnded(decks[Len(decks)])
        BY <2>1 DEF ChainIntact, HasEnded
    <2> QED
        BY <1>0, <1>2, <2>1, <2>2 DEF ParentIs
<1> QED
    BY <1>1, <1>2

LEMMA ReadParentStep ==
    ASSUME DeckInv, NEW l \in Loaders, ReadParent(l)
    PROVE  DeckInv'
<1> USE DecksAssumption DEF DeckInv
<1>0. Len(decks) \in Nat /\ loader[l] \in Loads
    BY DEF TypeOK
<1>1. PICK p \in 0..Len(decks) :
         /\ ParentIs(loader[l].version, p)
         /\ Becomes(l, [loader[l] EXCEPT !.parent = p, !.at = "insert"])
    BY DEF ReadParent
<1> DEFINE r == [loader[l] EXCEPT !.parent = p, !.at = "insert"]
<1> p \in Nat
    BY <1>0
<1>2. r \in Loads /\ r.at = "insert" /\ r.parent = p /\ r.version = loader[l].version
      /\ r.from = loader[l].from
    BY <1>0 DEF Loads
<1>3. \A k \in Loaders : loader'[k] = IF k = l THEN r ELSE loader[k]
    BY <1>1 DEF Becomes, TypeOK
<1> HIDE DEF r
<1>4. loader[l].version = Len(decks) + 1 => p = Len(decks)
    BY <1>1, ParentIsLatest
<1>5. LoadersOK' /\ OneTransaction'
    BY <1>0, <1>2, <1>3, <1>4 DEF LoadersOK, OneTransaction, InTransaction, ReadParent
<1> QED
    BY <1>1, <1>2, <1>5, LoaderStep DEF ReadParent, r

LEMMA InsertStep ==
    ASSUME DeckInv, NEW l \in Loaders, Insert(l)
    PROVE  DeckInv'
<1> USE DecksAssumption DEF DeckInv
<1>0. Len(decks) \in Nat /\ loader[l] \in Loads /\ now \in Nat
    BY DEF TypeOK
<1>1. CASE VersionTaken(loader[l].version)
    <2>1. Becomes(l, Idle)
        BY <1>1 DEF Insert
    <2>2. \A k \in Loaders : loader'[k] = IF k = l THEN Idle ELSE loader[k]
        BY <2>1 DEF Becomes, TypeOK
    <2>3. LoadersOK' /\ OneTransaction'
        BY <1>0, <2>2 DEF LoadersOK, OneTransaction, InTransaction, Insert, Idle
    <2> QED
        BY <2>1, <2>3, LoaderStep, IdleLoads DEF Insert
<1>2. CASE ~VersionTaken(loader[l].version)
    <2> DEFINE r == [loader[l] EXCEPT !.at = "decide", !.staged = loader[l].from > now]
    <2>1. loader[l].version = Len(decks) + 1
        BY <1>0, <1>2 DEF LoadersOK, VersionTaken, Insert, Loads
    <2>2. \A k \in Loaders : ~InTransaction(k)
        BY <2>1 DEF LoadersOK, Insert
    <2> (loader[l].from > now) \in BOOLEAN
        OBVIOUS
    <2>3. r \in Loads /\ r.at = "decide" /\ r.parent = loader[l].parent
          /\ r.version = loader[l].version /\ r.from = loader[l].from
        BY <1>0 DEF Loads
    <2>4. Becomes(l, r)
        BY <1>2 DEF Insert
    <2>5. \A k \in Loaders : loader'[k] = IF k = l THEN r ELSE loader[k]
        BY <2>4 DEF Becomes, TypeOK
    <2> HIDE DEF r
    <2>6. LoadersOK' /\ OneTransaction'
        BY <1>0, <2>1, <2>2, <2>3, <2>5 DEF LoadersOK, OneTransaction, InTransaction, Insert
    <2> QED
        BY <2>3, <2>4, <2>6, LoaderStep DEF Insert
<1> QED
    BY <1>1, <1>2

LEMMA DecideStep ==
    ASSUME DeckInv, NEW l \in Loaders, Decide(l)
    PROVE  DeckInv'
<1> USE DecksAssumption DEF DeckInv
<1> DEFINE r == [loader[l] EXCEPT !.at = "commit", !.activates = loader[l].from <= now]
<1> (loader[l].from <= now) \in BOOLEAN
    OBVIOUS
<1>1. r \in Loads /\ r.at = "commit" /\ r.parent = loader[l].parent
      /\ r.version = loader[l].version /\ r.from = loader[l].from
    BY DEF TypeOK, Loads
<1>2. Becomes(l, r)
    BY DEF Decide
<1>3. \A k \in Loaders : loader'[k] = IF k = l THEN r ELSE loader[k]
    BY <1>2 DEF Becomes, TypeOK
<1> HIDE DEF r
<1>4. LoadersOK' /\ OneTransaction'
    BY <1>1, <1>3 DEF LoadersOK, OneTransaction, InTransaction, Decide
<1> QED
    BY <1>1, <1>2, <1>4, LoaderStep DEF Decide

LEMMA AbortStep ==
    ASSUME DeckInv, NEW l \in Loaders, Abort(l)
    PROVE  DeckInv'
<1> USE DecksAssumption DEF DeckInv
<1>1. \A k \in Loaders : loader'[k] = IF k = l THEN Idle ELSE loader[k]
    BY DEF Abort, Becomes, TypeOK
<1>2. LoadersOK' /\ OneTransaction'
    BY <1>1 DEF LoadersOK, OneTransaction, InTransaction, Abort, Idle
<1> QED
    BY <1>2, LoaderStep, IdleLoads DEF Abort

(* What a commit makes of the decks that are there.                        *)
LEMMA EndedDecks ==
    ASSUME DeckInv, NEW r \in Loads, r.from \in Dates, r.parent = Len(decks)
    PROVE  /\ Ended(r) \in Seq(Decks) /\ Len(Ended(r)) = Len(decks)
           /\ \A v \in 1..Len(decks) :
                 /\ Ended(r)[v].from = decks[v].from
                 /\ Ended(r)[v].parent = decks[v].parent
                 /\ Ended(r)[v].staged = decks[v].staged
                 /\ Ended(r)[v].till = IF v = Len(decks) THEN r.from - 1 ELSE decks[v].till
<1> USE DecksAssumption DEF DeckInv
<1> DEFINE n == Len(decks)
           last == [decks[n] EXCEPT !.till = r.from - 1]
<1>0. n \in Nat /\ decks \in Seq(Decks) /\ r.from - 1 \in Int
    BY DEF TypeOK, Loads
<1>1. CASE n = 0
    BY <1>0, <1>1 DEF Ended
<1>2. CASE n # 0
    <2>1. n \in 1..n /\ decks[n] \in Decks
        BY <1>0, <1>2
    <2>2. Ended(r) = [decks EXCEPT ![n] = last]
        BY <1>2, <2>1 DEF Ended, ChainIntact
    <2>3. last \in Decks /\ last.till = r.from - 1 /\ last.from = decks[n].from
          /\ last.parent = decks[n].parent /\ last.staged = decks[n].staged
        BY <1>0, <2>1 DEF Decks
    <2> HIDE DEF last
    <2>4. Ended(r) \in Seq(Decks) /\ Len(Ended(r)) = n
        BY <1>0, <2>1, <2>2, <2>3, ExceptSeq
    <2>5. \A v \in 1..n : Ended(r)[v] = IF v = n THEN last ELSE decks[v]
        BY <1>0, <2>2
    <2> QED
        BY <2>3, <2>4, <2>5
<1> QED
    BY <1>1, <1>2

LEMMA CommitStep ==
    ASSUME DeckInv, NEW l \in Loaders, Commit(l)
    PROVE  /\ DeckInv'
           /\ Len(decks') = Len(decks) + 1
           /\ \A v \in 1..Len(decks) : decks'[v].from = decks[v].from
           /\ decks'[Len(decks) + 1].from = loader[l].from
<1> USE DecksAssumption DEF DeckInv
<1> DEFINE r == loader[l]
           n == Len(decks)
           staged == r.staged /\ ~(r.activates /\ r.parent # 0)
           new == [from |-> r.from, till |-> NoEnd, parent |-> r.parent, staged |-> staged]
<1>1. n \in Nat /\ r \in Loads /\ r.from \in Dates /\ r.parent = n /\ r.version = n + 1
    BY DEF TypeOK, LoadersOK, InTransaction, Commit
<1>bool. staged \in BOOLEAN
    OBVIOUS
<1>2. r.from \in Nat /\ r.from - Lead \in Int
    BY <1>1 DEF Loads
<1>3. decks' = Append(Ended(r), new)
    BY DEF Commit
<1>4. schedule' = IF r.activates \/ r.parent = 0 THEN schedule ELSE Append(schedule, Cutover(r))
    BY DEF Commit
<1>5. \A k \in Loaders : loader'[k] = IF k = l THEN Idle ELSE loader[k]
    BY DEF Commit, Becomes, TypeOK
<1>6. UNCHANGED <<now, manager>> /\ loader' = [loader EXCEPT ![l] = Idle]
    BY DEF Commit, Becomes
<1>7. \A k \in Loaders : InTransaction(k) => k = l
    BY DEF Commit, OneTransaction, InTransaction
<1> HIDE DEF r, staged
<1>8. new \in Decks
    BY <1>1, <1>bool DEF Decks, Loads
<1>9. new.from = r.from /\ new.till = NoEnd /\ new.parent = r.parent
    OBVIOUS
<1> HIDE DEF new
<1>10. /\ decks' \in Seq(Decks) /\ Len(decks') = n + 1 /\ decks'[n + 1] = new
       /\ \A v \in 1..n : decks'[v] = Ended(r)[v]
    BY <1>1, <1>3, <1>8, EndedDecks
<1>11. Cutover(r) \in Cutovers
    BY <1>1, <1>2 DEF Cutover, Cutovers, Statuses, Loads
<1>12. schedule \in Seq(Cutovers) /\ schedule' \in Seq(Cutovers) /\ Len(schedule') >= Len(schedule)
    BY <1>4, <1>11 DEF TypeOK
<1>13. TypeOK'
    <2>1. 1..Len(schedule) \subseteq (1..Len(schedule))'
        BY <1>12
    <2>2. loader' \in [Loaders -> Loads]
        BY <1>6, IdleLoads DEF TypeOK
    <2> QED
        BY <1>6, <1>10, <1>12, <2>1, <2>2 DEF TypeOK
<1>14. LoadersOK' /\ OneTransaction'
    BY <1>1, <1>5, <1>7, <1>10 DEF LoadersOK, OneTransaction, InTransaction, Idle
<1>15. ChainIntact'
    <2> SUFFICES ASSUME NEW v \in 1..(n + 1)
                 PROVE  /\ decks'[v].parent = v - 1
                        /\ decks'[v].till = IF v = n + 1 THEN NoEnd ELSE decks'[v + 1].from - 1
        BY <1>10 DEF ChainIntact
    <2>1. CASE v = n + 1
        BY <1>1, <1>9, <1>10, <2>1
    <2>2. CASE v = n /\ n # 0
        <3>1. v \in 1..n /\ v + 1 = n + 1
            BY <1>1, <2>2
        <3> QED
            BY <1>1, <1>9, <1>10, <2>2, <3>1, EndedDecks DEF ChainIntact
    <2>3. CASE v \in 1..(n - 1)
        <3>1. v \in 1..n /\ v + 1 \in 1..n /\ v # n + 1 /\ v # n
            BY <1>1, <2>3
        <3>2. decks'[v].till = decks[v].till /\ decks'[v + 1].from = decks[v + 1].from
              /\ decks'[v].parent = decks[v].parent
            BY <1>1, <1>10, <3>1, EndedDecks
        <3> QED
            BY <3>1, <3>2 DEF ChainIntact
    <2> QED
        BY <1>1, <2>1, <2>2, <2>3
<1>16. \A v \in 1..n : decks'[v].from = decks[v].from /\ decks'[v].staged = decks[v].staged
    BY <1>1, <1>10, EndedDecks
<1>17. \A i \in 1..Len(schedule) : schedule[i] = schedule'[i]
    BY <1>4, <1>11, <1>12
<1>18. LoadedBeforeActive'
    <2> SUFFICES ASSUME NEW i \in 1..Len(schedule'), NEW c, c = schedule'[i]
                 PROVE  /\ c.old \in 1..(n + 1) /\ c.new = c.old + 1
                        /\ c.new \in 1..(n + 1) /\ c.cutover = decks'[c.new].from
                        /\ c.status \in {"preloaded", "active"} => ~decks'[c.new].staged
                        /\ c.status = "active" => c.cutover <= now
        BY <1>6, <1>10 DEF LoadedBeforeActive
    <2>1. CASE i \in 1..Len(schedule)
        <3>1. c = schedule[i]
            BY <1>17, <2>1
        <3>2. /\ c.old \in 1..n /\ c.new = c.old + 1 /\ c.new \in 1..n
              /\ c.cutover = decks[c.new].from
              /\ c.status \in {"preloaded", "active"} => ~decks[c.new].staged
              /\ c.status = "active" => c.cutover <= now
            BY <2>1, <3>1 DEF LoadedBeforeActive
        <3>3. 1..n \subseteq 1..(n + 1)
            BY <1>1
        <3> QED
            BY <1>16, <3>2, <3>3
    <2>2. CASE i \notin 1..Len(schedule)
        <3>1. r.parent # 0 /\ c = Cutover(r)
            BY <1>4, <1>11, <1>12, <2>2
        <3> QED
            BY <1>1, <1>9, <1>10, <3>1 DEF Cutover
    <2> QED
        BY <2>1, <2>2
<1>19. SelectedAreDue'
    <2> SUFFICES ASSUME manager.at = "activating", NEW i \in manager.ids
                 PROVE  schedule'[i].cutover <= now /\ ~decks'[schedule'[i].new].staged
        BY <1>6 DEF SelectedAreDue
    <2>1. i \in 1..Len(schedule) /\ schedule'[i] = schedule[i]
        BY <1>17 DEF TypeOK
    <2>2. schedule[i].new \in 1..n
        BY <2>1 DEF LoadedBeforeActive
    <2>3. decks'[schedule[i].new].staged = decks[schedule[i].new].staged
        BY <1>16, <2>2
    <2> QED
        BY <2>1, <2>3 DEF SelectedAreDue
<1>20. decks'[n + 1].from = loader[l].from
    BY <1>9, <1>10 DEF r
<1> QED
    BY <1>10, <1>13, <1>14, <1>15, <1>16, <1>18, <1>19, <1>20

(* Steps that leave the decks and the loaders alone.                       *)
LEMMA UntouchedDecks ==
    ASSUME DeckInv, UNCHANGED <<decks, loader>>
    PROVE  LoadersOK' /\ OneTransaction' /\ ChainIntact'
BY DEF DeckInv, LoadersOK, OneTransaction, InTransaction, ChainIntact

(* A cutover changes its status.                                           *)
LEMMA StatusChange ==
    ASSUME DeckInv, NEW i \in 1..Len(schedule), NEW st \in Statuses,
           schedule' = [schedule EXCEPT ![i].status = st]
    PROVE  /\ schedule' \in Seq(Cutovers) /\ Len(schedule') = Len(schedule)
           /\ schedule'[i].status = st
           /\ \A k \in 1..Len(schedule) :
                 /\ schedule'[k].old = schedule[k].old /\ schedule'[k].new = schedule[k].new
                 /\ schedule'[k].cutover = schedule[k].cutover
                 /\ k # i => schedule'[k] = schedule[k]
<1> DEFINE c == [schedule[i] EXCEPT !.status = st]
<1>1. schedule \in Seq(Cutovers) /\ schedule[i] \in Cutovers
    BY DEF DeckInv, TypeOK
<1>2. c \in Cutovers /\ c.status = st /\ c.old = schedule[i].old /\ c.new = schedule[i].new
      /\ c.cutover = schedule[i].cutover
    BY <1>1 DEF Cutovers
<1>3. schedule' = [schedule EXCEPT ![i] = c]
    OBVIOUS
<1> HIDE DEF c
<1> QED
    BY <1>1, <1>2, <1>3, ExceptSeq

(* Preloading marks one deck as loaded and its cutover as preloaded.       *)
LEMMA PreloadsKeeps ==
    ASSUME DeckInv, NEW i \in 1..Len(schedule), Preloads(i), UNCHANGED <<now, loader>>
    PROVE  /\ decks' \in Seq(Decks) /\ schedule' \in Seq(Cutovers)
           /\ Len(schedule') = Len(schedule)
           /\ LoadersOK' /\ OneTransaction' /\ ChainIntact' /\ LoadedBeforeActive'
           /\ Len(decks') = Len(decks)
           /\ \A v \in 1..Len(decks) : decks'[v].from = decks[v].from
           /\ \A k \in 1..Len(schedule) :
                 /\ schedule'[k].cutover = schedule[k].cutover
                 /\ decks'[schedule'[k].new].staged => decks[schedule[k].new].staged
<1> USE DecksAssumption DEF DeckInv
<1> DEFINE v == schedule[i].new
           d == [decks[v] EXCEPT !.staged = FALSE]
<1>1. decks \in Seq(Decks) /\ v \in 1..Len(decks) /\ decks[v] \in Decks
    BY DEF TypeOK, LoadedBeforeActive
<1>2. d \in Decks /\ d.staged = FALSE /\ d.from = decks[v].from /\ d.till = decks[v].till
      /\ d.parent = decks[v].parent
    BY <1>1 DEF Decks
<1>3. decks' = [decks EXCEPT ![v] = d]
    BY DEF Preloads
<1> HIDE DEF d, v
<1>4. /\ decks' \in Seq(Decks) /\ Len(decks') = Len(decks)
      /\ \A w \in 1..Len(decks) : decks'[w] = IF w = v THEN d ELSE decks[w]
    BY <1>1, <1>2, <1>3, ExceptSeq
<1>5. \A w \in 1..Len(decks) :
         /\ decks'[w].from = decks[w].from /\ decks'[w].till = decks[w].till
         /\ decks'[w].parent = decks[w].parent
         /\ decks'[w].staged => decks[w].staged
    BY <1>1, <1>2, <1>4
<1>6. /\ schedule' \in Seq(Cutovers) /\ Len(schedule') = Len(schedule)
      /\ schedule'[i].status = "preloaded"
      /\ \A k \in 1..Len(schedule) :
            /\ schedule'[k].old = schedule[k].old /\ schedule'[k].new = schedule[k].new
            /\ schedule'[k].cutover = schedule[k].cutover
            /\ k # i => schedule'[k] = schedule[k]
    BY StatusChange DEF Preloads, Statuses
<1>7. LoadersOK' /\ OneTransaction'
    BY <1>4 DEF LoadersOK, OneTransaction, InTransaction
<1>8. ChainIntact'
    <2> SUFFICES ASSUME NEW w \in 1..Len(decks)
                 PROVE  /\ decks'[w].parent = w - 1
                        /\ decks'[w].till = IF w = Len(decks) THEN NoEnd ELSE decks'[w + 1].from - 1
        BY <1>4 DEF ChainIntact
    <2>1. w = Len(decks) \/ w + 1 \in 1..Len(decks)
        BY <1>1
    <2>2. decks[w].parent = w - 1
          /\ decks[w].till = IF w = Len(decks) THEN NoEnd ELSE decks[w + 1].from - 1
        BY DEF ChainIntact
    <2>3. w + 1 \in 1..Len(decks) => decks'[w + 1].from = decks[w + 1].from
        BY <1>5
    <2>4. decks'[w].till = decks[w].till /\ decks'[w].parent = decks[w].parent
        BY <1>5
    <2> QED
        BY <2>1, <2>2, <2>3, <2>4
<1>9. ASSUME NEW k \in 1..Len(schedule)
      PROVE  /\ schedule'[k].new \in 1..Len(decks)
             /\ schedule'[k].cutover = schedule[k].cutover
             /\ decks'[schedule'[k].new].staged => decks[schedule[k].new].staged
             /\ decks'[schedule'[k].new].from = decks[schedule[k].new].from
    <2>1. schedule[k].new \in 1..Len(decks) /\ schedule'[k].new = schedule[k].new
          /\ schedule'[k].cutover = schedule[k].cutover
        BY <1>6 DEF LoadedBeforeActive
    <2>2. decks'[schedule[k].new].staged => decks[schedule[k].new].staged
        BY <1>5, <2>1
    <2>3. decks'[schedule[k].new].from = decks[schedule[k].new].from
        BY <1>5, <2>1
    <2> QED
        BY <2>1, <2>2, <2>3
<1>10. LoadedBeforeActive'
    <2> SUFFICES ASSUME NEW k \in 1..Len(schedule), NEW c, c = schedule'[k]
                 PROVE  /\ c.old \in 1..Len(decks) /\ c.new \in 1..Len(decks) /\ c.new = c.old + 1
                        /\ c.cutover = decks'[c.new].from
                        /\ c.status \in {"preloaded", "active"} => ~decks'[c.new].staged
                        /\ c.status = "active" => c.cutover <= now
        BY <1>4, <1>6 DEF LoadedBeforeActive
    <2>1. /\ schedule[k].old \in 1..Len(decks) /\ schedule[k].new \in 1..Len(decks)
          /\ schedule[k].new = schedule[k].old + 1
          /\ schedule[k].cutover = decks[schedule[k].new].from
          /\ schedule[k].status \in {"preloaded", "active"} => ~decks[schedule[k].new].staged
          /\ schedule[k].status = "active" => schedule[k].cutover <= now
        BY DEF LoadedBeforeActive
    <2>2. c.old = schedule[k].old /\ c.new = schedule[k].new /\ c.cutover = schedule[k].cutover
        BY <1>6
    <2>3. /\ decks'[c.new].from = decks[c.new].from
          /\ decks'[c.new].staged => decks[c.new].staged
        BY <1>5, <2>1, <2>2
    <2>4. CASE k = i
        <3>1. c.new = v /\ c.status = "preloaded"
            BY <1>6, <2>2, <2>4 DEF v
        <3>2. ~decks'[c.new].staged
            BY <1>1, <1>2, <1>4, <3>1
        <3> QED
            BY <2>1, <2>2, <2>3, <3>1, <3>2
    <2>5. CASE k # i
        <3>1. c = schedule[k]
            BY <1>6, <2>5
        <3> QED
            BY <2>1, <2>3, <3>1
    <2> QED
        BY <2>4, <2>5
<1> QED
    BY <1>4, <1>5, <1>6, <1>7, <1>8, <1>9, <1>10

LEMMA PreloadStep ==
    ASSUME DeckInv, NEW i \in 1..Len(schedule), Preload(i)
    PROVE  DeckInv'
<1>1. TypeOK'
    BY PreloadsKeeps DEF Preload, DeckInv, TypeOK
<1>2. SelectedAreDue'
    BY PreloadsKeeps DEF Preload, DeckInv, SelectedAreDue, TypeOK
<1> QED
    BY <1>1, <1>2, PreloadsKeeps DEF Preload, DeckInv

LEMMA CancelStep ==
    ASSUME DeckInv, NEW i \in 1..Len(schedule), Cancel(i)
    PROVE  DeckInv'
<1> USE DEF DeckInv
<1>1. /\ schedule' \in Seq(Cutovers) /\ Len(schedule') = Len(schedule)
      /\ schedule'[i].status = "cancelled"
      /\ \A k \in 1..Len(schedule) :
            /\ schedule'[k].old = schedule[k].old /\ schedule'[k].new = schedule[k].new
            /\ schedule'[k].cutover = schedule[k].cutover
            /\ k # i => schedule'[k] = schedule[k]
    BY StatusChange DEF Cancel, Statuses
<1>2. TypeOK'
    BY <1>1 DEF Cancel, TypeOK
<1>3. LoadedBeforeActive'
    BY <1>1 DEF Cancel, LoadedBeforeActive
<1>4. SelectedAreDue'
    BY <1>1 DEF Cancel, SelectedAreDue, TypeOK
<1> QED
    BY <1>2, <1>3, <1>4, UntouchedDecks DEF Cancel

LEMMA SelectPreloadStep ==
    ASSUME DeckInv, SelectPreload
    PROVE  DeckInv'
<1> USE DEF DeckInv
<1>1. TypeOK'
    BY DEF SelectPreload, Manage, TypeOK
<1>2. LoadedBeforeActive' /\ SelectedAreDue'
    BY DEF SelectPreload, Manage, LoadedBeforeActive, SelectedAreDue
<1> QED
    BY <1>1, <1>2, UntouchedDecks DEF SelectPreload

LEMMA PreloadSelectedStep ==
    ASSUME DeckInv, PreloadSelected
    PROVE  DeckInv'
<1> USE DEF DeckInv
<1>1. CASE UNCHANGED <<decks, schedule>>
    <2>1. manager' \in [at : {"preload", "preloading", "activate", "activating"},
                        ids : SUBSET (1..Len(schedule))] /\ manager'.at # "activating"
        BY DEF PreloadSelected, Manage, TypeOK
    <2>2. TypeOK'
        BY <1>1, <2>1 DEF PreloadSelected, TypeOK
    <2>3. LoadedBeforeActive' /\ SelectedAreDue'
        BY <1>1, <2>1 DEF PreloadSelected, LoadedBeforeActive, SelectedAreDue
    <2> QED
        BY <1>1, <2>2, <2>3, UntouchedDecks DEF PreloadSelected
<1>2. ASSUME NEW i \in manager.ids, Manage("preloading", manager.ids \ {i}), Preloads(i)
      PROVE  DeckInv'
    <2>1. i \in 1..Len(schedule) /\ UNCHANGED <<now, loader>>
        BY <1>2 DEF PreloadSelected, TypeOK
    <2>2. TypeOK'
        BY <1>2, <2>1, PreloadsKeeps DEF Manage, TypeOK
    <2>3. SelectedAreDue'
        BY <1>2 DEF Manage, SelectedAreDue
    <2> QED
        BY <1>2, <2>1, <2>2, <2>3, PreloadsKeeps
<1> QED
    BY <1>1, <1>2 DEF PreloadSelected

LEMMA SelectDueStep ==
    ASSUME DeckInv, SelectDue
    PROVE  DeckInv'
<1> USE DEF DeckInv
<1>1. TypeOK'
    BY DEF SelectDue, Manage, TypeOK
<1>2. LoadedBeforeActive' /\ SelectedAreDue'
    BY DEF SelectDue, Manage, Due, LoadedBeforeActive, SelectedAreDue
<1> QED
    BY <1>1, <1>2, UntouchedDecks DEF SelectDue

LEMMA ActivateSelectedStep ==
    ASSUME DeckInv, ActivateSelected
    PROVE  DeckInv'
<1> USE DEF DeckInv
<1>1. CASE UNCHANGED schedule /\ Manage("preload", {})
    <2>1. TypeOK' /\ SelectedAreDue' /\ LoadedBeforeActive'
        BY <1>1 DEF ActivateSelected, Manage, TypeOK, SelectedAreDue, LoadedBeforeActive
    <2> QED
        BY <2>1, UntouchedDecks DEF ActivateSelected
<1>2. ASSUME NEW i \in manager.ids, Manage("activating", manager.ids \ {i}),
             schedule' = [schedule EXCEPT ![i].status = "active"]
      PROVE  DeckInv'
    <2>1. i \in 1..Len(schedule) /\ schedule[i].cutover <= now /\ ~decks[schedule[i].new].staged
        BY <1>2 DEF ActivateSelected, SelectedAreDue, TypeOK
    <2>2. /\ schedule' \in Seq(Cutovers) /\ Len(schedule') = Len(schedule)
          /\ schedule'[i].status = "active"
          /\ \A k \in 1..Len(schedule) :
                /\ schedule'[k].old = schedule[k].old /\ schedule'[k].new = schedule[k].new
                /\ schedule'[k].cutover = schedule[k].cutover
                /\ k # i => schedule'[k] = schedule[k]
        BY <1>2, <2>1, StatusChange DEF Statuses
    <2>3. TypeOK'
        BY <1>2, <2>2 DEF ActivateSelected, Manage, TypeOK
    <2>4. LoadedBeforeActive'
        BY <2>1, <2>2 DEF ActivateSelected, LoadedBeforeActive
    <2>5. SelectedAreDue'
        BY <1>2, <2>2 DEF ActivateSelected, Manage, SelectedAreDue, TypeOK
    <2> QED
        BY <2>3, <2>4, <2>5, UntouchedDecks DEF ActivateSelected
<1> QED
    BY <1>1, <1>2 DEF ActivateSelected

LEMMA TickStep ==
    ASSUME DeckInv, Tick
    PROVE  DeckInv'
<1> USE DEF DeckInv
<1>1. now \in Nat /\ now' = now + 1
    BY DEF Tick, TypeOK
<1>2. TypeOK'
    BY <1>1 DEF Tick, TypeOK
<1>3. \A i \in 1..Len(schedule) : schedule[i].cutover \in Nat
    <2>1. \A i \in 1..Len(schedule) : schedule[i] \in Cutovers
        BY DEF TypeOK
    <2> QED
        BY <2>1 DEF Cutovers
<1>4. LoadedBeforeActive' /\ SelectedAreDue'
    BY <1>1, <1>3 DEF Tick, LoadedBeforeActive, SelectedAreDue, TypeOK
<1> QED
    BY <1>2, <1>4, UntouchedDecks DEF Tick

(* The invariant is inductive.                                             *)
LEMMA StepDeckInv == DeckInv /\ [Next]_vars => DeckInv'
<1> SUFFICES ASSUME DeckInv, [Next]_vars PROVE DeckInv'
    OBVIOUS
<1>1. CASE UNCHANGED vars
    BY <1>1 DEF vars, DeckInv, TypeOK, LoadersOK, OneTransaction, InTransaction, ChainIntact,
                LoadedBeforeActive, SelectedAreDue
<1>2. CASE Tick
    BY <1>2, TickStep
<1>3. ASSUME NEW l \in Loaders,
             ReadVersion(l) \/ ReadParent(l) \/ Insert(l) \/ Decide(l) \/ Abort(l) \/ Commit(l)
      PROVE  DeckInv'
    BY <1>3, ReadVersionStep, ReadParentStep, InsertStep, DecideStep, AbortStep, CommitStep
<1>4. ASSUME NEW i \in 1..Len(schedule), Preload(i) \/ Cancel(i)
      PROVE  DeckInv'
    BY <1>4, PreloadStep, CancelStep
<1>5. CASE SelectPreload \/ PreloadSelected \/ SelectDue \/ ActivateSelected
    BY <1>5, SelectPreloadStep, PreloadSelectedStep, SelectDueStep, ActivateSelectedStep
<1> QED
    BY <1>1, <1>2, <1>3, <1>4, <1>5 DEF Next

LEMMA DeckInvAlways == Spec => []DeckInv
BY InitDeckInv, StepDeckInv, PTL DEF Spec

-----------------------------------------------------------------------------
(* A set of numbers with an upper bound has a greatest member.             *)
LEMMA Greatest ==
    ASSUME NEW S, NEW n \in Nat, S \subseteq 1..n, S # {}
    PROVE  \E m \in S : \A k \in S : k <= m
<1> DEFINE R == OpToRel(<, Nat)
           T == {n - k : k \in S}
<1>0. \A k \in S : k \in 1..n /\ n - k \in Nat
    <2>1. \A k \in S : k \in 1..n
        OBVIOUS
    <2> QED
        BY <2>1
<1>1. T \subseteq Nat /\ T # {}
    <2>1. T \subseteq Nat
        BY <1>0
    <2>2. PICK k \in S : TRUE
        OBVIOUS
    <2>3. n - k \in T
        BY <2>2
    <2> QED
        BY <2>1, <2>3
<1>2. PICK x \in T : \A y \in T : ~(<<y, x>> \in R)
    BY <1>1, WFMin, NatLessThanWellFounded
<1>3. \A y \in T : ~(y < x)
    BY <1>1, <1>2 DEF OpToRel
<1>4. PICK m \in S : x = n - m
    BY <1>2
<1>5. ASSUME NEW k \in S PROVE k <= m
    <2>1. n - k \in T /\ ~(n - k < n - m)
        BY <1>3, <1>4
    <2>2. n \in Int /\ k \in Int /\ m \in Int
        BY <1>0
    <2>3. \A a, b, d \in Int : ~(a - b < a - d) => b <= d
        OBVIOUS
    <2> QED
        BY <2>1, <2>2, <2>3
<1> QED
    BY <1>5

(* Current is defined at every time.                                       *)
LEMMA CurrentDefined ==
    ASSUME DeckInv, NEW t \in Nat
    PROVE  Current(t) \in 0..Len(decks) /\ IsCurrent(Current(t), t)
<1> DEFINE n == Len(decks)
           S == {v \in 1..n : InForce(decks[v], t)}
<1>1. n \in Nat
    BY DEF DeckInv, TypeOK
<1>2. CASE S = {}
    <2>1. IsCurrent(0, t) /\ 0 \in 0..n
        BY <1>1, <1>2 DEF IsCurrent
    <2> QED
        BY <2>1 DEF Current
<1>3. CASE S # {}
    <2>1. PICK m \in S : \A k \in S : k <= m
        BY <1>1, <1>3, Greatest
    <2>2. m \in 1..n /\ m # 0 /\ m \in 0..n /\ InForce(decks[m], t)
        BY <1>1, <2>1
    <2>3. \A k \in (m + 1)..n : ~InForce(decks[k], t)
        BY <1>1, <2>1, <2>2
    <2>4. IsCurrent(m, t)
        BY <2>2, <2>3 DEF IsCurrent
    <2> QED
        BY <2>2, <2>4 DEF Current
<1> QED
    BY <1>2, <1>3

(* At a time at which version w has started, the version in force is no    *)
(* older, unless the next one starts a second later.                       *)
LEMMA NoOlderInForce ==
    ASSUME DeckInv, NEW t \in Nat, NEW w \in 1..Len(decks), decks[w].from <= t
    PROVE  t + 1 \in Starts \/ (Current(t) \in Nat /\ Current(t) >= w)
<1> USE DecksAssumption DEF DeckInv
<1> DEFINE n == Len(decks)
           S == {v \in 1..n : decks[v].from <= t}
<1>1. n \in Nat /\ decks \in Seq(Decks)
    BY DEF TypeOK
<1>2. \A v \in 1..n : decks[v].from \in Nat
    <2>1. \A v \in 1..n : decks[v] \in Decks
        BY <1>1
    <2> QED
        BY <2>1 DEF Decks
<1>3. PICK m \in S : \A k \in S : k <= m
    BY <1>1, Greatest
<1>4. m \in 1..n /\ w <= m /\ decks[m].from <= t
    BY <1>3
<1>5. \A v \in (m + 1)..n : v \in 1..n /\ ~(decks[v].from <= t)
    BY <1>1, <1>3, <1>4
<1>6. CASE InForce(decks[m], t)
    <2>1. Current(t) \in 0..n /\ IsCurrent(Current(t), t)
        BY CurrentDefined
    <2>2. ASSUME Current(t) < m PROVE FALSE
        <3>1. m \in 1..n /\ m \in (Current(t) + 1)..n
            BY <1>1, <1>4, <2>1, <2>2
        <3> QED
            BY <1>6, <2>1, <3>1 DEF IsCurrent
    <2> QED
        BY <1>1, <1>4, <2>1, <2>2
<1>7. CASE ~InForce(decks[m], t)
    <2>1. decks[m].till # NoEnd /\ ~(decks[m].till > t)
        BY <1>4, <1>7 DEF InForce
    <2>2. m # n /\ decks[m].till = decks[m + 1].from - 1
        BY <1>4, <2>1 DEF ChainIntact
    <2>3. m + 1 \in 1..n /\ m + 1 \in (m + 1)..n
        BY <1>1, <1>4, <2>2
    <2>4. decks[m + 1].from = t + 1
        BY <1>2, <1>5, <2>1, <2>2, <2>3
    <2> QED
        BY <2>3, <2>4 DEF Starts
<1> QED
    BY <1>6, <1>7

(* The variables keep their types.                                         *)
THEOREM DecksTypeCorrect == Spec => []TypeOK
<1>1. DeckInv => TypeOK
    BY DEF DeckInv
<1> QED
    BY <1>1, DeckInvAlways, PTL

(* However many loads interleave, the versions of a deck form a chain:     *)
(* each replaces the one before it (deck_loader.rs, lines 41-58).          *)
THEOREM ChainStaysIntact == Spec => []ChainIntact
<1>1. DeckInv => ChainIntact
    BY DEF DeckInv
<1> QED
    BY <1>1, DeckInvAlways, PTL

(* Whatever operators and the deck manager do in between, an activated     *)
(* deck is loaded and its date has come (deck_loader.rs, lines 310-403).   *)
THEOREM OnlyLoadedDecksActive == Spec => []LoadedBeforeActive
<1>1. DeckInv => LoadedBeforeActive
    BY DEF DeckInv
<1> QED
    BY <1>1, DeckInvAlways, PTL

LEMMA GapFromChain == DeckInv => GapIsASecond
<1> SUFFICES ASSUME DeckInv, NEW t \in 0..MaxTime, NEW s \in Starts, s <= t, Current(t) = 0
             PROVE  t + 1 \in Starts
    BY DEF GapIsASecond
<1>1. t \in Nat
    BY DecksAssumption
<1>2. PICK w \in 1..Len(decks) : s = decks[w].from
    BY DEF Starts
<1>3. ~(Current(t) >= w)
    OBVIOUS
<1> QED
    BY <1>1, <1>2, <1>3, NoOlderInForce

(* With any dates in any order, calls are without a rate for no longer     *)
(* than the second before a start (routing.rs, lines 548-562).             *)
THEOREM GapsLastASecond == Spec => []GapIsASecond
BY DeckInvAlways, GapFromChain, PTL

(* Versions that ascend in their dates are in force one after the other.   *)
LEMMA OneInForce ==
    ASSUME DeckInv, Ascending, NEW t \in Nat, NEW v \in 1..Len(decks), NEW w \in 1..Len(decks),
           InForce(decks[v], t), InForce(decks[w], t), v < w
    PROVE  FALSE
<1> USE DEF DeckInv
<1>1. Len(decks) \in Nat
    BY DEF TypeOK
<1>2. \A u \in 1..Len(decks) : decks[u].from \in Nat
    <2>1. \A u \in 1..Len(decks) : decks[u] \in Decks
        BY DEF TypeOK
    <2> QED
        BY <2>1, DecksAssumption DEF Decks
<1>3. v # Len(decks) /\ v + 1 \in 1..Len(decks) /\ v + 1 <= w
    BY <1>1
<1>4. decks[v].till = decks[v + 1].from - 1
    BY <1>3 DEF ChainIntact
<1>5. decks[v + 1].from <= decks[w].from
    BY <1>2, <1>3 DEF Ascending
<1>6. decks[v].till # NoEnd
    BY <1>2, <1>3, <1>4, DecksAssumption
<1>7. decks[v].till > t /\ decks[w].from <= t
    BY <1>6 DEF InForce
<1> QED
    BY <1>2, <1>3, <1>4, <1>5, <1>7

LEMMA AgreeFromChain == DeckInv => RequestedAgrees
<1> SUFFICES ASSUME DeckInv, Ascending, NEW t \in 0..MaxTime, NEW v \in 1..Len(decks)
             PROVE  Requested(v, t) = Current(t) /\ Associated(v, t) \in {0, Current(t)}
    BY DEF RequestedAgrees
<1>1. t \in Nat /\ Len(decks) \in Nat
    BY DecksAssumption DEF DeckInv, TypeOK
<1>2. CASE ~InForce(decks[v], t)
    BY <1>2 DEF Requested, Associated
<1>3. CASE InForce(decks[v], t)
    <2>1. \A w \in 1..Len(decks) : InForce(decks[w], t) => w = v
        BY <1>1, <1>3, OneInForce
    <2>2. Current(t) \in 0..Len(decks) /\ IsCurrent(Current(t), t)
        BY <1>1, CurrentDefined
    <2>3. Current(t) = v
        BY <1>1, <1>3, <2>1, <2>2 DEF IsCurrent
    <2> QED
        BY <1>3, <2>3 DEF Requested, Associated
<1> QED
    BY <1>2, <1>3

(* A client's request is rated alike whichever version it names, if the    *)
(* dates ascend, and a client's trunk as well or not at all                *)
(* (routing.rs, lines 477-532 and 589-627).                                *)
THEOREM RequestsAgree == Spec => []RequestedAgrees
BY DeckInvAlways, AgreeFromChain, PTL

(* What NoOlderInForce and CurrentDefined say of the present.              *)
NewestInForce ==
    /\ Current(now) \in 0..Len(decks) /\ IsCurrent(Current(now), now)
    /\ \A w \in 1..Len(decks) :
          decks[w].from <= now => now + 1 \in Starts \/ Current(now) >= w

LEMMA NewestFromChain == DeckInv => NewestInForce
<1> SUFFICES ASSUME DeckInv PROVE NewestInForce
    OBVIOUS
<1>1. now \in Nat
    BY DEF DeckInv, TypeOK
<1> QED
    BY <1>1, NoOlderInForce, CurrentDefined DEF NewestInForce

(* Decks are added at the end and keep their starts.                       *)
LEMMA StartsKept ==
    ASSUME DeckInv, [Next]_vars
    PROVE  /\ now' \in Nat /\ now' >= now /\ Len(decks') \in Nat /\ Len(decks') >= Len(decks)
           /\ \A v \in 1..Len(decks) : decks'[v].from = decks[v].from
<1> USE DEF DeckInv
<1>0. now \in Nat /\ decks \in Seq(Decks) /\ Len(decks) \in Nat
    BY DEF TypeOK
<1>1. CASE UNCHANGED <<now, decks>>
    BY <1>0, <1>1
<1>2. CASE Tick
    <2>1. now' = now + 1 /\ decks' = decks
        BY <1>2 DEF Tick
    <2> QED
        BY <1>0, <2>1
<1>3. ASSUME NEW l \in Loaders, Commit(l)
      PROVE  UNCHANGED now /\ Len(decks') = Len(decks) + 1
             /\ \A v \in 1..Len(decks) : decks'[v].from = decks[v].from
    BY <1>3, CommitStep DEF Commit
<1>4. ASSUME NEW i \in 1..Len(schedule), Preloads(i), UNCHANGED <<now, loader>>
      PROVE  Len(decks') = Len(decks) /\ \A v \in 1..Len(decks) : decks'[v].from = decks[v].from
    BY <1>4, PreloadsKeeps
<1>5. CASE PreloadSelected
    <2>1. UNCHANGED <<now, loader>>
          /\ (UNCHANGED decks \/ \E i \in manager.ids : Preloads(i))
        BY <1>5 DEF PreloadSelected
    <2>2. manager.ids \subseteq 1..Len(schedule)
        BY DEF TypeOK
    <2>3. UNCHANGED decks
          \/ (Len(decks') = Len(decks) /\ \A v \in 1..Len(decks) : decks'[v].from = decks[v].from)
        BY <1>4, <2>1, <2>2
    <2> QED
        BY <1>0, <2>1, <2>3
<1>6. ASSUME NEW i \in 1..Len(schedule), Preload(i)
      PROVE  UNCHANGED now /\ Len(decks') = Len(decks)
             /\ \A v \in 1..Len(decks) : decks'[v].from = decks[v].from
    BY <1>4, <1>6 DEF Preload
<1>7. \/ UNCHANGED <<now, decks>> \/ Tick \/ PreloadSelected
      \/ \E l \in Loaders : Commit(l)
      \/ \E i \in 1..Len(schedule) : Preload(i)
    BY DEF Next, vars, ReadVersion, ReadParent, Insert, Decide, Abort, Cancel, SelectPreload,
           SelectDue, ActivateSelected
<1>8. CASE \E l \in Loaders : Commit(l)
    BY <1>0, <1>3, <1>8
<1>9. CASE \E i \in 1..Len(schedule) : Preload(i)
    BY <1>0, <1>6, <1>9
<1> QED
    BY <1>1, <1>2, <1>5, <1>7, <1>8, <1>9

LEMMA BackStep ==
    ASSUME DeckInv, NewestInForce, NewestInForce', [Next]_vars, Current(now)' < Current(now)
    PROVE  now' + 1 \in Starts'
<1> DEFINE v == Current(now)
<1>0. now \in Nat /\ Len(decks) \in Nat
    BY DEF DeckInv, TypeOK
<1>1. \A w \in 1..Len(decks) : decks[w].from \in Nat
    <2>1. \A w \in 1..Len(decks) : decks[w] \in Decks
        BY DEF DeckInv, TypeOK
    <2> QED
        BY <2>1, DecksAssumption DEF Decks
<1>2. now' \in Nat /\ now' >= now /\ Len(decks') \in Nat /\ Len(decks') >= Len(decks)
      /\ \A w \in 1..Len(decks) : decks'[w].from = decks[w].from
    BY StartsKept
<1>3. Current(now)' \in 0..Len(decks') /\ v \in 0..Len(decks)
    BY DEF NewestInForce
<1>4. v \in 1..Len(decks) /\ IsCurrent(v, now)
    BY <1>0, <1>2, <1>3 DEF NewestInForce
<1>5. decks[v].from <= now
    BY <1>4 DEF IsCurrent, InForce
<1> HIDE DEF v
<1>6. v \in 1..Len(decks') /\ decks'[v].from <= now'
    BY <1>0, <1>1, <1>2, <1>4, <1>5
<1>7. ~(Current(now)' >= v)
    BY <1>2, <1>3 DEF v
<1> QED
    BY <1>6, <1>7 DEF NewestInForce

(* The version in force goes back for no longer than that second           *)
(* (routing.rs, lines 548-562).                                            *)
THEOREM BackOnlyForASecond == Spec => BackForASecond
<1>1. DeckInv /\ NewestInForce /\ NewestInForce' /\ [Next]_vars
        => [Current(now)' < Current(now) => now' + 1 \in Starts']_vars
    BY BackStep
<1> QED
    BY <1>1, DeckInvAlways, NewestFromChain, PTL DEF Spec, BackForASecond

-----------------------------------------------------------------------------
(***************************************************************************)
(* RateDecks implements RateCard.                                          *)
(***************************************************************************)

Priced ==
    \A t \in 0..MaxTime : Current(t) \in 0..Len(decks) /\ IsCurrent(Current(t), t)

LEMMA PricedFromChain == DeckInv => Priced
<1> SUFFICES ASSUME DeckInv, NEW t \in 0..MaxTime
             PROVE  Current(t) \in 0..Len(decks) /\ IsCurrent(Current(t), t)
    BY DEF Priced
<1> QED
    BY CurrentDefined, DecksAssumption

(* A time keeps its version while the decks in force are the same.         *)
LEMMA SamePricing ==
    ASSUME Priced, Priced', NEW t \in 0..MaxTime, Len(decks) \in Nat,
           Len(decks') \in {Len(decks), Len(decks) + 1},
           \A v \in 1..Len(decks) : InForce(decks'[v], t) <=> InForce(decks[v], t),
           Len(decks') # Len(decks) => ~InForce(decks'[Len(decks) + 1], t)
    PROVE  Current(t)' = Current(t)
<1> DEFINE n == Len(decks)
           v == Current(t)
           w == Current(t)'
<1>1. v \in 0..n /\ IsCurrent(v, t)
    BY DEF Priced
<1>2. w \in 0..Len(decks') /\ IsCurrent(Current(t), t)'
    BY DEF Priced
<1>3. /\ v # 0 => InForce(decks[v], t)
      /\ \A u \in 1..n : u > v => ~InForce(decks[u], t)
    BY <1>1 DEF IsCurrent
<1>4. /\ w # 0 => InForce(decks'[w], t)
      /\ \A u \in 1..Len(decks') : u > w => ~InForce(decks'[u], t)
    BY <1>2 DEF IsCurrent
<1> HIDE DEF v, w
<1>5. w \in 0..n
    BY <1>2, <1>4
<1>6. ~(v < w)
    BY <1>1, <1>3, <1>4, <1>5
<1>7. ~(w < v)
    BY <1>1, <1>3, <1>4, <1>5
<1> QED
    BY <1>1, <1>5, <1>6, <1>7 DEF v, w

LEMMA CommitLoads ==
    ASSUME DeckInv, DeckInv', Priced, Priced', NEW l \in Loaders, Commit(l)
    PROVE  Card!Load(loader[l].from)
<1> DEFINE n == Len(decks)
           f == loader[l].from
<1> USE DecksAssumption
<1>1. n \in Nat /\ decks \in Seq(Decks) /\ f \in Dates /\ f \in Nat
  <2>1. n \in Nat /\ decks \in Seq(Decks)
      BY DEF DeckInv, TypeOK
  <2>2. f \in Dates
      BY DEF DeckInv, LoadersOK, Commit
  <2> QED
      BY <2>1, <2>2
<1>2. /\ Len(decks') = n + 1 /\ decks'[n + 1].from = f
      /\ \A v \in 1..n : decks'[v].from = decks[v].from
    BY CommitStep DEF Commit
<1>3. /\ decks'[n + 1].till = NoEnd
      /\ \A v \in 1..n : decks'[v].till = decks'[v + 1].from - 1
      /\ \A v \in 1..n : decks[v].till = IF v = n THEN NoEnd ELSE decks[v + 1].from - 1
    BY <1>1, <1>2 DEF DeckInv, ChainIntact
<1>4. \A v \in 1..n : decks[v].from \in Nat
  <2>1. \A v \in 1..n : decks[v] \in Decks
      BY <1>1
  <2> QED
      BY <2>1 DEF Decks
<1>5. \A v \in 1..n : v # n => decks'[v] .till = decks[v].till
    BY <1>1, <1>2, <1>3
<1>6. n # 0 => decks[n].till = NoEnd /\ decks'[n].till = f - 1
    BY <1>1, <1>2, <1>3
<1> HIDE DEF f
<1>7. ASSUME NEW t \in 0..MaxTime PROVE t \in Nat
    OBVIOUS
<1>8. ASSUME NEW t \in 0..MaxTime, NEW v \in 1..n, v # n \/ t < f - 1
      PROVE  InForce(decks'[v], t) <=> InForce(decks[v], t)
  <2>1. CASE v # n
      BY <1>2, <1>5, <1>8, <2>1 DEF InForce
  <2>2. CASE v = n
    <3>1. t < f - 1 /\ f - 1 \in Int /\ f - 1 # NoEnd
        BY <1>1, <1>8, <2>2
    <3>2. decks[v].till = NoEnd /\ decks'[v].till = f - 1
        BY <1>6, <1>8, <2>2
    <3> QED
        BY <1>2, <1>7, <3>1, <3>2 DEF InForce
  <2> QED
      BY <2>1, <2>2
<1>9. ASSUME NEW t \in 0..MaxTime, t < f PROVE ~InForce(decks'[n + 1], t)
    BY <1>1, <1>2, <1>7, <1>9 DEF InForce
<1>10. ASSUME NEW t \in 0..MaxTime, t >= f PROVE Current(t)' = n + 1
  <2>1. InForce(decks'[n + 1], t)
      BY <1>1, <1>2, <1>3, <1>10 DEF InForce
  <2>2. Current(t)' \in 0..(n + 1) /\ IsCurrent(Current(t), t)'
      BY <1>2 DEF Priced
  <2>3. \A u \in 1..(n + 1) : u > Current(t)' => ~InForce(decks'[u], t)
      BY <1>2, <2>2 DEF IsCurrent
  <2> QED
      BY <1>1, <2>1, <2>2, <2>3
<1>11. ASSUME NEW t \in 0..MaxTime, t < f - 1 PROVE Current(t)' = Current(t)
  <2>1. t < f
      BY <1>1, <1>7, <1>11
  <2> QED
      BY <1>1, <1>2, <1>8, <1>9, <1>11, <2>1, SamePricing
<1>12. ASSUME NEW t \in 0..MaxTime, t = f - 1 PROVE Current(t)' <= Current(t)
  <2>1. t < f
      BY <1>1, <1>12
  <2>2. Current(t) \in 0..n /\ IsCurrent(Current(t), t)
        /\ Current(t)' \in 0..(n + 1) /\ IsCurrent(Current(t), t)'
      BY <1>2 DEF Priced
  <2>3. Current(t)' # n + 1
      BY <1>1, <1>9, <2>1, <2>2 DEF IsCurrent
  <2>4. CASE Current(t) = n
      BY <1>1, <2>2, <2>3, <2>4
  <2>5. CASE Current(t) # n
    <3>1. n \in 1..n /\ n > Current(t)
        BY <1>1, <2>2, <2>5
    <3>2. ~InForce(decks[n], t)
        BY <1>1, <2>2, <3>1 DEF IsCurrent
    <3>3. ~InForce(decks'[n], t)
      <4>1. decks'[n].till = f - 1 /\ f - 1 \in Int /\ f - 1 # NoEnd
          BY <1>1, <1>6, <3>1
      <4> QED
          BY <1>12, <4>1 DEF InForce
    <3>4. \A v \in 1..n : InForce(decks'[v], t) <=> InForce(decks[v], t)
        BY <1>8, <3>2, <3>3
    <3>5. Current(t)' = Current(t)
        BY <1>1, <1>2, <1>9, <2>1, <3>4, SamePricing
    <3> QED
        BY <1>1, <2>2, <3>5
  <2> QED
      BY <2>4, <2>5
<1>13. \A t \in 0..MaxTime : Current(t)' \in 0..(n + 1)
    BY <1>2 DEF Priced
<1> QED
    BY <1>2, <1>10, <1>11, <1>12, <1>13 DEF Card!Load, f

(* Every other step leaves the pricing alone.                              *)
LEMMA OtherStepsPriceAlike ==
    ASSUME DeckInv, Priced, Priced', [Next]_vars, \A l \in Loaders : ~Commit(l)
    PROVE  UNCHANGED Card!cardVars
<1> USE DEF DeckInv
<1>1. Len(decks) \in Nat
    BY DEF TypeOK
<1>2. ASSUME NEW i \in 1..Len(schedule), Preloads(i), UNCHANGED <<now, loader>>
      PROVE  /\ Len(decks') = Len(decks)
             /\ \A v \in 1..Len(decks) : /\ decks'[v].from = decks[v].from
                                         /\ decks'[v].till = decks[v].till
  <2>1. /\ Len(decks') = Len(decks) /\ ChainIntact'
        /\ \A v \in 1..Len(decks) : decks'[v].from = decks[v].from
      BY <1>2, PreloadsKeeps
  <2>2. \A v \in 1..Len(decks) : v # Len(decks) => v + 1 \in 1..Len(decks)
      BY <1>1
  <2> QED
      BY <2>1, <2>2 DEF ChainIntact
<1>3. \/ UNCHANGED decks
      \/ UNCHANGED <<now, loader>> /\ \E i \in 1..Len(schedule) : Preloads(i)
  <2>1. CASE PreloadSelected
    <3>1. manager.ids \subseteq 1..Len(schedule)
        BY DEF TypeOK
    <3> QED
        BY <2>1, <3>1 DEF PreloadSelected
  <2> QED
      BY <2>1 DEF Next, vars, Tick, ReadVersion, ReadParent, Insert, Decide, Abort, Preload, Cancel,
             SelectPreload, SelectDue, ActivateSelected
<1>4. /\ Len(decks') = Len(decks)
      /\ \A v \in 1..Len(decks) : decks'[v].from = decks[v].from /\ decks'[v].till = decks[v].till
    BY <1>2, <1>3
<1>5. \A t \in 0..MaxTime : Current(t)' = Current(t)
    BY <1>1, <1>4, SamePricing DEF InForce
<1> QED
    BY <1>4, <1>5 DEF Card!cardVars

(* Whatever loads, cutovers and operators do at the same time, a time gets *)
(* another version only when a load commits, and none before the second    *)
(* ahead of that deck's start (deck_loader.rs, lines 41-58 and 224-306).   *)
THEOREM DecksImplementCard == Spec => CardImplemented
<1>1. Init => Card!CardInit
  <2> SUFFICES ASSUME Init PROVE Card!CardInit
      OBVIOUS
  <2>1. Len(decks) = 0 /\ 0..0 = {0}
      BY DEF Init
  <2>2. Priced
      BY InitDeckInv, PricedFromChain
  <2>3. \A t \in 0..MaxTime : Current(t) = 0
      BY <2>1, <2>2 DEF Priced
  <2> QED
      BY <2>1, <2>3 DEF Card!CardInit
<1>2. DeckInv /\ DeckInv' /\ Priced /\ Priced' /\ [Next]_vars => [Card!CardNext]_(Card!cardVars)
  <2> SUFFICES ASSUME DeckInv, DeckInv', Priced, Priced', [Next]_vars
               PROVE  [Card!CardNext]_(Card!cardVars)
      OBVIOUS
  <2>1. CASE \E l \in Loaders : Commit(l)
    <3>1. PICK l \in Loaders : Commit(l)
        BY <2>1
    <3>2. loader[l].from \in Dates
        BY <3>1 DEF DeckInv, LoadersOK, Commit
    <3>3. Card!Load(loader[l].from)
        BY <3>1, CommitLoads
    <3> QED
        BY <3>2, <3>3 DEF Card!CardNext
  <2>2. CASE \A l \in Loaders : ~Commit(l)
      BY <2>2, OtherStepsPriceAlike
  <2> QED
      BY <2>1, <2>2
<1> QED
    BY <1>1, <1>2, DeckInvAlways, PricedFromChain, PTL DEF Spec, CardImplemented, Card!CardSpec

=============================================================================
