------------------------------ MODULE LcrCache ------------------------------
(***************************************************************************)
(* The cache of the LCR engine (lcr/cache.rs, load_from_database) and its  *)
(* reloads, which run beside one another, table by table and deck by deck, *)
(* while the database changes.                                             *)
(*                                                                         *)
(* The tables that routing reads are modelled: the rates of the vendors'   *)
(* and the clients' decks, the egress trunks and the static routes.  The   *)
(* decks themselves are cached too, but routing asks the database which    *)
(* deck is in force.  The other tables stand behind the static routes, in  *)
(* the stage "rest", where a reload may still fail.                        *)
(***************************************************************************)
EXTENDS Integers, Sequences

CONSTANTS
    Trunks,       \* egress trunks
    Routes,       \* static routes, in their order of priority
    Numbers,      \* dialled numbers
    VendorDecks,  \* rate decks of vendors, of the egress trunks
    ClientDecks,  \* rate decks of clients, of the ingress trunk
    Prices,       \* prices per minute
    Loaders,      \* tasks that may reload the cache
    None,         \* no value
    Initial,      \* the database when the engine starts
    MaxEvents     \* bound: changes of the database and reloads begun

Decks == VendorDecks \cup ClientDecks

\* What a row of static_routes says; a pattern is the numbers it matches (one that
\* does not compile is left out).
StaticRoute == [active : BOOLEAN, position : {"BEFORE", "AFTER"},
                pattern : SUBSET Numbers, trunk : Trunks]

\* The database: the active egress trunks, the active decks and, among them,
\* the ones in force for each trunk; the rates of each deck; the static routes.
Configuration ==
    {c \in [trunks : SUBSET Trunks, active : SUBSET Decks,
            vendor : [Trunks -> VendorDecks \cup {None}], client : ClientDecks \cup {None},
            rate : [Decks -> [Numbers -> Prices \cup {None}]],
            routes : [Routes -> StaticRoute]] :
        /\ c.client \in c.active \cup {None}
        /\ \A t \in Trunks : c.vendor[t] \in c.active \cup {None}}

ASSUME RoutesAssumption == Routes \subseteq Nat
ASSUME DecksAssumption == VendorDecks \cap ClientDecks = {} /\ Prices \subseteq Int
ASSUME InitialAssumption == Initial \subseteq Configuration
ASSUME BoundAssumption == MaxEvents \in Nat
ASSUME NoneAssumption == None \notin Int \cup Decks \cup Trunks

VARIABLES
    log,        \* every configuration the database has had; the last is now
    rates,      \* vendor_nanpa_rates, client_nanpa_rates: the version of the
                \* database in which the rates of a deck were read
    tables,     \* the versions in which the trunks and the static routes were read
    loader,     \* each reload, with its locals
    floor,      \* history: how fresh the cache should be, see Finish
    events      \* what has happened, for the bound

cacheVars == <<log, rates, tables, loader, floor, events>>

Now == log[Len(log)]
Versions == 1..Len(log)
Table == {"trunks", "routes"}
Cached(tb) == log[tables[tb]]

Least(S) == CHOOSE x \in S : \A y \in S : x <= y
Larger(a, b) == IF a >= b THEN a ELSE b

Stages == {"vendors", "clients", "trunks", "routes", "rest"}

NoLoad == [stage |-> "idle", todo |-> {}, deck |-> None, read |-> None, low |-> 0]

Loading == {l \in Loaders : loader[l].stage # "idle"}

\* LcrEngine::new loads the cache before anything is routed.
CacheInit ==
    /\ \E c \in Initial : log = <<c>>
    /\ rates = [d \in Decks |-> IF d \in Now.active THEN 1 ELSE None]
    /\ tables = [tb \in Table |-> 1]
    /\ loader = [l \in Loaders |-> NoLoad]
    /\ floor = 1
    /\ events = 0

\* Bound.
Happens == events < MaxEvents /\ events' = events + 1

-----------------------------------------------------------------------------
\* The database (external: operators, loaders and cutovers change it, and a
\* deck comes into force when its time has come).

\* Configurations that differ from c in one row, or in what is in force.
OneRowFrom(c) ==
    {[c EXCEPT !.trunks = S] : S \in {c.trunks \cup {t} : t \in Trunks}
                                    \cup {c.trunks \ {t} : t \in Trunks}}
    \cup {[c EXCEPT !.active = @ \cup {d}] : d \in Decks}
    \cup {[c EXCEPT !.active = @ \ {d},
                    !.vendor = [t \in Trunks |-> IF @[t] = d THEN None ELSE @[t]],
                    !.client = IF @ = d THEN None ELSE @] : d \in Decks}
    \cup {[c EXCEPT !.vendor[t] = d] : t \in Trunks, d \in VendorDecks \cup {None}}
    \cup {[c EXCEPT !.client = d] : d \in ClientDecks \cup {None}}
    \cup {[c EXCEPT !.rate[d][n] = p] : d \in Decks, n \in Numbers, p \in Prices \cup {None}}
    \cup {[c EXCEPT !.routes[r].active = ~@] : r \in Routes}
    \cup {[c EXCEPT !.routes[r].position = p] : r \in Routes, p \in {"BEFORE", "AFTER"}}
    \cup {[c EXCEPT !.routes[r].pattern = P] : r \in Routes, P \in SUBSET Numbers}
    \cup {[c EXCEPT !.routes[r].trunk = t] : r \in Routes, t \in Trunks}

Change ==
    /\ Happens
    /\ \E c \in OneRowFrom(Now) \ {Now} : c \in Configuration /\ log' = Append(log, c)
    /\ UNCHANGED <<rates, tables, loader, floor>>

-----------------------------------------------------------------------------
\* load_from_database.  Between two SELECTs nothing is awaited.

\* The task goes on as given; its low stays.
Go(l, stage, todo, deck, read) ==
    loader' = [loader EXCEPT ![l] = [stage |-> stage, todo |-> todo, deck |-> deck,
                                     read |-> read, low |-> @.low]]

Ready(l) == loader[l].stage # "idle" /\ loader[l].read = None

\* The vendors' active decks are selected.  low is history: the version of now,
\* or the low of a reload that is still running.
StartReload(l) ==
    /\ Happens
    /\ loader[l].stage = "idle"
    /\ loader' = [loader EXCEPT ![l] =
         [stage |-> "vendors", todo |-> Now.active \cap VendorDecks, deck |-> None, read |-> None,
          low |-> Least({Len(log)} \cup {loader[m].low : m \in Loading})]]
    /\ UNCHANGED <<log, rates, tables, floor>>

\* The rates of one of the decks are selected ...
ReadRates(l) ==
    /\ Ready(l)
    /\ \E d \in loader[l].todo : Go(l, loader[l].stage, loader[l].todo, d, Len(log))
    /\ UNCHANGED <<log, rates, tables, floor, events>>

\* ... and inserted under its id.  Rates of other decks stay.
InsertRates(l) ==
    /\ loader[l].deck # None
    /\ rates' = [rates EXCEPT ![loader[l].deck] = loader[l].read]
    /\ Go(l, loader[l].stage, loader[l].todo \ {loader[l].deck}, None, None)
    /\ UNCHANGED <<log, tables, floor, events>>

\* The clients' active decks are selected.
SelectClients(l) ==
    /\ Ready(l) /\ loader[l].stage = "vendors" /\ loader[l].todo = {}
    /\ Go(l, "clients", Now.active \cap ClientDecks, None, None)
    /\ UNCHANGED <<log, rates, tables, floor, events>>

\* The trunks, and later the static routes, are selected ...
SelectTable(l) ==
    /\ Ready(l)
    /\ \/ loader[l].stage = "clients" /\ loader[l].todo = {} /\ Go(l, "trunks", {}, None, Len(log))
       \/ loader[l].stage = "routes" /\ Go(l, "routes", {}, None, Len(log))
    /\ UNCHANGED <<log, rates, tables, floor, events>>

\* ... and replace the table.
StoreTable(l) ==
    /\ loader[l].stage \in {"trunks", "routes"} /\ loader[l].read # None
    /\ tables' = [tables EXCEPT ![loader[l].stage] = loader[l].read]
    /\ Go(l, IF loader[l].stage = "trunks" THEN "routes" ELSE "rest", {}, None, None)
    /\ UNCHANGED <<log, rates, floor, events>>

\* After the last of the other tables the reload is reported as a success.
Finish(l) ==
    /\ loader[l].stage = "rest"
    /\ loader' = [loader EXCEPT ![l] = NoLoad]
    /\ floor' = Larger(floor, loader[l].low)
    /\ UNCHANGED <<log, rates, tables, events>>

\* Wrong variant: a deck whose rates cannot be read is skipped.
FailReloadSkips(l) ==
    /\ Ready(l)
    /\ \E d \in loader[l].todo : Go(l, loader[l].stage, loader[l].todo \ {d}, None, None)
    /\ UNCHANGED <<log, rates, tables, floor, events>>

\* A SELECT fails: the `?` ends the reload there, and what it stored stays.
FailReload(l) ==
    /\ Ready(l)
    /\ loader' = [loader EXCEPT ![l] = NoLoad]
    /\ UNCHANGED <<log, rates, tables, floor, events>>

Reload(l) ==
    \/ StartReload(l) \/ ReadRates(l) \/ InsertRates(l) \/ SelectClients(l)
    \/ SelectTable(l) \/ StoreTable(l) \/ Finish(l) \/ FailReload(l)

CacheNext == Change \/ \E l \in Loaders : Reload(l)

CacheSpec == CacheInit /\ [][CacheNext]_cacheVars

-----------------------------------------------------------------------------
\* The types of the variables.
CacheTypeOK ==
    /\ log \in Seq(Configuration) /\ Len(log) > 0
    /\ rates \in [Decks -> Versions \cup {None}]
    /\ tables \in [Table -> Versions]
    /\ loader \in [Loaders -> [stage : Stages \cup {"idle"}, todo : SUBSET Decks,
                               deck : Decks \cup {None}, read : Versions \cup {None},
                               low : 0..Len(log)]]
    /\ floor \in Versions
    /\ events \in 0..MaxEvents

\* The deck has been active from version v on.
ActiveThroughout(v, d) == \A w \in v..Len(log) : d \in log[w].active

\* Reloads run at the same time, fail half way, and finish in any order (POST
\* /cache/reload, the deck loader), and no rates are ever taken out of the cache.
\* Still, once one has succeeded, no table is older than the beginning of that
\* reload, or of the first of the reloads that overlap up to it; nor are the rates
\* of a deck that has been active all the time since.  (A deck that was taken out
\* and has come back is priced by what was left of it.)
FreshSinceReload ==
    /\ \A tb \in Table : tables[tb] >= floor
    /\ \A d \in Decks :
         ActiveThroughout(floor, d) => rates[d] # None /\ rates[d] >= floor
=============================================================================
