----------------------------- MODULE LcrRouting -----------------------------
(***************************************************************************)
(* Routing of the LCR engine (lcr/routing.rs, find_routes) from the cache  *)
(* of LcrCache and the database behind it.  Every read of a table, of a    *)
(* deck's rates, of a compiled pattern and of the database is a step, with *)
(* reloads, other queries and changes of the database in between.          *)
(*                                                                         *)
(* Calls within the numbering plan are modelled, for one ingress trunk     *)
(* that stays known and protects its profit; the jurisdiction, the flat    *)
(* rate of toll-free numbers and the order of the routes of an answer are  *)
(* left out.  Capacity is left out too: can_accept_call always agrees,     *)
(* since nothing in src/ outside tests counts a call on a trunk.           *)
(***************************************************************************)
EXTENDS LcrCache

CONSTANTS
    Queries,    \* tasks that may ask for routes
    MinMargin   \* min_profit_margin of the ingress trunk

ASSUME MarginAssumption == MinMargin \in Int

VARIABLES
    patterns,   \* static_route_patterns: the compiled pattern of a route
    query       \* each query, with its locals

vars == <<cacheVars, patterns, query>>

NoQuery == [pc |-> "idle", number |-> None, position |-> "BEFORE", snap |-> 1, left |-> {},
            deck |-> None, sell |-> None, todo |-> {}, trunk |-> None, found |-> {},
            since |-> 1, quiet |-> FALSE]

Answers == {"routed", "static", "none", "dangling", "error"}
Ended(q) == query[q].pc \in Answers \cup {"idle"}

Init ==
    /\ CacheInit
    /\ patterns = [r \in Routes |-> None]
    /\ query = [q \in Queries |-> NoQuery]

\* What goes on around the queries.  Where it changes what they read, the ones
\* that run are not quiet any more: history.
Around ==
    /\ CacheNext
    /\ query' = [q \in Queries |->
         [query[q] EXCEPT !.quiet = @ /\ UNCHANGED <<log, rates, tables>>]]
    /\ UNCHANGED patterns

\* The query goes on with some of its locals changed.
Become(q, to) == query' = [query EXCEPT ![q] = to] /\ UNCHANGED cacheVars

-----------------------------------------------------------------------------
\* Static routes.

\* The active routes in a position.
Candidates(routes, position) ==
    {r \in DOMAIN routes : routes[r].active /\ routes[r].position = position}

\* check_static_routes begins with a snapshot of the static routes.
Check(to, position) ==
    [to EXCEPT !.pc = "match", !.position = position, !.snap = tables["routes"],
               !.left = Candidates(Cached("routes").routes, position)]

\* find_routes looks at the routes before the dynamic ones first.
\* Bound: a query that is asked beside another one counts as an event, and an
\* answer is kept until the next query is asked.
Ask(q, n) ==
    /\ Ended(q)
    /\ query' = [r \in Queries |->
         IF r = q
           THEN Check([NoQuery EXCEPT !.number = n, !.since = floor, !.quiet = TRUE], "BEFORE")
         ELSE IF Ended(r) THEN NoQuery ELSE query[r]]
    /\ IF \A r \in Queries : Ended(r) THEN UNCHANGED cacheVars
       ELSE Happens /\ UNCHANGED <<log, rates, tables, loader, floor>>
    /\ UNCHANGED patterns

First(q) == Least(query[q].left)
Row(q) == log[query[q].snap].routes[First(q)]

\* The first route that matches is taken.
Judge(q, pattern) ==
    Become(q, IF query[q].number \in pattern
                THEN [query[q] EXCEPT !.pc = "build", !.trunk = Row(q).trunk]
                ELSE [query[q] EXCEPT !.pc = "match", !.left = @ \ {First(q)}])

\* static_route_matches: a compiled pattern is taken from the map; else the
\* query compiles the one of its snapshot, ...
LookUp(q) ==
    /\ query[q].pc = "match" /\ query[q].left # {}
    /\ IF patterns[First(q)] # None THEN Judge(q, patterns[First(q)])
       ELSE Become(q, [query[q] EXCEPT !.pc = "compile"])
    /\ UNCHANGED patterns

\* ... puts it into the map, whatever is there by now, and goes by it.
Compile(q) ==
    /\ query[q].pc = "compile"
    /\ patterns' = [patterns EXCEPT ![First(q)] = Row(q).pattern]
    /\ Judge(q, Row(q).pattern)

NoMatch(q) ==
    /\ query[q].pc = "match" /\ query[q].left = {}
    /\ Become(q, [query[q] EXCEPT !.pc = IF query[q].position = "BEFORE" THEN "client"
                                                                        ELSE "none"])
    /\ UNCHANGED patterns

\* Wrong variant: the trunk of a static route is taken as it is.
BuildStaticUnchecked(q) ==
    /\ query[q].pc = "build"
    /\ Become(q, [query[q] EXCEPT !.pc = "static"])
    /\ UNCHANGED patterns

\* build_static_route_response: the trunk is looked up in the cache of now.
BuildStatic(q) ==
    /\ query[q].pc = "build"
    /\ Become(q, [query[q] EXCEPT !.pc = IF query[q].trunk \in Cached("trunks").trunks
                                         THEN "static" ELSE "dangling"])
    /\ UNCHANGED patterns

-----------------------------------------------------------------------------
\* Dynamic routes.

\* What the cache has for a deck and a number; it may have been left there by
\* a deck that was taken out of the database, or changed.
InCache(d, n) == IF rates[d] = None THEN None ELSE log[rates[d]].rate[d][n]

\* The client's deck in force is asked of the database, its rate of the cache,
\* and of the database if the cache has none.
ChooseClient(q) ==
    /\ query[q].pc = "client"
    /\ Become(q, [query[q] EXCEPT !.deck = Now.client,
                                  !.pc = IF Now.client = None THEN "collect" ELSE "sell"])
    /\ UNCHANGED patterns

Sold(q, price) ==
    [query[q] EXCEPT !.pc = "collect",
        !.sell = IF price = None THEN None ELSE [deck |-> query[q].deck, price |-> price]]

ReadSell(q) ==
    LET price == InCache(query[q].deck, query[q].number) IN
    /\ query[q].pc = "sell"
    /\ Become(q, IF price # None THEN Sold(q, price) ELSE [query[q] EXCEPT !.pc = "sellDb"])
    /\ UNCHANGED patterns

LoadSell(q) ==
    /\ query[q].pc = "sellDb"
    /\ Become(q, Sold(q, Now.rate[query[q].deck][query[q].number]))
    /\ UNCHANGED patterns

\* The egress trunks to consider.
Collect(q) ==
    /\ query[q].pc = "collect"
    /\ Become(q, [query[q] EXCEPT !.pc = "trunks", !.todo = Cached("trunks").trunks])
    /\ UNCHANGED patterns

\* Wrong variant: the loop does not ask whether the trunk has a deck.
ChooseVendorUnchecked(q, t) ==
    /\ query[q].pc = "trunks" /\ t \in query[q].todo
    /\ Become(q, [query[q] EXCEPT !.pc = "cost", !.trunk = t, !.deck = Now.vendor[t]])
    /\ UNCHANGED patterns

\* One turn of the loop over them: the vendor's deck, and its rate.
ChooseVendor(q, t) ==
    /\ query[q].pc = "trunks" /\ t \in query[q].todo
    /\ Become(q, IF Now.vendor[t] = None THEN [query[q] EXCEPT !.todo = @ \ {t}]
                 ELSE [query[q] EXCEPT !.pc = "cost", !.trunk = t, !.deck = Now.vendor[t]])
    /\ UNCHANGED patterns

\* Without a client's rate the call is sold at its cost.
Earns(sell, cost) == (IF sell = None THEN cost ELSE sell.price) - cost >= MinMargin

Quoted(q, price) ==
    [query[q] EXCEPT !.pc = "trunks", !.todo = @ \ {query[q].trunk},
        !.found = IF price # None /\ Earns(query[q].sell, price)
                    THEN @ \cup {[trunk |-> query[q].trunk, deck |-> query[q].deck, cost |-> price]}
                    ELSE @]

ReadCost(q) ==
    LET price == InCache(query[q].deck, query[q].number) IN
    /\ query[q].pc = "cost"
    /\ Become(q, IF price # None THEN Quoted(q, price) ELSE [query[q] EXCEPT !.pc = "costDb"])
    /\ UNCHANGED patterns

LoadCost(q) ==
    /\ query[q].pc = "costDb"
    /\ Become(q, Quoted(q, Now.rate[query[q].deck][query[q].number]))
    /\ UNCHANGED patterns

\* Wrong variant: the static routes after the dynamic ones are forgotten.
EndLoopForgotten(q) ==
    /\ query[q].pc = "trunks" /\ query[q].todo = {}
    /\ Become(q, [query[q] EXCEPT !.pc = IF query[q].found # {} THEN "routed" ELSE "none"])
    /\ UNCHANGED patterns

\* After the loop: an answer, or the static routes after the dynamic ones.
EndLoop(q) ==
    /\ query[q].pc = "trunks" /\ query[q].todo = {}
    /\ Become(q, IF query[q].found = {} THEN Check(query[q], "AFTER")
                 ELSE [query[q] EXCEPT !.pc = "routed", !.trunk = None, !.deck = None])
    /\ UNCHANGED patterns

\* The database cannot be read: the `?` ends the query.
FailQuery(q) ==
    /\ query[q].pc \in {"client", "sellDb", "trunks", "costDb"}
    /\ query[q].pc = "trunks" => query[q].todo # {}
    /\ Become(q, [query[q] EXCEPT !.pc = "error"])
    /\ UNCHANGED patterns

Query(q) ==
    \/ \E n \in Numbers : Ask(q, n)
    \/ LookUp(q) \/ Compile(q) \/ NoMatch(q) \/ BuildStatic(q)
    \/ ChooseClient(q) \/ ReadSell(q) \/ LoadSell(q) \/ Collect(q)
    \/ \E t \in Trunks : ChooseVendor(q, t)
    \/ ReadCost(q) \/ LoadCost(q) \/ EndLoop(q) \/ FailQuery(q)

Next == Around \/ \E q \in Queries : Query(q)

Spec == Init /\ [][Next]_vars

-----------------------------------------------------------------------------
\* The types of the variables.
TypeOK ==
    /\ CacheTypeOK
    /\ patterns \in [Routes -> {None} \cup SUBSET Numbers]
    /\ query \in [Queries ->
         [pc : Answers \cup {"idle", "match", "compile", "build", "client", "sell", "sellDb",
                             "collect", "trunks", "cost", "costDb"},
          number : Numbers \cup {None}, position : {"BEFORE", "AFTER"}, snap : Versions,
          left : SUBSET Routes, deck : Decks \cup {None},
          sell : {None} \cup [deck : ClientDecks, price : Prices],
          todo : SUBSET Trunks, trunk : Trunks \cup {None},
          found : SUBSET [trunk : Trunks, deck : VendorDecks, cost : Prices],
          since : Versions, quiet : BOOLEAN]]
    /\ \A q \in Queries :
         /\ query[q].pc \in {"sell", "sellDb"} => query[q].deck \in ClientDecks
         /\ query[q].pc \in {"cost", "costDb"} => query[q].deck \in VendorDecks

\* What the database has said at some time from version v on.
ActiveSince(v, t) == \E w \in v..Len(log) : t \in log[w].trunks
NamedSince(v, t) ==
    \E w \in v..Len(log), r \in Routes : log[w].routes[r].active /\ log[w].routes[r].trunk = t
VendorSince(v, t, d) == \E w \in v..Len(log) : log[w].vendor[t] = d
ClientSince(v, d) == \E w \in v..Len(log) : log[w].client = d

\* A price the deck has had, and since v at that if it has been active since.
PricedSince(v, d, n, price) ==
    \E w \in Versions : /\ log[w].rate[d][n] = price
                         /\ ActiveThroughout(v, d) => w >= v

\* No call is sent where, or at a price that, a reload that had succeeded before
\* it was asked for already knew better than.  Every trunk of an answer was active
\* at some time since then, its deck was in force, and the deck had that price,
\* unless the deck was out of the database for a while; so it is with the client's
\* deck and the price the margin is taken from.  The trunk of a static route was
\* active, and a route named it.  (The parts of one answer may be of different times.)
AnswerIsRecent ==
    \A q \in Queries :
        LET v == query[q].since
            n == query[q].number IN
        /\ query[q].pc = "routed" =>
             /\ \A x \in query[q].found :
                  ActiveSince(v, x.trunk) /\ VendorSince(v, x.trunk, x.deck)
                      /\ PricedSince(v, x.deck, n, x.cost)
             /\ query[q].sell # None =>
                  /\ ClientSince(v, query[q].sell.deck)
                  /\ PricedSince(v, query[q].sell.deck, n, query[q].sell.price)
        /\ query[q].pc = "static" =>
             ActiveSince(v, query[q].trunk) /\ NamedSince(v, query[q].trunk)

\* What one configuration says of a number.
StaticAnswer(c, hits) ==
    LET t == c.routes[Least(hits)].trunk IN <<IF t \in c.trunks THEN "static" ELSE "dangling", t>>

\* The static routes in a position that match, the client's rate, the trunks
\* whose rates leave the margin, and what is answered for some of them.
Hits(c, position, n) == {r \in Candidates(c.routes, position) : n \in c.routes[r].pattern}

SellIn(c, n) == IF c.client = None \/ c.rate[c.client][n] = None THEN None
                ELSE [deck |-> c.client, price |-> c.rate[c.client][n]]

RatedIn(c, n) == {t \in c.trunks : /\ c.vendor[t] # None
                                   /\ c.rate[c.vendor[t]][n] # None
                                   /\ Earns(SellIn(c, n), c.rate[c.vendor[t]][n])}

Offers(c, n, S) ==
    {[trunk |-> t, deck |-> c.vendor[t], cost |-> c.rate[c.vendor[t]][n]] : t \in S}

Decision(c, n) ==
    IF Hits(c, "BEFORE", n) # {} THEN StaticAnswer(c, Hits(c, "BEFORE", n))
    ELSE IF RatedIn(c, n) # {} THEN <<"routed", Offers(c, n, RatedIn(c, n)), SellIn(c, n)>>
    ELSE IF Hits(c, "AFTER", n) # {} THEN StaticAnswer(c, Hits(c, "AFTER", n))
    ELSE <<"none">>

Answer(q) ==
    CASE query[q].pc = "routed" -> <<"routed", query[q].found, query[q].sell>>
      [] query[q].pc \in {"static", "dangling"} -> <<query[q].pc, query[q].trunk>>
      [] query[q].pc = "none" -> <<"none">>

\* What the cache has of what is in the database is what the database says.
CacheCurrent ==
    /\ Cached("trunks").trunks = Now.trunks /\ Cached("routes").routes = Now.routes
    /\ \A d \in Now.active : rates[d] # None => log[rates[d]].rate[d] = Now.rate[d]

\* A query that ran while neither the cache nor the database changed, and the
\* cache was current.
Undisturbed(q) ==
    query[q].pc \in Answers \ {"error"} /\ query[q].quiet /\ CacheCurrent

\* No pattern has been changed since the engine started.
PatternsKept ==
    \A v \in Versions, r \in Routes : log[v].routes[r].pattern = Now.routes[r].pattern

\* Step by step, over snapshots, reads of the cache and reads of the database at
\* different moments, and with other queries that compile patterns at the same
\* time, find_routes comes to what the tables say when nothing changes: the static
\* routes before, the trunks whose rates leave the margin, the static routes after.
QuietQueryDecides ==
    \A q \in Queries :
        Undisturbed(q) /\ PatternsKept => Answer(q) = Decision(Now, query[q].number)

\* LCR_README.md:20 promises "Live cache updates": after a reload a query
\* decides by the static routes that were loaded.  It does not: a pattern is
\* compiled once for each id and never again.
ReloadedRoutesApply ==
    \A q \in Queries : Undisturbed(q) => Answer(q) = Decision(Now, query[q].number)
=============================================================================
