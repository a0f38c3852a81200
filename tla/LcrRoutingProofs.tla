-------------------------- MODULE LcrRoutingProofs --------------------------
(***************************************************************************)
(* Proofs about LcrCache and LcrRouting, for any number of reloads,        *)
(* queries, trunks, decks and routes: the types, how fresh the cache is    *)
(* after a reload and an answer after it, and that a query decides as the  *)
(* tables say while they stay as they are.                                 *)
(***************************************************************************)
EXTENDS LcrRouting, WellFoundedInduction, TLAPS

Loads == [stage : Stages \cup {"idle"}, todo : SUBSET Decks, deck : Decks \cup {None},
          read : Versions \cup {None}, low : 0..Len(log)]

(* Which locals a reload has in which stage.                               *)
Shape(x) ==
    /\ x.deck # None => x.read # None /\ x.stage \in {"vendors", "clients"}
    /\ x.stage = "trunks" => x.read # None
    /\ x.stage \in {"trunks", "routes", "rest"} => x.todo = {}

(* The reload has been through the rates of deck d, or will not go there.  *)
Handled(x, d) ==
    IF d \in VendorDecks THEN x.stage = "vendors" => d \notin x.todo
    ELSE x.stage \in {"trunks", "routes", "rest"} \/ (x.stage = "clients" /\ d \notin x.todo)

(* What a reload has stored, or is about to, is no older than its low.     *)
Sound(x) ==
    /\ x.low >= 1 /\ Shape(x)
    /\ x.read # None => x.read >= floor
    /\ x.stage \in {"routes", "rest"} => tables["trunks"] >= x.low
    /\ x.stage = "rest" => tables["routes"] >= x.low
    /\ \A d \in Decks :
         ActiveThroughout(x.low, d) /\ Handled(x, d) => rates[d] # None /\ rates[d] >= x.low

(* Nor is what another one is about to store over it.                      *)
LoadersOK ==
    /\ \A l \in Loaders : loader[l].stage = "idle" => loader[l].deck = None
    /\ \A l \in Loading : Sound(loader[l])
    /\ \A l, m \in Loading : loader[m].read # None => loader[m].read >= loader[l].low

CacheInv == CacheTypeOK /\ FreshSinceReload /\ LoadersOK

-----------------------------------------------------------------------------
(* A set of naturals that is not empty has a least element.                *)
LEMMA LeastIsThere ==
    ASSUME NEW S \in SUBSET Nat, S # {}
    PROVE  Least(S) \in S /\ \A y \in S : Least(S) <= y
<1> DEFINE R == OpToRel(<, Nat)
<1>1. PICK x \in S : \A y \in S : ~(<<y, x>> \in R)
    BY WFMin, NatLessThanWellFounded
<1>2. \A y \in S : ~(y < x)
    BY <1>1 DEF OpToRel
<1>3. \A y \in S : x <= y
    BY <1>2
<1> QED
    BY <1>3 DEF Least

LEMMA Typed ==
    ASSUME CacheTypeOK
    PROVE  /\ log \in Seq(Configuration) /\ Len(log) \in Nat \ {0} /\ Now \in Configuration
           /\ Versions = 1..Len(log) /\ \A v \in Versions : log[v] \in Configuration
           /\ rates \in [Decks -> Versions \cup {None}] /\ tables \in [Table -> Versions]
           /\ loader \in [Loaders -> Loads] /\ floor \in Versions /\ Len(log) \in Versions
           /\ "trunks" \in Table /\ "routes" \in Table
<1>1. log \in Seq(Configuration) /\ Len(log) \in Nat \ {0} /\ Versions = 1..Len(log)
    BY DEF CacheTypeOK, Versions
<1>2. Len(log) \in Versions /\ \A v \in Versions : log[v] \in Configuration
    BY <1>1
<1>3. Now \in Configuration
    BY <1>2 DEF Now
<1>4. loader \in [Loaders -> Loads]
    BY DEF CacheTypeOK, Loads
<1> QED
    BY <1>1, <1>2, <1>3, <1>4 DEF CacheTypeOK, Table

LEMMA NoneIsNone ==
    /\ None \notin Int /\ None \notin Decks /\ None \notin Trunks
    /\ None \notin VendorDecks /\ None \notin ClientDecks /\ None \notin Prices
<1>1. None \notin Int /\ None \notin Decks /\ None \notin Trunks
    BY NoneAssumption
<1>2. None \notin VendorDecks /\ None \notin ClientDecks
    BY <1>1 DEF Decks
<1>3. None \notin Prices
    BY <1>1, DecksAssumption
<1> QED
    BY <1>1, <1>2, <1>3

(* What a configuration is made of.                                        *)
LEMMA Parts ==
    ASSUME NEW c \in Configuration
    PROVE  /\ c.trunks \subseteq Trunks /\ c.active \subseteq Decks
           /\ c.client \in ClientDecks \cup {None} /\ c.client \in c.active \cup {None}
           /\ \A t \in Trunks : /\ c.vendor[t] \in VendorDecks \cup {None}
                                /\ c.vendor[t] \in c.active \cup {None}
           /\ \A d \in Decks, n \in Numbers : c.rate[d][n] \in Prices \cup {None}
           /\ c.routes \in [Routes -> StaticRoute]
BY DEF Configuration

LEMMA InitCacheInv == CacheInit => CacheInv
<1> SUFFICES ASSUME CacheInit PROVE CacheInv
    OBVIOUS
<1> USE InitialAssumption, BoundAssumption DEF CacheInit
<1>1. log \in Seq(Configuration) /\ Len(log) = 1 /\ Now = log[1]
    BY DEF Now
<1>2. loader \in [Loaders -> Loads] /\ \A l \in Loaders : loader[l].stage = "idle"
                                     /\ loader[l].deck = None
    BY <1>1 DEF NoLoad, Loads
<1>3. CacheTypeOK
    BY <1>1, <1>2 DEF CacheTypeOK, Versions, Loads
<1>4. FreshSinceReload
    <2>1. \A d \in Decks : ActiveThroughout(1, d) => d \in Now.active
        BY <1>1 DEF ActiveThroughout
    <2> QED
        BY <2>1, NoneIsNone DEF FreshSinceReload
<1>5. LoadersOK
    BY <1>2 DEF LoadersOK, Loading
<1> QED
    BY <1>3, <1>4, <1>5 DEF CacheInv

-----------------------------------------------------------------------------
(* The database only grows.                                                *)
Grows == Len(log') >= Len(log) /\ \A v \in Versions : log'[v] = log[v]

LEMMA ActiveBefore ==
    ASSUME CacheTypeOK, Grows, Len(log') \in Nat, NEW v \in Nat \ {0}, NEW d,
           ActiveThroughout(v, d)'
    PROVE  ActiveThroughout(v, d)
<1> SUFFICES ASSUME NEW w \in v..Len(log) PROVE d \in log[w].active
    BY DEF ActiveThroughout
<1>1. Len(log) \in Nat /\ w \in Versions
    BY Typed DEF Versions
<1>2. w \in v..Len(log') /\ log'[w] = log[w]
    BY <1>1 DEF Grows
<1> QED
    BY <1>2 DEF ActiveThroughout

LEMMA ChangeCacheInv == ASSUME CacheInv, Change PROVE CacheInv' /\ Grows /\ floor' = floor
<1>1. PICK c \in Configuration : log' = Append(log, c)
    BY DEF Change
<1>2. /\ log' \in Seq(Configuration) /\ Len(log') = Len(log) + 1 /\ Len(log') \in Nat
      /\ Grows /\ CacheTypeOK
    BY <1>1, Typed DEF CacheInv, Grows, Versions
<1>3. rates' = rates /\ tables' = tables /\ loader' = loader /\ floor' = floor
      /\ events' \in 0..MaxEvents
    BY BoundAssumption DEF Change, Happens, CacheInv, CacheTypeOK
<1>4. Versions \subseteq Versions' /\ Loads \subseteq Loads'
    BY <1>2, Typed DEF Versions, Loads
<1>5. CacheTypeOK'
    <2>1. loader' \in [Loaders -> Loads']
        BY <1>2, <1>3, <1>4, Typed
    <2> QED
        BY <1>2, <1>3, <1>4, <2>1, Typed DEF CacheTypeOK, Loads
<1>6. \A v \in Nat \ {0}, d \in Decks : ActiveThroughout(v, d)' => ActiveThroughout(v, d)
    BY <1>2, ActiveBefore
<1>7. FreshSinceReload'
    <2>1. floor \in Nat \ {0}
        BY <1>2, Typed
    <2>2. \A d \in Decks : ActiveThroughout(floor, d)' => ActiveThroughout(floor, d)
        BY <1>3, <1>6, <2>1
    <2> QED
        BY <1>3, <2>2 DEF CacheInv, FreshSinceReload
<1>8. ASSUME NEW x \in Loads, Sound(x) PROVE Sound(x)'
    <2>1. x.low \in Nat \ {0}
        BY <1>2, <1>8, Typed DEF Sound, Loads
    <2> QED
        BY <1>3, <1>6, <1>8, <2>1 DEF Sound
<1>9. LoadersOK'
    <2>1. \A l \in Loading : loader[l] \in Loads
        BY <1>2, Typed DEF Loading
    <2> QED
        BY <1>3, <1>8, <2>1 DEF CacheInv, LoadersOK, Loading
<1> QED
    BY <1>2, <1>3, <1>5, <1>7, <1>9 DEF CacheInv
-----------------------------------------------------------------------------
(* Steps of a reload.                                                      *)

(* What a reload has stored stays, when another stores what is no older.   *)
LEMMA SoundKept ==
    ASSUME CacheTypeOK, NEW x \in Loads, Sound(x), log' = log,
           \A tb \in Table : tables'[tb] = tables[tb] \/ tables'[tb] >= x.low,
           \A d \in Decks : rates'[d] = rates[d] \/ (rates'[d] # None /\ rates'[d] >= x.low),
           x.read # None => x.read >= floor'
    PROVE  Sound(x)'
<1>1. \A d \in Decks : ActiveThroughout(x.low, d)' <=> ActiveThroughout(x.low, d)
    BY DEF ActiveThroughout
<1>2. /\ x.stage \in {"routes", "rest"} => tables'["trunks"] >= x.low
      /\ x.stage = "rest" => tables'["routes"] >= x.low
    BY Typed DEF Sound
<1>3. \A d \in Decks : ActiveThroughout(x.low, d)' /\ Handled(x, d) =>
                           rates'[d] # None /\ rates'[d] >= x.low
    BY <1>1 DEF Sound
<1> QED
    BY <1>2, <1>3 DEF Sound

LEMMA LoaderStep ==
    ASSUME CacheInv, NEW l \in Loaders, NEW new \in Loads,
           log' = log, loader' = [loader EXCEPT ![l] = new],
           rates' \in [Decks -> Versions \cup {None}], tables' \in [Table -> Versions],
           floor' \in Versions, events' \in 0..MaxEvents,
           FreshSinceReload',
           new.stage = "idle" => new.deck = None,
           \A m \in Loading \ {l} : Sound(loader[m]) => \A x : x = loader[m] => Sound(x)',
           new.stage # "idle" =>
             /\ Sound(new)'
             /\ new.read # None => new.read >= new.low
             /\ \A m \in Loading \ {l} :
                  /\ new.read # None => new.read >= loader[m].low
                  /\ loader[m].read # None => loader[m].read >= new.low
    PROVE  CacheInv'
<1>1. CacheTypeOK /\ loader \in [Loaders -> Loads]
    BY Typed DEF CacheInv
<1>2. Versions' = Versions /\ Loads' = Loads
    BY DEF Versions, Loads
<1>3. CacheTypeOK'
    <2>1. loader' \in [Loaders -> Loads]
        BY <1>1
    <2> QED
        BY <1>1, <1>2, <2>1 DEF CacheTypeOK, Loads
<1>4. /\ loader'[l] = new /\ \A m \in Loaders \ {l} : loader'[m] = loader[m]
      /\ Loading' \ {l} = Loading \ {l} /\ (l \in Loading' <=> new.stage # "idle")
    BY <1>1 DEF Loading
<1>5. \A m \in Loading' : m \in Loaders /\ (m = l \/ m \in Loading \ {l})
    BY <1>4 DEF Loading
<1>6. ASSUME NEW m \in Loading' PROVE \A x : x = loader'[m] => Sound(x)'
    <2>1. CASE m = l
        BY <1>4, <2>1
    <2>2. CASE m \in Loading \ {l}
        BY <1>4, <1>5, <2>2 DEF CacheInv, LoadersOK, Loading
    <2> QED
        BY <1>5, <2>1, <2>2
<1>7. ASSUME NEW m \in Loading', NEW k \in Loading', loader'[k].read # None
      PROVE  loader'[k].read >= loader'[m].low
    <2>1. CASE m = l /\ k = l
        BY <1>4, <1>7, <2>1
    <2>2. CASE m = l /\ k # l
        BY <1>4, <1>5, <1>7, <2>2
    <2>3. CASE m # l /\ k = l
        BY <1>4, <1>5, <1>7, <2>3
    <2>4. CASE m # l /\ k # l
        BY <1>4, <1>5, <1>7, <2>4 DEF CacheInv, LoadersOK
    <2> QED
        BY <2>1, <2>2, <2>3, <2>4
<1>8. \A m \in Loading' : Sound(loader[m])'
    BY <1>6 DEF Sound
<1>9. \A m \in Loaders : loader'[m].stage = "idle" => loader'[m].deck = None
    BY <1>4 DEF CacheInv, LoadersOK
<1>10. LoadersOK'
    BY <1>7, <1>8, <1>9 DEF LoadersOK
<1> QED
    BY <1>3, <1>10 DEF CacheInv

(* A step of a reload that stores nothing.                                 *)
LEMMA QuietLoaderStep ==
    ASSUME CacheInv, NEW l \in Loaders, NEW new \in Loads,
           UNCHANGED <<log, rates, tables, floor>>, events' \in 0..MaxEvents,
           loader' = [loader EXCEPT ![l] = new],
           new.stage = "idle" => new.deck = None,
           new.stage # "idle" =>
             /\ Sound(new)
             /\ new.read # None => new.read >= new.low
             /\ \A m \in Loading \ {l} :
                  /\ new.read # None => new.read >= loader[m].low
                  /\ loader[m].read # None => loader[m].read >= new.low
    PROVE  CacheInv'
<1>1. /\ rates' \in [Decks -> Versions \cup {None}] /\ tables' \in [Table -> Versions]
      /\ floor' \in Versions /\ FreshSinceReload'
    BY Typed DEF CacheInv, FreshSinceReload, ActiveThroughout
<1>2. \A x : Sound(x) => Sound(x)'
    BY DEF Sound, ActiveThroughout
<1>3. \A m \in Loading \ {l} : Sound(loader[m]) => \A x : x = loader[m] => Sound(x)'
    BY <1>2
<1>4. log' = log /\ (new.stage # "idle" => Sound(new)')
    BY <1>2
<1> QED
    BY <1>1, <1>3, <1>4, LoaderStep

LEMMA EventsAre == CacheInv => events \in 0..MaxEvents
                               /\ (events < MaxEvents => events + 1 \in 0..MaxEvents)
BY BoundAssumption DEF CacheInv, CacheTypeOK

LEMMA StartInv == ASSUME CacheInv, NEW l \in Loaders, StartReload(l) PROVE CacheInv'
<1> DEFINE S == {Len(log)} \cup {loader[m].low : m \in Loading}
           todo == Now.active \cap VendorDecks
           low == Least(S)
           new == [stage |-> "vendors", todo |-> todo, deck |-> None, read |-> None, low |-> low]
<1>1. CacheTypeOK /\ loader \in [Loaders -> Loads] /\ Len(log) \in Nat \ {0}
    BY Typed DEF CacheInv
<1>2. low \in 1..Len(log) /\ \A m \in Loading : low <= loader[m].low
    <2>1. \A m \in Loading : loader[m].low \in 1..Len(log)
        BY <1>1 DEF CacheInv, LoadersOK, Sound, Loading, Loads
    <2>2. S \subseteq 1..Len(log) /\ S \in SUBSET Nat /\ S # {}
        BY <1>1, <2>1
    <2>3. low \in S /\ \A y \in S : low <= y
        BY <2>2, LeastIsThere
    <2> QED
        BY <2>2, <2>3
<1>3. /\ UNCHANGED <<log, rates, tables, floor>> /\ events' \in 0..MaxEvents
      /\ loader' = [loader EXCEPT ![l] = new]
    BY EventsAre DEF StartReload, Happens
<1>4. todo \subseteq Decks /\ \A d \in VendorDecks : ActiveThroughout(low, d) => d \in todo
    <2>1. Len(log) \in low..Len(log)
        BY <1>1, <1>2
    <2> QED
        BY <2>1 DEF ActiveThroughout, Now, Decks
<1> HIDE DEF S, todo, low
<1>5. new \in Loads
    BY <1>1, <1>2, <1>4 DEF Loads, Stages
<1>6. Sound(new)
    <2>1. low >= 1 /\ Shape(new)
        BY <1>2 DEF Shape
    <2>2. \A d \in Decks : ~(ActiveThroughout(low, d) /\ Handled(new, d))
        BY <1>4 DEF Handled
    <2> QED
        BY <2>1, <2>2 DEF Sound
<1>7. \A m \in Loading : loader[m].read # None => loader[m].read >= low
    <2>1. \A m \in Loading : loader[m].read # None =>
              loader[m].read >= loader[m].low /\ loader[m].read \in Nat /\ loader[m].low \in Nat
        BY <1>1, NoneIsNone DEF CacheInv, LoadersOK, Loading, Loads, Versions
    <2> QED
        BY <1>2, <2>1
<1>8. new.read = None /\ new.stage # "idle" /\ new.low = low
    OBVIOUS
<1> HIDE DEF new
<1> QED
    BY <1>3, <1>5, <1>6, <1>7, <1>8, QuietLoaderStep

(* The locals of a reload that goes on.                                    *)
LEMMA Going ==
    ASSUME CacheInv, NEW l \in Loading
    PROVE  /\ loader[l] \in Loads /\ Sound(loader[l]) /\ loader[l].todo \subseteq Decks
           /\ loader[l].low \in Nat /\ loader[l].low <= Len(log)
           /\ \A m \in Loading :
                /\ loader[m].low <= Len(log)
                /\ loader[m].read # None => loader[m].read >= loader[l].low
                /\ loader[l].read # None => loader[l].read >= loader[m].low
<1>1. \A m \in Loading : loader[m] \in Loads /\ Sound(loader[m])
    BY Typed DEF CacheInv, LoadersOK, Loading
<1>2. \A m \in Loading : loader[m].low \in Nat /\ loader[m].low <= Len(log)
    BY <1>1, Typed DEF CacheInv, Loads
<1> QED
    BY <1>1, <1>2 DEF CacheInv, LoadersOK, Loads

(* A reload that goes on without storing, and may have read.               *)
LEMMA GoInv ==
    ASSUME CacheInv, NEW l \in Loaders, loader[l].stage # "idle",
           UNCHANGED <<log, rates, tables, floor, events>>,
           NEW stage \in Stages, NEW todo \in SUBSET Decks, NEW deck \in Decks \cup {None},
           NEW read \in {None, Len(log)}, Go(l, stage, todo, deck, read),
           NEW new, new = [stage |-> stage, todo |-> todo, deck |-> deck, read |-> read,
                           low |-> loader[l].low],
           Shape(new),
           stage \in {"routes", "rest"} => loader[l].stage = stage,
           \A d \in Decks :
             Handled(new, d) => Handled(loader[l], d) \/ ~ActiveThroughout(new.low, d)
    PROVE  CacheInv'
<1>1. /\ CacheTypeOK /\ loader \in [Loaders -> Loads] /\ Len(log) \in Nat \ {0}
      /\ Len(log) \in Versions /\ floor \in Nat /\ floor <= Len(log)
    BY Typed DEF CacheInv, Versions
<1>0. l \in Loading
    BY DEF Loading
<1>2. /\ loader[l] \in Loads /\ Sound(loader[l])
      /\ loader[l].low \in Nat /\ loader[l].low <= Len(log)
      /\ \A m \in Loading :
           /\ loader[m].low <= Len(log)
           /\ loader[m].read # None => loader[m].read >= loader[l].low
           /\ loader[l].read # None => loader[l].read >= loader[m].low
    BY <1>0, Going
<1>3. loader' = [loader EXCEPT ![l] = new]
    BY DEF Go
<1>4. new \in Loads
    BY <1>1, <1>2 DEF Loads
<1>5. /\ new.stage = stage /\ new.todo = todo /\ new.deck = deck /\ new.read = read
      /\ new.low = loader[l].low
    OBVIOUS
<1>6. Sound(new)
    <2>1. Shape(new) /\ new.low >= 1 /\ (new.read # None => new.read >= floor)
        BY <1>1, <1>2, <1>5 DEF Sound
    <2>3. /\ new.stage \in {"routes", "rest"} => tables["trunks"] >= new.low
          /\ new.stage = "rest" => tables["routes"] >= new.low
        BY <1>2, <1>5 DEF Sound
    <2> QED
        BY <1>2, <1>5, <2>1, <2>3 DEF Sound
<1>7. new.read # None => new.read = Len(log)
    BY <1>5
<1>8. /\ new.read # None => new.read >= new.low
      /\ \A m \in Loading \ {l} :
           /\ new.read # None => new.read >= loader[m].low
           /\ loader[m].read # None => loader[m].read >= new.low
    BY <1>2, <1>5, <1>7
<1>9. events' \in 0..MaxEvents /\ new.stage # "idle"
    BY <1>5, EventsAre DEF Stages
<1> QED
    BY <1>3, <1>4, <1>6, <1>8, <1>9, QuietLoaderStep

LEMMA ReadRatesInv == ASSUME CacheInv, NEW l \in Loaders, ReadRates(l) PROVE CacheInv'
<1>1. PICK d \in loader[l].todo : Go(l, loader[l].stage, loader[l].todo, d, Len(log))
    BY DEF ReadRates
<1>2. /\ loader[l].stage # "idle" /\ l \in Loading
      /\ UNCHANGED <<log, rates, tables, floor, events>>
    BY DEF ReadRates, Ready, Loading
<1>3. /\ loader[l] \in Loads /\ Sound(loader[l]) /\ loader[l].todo \subseteq Decks
      /\ loader[l].stage \in Stages /\ Len(log) # None
    BY <1>2, Going, Typed, NoneIsNone DEF Loads, CacheInv
<1> DEFINE new == [stage |-> loader[l].stage, todo |-> loader[l].todo, deck |-> d,
                   read |-> Len(log), low |-> loader[l].low]
<1>4. Shape(new)
    BY <1>1, <1>3 DEF Sound, Shape, Stages
<1>5. \A x \in Decks : Handled(new, x) => Handled(loader[l], x)
    BY DEF Handled
<1> QED
    BY <1>1, <1>2, <1>3, <1>4, <1>5, GoInv

LEMMA SelectClientsInv == ASSUME CacheInv, NEW l \in Loaders, SelectClients(l) PROVE CacheInv'
<1> DEFINE todo == Now.active \cap ClientDecks
           new == [stage |-> "clients", todo |-> todo, deck |-> None, read |-> None,
                   low |-> loader[l].low]
<1>1. /\ loader[l].stage = "vendors" /\ loader[l].todo = {} /\ l \in Loading
      /\ UNCHANGED <<log, rates, tables, floor, events>> /\ Go(l, "clients", todo, None, None)
    BY DEF SelectClients, Ready, Loading
<1>2. todo \subseteq Decks /\ "clients" \in Stages
    BY DEF Decks, Stages
<1>3. Shape(new)
    BY DEF Shape
<1>4. ASSUME NEW d \in Decks, Handled(new, d)
      PROVE  Handled(loader[l], d) \/ ~ActiveThroughout(loader[l].low, d)
    <2>1. CASE d \in VendorDecks
        BY <1>1, <2>1 DEF Handled
    <2>2. CASE d \notin VendorDecks
        <3>1. d \notin Now.active
            BY <1>4, <2>2 DEF Handled, Decks
        <3>2. Len(log) \in loader[l].low..Len(log)
            BY <1>1, Going, Typed DEF CacheInv
        <3> QED
            BY <3>1, <3>2 DEF ActiveThroughout, Now
    <2> QED
        BY <2>1, <2>2
<1> HIDE DEF todo
<1> QED
    BY <1>1, <1>2, <1>3, <1>4, GoInv

LEMMA SelectTableInv == ASSUME CacheInv, NEW l \in Loaders, SelectTable(l) PROVE CacheInv'
<1>1. l \in Loading /\ Len(log) # None /\ UNCHANGED <<log, rates, tables, floor, events>>
    BY Typed, NoneIsNone DEF SelectTable, Ready, Loading, CacheInv
<1>2. CASE loader[l].stage = "clients" /\ loader[l].todo = {} /\ Go(l, "trunks", {}, None, Len(log))
    <2> DEFINE new == [stage |-> "trunks", todo |-> {}, deck |-> None, read |-> Len(log),
                       low |-> loader[l].low]
    <2>1. Shape(new) /\ \A d \in Decks : Handled(loader[l], d)
        BY <1>1, <1>2 DEF Shape, Handled
    <2>2. "trunks" \in Stages /\ {} \in SUBSET Decks
        BY DEF Stages
    <2> QED
        BY <1>1, <1>2, <2>1, <2>2, GoInv
<1>3. CASE loader[l].stage = "routes" /\ Go(l, "routes", {}, None, Len(log))
    <2> DEFINE new == [stage |-> "routes", todo |-> {}, deck |-> None, read |-> Len(log),
                       low |-> loader[l].low]
    <2>1. Shape(new) /\ \A d \in Decks : Handled(loader[l], d)
        BY <1>1, <1>3 DEF Shape, Handled
    <2>2. "routes" \in Stages /\ {} \in SUBSET Decks
        BY DEF Stages
    <2> QED
        BY <1>1, <1>3, <2>1, <2>2, GoInv
<1> QED
    BY <1>2, <1>3 DEF SelectTable

(* What another reload has stored stands beside what this one stores.      *)
LEMMA OthersKept ==
    ASSUME CacheInv, NEW l \in Loading, loader[l].read # None, log' = log,
           \A tb \in Table : tables'[tb] \in {tables[tb], loader[l].read},
           \A d \in Decks : rates'[d] \in {rates[d], loader[l].read},
           floor' \in {floor, loader[l].low}
    PROVE  \A m \in Loading : Sound(loader[m]) => \A x : x = loader[m] => Sound(x)'
<1> SUFFICES ASSUME NEW m \in Loading, NEW x, x = loader[m], Sound(x) PROVE Sound(x)'
    OBVIOUS
<1>1. /\ x \in Loads /\ loader[l].read >= x.low
      /\ (x.read # None => x.read >= loader[l].low /\ x.read >= floor)
    BY Going DEF Sound
<1>2. x.read # None => x.read >= floor'
    BY <1>1
<1> QED
    BY <1>1, <1>2, SoundKept DEF CacheInv

LEMMA InsertRatesInv == ASSUME CacheInv, NEW l \in Loaders, InsertRates(l) PROVE CacheInv'
<1>0. PICK s : s = loader[l]
    OBVIOUS
<1> DEFINE new == [stage |-> s.stage, todo |-> s.todo \ {s.deck}, deck |-> None, read |-> None,
                   low |-> s.low]
<1>1. /\ s.deck # None /\ UNCHANGED <<log, tables, floor, events>>
      /\ rates' = [rates EXCEPT ![s.deck] = s.read] /\ loader' = [loader EXCEPT ![l] = new]
      /\ l \in Loading
    BY <1>0 DEF InsertRates, Go, Loading, CacheInv, LoadersOK
<1>2. s \in Loads /\ Sound(s) /\ s.todo \subseteq Decks /\ s.read >= s.low /\ s.read # None
    BY <1>0, <1>1, Going DEF Sound, Shape
<1>3. s.read \in Versions /\ s.read >= floor
    BY <1>2 DEF Loads, Sound
<1>4. /\ rates' \in [Decks -> Versions \cup {None}] /\ tables' \in [Table -> Versions]
      /\ floor' \in Versions /\ events' \in 0..MaxEvents /\ floor' = floor
      /\ \A d \in Decks : rates'[d] \in {rates[d], s.read} /\ (d = s.deck => rates'[d] = s.read)
      /\ \A tb \in Table : tables'[tb] \in {tables[tb], s.read}
    BY <1>1, <1>3, Typed, EventsAre DEF CacheInv
<1>5. \A v, d : ActiveThroughout(v, d)' <=> ActiveThroughout(v, d)
    BY <1>1 DEF ActiveThroughout
<1>6. FreshSinceReload'
    BY <1>1, <1>2, <1>3, <1>4, <1>5 DEF CacheInv, FreshSinceReload
<1>7. new \in Loads
    BY <1>2 DEF Loads
<1>8. Sound(new)'
    <2>1. Shape(new) /\ new.low = s.low /\ new.read = None
        BY <1>1, <1>2 DEF Sound, Shape
    <2>2. \A d \in Decks : Handled(new, d) => d = s.deck \/ Handled(s, d)
        BY DEF Handled
    <2>3. /\ new.stage \in {"routes", "rest"} => tables'["trunks"] >= new.low
          /\ new.stage = "rest" => tables'["routes"] >= new.low
        BY <1>1, <1>2 DEF Sound
    <2> HIDE DEF new
    <2>4. \A d \in Decks : ActiveThroughout(new.low, d) /\ Handled(new, d) =>
                               rates'[d] # None /\ rates'[d] >= new.low
        BY <1>2, <1>4, <2>1, <2>2 DEF Sound
    <2> QED
        BY <1>2, <1>5, <2>1, <2>3, <2>4 DEF Sound
<1>9. \A m \in Loading : Sound(loader[m]) => \A x : x = loader[m] => Sound(x)'
    BY <1>0, <1>1, <1>2, <1>4, OthersKept
<1>10. new.read = None /\ new.deck = None /\ new.low = s.low
    OBVIOUS
<1>11. \A m \in Loading : loader[m].read # None => loader[m].read >= s.low
    BY <1>0, <1>1, Going
<1> HIDE DEF new
<1> QED
    BY <1>1, <1>4, <1>6, <1>7, <1>8, <1>9, <1>10, <1>11, LoaderStep

LEMMA StoreTableInv == ASSUME CacheInv, NEW l \in Loaders, StoreTable(l) PROVE CacheInv'
<1>0. PICK s : s = loader[l]
    OBVIOUS
<1> DEFINE next == IF s.stage = "trunks" THEN "routes" ELSE "rest"
           new == [stage |-> next, todo |-> {}, deck |-> None, read |-> None, low |-> s.low]
<1>1. /\ s.stage \in {"trunks", "routes"} /\ s.read # None
      /\ UNCHANGED <<log, rates, floor, events>> /\ l \in Loading
      /\ tables' = [tables EXCEPT ![s.stage] = s.read] /\ loader' = [loader EXCEPT ![l] = new]
    BY <1>0 DEF StoreTable, Go, Loading
<1>2. s \in Loads /\ Sound(s) /\ s.read >= s.low
    BY <1>0, <1>1, Going
<1>3. s.read \in Versions /\ s.read >= floor
    BY <1>1, <1>2 DEF Loads, Sound
<1>4. /\ rates' \in [Decks -> Versions \cup {None}] /\ tables' \in [Table -> Versions]
      /\ floor' \in Versions /\ events' \in 0..MaxEvents
      /\ \A d \in Decks : rates'[d] \in {rates[d], s.read}
      /\ \A tb \in Table : tables'[tb] \in {tables[tb], s.read}
      /\ tables'[s.stage] = s.read /\ (s.stage = "routes" => tables'["trunks"] = tables["trunks"])
    BY <1>1, <1>3, Typed, EventsAre DEF CacheInv
<1>5. \A v, d : ActiveThroughout(v, d)' <=> ActiveThroughout(v, d)
    BY <1>1 DEF ActiveThroughout
<1>6. FreshSinceReload'
    BY <1>1, <1>2, <1>3, <1>4, <1>5 DEF CacheInv, FreshSinceReload
<1>7. new \in Loads
    BY <1>2 DEF Loads, Stages
<1>8. Sound(new)'
    <2>1. Shape(new) /\ new.low = s.low /\ new.read = None /\ new.stage = next
        BY DEF Shape
    <2>2. \A d \in Decks : Handled(s, d)
        BY <1>1 DEF Handled
    <2>3. tables'["trunks"] >= s.low /\ (new.stage = "rest" => tables'["routes"] >= s.low)
        BY <1>1, <1>2, <1>4, <2>1 DEF Sound
    <2>4. \A d \in Decks : ActiveThroughout(s.low, d)' => rates'[d] # None /\ rates'[d] >= s.low
        BY <1>1, <1>2, <1>5, <2>2 DEF Sound
    <2> HIDE DEF new
    <2> QED
        BY <1>2, <2>1, <2>3, <2>4 DEF Sound
<1>9. \A m \in Loading : Sound(loader[m]) => \A x : x = loader[m] => Sound(x)'
    BY <1>0, <1>1, <1>2, <1>4, OthersKept
<1>10. new.read = None /\ new.deck = None /\ new.low = s.low
    OBVIOUS
<1>11. \A m \in Loading : loader[m].read # None => loader[m].read >= s.low
    BY <1>0, <1>1, Going
<1> HIDE DEF new
<1> QED
    BY <1>1, <1>4, <1>6, <1>7, <1>8, <1>9, <1>10, <1>11, LoaderStep

LEMMA NoLoadTyped == CacheInv => NoLoad \in Loads /\ NoLoad.stage = "idle" /\ NoLoad.deck = None
BY Typed DEF NoLoad, Loads, CacheInv

LEMMA FinishInv ==
    ASSUME CacheInv, NEW l \in Loaders, Finish(l)
    PROVE  CacheInv' /\ floor' >= floor
<1> DEFINE s == loader[l]
<1>1. /\ s.stage = "rest" /\ UNCHANGED <<log, rates, tables, events>> /\ l \in Loading
      /\ loader' = [loader EXCEPT ![l] = NoLoad] /\ floor' = Larger(floor, s.low)
    BY DEF Finish, Loading
<1>2. s \in Loads /\ Sound(s) /\ s.low \in Nat /\ s.low >= 1 /\ s.low <= Len(log)
    BY <1>1, Going DEF Sound
<1>3. floor' \in {floor, s.low} /\ floor' \in Versions /\ floor' >= floor
    <2>1. s.low \in Versions /\ floor \in Versions
        BY <1>2, Typed DEF CacheInv
    <2> QED
        BY <1>1, <1>2, <2>1, Typed DEF Larger, CacheInv
<1>4. /\ rates' \in [Decks -> Versions \cup {None}] /\ tables' \in [Table -> Versions]
      /\ events' \in 0..MaxEvents
    BY <1>1, Typed, EventsAre DEF CacheInv
<1>5. \A v, d : ActiveThroughout(v, d)' <=> ActiveThroughout(v, d)
    BY <1>1 DEF ActiveThroughout
<1>6. FreshSinceReload'
    <2>1. \A tb \in Table : tables[tb] >= floor'
        BY <1>1, <1>2, <1>3 DEF Sound, CacheInv, FreshSinceReload, Table
    <2>2. \A d \in Decks : ActiveThroughout(s.low, d) => rates[d] # None /\ rates[d] >= s.low
        BY <1>1, <1>2 DEF Sound, Handled
    <2>3. \A d \in Decks : ActiveThroughout(floor', d) => rates[d] # None /\ rates[d] >= floor'
        BY <1>3, <2>2 DEF CacheInv, FreshSinceReload
    <2> QED
        BY <1>1, <1>5, <2>1, <2>3 DEF FreshSinceReload
<1>7. ASSUME NEW m \in Loading, NEW x, x = loader[m], Sound(x) PROVE Sound(x)'
    <2>1. x \in Loads /\ (x.read # None => x.read >= s.low /\ x.read >= floor)
        BY <1>1, <1>7, Going DEF Sound
    <2>2. x.read # None => x.read >= floor'
        BY <1>3, <2>1
    <2> QED
        BY <1>1, <1>7, <2>1, <2>2, SoundKept DEF CacheInv
<1>8. CacheInv'
    BY <1>1, <1>3, <1>4, <1>6, <1>7, NoLoadTyped, LoaderStep
<1> QED
    BY <1>3, <1>8

LEMMA FailReloadInv == ASSUME CacheInv, NEW l \in Loaders, FailReload(l) PROVE CacheInv'
BY NoLoadTyped, QuietLoaderStep, EventsAre DEF FailReload

(* The cache's own part of the invariant is inductive.                     *)
LEMMA CacheStep == ASSUME CacheInv, [CacheNext]_cacheVars
                   PROVE  CacheInv' /\ Grows /\ floor' >= floor
<1>1. floor \in Nat /\ Len(log) \in Nat /\ CacheTypeOK
    BY Typed DEF CacheInv, Versions
<1>2. CASE Change
    BY <1>1, <1>2, ChangeCacheInv
<1>3. ASSUME NEW l \in Loaders, Reload(l) PROVE CacheInv' /\ log' = log /\ floor' >= floor
    <2>1. CASE Finish(l)
        BY <2>1, FinishInv DEF Finish
    <2>2. CASE Reload(l) /\ ~Finish(l)
        <3>1. CacheInv'
            BY <2>2, StartInv, ReadRatesInv, InsertRatesInv, SelectClientsInv, SelectTableInv,
               StoreTableInv, FailReloadInv DEF Reload
        <3>2. log' = log /\ floor' = floor
            BY <2>2 DEF Reload, StartReload, ReadRates, InsertRates, SelectClients, SelectTable,
               StoreTable, FailReload
        <3> QED
            BY <1>1, <3>1, <3>2
    <2> QED
        BY <1>3, <2>1, <2>2
<1>4. CASE UNCHANGED cacheVars
    <2>1. CacheInv'
        BY <1>4 DEF cacheVars, CacheInv, CacheTypeOK, FreshSinceReload, LoadersOK, Loading, Sound,
           ActiveThroughout, Versions
    <2> QED
        BY <1>1, <1>4, <2>1 DEF cacheVars, Grows
<1>5. log' = log => Grows
    BY <1>1 DEF Grows
<1> QED
    BY <1>2, <1>3, <1>4, <1>5 DEF CacheNext

-----------------------------------------------------------------------------
(* The queries.                                                            *)

PCs == Answers \cup {"idle", "match", "compile", "build", "client", "sell", "sellDb",
                     "collect", "trunks", "cost", "costDb"}

Asked == [pc : PCs, number : Numbers \cup {None}, position : {"BEFORE", "AFTER"},
          snap : Versions, left : SUBSET Routes, deck : Decks \cup {None},
          sell : {None} \cup [deck : ClientDecks, price : Prices],
          todo : SUBSET Trunks, trunk : Trunks \cup {None},
          found : SUBSET [trunk : Trunks, deck : VendorDecks, cost : Prices],
          since : Versions, quiet : BOOLEAN]

Fits(x) ==
    /\ x \in Asked
    /\ x.pc # "idle" => x.number \in Numbers
    /\ x.pc \in {"sell", "sellDb"} => x.deck \in ClientDecks
    /\ x.pc \in {"cost", "costDb"} => x.deck \in VendorDecks

(* What a query has in hand of the static routes, and of the dynamic ones, *)
(* is no older than the last reload that had succeeded when it began.      *)
StaticPart(x) ==
    /\ x.since \in 1..floor /\ x.snap \in Versions
    /\ x.left # {} => x.snap >= x.since
    /\ x.left \subseteq Candidates(log[x.snap].routes, x.position)
    /\ x.pc = "compile" => x.left # {}
    /\ x.pc \in {"build", "static"} => NamedSince(x.since, x.trunk)
    /\ x.pc = "static" => ActiveSince(x.since, x.trunk)

FoundSince(v, n, y) ==
    ActiveSince(v, y.trunk) /\ VendorSince(v, y.trunk, y.deck) /\ PricedSince(v, y.deck, n, y.cost)

SoldSince(v, n, sell) == ClientSince(v, sell.deck) /\ PricedSince(v, sell.deck, n, sell.price)

DynamicPart(x) ==
    /\ x.pc \in {"sell", "sellDb"} => ClientSince(x.since, x.deck)
    /\ x.pc \in {"cost", "costDb"} => x.trunk \in x.todo /\ VendorSince(x.since, x.trunk, x.deck)
    /\ \A t \in x.todo : ActiveSince(x.since, t)
    /\ \A y \in x.found : FoundSince(x.since, x.number, y)
    /\ x.sell # None => SoldSince(x.since, x.number, x.sell)

Recent(x) == Fits(x) /\ StaticPart(x) /\ DynamicPart(x)

(* A compiled pattern is one the route has had.                            *)
PatternsOK ==
    /\ patterns \in [Routes -> {None} \cup SUBSET Numbers]
    /\ \A r \in Routes :
         patterns[r] # None => \E v \in Versions : patterns[r] = log[v].routes[r].pattern

LcrInv ==
    /\ CacheInv
    /\ PatternsOK
    /\ query \in [Queries -> Asked]
    /\ \A q \in Queries : Recent(query[q])

LEMMA InvMeans == LcrInv => TypeOK /\ FreshSinceReload /\ AnswerIsRecent
<1> SUFFICES ASSUME LcrInv PROVE TypeOK /\ FreshSinceReload /\ AnswerIsRecent
    OBVIOUS
<1>1. TypeOK
    BY DEF LcrInv, CacheInv, PatternsOK, Recent, Fits, Asked, PCs, TypeOK
<1>2. AnswerIsRecent
    BY DEF LcrInv, Recent, StaticPart, DynamicPart, FoundSince, SoldSince, AnswerIsRecent
<1> QED
    BY <1>1, <1>2 DEF LcrInv, CacheInv

LEMMA NoQueryRecent == CacheInv => NoQuery \in Asked /\ Recent(NoQuery)
<1> SUFFICES ASSUME CacheInv PROVE NoQuery \in Asked /\ Recent(NoQuery)
    OBVIOUS
<1>1. 1 \in Versions /\ 1 \in 1..floor /\ 1 \in 1..Len(log)
    BY Typed DEF CacheInv
<1>2. NoQuery \in Asked
    BY <1>1 DEF NoQuery, Asked, PCs
<1>3. Fits(NoQuery)
    BY <1>2 DEF Fits, NoQuery
<1>4. StaticPart(NoQuery) /\ DynamicPart(NoQuery)
    BY <1>1 DEF StaticPart, DynamicPart, NoQuery
<1> QED
    BY <1>2, <1>3, <1>4 DEF Recent

LEMMA InitInv == Init => LcrInv
<1> SUFFICES ASSUME Init PROVE LcrInv
    OBVIOUS
<1>1. CacheInv
    BY InitCacheInv DEF Init
<1>2. PatternsOK
    BY DEF Init, PatternsOK
<1> QED
    BY <1>1, <1>2, NoQueryRecent DEF Init, LcrInv

-----------------------------------------------------------------------------
(* What goes on around the queries.                                        *)

(* What was so at some time since v stays so when the database grows.      *)
LEMMA SinceKept ==
    ASSUME CacheTypeOK, Grows, Len(log') \in Nat, NEW v \in Nat \ {0}
    PROVE  /\ \A t : ActiveSince(v, t) => ActiveSince(v, t)'
           /\ \A t : NamedSince(v, t) => NamedSince(v, t)'
           /\ \A t, d : VendorSince(v, t, d) => VendorSince(v, t, d)'
           /\ \A d : ClientSince(v, d) => ClientSince(v, d)'
           /\ \A d, n, p : PricedSince(v, d, n, p) => PricedSince(v, d, n, p)'
<1>0. Len(log) \in Nat /\ Len(log') >= Len(log) /\ Versions = 1..Len(log)
    BY Typed DEF Grows
<1>1. \A w \in v..Len(log) : w \in v..Len(log') /\ log'[w] = log[w]
    <2>1. \A w \in v..Len(log) : w \in v..Len(log') /\ w \in Versions
        BY <1>0
    <2> QED
        BY <2>1 DEF Grows
<1>2. \A w \in Versions : w \in Versions' /\ log'[w] = log[w]
    BY Typed DEF Grows, Versions
<1>3. ASSUME NEW d, NEW n, NEW p, PricedSince(v, d, n, p) PROVE PricedSince(v, d, n, p)'
    <2>1. ActiveThroughout(v, d)' => ActiveThroughout(v, d)
        BY ActiveBefore
    <2> QED
        BY <1>2, <1>3, <2>1 DEF PricedSince
<1> QED
    BY <1>1, <1>3 DEF ActiveSince, NamedSince, VendorSince, ClientSince

LEMMA RecentKept ==
    ASSUME CacheInv, CacheInv', Grows, floor' >= floor, NEW x, Recent(x)
    PROVE  Recent(x)' /\ x \in Asked'
<1>1. CacheTypeOK /\ Len(log) \in Nat /\ floor \in Nat
    BY Typed DEF CacheInv, Versions
<1>2. Len(log') \in Nat /\ floor' \in Nat
    BY DEF CacheInv, CacheTypeOK, Versions
<1>3. Versions \subseteq Versions'
    BY <1>1, <1>2 DEF Grows, Versions
<1>4. Fits(x)' /\ x \in Asked'
    <2>1. Asked \subseteq Asked'
        BY <1>3 DEF Asked
    <2> QED
        BY <2>1 DEF Recent, Fits
<1>5. x.since \in Nat \ {0} /\ x.since \in 1..floor' /\ x.snap \in Versions
      /\ x.snap \in Versions'
    BY <1>1, <1>2, <1>3 DEF Recent, StaticPart
<1>6. StaticPart(x)'
    <2>1. log'[x.snap] = log[x.snap]
        BY <1>5 DEF Grows
    <2> QED
        BY <1>1, <1>2, <1>5, <2>1, SinceKept DEF Recent, StaticPart
<1>7. DynamicPart(x)'
    <2>1. \A y : FoundSince(x.since, x.number, y) => FoundSince(x.since, x.number, y)'
        BY <1>1, <1>2, <1>5, SinceKept DEF FoundSince
    <2>2. \A y : SoldSince(x.since, x.number, y) => SoldSince(x.since, x.number, y)'
        BY <1>1, <1>2, <1>5, SinceKept DEF SoldSince
    <2> QED
        BY <1>1, <1>2, <1>5, <2>1, <2>2, SinceKept DEF Recent, DynamicPart
<1> QED
    BY <1>4, <1>6, <1>7 DEF Recent

(* The flag quiet says nothing of what a query has in hand.                *)
LEMMA FlagOnly ==
    ASSUME NEW x, Recent(x), NEW b \in BOOLEAN
    PROVE  Recent([x EXCEPT !.quiet = b])
<1> DEFINE y == [x EXCEPT !.quiet = b]
<1>1. y \in Asked /\ /\ y.pc = x.pc /\ y.number = x.number /\ y.position = x.position
                     /\ y.snap = x.snap /\ y.left = x.left /\ y.deck = x.deck
                     /\ y.sell = x.sell /\ y.todo = x.todo /\ y.trunk = x.trunk
                     /\ y.found = x.found /\ y.since = x.since
    BY DEF Recent, Fits, Asked
<1> HIDE DEF y
<1>2. Fits(y)
    BY <1>1 DEF Recent, Fits
<1>3. StaticPart(y)
    BY <1>1 DEF Recent, StaticPart
<1>4. DynamicPart(y)
    BY <1>1 DEF Recent, DynamicPart
<1>5. Recent(y)
    BY <1>2, <1>3, <1>4 DEF Recent
<1> QED
    BY <1>5 DEF y

LEMMA PatternsKeptOK ==
    ASSUME CacheInv, CacheInv', PatternsOK, Grows, patterns' = patterns
    PROVE  PatternsOK'
<1>1. \A v \in Versions : v \in Versions' /\ log'[v] = log[v]
    <2>1. Len(log) \in Nat /\ Len(log') \in Nat
        BY DEF CacheInv, CacheTypeOK
    <2> QED
        BY <2>1 DEF Grows, Versions
<1> QED
    BY <1>1 DEF PatternsOK

LEMMA AroundInv == ASSUME LcrInv, Around PROVE LcrInv'
<1>1. CacheInv' /\ CacheInv /\ Grows /\ floor' >= floor /\ patterns' = patterns
    BY CacheStep DEF LcrInv, Around
<1>2. PICK b \in BOOLEAN : \A q \in Queries : query'[q] = [query[q] EXCEPT !.quiet = @ /\ b]
    BY DEF Around
<1>3. ASSUME NEW q \in Queries PROVE \A y : y = query'[q] => Recent(y)' /\ y \in Asked'
    <2>1. query[q] \in Asked /\ Recent(query[q])
        BY DEF LcrInv
    <2>2. PICK c \in BOOLEAN : query'[q] = [query[q] EXCEPT !.quiet = c]
        BY <1>2, <2>1 DEF Asked
    <2>3. PICK x : x = query'[q]
        OBVIOUS
    <2>4. Recent(x)
        BY <2>1, <2>2, <2>3, FlagOnly
    <2> QED
        BY <1>1, <2>3, <2>4, RecentKept
<1>4. query' \in [Queries -> Asked'] /\ \A q \in Queries : Recent(query[q])'
    BY <1>3 DEF Around, Recent, Fits, StaticPart, DynamicPart
<1>5. PatternsOK'
    BY <1>1, PatternsKeptOK DEF LcrInv
<1> QED
    BY <1>1, <1>4, <1>5 DEF LcrInv

-----------------------------------------------------------------------------
(* Steps of the queries.                                                   *)

(* A query's step leaves the cache alone, but for the count of events.     *)
LEMMA QueryStep ==
    ASSUME LcrInv, UNCHANGED <<log, rates, tables, loader, floor>>, events' \in 0..MaxEvents,
           NEW f \in [Queries -> Asked], query' = f, \A q \in Queries : Recent(f[q]),
           PatternsOK'
    PROVE  LcrInv'
<1>1. CacheInv'
    BY DEF LcrInv, CacheInv, CacheTypeOK, FreshSinceReload, LoadersOK, Loading, Sound,
       ActiveThroughout, Versions
<1>2. Asked' = Asked /\ \A x : Recent(x) => Recent(x)'
    <2>1. Asked' = Asked
        BY DEF Asked, Versions
    <2>2. \A x : /\ StaticPart(x) => StaticPart(x)'
                 /\ DynamicPart(x) => DynamicPart(x)'
        BY DEF StaticPart, DynamicPart, FoundSince, SoldSince, ActiveSince, NamedSince,
           VendorSince, ClientSince, PricedSince, ActiveThroughout, Versions
    <2> QED
        BY <2>1, <2>2 DEF Recent, Fits
<1>3. \A q \in Queries : \A x : x = f[q] => Recent(x)'
    BY <1>2
<1>4. \A q \in Queries : Recent(query[q])'
    BY <1>3 DEF Recent, Fits, StaticPart, DynamicPart
<1> QED
    BY <1>1, <1>2, <1>4 DEF LcrInv

LEMMA BecomeInv ==
    ASSUME LcrInv, NEW q \in Queries, NEW new, Recent(new), Become(q, new), PatternsOK'
    PROVE  LcrInv'
<1> DEFINE f == [query EXCEPT ![q] = new]
<1>1. f \in [Queries -> Asked] /\ \A r \in Queries : Recent(f[r])
    BY DEF LcrInv, Recent, Fits
<1>2. /\ UNCHANGED <<log, rates, tables, loader, floor>> /\ query' = f
      /\ events' \in 0..MaxEvents
    BY EventsAre DEF Become, cacheVars, LcrInv
<1> HIDE DEF f
<1> QED
    BY <1>1, <1>2, QueryStep

LEMMA PatternsStay ==
    ASSUME LcrInv, UNCHANGED <<log, patterns>>
    PROVE  PatternsOK'
BY DEF LcrInv, PatternsOK, Versions

(* A query that begins, or that comes to the routes after the dynamic ones.*)
LEMMA CheckRecent ==
    ASSUME CacheInv, NEW to, Recent(to), to.number \in Numbers,
           NEW position \in {"BEFORE", "AFTER"}
    PROVE  Recent(Check(to, position))
<1> DEFINE left == Candidates(Cached("routes").routes, position)
           new == [to EXCEPT !.pc = "match", !.position = position, !.snap = tables["routes"],
                             !.left = left]
<1>1. /\ tables["routes"] \in Versions /\ tables["routes"] >= floor /\ floor \in Nat
      /\ Cached("routes") \in Configuration /\ Len(log) \in Nat /\ Versions = 1..Len(log)
    BY Typed DEF CacheInv, FreshSinceReload, Cached
<1>2. left \subseteq Routes
    BY <1>1, Parts DEF Candidates
<1>3. left = Candidates(log[tables["routes"]].routes, position)
    BY DEF Cached
<1> HIDE DEF left
<1>4. /\ new \in Asked /\ new.pc = "match" /\ new.position = position
      /\ new.snap = tables["routes"] /\ new.left = left /\ new.number = to.number
      /\ new.sell = to.sell /\ new.todo = to.todo /\ new.found = to.found /\ new.since = to.since
    <2>1. to \in Asked /\ "match" \in PCs
        BY DEF Recent, Fits, PCs
    <2> QED
        BY <1>1, <1>2, <2>1 DEF Asked
<1> HIDE DEF new
<1>5. Fits(new)
    BY <1>4 DEF Recent, Fits
<1>6. StaticPart(new)
    <2>1. to.since \in 1..floor /\ tables["routes"] >= to.since
        BY <1>1 DEF Recent, StaticPart
    <2> QED
        BY <1>1, <1>3, <1>4, <2>1 DEF StaticPart
<1>7. DynamicPart(new)
    BY <1>4 DEF Recent, DynamicPart
<1>8. Recent(new)
    BY <1>5, <1>6, <1>7 DEF Recent
<1> QED
    BY <1>8 DEF Check, new, left

LEMMA AskInv == ASSUME LcrInv, NEW q \in Queries, NEW n \in Numbers, Ask(q, n) PROVE LcrInv'
<1> DEFINE to == [NoQuery EXCEPT !.number = n, !.since = floor, !.quiet = TRUE]
           f == [r \in Queries |-> IF r = q THEN Check(to, "BEFORE")
                                   ELSE IF Ended(r) THEN NoQuery ELSE query[r]]
<1>1. CacheInv /\ NoQuery \in Asked /\ Recent(NoQuery)
    BY NoQueryRecent DEF LcrInv
<1>2. Recent(to) /\ to.number = n
    <2>1. /\ to \in Asked /\ to.pc = "idle" /\ to.left = {} /\ to.todo = {} /\ to.found = {}
          /\ to.sell = None /\ to.since = floor /\ to.number = n /\ to.snap = 1
        BY <1>1, Typed DEF NoQuery, Asked, CacheInv
    <2>2. floor \in 1..floor /\ 1 \in Versions
        BY <1>1, Typed DEF CacheInv
    <2> HIDE DEF to
    <2>3. Fits(to) /\ StaticPart(to) /\ DynamicPart(to)
        BY <2>1, <2>2 DEF Fits, StaticPart, DynamicPart
    <2> QED
        BY <2>1, <2>3 DEF Recent
<1> HIDE DEF to
<1>3. Recent(Check(to, "BEFORE"))
    BY <1>1, <1>2, CheckRecent
<1>4. \A r \in Queries : Recent(f[r]) /\ f[r] \in Asked
    BY <1>1, <1>3 DEF LcrInv, Recent, Fits
<1>5. f \in [Queries -> Asked] /\ \A r \in Queries : Recent(f[r])
    BY <1>4
<1>6. /\ UNCHANGED <<log, rates, tables, loader, floor, patterns>> /\ query' = f
      /\ events' \in 0..MaxEvents
    BY EventsAre DEF Ask, Happens, cacheVars, LcrInv, to
<1> HIDE DEF f
<1> QED
    BY <1>5, <1>6, QueryStep, PatternsStay

(* The route a query is about to judge.                                    *)
LEMMA FirstIs ==
    ASSUME LcrInv, NEW q \in Queries, query[q].left # {}
    PROVE  /\ First(q) \in query[q].left /\ First(q) \in Routes /\ Row(q) \in StaticRoute
           /\ \A r \in query[q].left : First(q) <= r
           /\ query[q].snap \in Versions /\ NamedSince(query[q].since, Row(q).trunk)
<1>1. /\ Recent(query[q]) /\ query[q] \in Asked
      /\ Len(log) \in Nat /\ Versions = 1..Len(log) /\ floor \in Nat
    BY Typed DEF LcrInv, CacheInv
<1>2. /\ query[q].snap \in query[q].since..Len(log) /\ query[q].snap \in Versions
      /\ query[q].left \subseteq Candidates(log[query[q].snap].routes, query[q].position)
    BY <1>1 DEF Recent, StaticPart
<1>3. query[q].left \in SUBSET Nat /\ query[q].left \subseteq Routes
    BY <1>1, RoutesAssumption DEF Asked
<1>4. First(q) \in query[q].left /\ \A r \in query[q].left : First(q) <= r
    BY <1>3, LeastIsThere DEF First
<1>5. log[query[q].snap] \in Configuration
    BY <1>2, Typed DEF LcrInv, CacheInv
<1>6. Row(q) \in StaticRoute /\ Row(q).active
    BY <1>2, <1>3, <1>4, <1>5, Parts DEF Row, Candidates
<1>7. NamedSince(query[q].since, Row(q).trunk)
    BY <1>2, <1>3, <1>4, <1>6 DEF NamedSince, Row
<1> QED
    BY <1>2, <1>3, <1>4, <1>6, <1>7

(* It is taken, or the next one is judged.                                 *)
Taken(s, t) == [s EXCEPT !.pc = "build", !.trunk = t]
Passed(s, r) == [s EXCEPT !.pc = "match", !.left = @ \ {r}]

LEMMA JudgedRecent ==
    ASSUME CacheInv, NEW s, Recent(s), s.pc \in {"match", "compile"}
    PROVE  /\ \A t \in Trunks : NamedSince(s.since, t) => Recent(Taken(s, t))
           /\ \A r \in Routes : Recent(Passed(s, r))
<1>1. s \in Asked /\ Fits(s) /\ StaticPart(s) /\ DynamicPart(s)
    BY DEF Recent, Fits
<1>2. ASSUME NEW t \in Trunks, NamedSince(s.since, t) PROVE Recent(Taken(s, t))
    <2> DEFINE new == [s EXCEPT !.pc = "build", !.trunk = t]
    <2>1. /\ new \in Asked /\ new.pc = "build" /\ new.trunk = t /\ new.left = s.left
          /\ new.snap = s.snap /\ new.position = s.position /\ new.number = s.number
          /\ new.sell = s.sell /\ new.todo = s.todo /\ new.found = s.found
          /\ new.since = s.since
        BY <1>1 DEF Asked, PCs
    <2> HIDE DEF new
    <2>2. Fits(new) /\ StaticPart(new) /\ DynamicPart(new)
        BY <1>1, <1>2, <2>1 DEF Fits, StaticPart, DynamicPart
    <2> QED
        BY <2>2 DEF Recent, Taken, new
<1>3. ASSUME NEW r \in Routes PROVE Recent(Passed(s, r))
    <2> DEFINE new == [s EXCEPT !.pc = "match", !.left = @ \ {r}]
    <2>1. /\ new \in Asked /\ new.pc = "match" /\ new.left = s.left \ {r}
          /\ new.snap = s.snap /\ new.position = s.position /\ new.number = s.number
          /\ new.sell = s.sell /\ new.todo = s.todo /\ new.found = s.found
          /\ new.since = s.since
        BY <1>1 DEF Asked, PCs
    <2> HIDE DEF new
    <2>2. Fits(new) /\ StaticPart(new) /\ DynamicPart(new)
        BY <1>1, <2>1 DEF Fits, StaticPart, DynamicPart
    <2> QED
        BY <2>2 DEF Recent, Passed, new
<1> QED
    BY <1>2, <1>3

LEMMA JudgeInv ==
    ASSUME LcrInv, NEW q \in Queries, query[q].pc \in {"match", "compile"}, query[q].left # {},
           NEW pattern, Judge(q, pattern), PatternsOK'
    PROVE  LcrInv'
<1>1. First(q) \in Routes /\ Row(q).trunk \in Trunks /\ NamedSince(query[q].since, Row(q).trunk)
    BY FirstIs DEF StaticRoute
<1>2. Recent(Taken(query[q], Row(q).trunk)) /\ Recent(Passed(query[q], First(q)))
    BY <1>1, JudgedRecent DEF LcrInv
<1>3. Become(q, Taken(query[q], Row(q).trunk)) \/ Become(q, Passed(query[q], First(q)))
    BY DEF Judge, Become, Taken, Passed
<1> QED
    BY <1>2, <1>3, BecomeInv

(* Another pc, and nothing else that a query has in hand.                  *)
LEMMA PcRecent ==
    ASSUME LcrInv, NEW q \in Queries, query[q].pc # "idle",
           NEW pc \in {"compile", "client", "none", "static", "dangling", "sellDb", "costDb",
                       "error"},
           pc = "compile" => query[q].left # {},
           pc = "static" => query[q].pc = "build" /\ ActiveSince(query[q].since, query[q].trunk),
           pc = "sellDb" => query[q].pc = "sell",
           pc = "costDb" => query[q].pc = "cost"
    PROVE  Recent([query[q] EXCEPT !.pc = pc])
<1> DEFINE new == [query[q] EXCEPT !.pc = pc]
<1>1. PICK s : s = query[q]
    OBVIOUS
<1>2. s \in Asked /\ Fits(s) /\ StaticPart(s) /\ DynamicPart(s) /\ new = [s EXCEPT !.pc = pc]
    BY <1>1 DEF LcrInv, Recent
<1>3. /\ new \in Asked /\ new.pc = pc /\ new.trunk = s.trunk /\ new.left = s.left
      /\ new.snap = s.snap /\ new.position = s.position /\ new.number = s.number
      /\ new.sell = s.sell /\ new.todo = s.todo /\ new.found = s.found
      /\ new.since = s.since /\ new.deck = s.deck
    BY <1>2 DEF Asked, PCs, Answers
<1> HIDE DEF new
<1>4. Fits(new)
    BY <1>1, <1>2, <1>3 DEF Fits
<1>5. StaticPart(new)
    BY <1>1, <1>2, <1>3 DEF StaticPart
<1>6. DynamicPart(new)
    BY <1>1, <1>2, <1>3 DEF DynamicPart
<1>7. Recent(new)
    BY <1>4, <1>5, <1>6 DEF Recent
<1> QED
    BY <1>7 DEF new

LEMMA LookUpInv == ASSUME LcrInv, NEW q \in Queries, LookUp(q) PROVE LcrInv'
<1>1. query[q].pc = "match" /\ query[q].left # {} /\ PatternsOK'
    BY PatternsStay DEF LookUp, Judge, Become, cacheVars
<1>2. CASE patterns[First(q)] # None
    BY <1>1, <1>2, JudgeInv DEF LookUp
<1>3. CASE patterns[First(q)] = None
    <2>1. Become(q, [query[q] EXCEPT !.pc = "compile"])
        BY <1>3 DEF LookUp
    <2>2. Recent([query[q] EXCEPT !.pc = "compile"])
        BY <1>1, PcRecent
    <2> QED
        BY <1>1, <2>1, <2>2, BecomeInv
<1> QED
    BY <1>2, <1>3

LEMMA CompileInv == ASSUME LcrInv, NEW q \in Queries, Compile(q) PROVE LcrInv'
<1>1. query[q].pc = "compile" /\ query[q].left # {} /\ Judge(q, Row(q).pattern)
    BY DEF Compile, LcrInv, Recent, StaticPart
<1>2. First(q) \in Routes /\ Row(q) \in StaticRoute /\ query[q].snap \in Versions
    BY <1>1, FirstIs
<1>3. PatternsOK'
    <2>1. log' = log /\ patterns' = [patterns EXCEPT ![First(q)] = Row(q).pattern]
        BY DEF Compile, Judge, Become, cacheVars
    <2>2. Row(q).pattern \in SUBSET Numbers
        BY <1>2 DEF StaticRoute
    <2>3. Row(q).pattern = log[query[q].snap].routes[First(q)].pattern
        BY DEF Row
    <2> QED
        BY <1>2, <2>1, <2>2, <2>3 DEF LcrInv, PatternsOK, Versions
<1> QED
    BY <1>1, <1>3, JudgeInv

LEMMA NoMatchInv == ASSUME LcrInv, NEW q \in Queries, NoMatch(q) PROVE LcrInv'
<1> DEFINE pc == IF query[q].position = "BEFORE" THEN "client" ELSE "none"
<1>1. query[q].pc = "match" /\ Become(q, [query[q] EXCEPT !.pc = pc]) /\ PatternsOK'
    BY PatternsStay DEF NoMatch, Become, cacheVars
<1>2. pc \in {"client", "none"}
    OBVIOUS
<1> HIDE DEF pc
<1>3. Recent([query[q] EXCEPT !.pc = pc])
    BY <1>1, <1>2, PcRecent
<1> QED
    BY <1>1, <1>3, BecomeInv

LEMMA BuildInv == ASSUME LcrInv, NEW q \in Queries, BuildStatic(q) PROVE LcrInv'
<1> DEFINE pc == IF query[q].trunk \in Cached("trunks").trunks THEN "static" ELSE "dangling"
<1>1. query[q].pc = "build" /\ Become(q, [query[q] EXCEPT !.pc = pc]) /\ PatternsOK'
    BY PatternsStay DEF BuildStatic, Become, cacheVars
<1>2. pc \in {"static", "dangling"}
    OBVIOUS
<1>3. pc = "static" => ActiveSince(query[q].since, query[q].trunk)
    <2>1. tables["trunks"] \in query[q].since..Len(log)
        BY Typed DEF LcrInv, CacheInv, FreshSinceReload, Recent, StaticPart
    <2> QED
        BY <2>1 DEF ActiveSince, Cached
<1> HIDE DEF pc
<1>4. Recent([query[q] EXCEPT !.pc = pc])
    BY <1>1, <1>2, <1>3, PcRecent
<1> QED
    BY <1>1, <1>4, BecomeInv

LEMMA FailQueryInv == ASSUME LcrInv, NEW q \in Queries, FailQuery(q) PROVE LcrInv'
<1>1. query[q].pc # "idle" /\ Become(q, [query[q] EXCEPT !.pc = "error"]) /\ PatternsOK'
    BY PatternsStay DEF FailQuery, Become, cacheVars
<1>2. Recent([query[q] EXCEPT !.pc = "error"])
    BY <1>1, PcRecent
<1> QED
    BY <1>1, <1>2, BecomeInv

(* A rate in the cache, and one in the database.                           *)
Price(d, n, v, price) ==
    price \in Prices \cup {None} /\ (price # None => PricedSince(v, d, n, price))

LEMMA PriceOf ==
    ASSUME LcrInv, NEW q \in Queries, query[q].pc # "idle", NEW d \in Decks
    PROVE  /\ Price(d, query[q].number, query[q].since, InCache(d, query[q].number))
           /\ Price(d, query[q].number, query[q].since, Now.rate[d][query[q].number])
<1>0. PICK n, v : n = query[q].number /\ v = query[q].since
    OBVIOUS
<1>1. /\ n \in Numbers /\ v \in Nat /\ v <= floor /\ floor \in Nat /\ v <= Len(log)
      /\ Len(log) \in Versions /\ Versions = 1..Len(log) /\ Len(log) \in Nat
    BY <1>0, Typed DEF LcrInv, CacheInv, Recent, Fits, StaticPart
<1>2. ASSUME rates[d] # None PROVE Price(d, n, v, InCache(d, n))
    <2>1. rates[d] \in Versions /\ rates[d] \in Nat /\ log[rates[d]] \in Configuration
        BY <1>1, <1>2, Typed DEF LcrInv, CacheInv
    <2>2. log[rates[d]].rate[d][n] \in Prices \cup {None}
        BY <1>1, <2>1, Parts
    <2>3. ActiveThroughout(v, d) => rates[d] >= v
        <3>1. ActiveThroughout(v, d) => ActiveThroughout(floor, d)
            BY <1>1 DEF ActiveThroughout
        <3>2. ActiveThroughout(floor, d) => rates[d] >= floor
            BY DEF LcrInv, CacheInv, FreshSinceReload
        <3>3. rates[d] >= floor => rates[d] >= v
            BY <1>1, <2>1
        <3> QED
            BY <3>1, <3>2, <3>3
    <2>4. InCache(d, n) = log[rates[d]].rate[d][n]
        BY <1>2 DEF InCache
    <2>5. PricedSince(v, d, n, log[rates[d]].rate[d][n])
        BY <2>1, <2>3 DEF PricedSince
    <2> QED
        BY <2>2, <2>4, <2>5 DEF Price
<1>3. ASSUME rates[d] = None PROVE Price(d, n, v, InCache(d, n))
    BY <1>3 DEF Price, InCache
<1>4. Price(d, n, v, Now.rate[d][n])
    <2>1. Now.rate[d][n] \in Prices \cup {None}
        BY <1>1, Typed, Parts DEF LcrInv, CacheInv
    <2> QED
        BY <1>1, <2>1 DEF Price, PricedSince, Now
<1>5. Price(d, n, v, InCache(d, n))
    BY <1>2, <1>3
<1> QED
    BY <1>0, <1>4, <1>5

LEMMA ChooseClientInv == ASSUME LcrInv, NEW q \in Queries, ChooseClient(q) PROVE LcrInv'
<1> DEFINE pc == IF Now.client = None THEN "collect" ELSE "sell"
           new == [query[q] EXCEPT !.deck = Now.client, !.pc = pc]
<1>1. query[q].pc = "client" /\ Become(q, new) /\ PatternsOK'
    BY PatternsStay DEF ChooseClient, Become, cacheVars
<1>2. PICK s : s = query[q]
    OBVIOUS
<1>3. /\ s \in Asked /\ Fits(s) /\ StaticPart(s) /\ DynamicPart(s) /\ s.pc = "client"
      /\ new = [s EXCEPT !.deck = Now.client, !.pc = pc]
    BY <1>1, <1>2 DEF LcrInv, Recent
<1>4. Now.client \in ClientDecks \cup {None} /\ Now.client \in Decks \cup {None}
    BY Typed, Parts DEF LcrInv, CacheInv, Decks
<1>5. pc \in {"collect", "sell"} /\ (pc = "sell" => Now.client \in ClientDecks)
    BY <1>4
<1>6. pc = "sell" => ClientSince(s.since, Now.client)
    <2>1. Len(log) \in s.since..Len(log)
        BY <1>3, Typed DEF LcrInv, CacheInv, StaticPart
    <2> QED
        BY <2>1 DEF ClientSince, Now
<1> HIDE DEF pc
<1>7. /\ new \in Asked /\ new.pc = pc /\ new.deck = Now.client /\ new.left = s.left
      /\ new.snap = s.snap /\ new.position = s.position /\ new.number = s.number
      /\ new.sell = s.sell /\ new.todo = s.todo /\ new.found = s.found /\ new.since = s.since
    <2>1. pc \in PCs
        BY <1>5 DEF PCs
    <2> QED
        BY <1>3, <1>4, <2>1 DEF Asked
<1> HIDE DEF new
<1>8. Fits(new)
    BY <1>3, <1>5, <1>7 DEF Fits
<1>9. StaticPart(new)
    BY <1>3, <1>5, <1>7 DEF StaticPart
<1>10. DynamicPart(new)
    BY <1>3, <1>5, <1>6, <1>7 DEF DynamicPart
<1>11. Recent(new)
    BY <1>8, <1>9, <1>10 DEF Recent
<1> QED
    BY <1>1, <1>11, BecomeInv

LEMMA SoldInv ==
    ASSUME LcrInv, NEW q \in Queries, query[q].pc \in {"sell", "sellDb"}, NEW price,
           Price(query[q].deck, query[q].number, query[q].since, price),
           Become(q, Sold(q, price)), PatternsOK'
    PROVE  LcrInv'
<1>1. PICK s : s = query[q]
    OBVIOUS
<1> DEFINE sell == IF price = None THEN None ELSE [deck |-> s.deck, price |-> price]
           new == [s EXCEPT !.pc = "collect", !.sell = sell]
<1>2. /\ s \in Asked /\ Fits(s) /\ StaticPart(s) /\ DynamicPart(s)
      /\ s.pc \in {"sell", "sellDb"} /\ Sold(q, price) = new
      /\ Price(s.deck, s.number, s.since, price)
    BY <1>1 DEF LcrInv, Recent, Sold
<1>3. /\ sell \in {None} \cup [deck : ClientDecks, price : Prices]
      /\ sell # None => SoldSince(s.since, s.number, sell)
    <2>1. s.deck \in ClientDecks /\ ClientSince(s.since, s.deck)
        BY <1>2 DEF Fits, DynamicPart
    <2> QED
        BY <1>2, <2>1 DEF Price, SoldSince
<1> HIDE DEF sell
<1>4. /\ new \in Asked /\ new.pc = "collect" /\ new.left = s.left
      /\ new.snap = s.snap /\ new.position = s.position /\ new.number = s.number
      /\ new.sell = sell /\ new.todo = s.todo /\ new.found = s.found /\ new.since = s.since
    BY <1>2, <1>3 DEF Asked, PCs
<1> HIDE DEF new
<1>5. Fits(new) /\ StaticPart(new)
    BY <1>2, <1>4 DEF Fits, StaticPart
<1>6. DynamicPart(new)
    BY <1>2, <1>3, <1>4 DEF DynamicPart
<1>7. Recent(new)
    BY <1>5, <1>6 DEF Recent
<1> QED
    BY <1>2, <1>7, BecomeInv

LEMMA ReadSellInv == ASSUME LcrInv, NEW q \in Queries, ReadSell(q) PROVE LcrInv'
<1> DEFINE price == InCache(query[q].deck, query[q].number)
<1>1. query[q].pc = "sell" /\ PatternsOK'
    BY PatternsStay DEF ReadSell, Become, cacheVars
<1>2. query[q].deck \in Decks
    BY <1>1 DEF LcrInv, Recent, Fits, Decks
<1>3. CASE price # None
    BY <1>1, <1>2, <1>3, PriceOf, SoldInv DEF ReadSell
<1>4. CASE price = None
    <2>1. Become(q, [query[q] EXCEPT !.pc = "sellDb"])
        BY <1>4 DEF ReadSell
    <2>2. Recent([query[q] EXCEPT !.pc = "sellDb"])
        BY <1>1, PcRecent
    <2> QED
        BY <1>1, <2>1, <2>2, BecomeInv
<1> QED
    BY <1>3, <1>4

LEMMA LoadSellInv == ASSUME LcrInv, NEW q \in Queries, LoadSell(q) PROVE LcrInv'
<1>1. query[q].pc = "sellDb" /\ PatternsOK'
    BY PatternsStay DEF LoadSell, Become, cacheVars
<1>2. query[q].deck \in Decks
    BY <1>1 DEF LcrInv, Recent, Fits, Decks
<1> QED
    BY <1>1, <1>2, PriceOf, SoldInv DEF LoadSell

LEMMA CollectInv == ASSUME LcrInv, NEW q \in Queries, Collect(q) PROVE LcrInv'
<1> DEFINE todo == Cached("trunks").trunks
           new == [query[q] EXCEPT !.pc = "trunks", !.todo = todo]
<1>1. query[q].pc = "collect" /\ Become(q, new) /\ PatternsOK'
    BY PatternsStay DEF Collect, Become, cacheVars
<1>2. PICK s : s = query[q]
    OBVIOUS
<1>3. /\ s \in Asked /\ Fits(s) /\ StaticPart(s) /\ DynamicPart(s) /\ s.pc = "collect"
      /\ new = [s EXCEPT !.pc = "trunks", !.todo = todo]
    BY <1>1, <1>2 DEF LcrInv, Recent
<1>4. todo \subseteq Trunks /\ \A t \in todo : ActiveSince(s.since, t)
    <2>1. tables["trunks"] \in s.since..Len(log) /\ Cached("trunks") \in Configuration
        BY <1>3, Typed DEF LcrInv, CacheInv, FreshSinceReload, StaticPart, Cached
    <2> QED
        BY <2>1, Parts DEF ActiveSince, Cached
<1> HIDE DEF todo
<1>5. /\ new \in Asked /\ new.pc = "trunks" /\ new.left = s.left
      /\ new.snap = s.snap /\ new.position = s.position /\ new.number = s.number
      /\ new.sell = s.sell /\ new.todo = todo /\ new.found = s.found /\ new.since = s.since
    BY <1>3, <1>4 DEF Asked, PCs
<1> HIDE DEF new
<1>6. Fits(new) /\ StaticPart(new)
    BY <1>3, <1>5 DEF Fits, StaticPart
<1>7. DynamicPart(new)
    BY <1>3, <1>4, <1>5 DEF DynamicPart
<1>8. Recent(new)
    BY <1>6, <1>7 DEF Recent
<1> QED
    BY <1>1, <1>8, BecomeInv

LEMMA ChooseVendorInv ==
    ASSUME LcrInv, NEW q \in Queries, NEW t \in Trunks, ChooseVendor(q, t)
    PROVE  LcrInv'
<1>1. query[q].pc = "trunks" /\ t \in query[q].todo /\ PatternsOK'
    BY PatternsStay DEF ChooseVendor, Become, cacheVars
<1>2. PICK s : s = query[q]
    OBVIOUS
<1>3. s \in Asked /\ Fits(s) /\ StaticPart(s) /\ DynamicPart(s) /\ s.pc = "trunks" /\ t \in s.todo
    BY <1>1, <1>2 DEF LcrInv, Recent
<1>4. CASE Now.vendor[t] = None
    <2> DEFINE new == [s EXCEPT !.todo = @ \ {t}]
    <2>1. Become(q, new)
        BY <1>2, <1>4 DEF ChooseVendor
    <2>2. /\ new \in Asked /\ new.pc = "trunks" /\ new.left = s.left
          /\ new.snap = s.snap /\ new.position = s.position /\ new.number = s.number
          /\ new.sell = s.sell /\ new.todo = s.todo \ {t} /\ new.found = s.found
          /\ new.since = s.since
        BY <1>3 DEF Asked
    <2> HIDE DEF new
    <2>3. Fits(new) /\ StaticPart(new) /\ DynamicPart(new)
        BY <1>3, <2>2 DEF Fits, StaticPart, DynamicPart
    <2>4. Recent(new)
        BY <2>3 DEF Recent
    <2> QED
        BY <1>1, <2>1, <2>4, BecomeInv
<1>5. CASE Now.vendor[t] # None
    <2> DEFINE new == [s EXCEPT !.pc = "cost", !.trunk = t, !.deck = Now.vendor[t]]
    <2>1. Become(q, new)
        BY <1>2, <1>5 DEF ChooseVendor
    <2>2. Now.vendor[t] \in VendorDecks /\ Now.vendor[t] \in Decks
        BY <1>5, Typed, Parts DEF LcrInv, CacheInv, Decks
    <2>3. VendorSince(s.since, t, Now.vendor[t])
        <3>1. Len(log) \in s.since..Len(log)
            BY <1>3, Typed DEF LcrInv, CacheInv, StaticPart
        <3> QED
            BY <3>1 DEF VendorSince, Now
    <2>4. /\ new \in Asked /\ new.pc = "cost" /\ new.left = s.left
          /\ new.snap = s.snap /\ new.position = s.position /\ new.number = s.number
          /\ new.sell = s.sell /\ new.todo = s.todo /\ new.found = s.found
          /\ new.since = s.since /\ new.trunk = t /\ new.deck = Now.vendor[t]
        BY <1>3, <2>2 DEF Asked, PCs
    <2> HIDE DEF new
    <2>5. Fits(new) /\ StaticPart(new)
        BY <1>3, <2>2, <2>4 DEF Fits, StaticPart
    <2>6. DynamicPart(new)
        BY <1>3, <2>3, <2>4 DEF DynamicPart
    <2>7. Recent(new)
        BY <2>5, <2>6 DEF Recent
    <2> QED
        BY <1>1, <2>1, <2>7, BecomeInv
<1> QED
    BY <1>4, <1>5

LEMMA QuotedInv ==
    ASSUME LcrInv, NEW q \in Queries, query[q].pc \in {"cost", "costDb"}, NEW price,
           Price(query[q].deck, query[q].number, query[q].since, price),
           Become(q, Quoted(q, price)), PatternsOK'
    PROVE  LcrInv'
<1>1. PICK s : s = query[q]
    OBVIOUS
<1> DEFINE offer == [trunk |-> s.trunk, deck |-> s.deck, cost |-> price]
           found == IF price # None /\ Earns(s.sell, price) THEN s.found \cup {offer} ELSE s.found
           new == [s EXCEPT !.pc = "trunks", !.todo = @ \ {s.trunk}, !.found = found]
<1>2. /\ s \in Asked /\ Fits(s) /\ StaticPart(s) /\ DynamicPart(s)
      /\ s.pc \in {"cost", "costDb"} /\ Price(s.deck, s.number, s.since, price)
    BY <1>1 DEF LcrInv, Recent
<1>3. Become(q, new)
    BY <1>1 DEF Quoted
<1>4. /\ s.trunk \in s.todo /\ s.trunk \in Trunks /\ s.deck \in VendorDecks
      /\ s.number \in Numbers
    BY <1>2 DEF Fits, DynamicPart, Asked
<1>5. price # None => offer \in [trunk : Trunks, deck : VendorDecks, cost : Prices]
                      /\ FoundSince(s.since, s.number, offer)
    BY <1>2, <1>4 DEF Price, FoundSince, DynamicPart
<1>6. /\ found \subseteq [trunk : Trunks, deck : VendorDecks, cost : Prices]
      /\ \A y \in found : FoundSince(s.since, s.number, y)
    BY <1>2, <1>5 DEF DynamicPart, Asked
<1> HIDE DEF found
<1>7. /\ new \in Asked /\ new.pc = "trunks" /\ new.left = s.left
      /\ new.snap = s.snap /\ new.position = s.position /\ new.number = s.number
      /\ new.sell = s.sell /\ new.todo = s.todo \ {s.trunk} /\ new.found = found
      /\ new.since = s.since
    BY <1>2, <1>6 DEF Asked, PCs
<1> HIDE DEF new
<1>8. Fits(new) /\ StaticPart(new)
    BY <1>2, <1>4, <1>7 DEF Fits, StaticPart
<1>9. DynamicPart(new)
    BY <1>2, <1>6, <1>7 DEF DynamicPart
<1>10. Recent(new)
    BY <1>8, <1>9 DEF Recent
<1> QED
    BY <1>3, <1>10, BecomeInv

LEMMA ReadCostInv == ASSUME LcrInv, NEW q \in Queries, ReadCost(q) PROVE LcrInv'
<1> DEFINE price == InCache(query[q].deck, query[q].number)
<1>1. query[q].pc = "cost" /\ PatternsOK'
    BY PatternsStay DEF ReadCost, Become, cacheVars
<1>2. query[q].deck \in Decks
    BY <1>1 DEF LcrInv, Recent, Fits, Decks
<1>3. CASE price # None
    BY <1>1, <1>2, <1>3, PriceOf, QuotedInv DEF ReadCost
<1>4. CASE price = None
    <2>1. Become(q, [query[q] EXCEPT !.pc = "costDb"])
        BY <1>4 DEF ReadCost
    <2>2. Recent([query[q] EXCEPT !.pc = "costDb"])
        BY <1>1, PcRecent
    <2> QED
        BY <1>1, <2>1, <2>2, BecomeInv
<1> QED
    BY <1>3, <1>4

LEMMA LoadCostInv == ASSUME LcrInv, NEW q \in Queries, LoadCost(q) PROVE LcrInv'
<1>1. query[q].pc = "costDb" /\ PatternsOK'
    BY PatternsStay DEF LoadCost, Become, cacheVars
<1>2. query[q].deck \in Decks
    BY <1>1 DEF LcrInv, Recent, Fits, Decks
<1> QED
    BY <1>1, <1>2, PriceOf, QuotedInv DEF LoadCost

LEMMA EndLoopInv == ASSUME LcrInv, NEW q \in Queries, EndLoop(q) PROVE LcrInv'
<1>1. query[q].pc = "trunks" /\ PatternsOK' /\ CacheInv
    BY PatternsStay DEF EndLoop, Become, cacheVars, LcrInv
<1>2. PICK s : s = query[q]
    OBVIOUS
<1>3. /\ s \in Asked /\ Recent(s) /\ Fits(s) /\ StaticPart(s) /\ DynamicPart(s)
      /\ s.pc = "trunks" /\ s.number \in Numbers
    BY <1>1, <1>2 DEF LcrInv, Recent, Fits
<1>4. CASE s.found = {}
    <2>1. Become(q, Check(s, "AFTER"))
        BY <1>2, <1>4 DEF EndLoop
    <2>2. Recent(Check(s, "AFTER"))
        BY <1>1, <1>3, CheckRecent
    <2> QED
        BY <1>1, <2>1, <2>2, BecomeInv
<1>5. CASE s.found # {}
    <2> DEFINE new == [s EXCEPT !.pc = "routed", !.trunk = None, !.deck = None]
    <2>1. Become(q, new)
        BY <1>2, <1>5 DEF EndLoop
    <2>2. /\ new \in Asked /\ new.pc = "routed" /\ new.left = s.left
          /\ new.snap = s.snap /\ new.position = s.position /\ new.number = s.number
          /\ new.sell = s.sell /\ new.todo = s.todo /\ new.found = s.found
          /\ new.since = s.since
        BY <1>3 DEF Asked, PCs, Answers
    <2> HIDE DEF new
    <2>3. Fits(new) /\ StaticPart(new) /\ DynamicPart(new)
        BY <1>3, <2>2 DEF Fits, StaticPart, DynamicPart
    <2>4. Recent(new)
        BY <2>3 DEF Recent
    <2> QED
        BY <1>1, <2>1, <2>4, BecomeInv
<1> QED
    BY <1>4, <1>5

-----------------------------------------------------------------------------
(* The invariant is inductive.                                             *)
LEMMA StepInv == LcrInv /\ [Next]_vars => LcrInv'
<1> SUFFICES ASSUME LcrInv, [Next]_vars PROVE LcrInv'
    OBVIOUS
<1>1. CASE Around
    BY <1>1, AroundInv
<1>2. ASSUME NEW q \in Queries, Query(q) PROVE LcrInv'
    BY <1>2, AskInv, LookUpInv, CompileInv, NoMatchInv, BuildInv, ChooseClientInv, ReadSellInv,
       LoadSellInv, CollectInv, ChooseVendorInv, ReadCostInv, LoadCostInv, EndLoopInv,
       FailQueryInv DEF Query
<1>3. CASE UNCHANGED vars
    <2>1. /\ UNCHANGED <<log, rates, tables, loader, floor>> /\ events' \in 0..MaxEvents
          /\ query' = query /\ PatternsOK'
        BY <1>3, EventsAre, PatternsStay DEF vars, cacheVars, LcrInv
    <2> QED
        BY <2>1, QueryStep DEF LcrInv
<1> QED
    BY <1>1, <1>2, <1>3 DEF Next

LEMMA InvAlways == Spec => []LcrInv
BY InitInv, StepInv, PTL DEF Spec

(* The variables keep their types, for every database and every number of  *)
(* reloads and queries.                                                    *)
THEOREM LcrTypeCorrect == Spec => []TypeOK
BY InvAlways, InvMeans, PTL

(* Once a reload has succeeded, the trunks and the static routes of the    *)
(* cache are no older than it, or than the first of the reloads that       *)
(* overlap up to it, and neither are the rates of a deck that has been     *)
(* active since, whatever reloads fail or finish in another order          *)
(* (load_from_database).                                                   *)
THEOREM CacheFreshSinceReload == Spec => []FreshSinceReload
BY InvAlways, InvMeans, PTL

(* No call is sent where, or at a price that, a reload that had succeeded  *)
(* before it was asked for already knew better than, but for decks that    *)
(* were out of the database for a while (find_routes).                     *)
THEOREM AnswersAreRecent == Spec => []AnswerIsRecent
BY InvAlways, InvMeans, PTL

-----------------------------------------------------------------------------
(* A query while the tables stay.  Course says how far the search has come *)
(* through what the configuration c says of its number.                    *)
NothingBefore(c, n) == Hits(c, "BEFORE", n) = {}

StaticCourse(c, s) ==
    /\ s.pc \in {"match", "compile", "build"} /\ s.position = "AFTER" =>
         NothingBefore(c, s.number) /\ RatedIn(c, s.number) = {}
    /\ s.pc \in {"match", "compile"} =>
         /\ log[s.snap].routes = c.routes
         /\ Hits(c, s.position, s.number) \subseteq s.left
         /\ s.position = "BEFORE" => s.found = {} /\ s.sell = None
    /\ s.pc = "build" =>
         /\ Hits(c, s.position, s.number) # {}
         /\ s.trunk = c.routes[Least(Hits(c, s.position, s.number))].trunk

DynamicCourse(c, s) ==
    /\ s.pc \in {"client", "sell", "sellDb", "collect"} =>
         NothingBefore(c, s.number) /\ s.found = {}
    /\ s.pc = "client" => s.sell = None
    /\ s.pc \in {"sell", "sellDb"} => c.client # None /\ s.deck = c.client
    /\ s.pc \in {"collect", "trunks", "cost", "costDb"} => s.sell = SellIn(c, s.number)
    /\ s.pc \in {"trunks", "cost", "costDb"} =>
         /\ NothingBefore(c, s.number)
         /\ s.todo \subseteq c.trunks
         /\ s.found = Offers(c, s.number, RatedIn(c, s.number) \ s.todo)
    /\ s.pc \in {"cost", "costDb"} => c.vendor[s.trunk] # None /\ s.deck = c.vendor[s.trunk]

Answered(c, s) ==
    /\ s.pc = "routed" => <<"routed", s.found, s.sell>> = Decision(c, s.number)
    /\ s.pc \in {"static", "dangling"} => <<s.pc, s.trunk>> = Decision(c, s.number)
    /\ s.pc = "none" => <<"none">> = Decision(c, s.number)

Course(c, s) == StaticCourse(c, s) /\ DynamicCourse(c, s) /\ Answered(c, s)

OnCourse ==
    CacheCurrent /\ PatternsKept =>
        \A q \in Queries : query[q].quiet => Course(Now, query[q])

LEMMA LeastIsOne ==
    ASSUME NEW S \in SUBSET Nat, NEW x \in S, \A y \in S : x <= y
    PROVE  Least(S) = x
<1>1. PICK m : m = Least(S)
    OBVIOUS
<1>2. m \in S /\ \A y \in S : m <= y
    BY <1>1, LeastIsThere
<1>3. m \in Nat /\ x \in Nat /\ m <= x /\ x <= m
    BY <1>2
<1> QED
    BY <1>1, <1>3

(* A step of one query that comes to new, over a cache that stays.         *)
LEMMA CourseOfOthers ==
    ASSUME LcrInv, OnCourse, NEW q \in Queries, NEW new,
           UNCHANGED <<log, rates, tables>>, query' = [query EXCEPT ![q] = new],
           CacheCurrent /\ PatternsKept /\ new.quiet => Course(Now, new)
    PROVE  OnCourse'
<1>1. /\ Now' = Now /\ (CacheCurrent' <=> CacheCurrent) /\ (PatternsKept' <=> PatternsKept)
      /\ \A x : Course(Now, x)' <=> Course(Now, x)
    BY DEF Now, CacheCurrent, Cached, PatternsKept, Versions, Course, StaticCourse
<1>2. \A r \in Queries : query'[r] = IF r = q THEN new ELSE query[r]
    BY DEF LcrInv
<1>3. ASSUME CacheCurrent, PatternsKept, NEW r \in Queries, query'[r].quiet
      PROVE  \A x : x = query'[r] => Course(Now, x)'
    BY <1>1, <1>2, <1>3 DEF OnCourse
<1> QED
    BY <1>1, <1>3 DEF OnCourse

LEMMA CourseAround == ASSUME LcrInv, OnCourse, Around PROVE OnCourse'
<1>1. CASE UNCHANGED <<log, rates, tables>>
    <2>1. /\ Now' = Now /\ (CacheCurrent' <=> CacheCurrent) /\ (PatternsKept' <=> PatternsKept)
          /\ \A x : Course(Now, x)' <=> Course(Now, x)
        BY <1>1 DEF Now, CacheCurrent, Cached, PatternsKept, Versions, Course, StaticCourse
    <2>2. \A q \in Queries : query'[q] = query[q]
        <3> SUFFICES ASSUME NEW q \in Queries PROVE query'[q] = query[q]
            OBVIOUS
        <3>1. query[q] \in Asked
            BY DEF LcrInv
        <3>2. query'[q] = [query[q] EXCEPT !.quiet = @ /\ TRUE]
            BY <1>1 DEF Around
        <3> QED
            BY <3>1, <3>2 DEF Asked
    <2> QED
        BY <2>1, <2>2 DEF OnCourse
<1>2. CASE ~UNCHANGED <<log, rates, tables>>
    <2>1. ASSUME NEW q \in Queries PROVE ~query'[q].quiet
        <3>1. query[q] \in Asked
            BY DEF LcrInv
        <3>2. query'[q] = [query[q] EXCEPT !.quiet = @ /\ FALSE]
            BY <1>2 DEF Around
        <3> QED
            BY <3>1, <3>2 DEF Asked
    <2> QED
        BY <2>1 DEF OnCourse
<1> QED
    BY <1>1, <1>2

(* The locals of a quiet query, while the cache is current.                *)
LEMMA OnIt ==
    ASSUME LcrInv, OnCourse, CacheCurrent, PatternsKept, NEW q \in Queries, query[q].quiet
    PROVE  Course(Now, query[q]) /\ Recent(query[q]) /\ query[q] \in Asked /\ Now \in Configuration
BY Typed DEF LcrInv, CacheInv, OnCourse

LEMMA CourseCheck ==
    ASSUME LcrInv, CacheCurrent, NEW to \in Asked, NEW position \in {"BEFORE", "AFTER"},
           position = "BEFORE" => to.found = {} /\ to.sell = None,
           position = "AFTER" => NothingBefore(Now, to.number) /\ RatedIn(Now, to.number) = {}
    PROVE  Course(Now, Check(to, position))
<1> DEFINE left == Candidates(Cached("routes").routes, position)
           new == [to EXCEPT !.pc = "match", !.position = position, !.snap = tables["routes"],
                             !.left = left]
<1>1. /\ new.pc = "match" /\ new.position = position /\ new.snap = tables["routes"]
      /\ new.left = left /\ new.number = to.number /\ new.sell = to.sell
      /\ new.found = to.found
    BY DEF Asked
<1>2. log[tables["routes"]].routes = Now.routes /\ Hits(Now, position, to.number) \subseteq left
    BY DEF CacheCurrent, Cached, Hits
<1> HIDE DEF new, left
<1>3. StaticCourse(Now, new)
    BY <1>1, <1>2 DEF StaticCourse
<1>4. DynamicCourse(Now, new) /\ Answered(Now, new)
    BY <1>1 DEF DynamicCourse, Answered
<1>5. Course(Now, new)
    BY <1>3, <1>4 DEF Course
<1> QED
    BY <1>5 DEF Check, new, left

LEMMA CourseAsk ==
    ASSUME LcrInv, OnCourse, NEW q \in Queries, NEW n \in Numbers, Ask(q, n)
    PROVE  OnCourse'
<1> DEFINE to == [NoQuery EXCEPT !.number = n, !.since = floor, !.quiet = TRUE]
<1>1. /\ UNCHANGED <<log, rates, tables>>
      /\ \A r \in Queries : query'[r] = IF r = q THEN Check(to, "BEFORE")
                                        ELSE IF Ended(r) THEN NoQuery ELSE query[r]
    BY DEF Ask, cacheVars
<1>2. to \in Asked /\ to.found = {} /\ to.sell = None
    BY NoQueryRecent, Typed DEF LcrInv, CacheInv, NoQuery, Asked
<1> HIDE DEF to
<1>3. CacheCurrent => Course(Now, Check(to, "BEFORE"))
    BY <1>2, CourseCheck
<1>4. /\ Now' = Now /\ (CacheCurrent' <=> CacheCurrent) /\ (PatternsKept' <=> PatternsKept)
      /\ \A x : Course(Now, x)' <=> Course(Now, x)
    BY <1>1 DEF Now, CacheCurrent, Cached, PatternsKept, Versions, Course, StaticCourse
<1>5. ~NoQuery.quiet
    BY DEF NoQuery
<1>6. ASSUME CacheCurrent, PatternsKept, NEW r \in Queries, query'[r].quiet
      PROVE  \A x : x = query'[r] => Course(Now, x)'
    BY <1>1, <1>3, <1>4, <1>5, <1>6 DEF OnCourse
<1> QED
    BY <1>4, <1>6 DEF OnCourse

(* The first route is judged by its pattern of now.                        *)
LEMMA CourseJudge ==
    ASSUME LcrInv, OnCourse, NEW q \in Queries, query[q].pc \in {"match", "compile"},
           query[q].left # {}, NEW pattern, Judge(q, pattern),
           CacheCurrent /\ PatternsKept /\ query[q].quiet => pattern = Now.routes[First(q)].pattern
    PROVE  OnCourse'
<1>0. PICK s : s = query[q]
    OBVIOUS
<1> DEFINE r == First(q)
           H == Hits(Now, s.position, s.number)
<1>1. UNCHANGED <<log, rates, tables>>
    BY DEF Judge, Become, cacheVars
<1>2. /\ r \in s.left /\ r \in Routes /\ \A x \in s.left : r <= x
      /\ Row(q) = log[s.snap].routes[r] /\ s \in Asked /\ Recent(s)
    BY <1>0, FirstIs DEF Row, LcrInv
<1>3. ASSUME CacheCurrent, PatternsKept, s.quiet
      PROVE  /\ StaticCourse(Now, s) /\ Row(q) = Now.routes[r] /\ H \subseteq s.left
             /\ r \in H <=> s.number \in pattern
    <2>1. StaticCourse(Now, s) /\ log[s.snap].routes = Now.routes /\ H \subseteq s.left
        BY <1>0, <1>3, OnIt DEF Course, StaticCourse
    <2>2. r \in Candidates(Now.routes, s.position)
        BY <1>2, <2>1 DEF Recent, StaticPart
    <2>3. pattern = Now.routes[r].pattern
        BY <1>0, <1>3
    <2> QED
        BY <1>2, <2>1, <2>2, <2>3 DEF Hits
<1> HIDE DEF r, H
<1>4. CASE s.number \in pattern
    <2> DEFINE new == [s EXCEPT !.pc = "build", !.trunk = Row(q).trunk]
    <2>1. query' = [query EXCEPT ![q] = new]
        BY <1>0, <1>4 DEF Judge, Become
    <2>2. /\ new.pc = "build" /\ new.trunk = Row(q).trunk /\ new.position = s.position
          /\ new.number = s.number /\ new.quiet = s.quiet
        BY <1>2 DEF Asked
    <2> HIDE DEF new
    <2>3. ASSUME CacheCurrent, PatternsKept, s.quiet PROVE Course(Now, new)
        <3>1. r \in H /\ H \subseteq s.left /\ Row(q) = Now.routes[r] /\ StaticCourse(Now, s)
            BY <1>3, <1>4, <2>3
        <3>2. H \in SUBSET Nat
            BY <1>2, <3>1, RoutesAssumption DEF Asked
        <3>3. Least(H) = r
            BY <1>2, <3>1, <3>2, LeastIsOne
        <3>4. StaticCourse(Now, new)
            BY <1>0, <2>2, <3>1, <3>3 DEF StaticCourse, H
        <3>5. DynamicCourse(Now, new) /\ Answered(Now, new)
            BY <2>2 DEF DynamicCourse, Answered
        <3> QED
            BY <3>4, <3>5 DEF Course
    <2> QED
        BY <1>1, <2>1, <2>2, <2>3, CourseOfOthers
<1>5. CASE s.number \notin pattern
    <2> DEFINE new == [s EXCEPT !.pc = "match", !.left = @ \ {r}]
    <2>1. query' = [query EXCEPT ![q] = new]
        BY <1>0, <1>5 DEF Judge, Become, r
    <2>2. /\ new.pc = "match" /\ new.left = s.left \ {r} /\ new.position = s.position
          /\ new.number = s.number /\ new.quiet = s.quiet /\ new.snap = s.snap
          /\ new.found = s.found /\ new.sell = s.sell
        BY <1>2 DEF Asked
    <2> HIDE DEF new
    <2>3. ASSUME CacheCurrent, PatternsKept, s.quiet PROVE Course(Now, new)
        <3>1. r \notin H /\ H \subseteq s.left /\ StaticCourse(Now, s)
            BY <1>3, <1>5, <2>3
        <3>2. StaticCourse(Now, new)
            BY <1>0, <2>2, <3>1 DEF StaticCourse, H
        <3>3. DynamicCourse(Now, new) /\ Answered(Now, new)
            BY <2>2 DEF DynamicCourse, Answered
        <3> QED
            BY <3>2, <3>3 DEF Course
    <2> QED
        BY <1>1, <2>1, <2>2, <2>3, CourseOfOthers
<1> QED
    BY <1>4, <1>5

(* Another pc, and nothing else.                                           *)
LEMMA CoursePc ==
    ASSUME LcrInv, OnCourse, NEW q \in Queries, NEW pc,
           query' = [query EXCEPT ![q] = [query[q] EXCEPT !.pc = pc]],
           UNCHANGED <<log, rates, tables>>,
           NEW s, s = query[q],
           pc \in {"compile", "client", "none", "static", "dangling", "sellDb", "costDb", "error"},
           CacheCurrent /\ PatternsKept /\ s.quiet /\ Course(Now, s) =>
             /\ pc = "compile" => s.pc = "match"
             /\ pc = "client" => NothingBefore(Now, s.number) /\ s.found = {} /\ s.sell = None
             /\ pc = "none" => <<"none">> = Decision(Now, s.number)
             /\ pc \in {"static", "dangling"} => <<pc, s.trunk>> = Decision(Now, s.number)
             /\ pc = "sellDb" => s.pc = "sell"
             /\ pc = "costDb" => s.pc = "cost"
    PROVE  OnCourse'
<1> DEFINE new == [s EXCEPT !.pc = pc]
<1>1. /\ new.pc = pc /\ new.position = s.position /\ new.number = s.number
      /\ new.quiet = s.quiet /\ new.snap = s.snap /\ new.left = s.left /\ new.found = s.found
      /\ new.sell = s.sell /\ new.trunk = s.trunk /\ new.deck = s.deck /\ new.todo = s.todo
    BY DEF LcrInv, Asked
<1>2. query' = [query EXCEPT ![q] = new]
    OBVIOUS
<1> HIDE DEF new
<1>3. ASSUME CacheCurrent, PatternsKept, s.quiet PROVE Course(Now, new)
    <2>1. Course(Now, s)
        BY <1>3, OnIt
    <2>2. StaticCourse(Now, new)
        BY <1>1, <1>3, <2>1 DEF Course, StaticCourse
    <2>3. DynamicCourse(Now, new)
        BY <1>1, <1>3, <2>1 DEF Course, DynamicCourse
    <2>4. Answered(Now, new)
        BY <1>1, <1>3, <2>1 DEF Answered
    <2> QED
        BY <2>2, <2>3, <2>4 DEF Course
<1>4. CacheCurrent /\ PatternsKept /\ new.quiet => Course(Now, new)
    BY <1>1, <1>3
<1> QED
    BY <1>2, <1>4, CourseOfOthers

LEMMA CourseLookUp == ASSUME LcrInv, OnCourse, NEW q \in Queries, LookUp(q) PROVE OnCourse'
<1>1. query[q].pc = "match" /\ query[q].left # {}
    BY DEF LookUp
<1>2. First(q) \in Routes
    BY <1>1, FirstIs
<1>3. CASE patterns[First(q)] # None
    <2>1. PatternsKept => patterns[First(q)] = Now.routes[First(q)].pattern
        BY <1>2, <1>3 DEF LcrInv, PatternsOK, PatternsKept
    <2> QED
        BY <1>1, <1>3, <2>1, CourseJudge DEF LookUp
<1>4. CASE patterns[First(q)] = None
    <2>1. /\ query' = [query EXCEPT ![q] = [query[q] EXCEPT !.pc = "compile"]]
          /\ UNCHANGED <<log, rates, tables>>
        BY <1>4 DEF LookUp, Become, cacheVars
    <2> QED
        BY <1>1, <2>1, CoursePc
<1> QED
    BY <1>3, <1>4

LEMMA CourseCompile == ASSUME LcrInv, OnCourse, NEW q \in Queries, Compile(q) PROVE OnCourse'
<1>1. query[q].pc = "compile" /\ query[q].left # {} /\ Judge(q, Row(q).pattern)
    BY DEF Compile, LcrInv, Recent, StaticPart
<1>2. First(q) \in Routes /\ query[q].snap \in Versions
    BY <1>1, FirstIs
<1>3. PatternsKept => Row(q).pattern = Now.routes[First(q)].pattern
    BY <1>2 DEF PatternsKept, Row
<1> QED
    BY <1>1, <1>3, CourseJudge

LEMMA CourseNoMatch == ASSUME LcrInv, OnCourse, NEW q \in Queries, NoMatch(q) PROVE OnCourse'
<1> DEFINE pc == IF query[q].position = "BEFORE" THEN "client" ELSE "none"
<1>1. PICK s : s = query[q]
    OBVIOUS
<1>2. /\ s.pc = "match" /\ s.left = {} /\ UNCHANGED <<log, rates, tables>>
      /\ query' = [query EXCEPT ![q] = [query[q] EXCEPT !.pc = pc]]
      /\ s.position \in {"BEFORE", "AFTER"}
    BY <1>1 DEF NoMatch, Become, cacheVars, LcrInv, Asked
<1>3. Course(Now, s) => Hits(Now, s.position, s.number) = {}
    BY <1>2 DEF Course, StaticCourse
<1>4. CASE s.position = "BEFORE"
    <2>1. pc = "client"
        BY <1>1, <1>4
    <2>2. Course(Now, s) => NothingBefore(Now, s.number) /\ s.found = {} /\ s.sell = None
        BY <1>2, <1>3, <1>4 DEF Course, StaticCourse, NothingBefore
    <2> HIDE DEF pc
    <2> QED
        BY <1>1, <1>2, <2>1, <2>2, CoursePc
<1>5. CASE s.position = "AFTER"
    <2>1. pc = "none"
        BY <1>1, <1>5
    <2>2. Course(Now, s) => <<"none">> = Decision(Now, s.number)
        BY <1>2, <1>3, <1>5 DEF Course, StaticCourse, NothingBefore, Decision
    <2> HIDE DEF pc
    <2> QED
        BY <1>1, <1>2, <2>1, <2>2, CoursePc
<1> QED
    BY <1>2, <1>4, <1>5

LEMMA CourseBuild == ASSUME LcrInv, OnCourse, NEW q \in Queries, BuildStatic(q) PROVE OnCourse'
<1> DEFINE pc == IF query[q].trunk \in Cached("trunks").trunks THEN "static" ELSE "dangling"
<1>1. PICK s : s = query[q]
    OBVIOUS
<1>2. /\ s.pc = "build" /\ UNCHANGED <<log, rates, tables>>
      /\ query' = [query EXCEPT ![q] = [query[q] EXCEPT !.pc = pc]]
      /\ s.position \in {"BEFORE", "AFTER"}
    BY <1>1 DEF BuildStatic, Become, cacheVars, LcrInv, Asked
<1>3. CacheCurrent => pc = IF s.trunk \in Now.trunks THEN "static" ELSE "dangling"
    BY <1>1 DEF CacheCurrent
<1>4. pc \in {"static", "dangling"}
    OBVIOUS
<1> HIDE DEF pc
<1>5. ASSUME CacheCurrent, Course(Now, s) PROVE <<pc, s.trunk>> = Decision(Now, s.number)
    <2> DEFINE H == Hits(Now, s.position, s.number)
    <2>1. H # {} /\ s.trunk = Now.routes[Least(H)].trunk
        BY <1>2, <1>5 DEF Course, StaticCourse
    <2>2. StaticAnswer(Now, H) = <<pc, s.trunk>>
        BY <1>3, <1>5, <2>1 DEF StaticAnswer
    <2>3. s.position = "AFTER" => NothingBefore(Now, s.number) /\ RatedIn(Now, s.number) = {}
        BY <1>2, <1>5 DEF Course, StaticCourse
    <2> QED
        BY <1>2, <2>1, <2>2, <2>3 DEF Decision, NothingBefore
<1> QED
    BY <1>1, <1>2, <1>4, <1>5, CoursePc

LEMMA CourseFail == ASSUME LcrInv, OnCourse, NEW q \in Queries, FailQuery(q) PROVE OnCourse'
<1>1. /\ query' = [query EXCEPT ![q] = [query[q] EXCEPT !.pc = "error"]]
      /\ UNCHANGED <<log, rates, tables>>
    BY DEF FailQuery, Become, cacheVars
<1> QED
    BY <1>1, CoursePc

LEMMA CourseChooseClient ==
    ASSUME LcrInv, OnCourse, NEW q \in Queries, ChooseClient(q)
    PROVE  OnCourse'
<1>1. PICK s : s = query[q]
    OBVIOUS
<1> DEFINE pc == IF Now.client = None THEN "collect" ELSE "sell"
           new == [s EXCEPT !.deck = Now.client, !.pc = pc]
<1>2. /\ s.pc = "client" /\ UNCHANGED <<log, rates, tables>> /\ query' = [query EXCEPT ![q] = new]
      /\ s \in Asked
    BY <1>1 DEF ChooseClient, Become, cacheVars, LcrInv
<1>3. /\ pc = "collect" => Now.client = None
      /\ pc = "sell" => Now.client # None
      /\ pc \in {"collect", "sell"}
    OBVIOUS
<1> HIDE DEF pc
<1>4. /\ new.pc = pc /\ new.deck = Now.client /\ new.number = s.number /\ new.found = s.found
      /\ new.sell = s.sell /\ new.quiet = s.quiet
    BY <1>2 DEF Asked
<1> HIDE DEF new
<1>5. ASSUME CacheCurrent, PatternsKept, new.quiet PROVE Course(Now, new)
    <2>1. Course(Now, s)
        BY <1>1, <1>4, <1>5, OnIt
    <2>2. NothingBefore(Now, s.number) /\ s.found = {} /\ s.sell = None
        BY <1>2, <2>1 DEF Course, DynamicCourse
    <2>3. DynamicCourse(Now, new)
        BY <1>3, <1>4, <2>2 DEF DynamicCourse, SellIn
    <2>4. StaticCourse(Now, new) /\ Answered(Now, new)
        BY <1>3, <1>4 DEF StaticCourse, Answered
    <2> QED
        BY <2>3, <2>4 DEF Course
<1> QED
    BY <1>2, <1>5, CourseOfOthers

(* The rate of a deck in force, as the cache has it if it has it.          *)
LEMMA PriceNow ==
    ASSUME CacheCurrent, NEW d \in Now.active, NEW n, InCache(d, n) # None
    PROVE  InCache(d, n) = Now.rate[d][n]
BY DEF CacheCurrent, InCache

LEMMA CourseSold ==
    ASSUME LcrInv, OnCourse, NEW q \in Queries, query[q].pc \in {"sell", "sellDb"}, NEW price,
           Become(q, Sold(q, price)),
           CacheCurrent => \A d \in Now.active : d = query[q].deck =>
                               price = Now.rate[d][query[q].number]
    PROVE  OnCourse'
<1>1. PICK s : s = query[q]
    OBVIOUS
<1> DEFINE sell == IF price = None THEN None ELSE [deck |-> s.deck, price |-> price]
           new == [s EXCEPT !.pc = "collect", !.sell = sell]
<1>2. /\ UNCHANGED <<log, rates, tables>> /\ query' = [query EXCEPT ![q] = new] /\ s \in Asked
      /\ s.pc \in {"sell", "sellDb"}
    BY <1>1 DEF Become, Sold, cacheVars, LcrInv
<1>3. ASSUME CacheCurrent, PatternsKept, s.quiet
      PROVE  NothingBefore(Now, s.number) /\ s.found = {} /\ sell = SellIn(Now, s.number)
    <2>1. Course(Now, s) /\ Now \in Configuration
        BY <1>1, <1>3, OnIt
    <2>2. /\ NothingBefore(Now, s.number) /\ s.found = {}
          /\ Now.client # None /\ s.deck = Now.client
        BY <1>2, <2>1 DEF Course, DynamicCourse
    <2>3. Now.client \in Now.active
        BY <2>1, <2>2, Parts
    <2>4. price = Now.rate[Now.client][s.number]
        BY <1>1, <1>3, <2>2, <2>3
    <2> QED
        BY <2>2, <2>4 DEF SellIn
<1> HIDE DEF sell
<1>4. /\ new.pc = "collect" /\ new.number = s.number /\ new.found = s.found
      /\ new.sell = sell /\ new.quiet = s.quiet
    BY <1>2 DEF Asked
<1> HIDE DEF new
<1>5. ASSUME CacheCurrent, PatternsKept, new.quiet PROVE Course(Now, new)
    <2>1. NothingBefore(Now, s.number) /\ s.found = {} /\ sell = SellIn(Now, s.number)
        BY <1>3, <1>4, <1>5
    <2>2. DynamicCourse(Now, new)
        BY <1>4, <2>1 DEF DynamicCourse
    <2>3. StaticCourse(Now, new) /\ Answered(Now, new)
        BY <1>4 DEF StaticCourse, Answered
    <2> QED
        BY <2>2, <2>3 DEF Course
<1> QED
    BY <1>2, <1>5, CourseOfOthers

LEMMA CourseReadSell == ASSUME LcrInv, OnCourse, NEW q \in Queries, ReadSell(q) PROVE OnCourse'
<1> DEFINE price == InCache(query[q].deck, query[q].number)
<1>1. query[q].pc = "sell"
    BY DEF ReadSell
<1>2. CASE price # None
    <2>1. Become(q, Sold(q, price))
        BY <1>2 DEF ReadSell
    <2>2. CacheCurrent => \A d \in Now.active : d = query[q].deck =>
                              price = Now.rate[d][query[q].number]
        BY <1>2, PriceNow
    <2> HIDE DEF price
    <2> QED
        BY <1>1, <2>1, <2>2, CourseSold
<1>3. CASE price = None
    <2>1. /\ query' = [query EXCEPT ![q] = [query[q] EXCEPT !.pc = "sellDb"]]
          /\ UNCHANGED <<log, rates, tables>>
        BY <1>3 DEF ReadSell, Become, cacheVars
    <2> QED
        BY <1>1, <2>1, CoursePc
<1> QED
    BY <1>2, <1>3

LEMMA CourseLoadSell == ASSUME LcrInv, OnCourse, NEW q \in Queries, LoadSell(q) PROVE OnCourse'
BY CourseSold DEF LoadSell

LEMMA CourseCollect == ASSUME LcrInv, OnCourse, NEW q \in Queries, Collect(q) PROVE OnCourse'
<1>1. PICK s : s = query[q]
    OBVIOUS
<1> DEFINE new == [s EXCEPT !.pc = "trunks", !.todo = Cached("trunks").trunks]
<1>2. /\ s.pc = "collect" /\ UNCHANGED <<log, rates, tables>>
      /\ query' = [query EXCEPT ![q] = new] /\ s \in Asked
    BY <1>1 DEF Collect, Become, cacheVars, LcrInv
<1>3. /\ new.pc = "trunks" /\ new.todo = Cached("trunks").trunks /\ new.number = s.number
      /\ new.found = s.found /\ new.sell = s.sell /\ new.quiet = s.quiet
    BY <1>2 DEF Asked
<1> HIDE DEF new
<1>4. ASSUME CacheCurrent, PatternsKept, new.quiet PROVE Course(Now, new)
    <2>1. Course(Now, s)
        BY <1>1, <1>3, <1>4, OnIt
    <2>2. NothingBefore(Now, s.number) /\ s.found = {} /\ s.sell = SellIn(Now, s.number)
        BY <1>2, <2>1 DEF Course, DynamicCourse
    <2>3. new.todo = Now.trunks
        BY <1>3, <1>4 DEF CacheCurrent
    <2>4. RatedIn(Now, s.number) \ Now.trunks = {}
        BY DEF RatedIn
    <2>5. Offers(Now, s.number, RatedIn(Now, s.number) \ Now.trunks) = {}
        BY <2>4 DEF Offers
    <2>6. DynamicCourse(Now, new)
        BY <1>3, <2>2, <2>3, <2>5 DEF DynamicCourse
    <2>7. StaticCourse(Now, new) /\ Answered(Now, new)
        BY <1>3 DEF StaticCourse, Answered
    <2> QED
        BY <2>6, <2>7 DEF Course
<1> QED
    BY <1>2, <1>4, CourseOfOthers

LEMMA CourseChooseVendor ==
    ASSUME LcrInv, OnCourse, NEW q \in Queries, NEW t \in Trunks, ChooseVendor(q, t)
    PROVE  OnCourse'
<1>1. PICK s : s = query[q]
    OBVIOUS
<1>2. s.pc = "trunks" /\ t \in s.todo /\ UNCHANGED <<log, rates, tables>> /\ s \in Asked
    BY <1>1 DEF ChooseVendor, Become, cacheVars, LcrInv
<1>3. ASSUME CacheCurrent, PatternsKept, s.quiet
      PROVE  /\ NothingBefore(Now, s.number) /\ s.todo \subseteq Now.trunks
             /\ s.found = Offers(Now, s.number, RatedIn(Now, s.number) \ s.todo)
             /\ s.sell = SellIn(Now, s.number)
    <2>1. Course(Now, s)
        BY <1>1, <1>3, OnIt
    <2> QED
        BY <1>2, <2>1 DEF Course, DynamicCourse
<1>4. CASE Now.vendor[t] = None
    <2> DEFINE new == [s EXCEPT !.todo = @ \ {t}]
    <2>1. query' = [query EXCEPT ![q] = new]
        BY <1>1, <1>4 DEF ChooseVendor, Become
    <2>2. /\ new.pc = "trunks" /\ new.todo = s.todo \ {t} /\ new.number = s.number
          /\ new.found = s.found /\ new.sell = s.sell /\ new.quiet = s.quiet
        BY <1>2 DEF Asked
    <2> HIDE DEF new
    <2>3. ASSUME CacheCurrent, PatternsKept, new.quiet PROVE Course(Now, new)
        <3>1. t \notin RatedIn(Now, s.number)
            BY <1>4 DEF RatedIn
        <3>2. RatedIn(Now, s.number) \ new.todo = RatedIn(Now, s.number) \ s.todo
            BY <2>2, <3>1
        <3>3. DynamicCourse(Now, new)
            BY <1>3, <2>2, <2>3, <3>2 DEF DynamicCourse
        <3>4. StaticCourse(Now, new) /\ Answered(Now, new)
            BY <2>2 DEF StaticCourse, Answered
        <3> QED
            BY <3>3, <3>4 DEF Course
    <2> QED
        BY <1>2, <2>1, <2>3, CourseOfOthers
<1>5. CASE Now.vendor[t] # None
    <2> DEFINE new == [s EXCEPT !.pc = "cost", !.trunk = t, !.deck = Now.vendor[t]]
    <2>1. query' = [query EXCEPT ![q] = new]
        BY <1>1, <1>5 DEF ChooseVendor, Become
    <2>2. /\ new.pc = "cost" /\ new.todo = s.todo /\ new.number = s.number
          /\ new.found = s.found /\ new.sell = s.sell /\ new.quiet = s.quiet
          /\ new.trunk = t /\ new.deck = Now.vendor[t]
        BY <1>2 DEF Asked
    <2> HIDE DEF new
    <2>3. ASSUME CacheCurrent, PatternsKept, new.quiet PROVE Course(Now, new)
        <3>1. DynamicCourse(Now, new)
            BY <1>3, <1>5, <2>2, <2>3 DEF DynamicCourse
        <3>2. StaticCourse(Now, new) /\ Answered(Now, new)
            BY <2>2 DEF StaticCourse, Answered
        <3> QED
            BY <3>1, <3>2 DEF Course
    <2> QED
        BY <1>2, <2>1, <2>3, CourseOfOthers
<1> QED
    BY <1>4, <1>5

LEMMA CourseQuoted ==
    ASSUME LcrInv, OnCourse, NEW q \in Queries, query[q].pc \in {"cost", "costDb"}, NEW price,
           Become(q, Quoted(q, price)),
           CacheCurrent => \A d \in Now.active : d = query[q].deck =>
                               price = Now.rate[d][query[q].number]
    PROVE  OnCourse'
<1>1. PICK s : s = query[q]
    OBVIOUS
<1> DEFINE t == s.trunk
           n == s.number
           offer == [trunk |-> t, deck |-> s.deck, cost |-> price]
           found == IF price # None /\ Earns(s.sell, price) THEN s.found \cup {offer} ELSE s.found
           new == [s EXCEPT !.pc = "trunks", !.todo = @ \ {t}, !.found = found]
           rated == RatedIn(Now, n)
<1>2. /\ UNCHANGED <<log, rates, tables>> /\ query' = [query EXCEPT ![q] = new] /\ s \in Asked
      /\ s.pc \in {"cost", "costDb"} /\ t \in s.todo
    BY <1>1 DEF Become, Quoted, cacheVars, LcrInv, Recent, DynamicPart
<1>3. ASSUME CacheCurrent, PatternsKept, s.quiet
      PROVE  /\ NothingBefore(Now, n) /\ s.todo \subseteq Now.trunks /\ s.sell = SellIn(Now, n)
             /\ found = Offers(Now, n, rated \ (s.todo \ {t}))
    <2>1. Course(Now, s) /\ Now \in Configuration
        BY <1>1, <1>3, OnIt
    <2>2. /\ NothingBefore(Now, n) /\ s.todo \subseteq Now.trunks /\ s.sell = SellIn(Now, n)
          /\ s.found = Offers(Now, n, rated \ s.todo)
          /\ Now.vendor[t] # None /\ s.deck = Now.vendor[t]
        BY <1>2, <2>1 DEF Course, DynamicCourse
    <2>3. s.deck \in Now.active
        <3>1. t \in Trunks
            BY <1>2 DEF Asked
        <3> QED
            BY <2>1, <2>2, <3>1, Parts
    <2>4. price = Now.rate[s.deck][n]
        BY <1>1, <1>3, <2>3
    <2>5. t \in rated <=> price # None /\ Earns(s.sell, price)
        BY <1>2, <2>2, <2>4 DEF RatedIn
    <2>6. offer = [trunk |-> t, deck |-> Now.vendor[t], cost |-> Now.rate[Now.vendor[t]][n]]
        BY <2>2, <2>4
    <2> HIDE DEF offer, rated
    <2>7. CASE t \in rated
        <3>1. found = s.found \cup {offer}
            BY <2>5, <2>7
        <3>2. rated \ (s.todo \ {t}) = (rated \ s.todo) \cup {t}
            BY <2>7
        <3>3. Offers(Now, n, (rated \ s.todo) \cup {t}) = Offers(Now, n, rated \ s.todo) \cup {offer}
            BY <2>6 DEF Offers
        <3> QED
            BY <2>2, <3>1, <3>2, <3>3
    <2>8. CASE t \notin rated
        <3>1. found = s.found
            BY <2>5, <2>8
        <3>2. rated \ (s.todo \ {t}) = rated \ s.todo
            BY <2>8
        <3> QED
            BY <2>2, <3>1, <3>2
    <2> QED
        BY <2>2, <2>7, <2>8
<1> HIDE DEF found
<1>4. /\ new.pc = "trunks" /\ new.number = n /\ new.found = found /\ new.todo = s.todo \ {t}
      /\ new.sell = s.sell /\ new.quiet = s.quiet
    BY <1>2 DEF Asked
<1> HIDE DEF new, rated
<1>5. ASSUME CacheCurrent, PatternsKept, new.quiet PROVE Course(Now, new)
    <2>1. DynamicCourse(Now, new)
        BY <1>3, <1>4, <1>5 DEF DynamicCourse, rated
    <2>2. StaticCourse(Now, new) /\ Answered(Now, new)
        BY <1>4 DEF StaticCourse, Answered
    <2> QED
        BY <2>1, <2>2 DEF Course
<1> QED
    BY <1>2, <1>5, CourseOfOthers

LEMMA CourseReadCost == ASSUME LcrInv, OnCourse, NEW q \in Queries, ReadCost(q) PROVE OnCourse'
<1> DEFINE price == InCache(query[q].deck, query[q].number)
<1>1. query[q].pc = "cost"
    BY DEF ReadCost
<1>2. CASE price # None
    <2>1. Become(q, Quoted(q, price))
        BY <1>2 DEF ReadCost
    <2>2. CacheCurrent => \A d \in Now.active : d = query[q].deck =>
                              price = Now.rate[d][query[q].number]
        BY <1>2, PriceNow
    <2> HIDE DEF price
    <2> QED
        BY <1>1, <2>1, <2>2, CourseQuoted
<1>3. CASE price = None
    <2>1. /\ query' = [query EXCEPT ![q] = [query[q] EXCEPT !.pc = "costDb"]]
          /\ UNCHANGED <<log, rates, tables>>
        BY <1>3 DEF ReadCost, Become, cacheVars
    <2> QED
        BY <1>1, <2>1, CoursePc
<1> QED
    BY <1>2, <1>3

LEMMA CourseLoadCost == ASSUME LcrInv, OnCourse, NEW q \in Queries, LoadCost(q) PROVE OnCourse'
BY CourseQuoted DEF LoadCost

LEMMA CourseEndLoop == ASSUME LcrInv, OnCourse, NEW q \in Queries, EndLoop(q) PROVE OnCourse'
<1>1. PICK s : s = query[q]
    OBVIOUS
<1>2. s.pc = "trunks" /\ s.todo = {} /\ UNCHANGED <<log, rates, tables>> /\ s \in Asked
    BY <1>1 DEF EndLoop, Become, cacheVars, LcrInv
<1>3. ASSUME CacheCurrent, PatternsKept, s.quiet
      PROVE  /\ NothingBefore(Now, s.number) /\ s.sell = SellIn(Now, s.number)
             /\ s.found = Offers(Now, s.number, RatedIn(Now, s.number))
    <2>1. Course(Now, s)
        BY <1>1, <1>3, OnIt
    <2>2. RatedIn(Now, s.number) \ s.todo = RatedIn(Now, s.number)
        BY <1>2
    <2> QED
        BY <1>2, <2>1, <2>2 DEF Course, DynamicCourse
<1>4. Offers(Now, s.number, RatedIn(Now, s.number)) = {} <=> RatedIn(Now, s.number) = {}
    BY DEF Offers
<1>5. CASE s.found = {}
    <2> DEFINE new == Check(s, "AFTER")
    <2>1. query' = [query EXCEPT ![q] = new] /\ new.quiet = s.quiet
        BY <1>1, <1>2, <1>5 DEF EndLoop, Become, Check, Asked
    <2> HIDE DEF new
    <2>2. ASSUME CacheCurrent, PatternsKept, new.quiet PROVE Course(Now, new)
        <3>1. NothingBefore(Now, s.number) /\ RatedIn(Now, s.number) = {}
            BY <1>3, <1>4, <1>5, <2>1, <2>2
        <3> QED
            BY <1>2, <2>2, <3>1, CourseCheck DEF new
    <2> QED
        BY <1>2, <2>1, <2>2, CourseOfOthers
<1>6. CASE s.found # {}
    <2> DEFINE new == [s EXCEPT !.pc = "routed", !.trunk = None, !.deck = None]
    <2>1. query' = [query EXCEPT ![q] = new]
        BY <1>1, <1>6 DEF EndLoop, Become
    <2>2. /\ new.pc = "routed" /\ new.number = s.number /\ new.found = s.found
          /\ new.sell = s.sell /\ new.quiet = s.quiet
        BY <1>2 DEF Asked
    <2> HIDE DEF new
    <2>3. ASSUME CacheCurrent, PatternsKept, new.quiet PROVE Course(Now, new)
        <3>1. <<"routed", s.found, s.sell>> = Decision(Now, s.number)
            BY <1>3, <1>4, <1>6, <2>2, <2>3 DEF Decision, NothingBefore
        <3>2. Answered(Now, new) /\ StaticCourse(Now, new) /\ DynamicCourse(Now, new)
            BY <2>2, <3>1 DEF Answered, StaticCourse, DynamicCourse
        <3> QED
            BY <3>2 DEF Course
    <2> QED
        BY <1>2, <2>1, <2>3, CourseOfOthers
<1> QED
    BY <1>5, <1>6

LEMMA CourseKept == LcrInv /\ OnCourse /\ [Next]_vars => OnCourse'
<1> SUFFICES ASSUME LcrInv, OnCourse, [Next]_vars PROVE OnCourse'
    OBVIOUS
<1>1. CASE Around
    BY <1>1, CourseAround
<1>2. ASSUME NEW q \in Queries, Query(q) PROVE OnCourse'
    BY <1>2, CourseAsk, CourseLookUp, CourseCompile, CourseNoMatch, CourseBuild,
       CourseChooseClient, CourseReadSell, CourseLoadSell, CourseCollect, CourseChooseVendor,
       CourseReadCost, CourseLoadCost, CourseEndLoop, CourseFail DEF Query
<1>3. CASE UNCHANGED vars
    BY <1>3 DEF vars, cacheVars, OnCourse, Now, CacheCurrent, Cached, PatternsKept, Versions,
       Course, StaticCourse
<1> QED
    BY <1>1, <1>2, <1>3 DEF Next

(* Step by step, with reads of the cache and of the database at different  *)
(* moments and any number of queries that compile patterns at the same     *)
(* time, find_routes comes to what the tables say while they stay.         *)
THEOREM QuietQueriesDecide == Spec => []QuietQueryDecides
<1>1. Init => OnCourse
    BY DEF Init, OnCourse, NoQuery
<1>2. OnCourse => QuietQueryDecides
    <2> SUFFICES ASSUME OnCourse, NEW q \in Queries, Undisturbed(q), PatternsKept
                 PROVE  Answer(q) = Decision(Now, query[q].number)
        BY DEF QuietQueryDecides
    <2>1. Answered(Now, query[q])
        BY DEF OnCourse, Undisturbed, Course
    <2>2. query[q].pc \in {"routed", "static", "dangling", "none"}
        BY DEF Undisturbed, Answers
    <2> QED
        BY <2>1, <2>2 DEF Answer, Answered
<1> QED
    BY <1>1, <1>2, CourseKept, InvAlways, PTL DEF Spec
=============================================================================
