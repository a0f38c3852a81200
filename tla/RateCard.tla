-------------------------------- MODULE RateCard --------------------------------
(***************************************************************************)
(* What the loading of rate decks promises: every version that is loaded   *)
(* prices the times from its start on, whatever was to price them before,  *)
(* and the times before its start keep the version that prices them.  In   *)
(* the one second before the start the version that is replaced has ended  *)
(* already, so that an older one, or none, may price it.                   *)
(***************************************************************************)
EXTENDS Integers

CONSTANTS
    Times,   \* the times at which a call may be rated
    Dates    \* the effective dates of decks

VARIABLES
    versions,  \* how many versions have been loaded
    pricing    \* the version that prices each time, 0 for none

cardVars == <<versions, pricing>>

CardInit ==
    /\ versions = 0
    /\ pricing = [t \in Times |-> 0]

Load(from) ==
    /\ versions' = versions + 1
    /\ pricing' \in [Times -> 0..(versions + 1)]
    /\ \A t \in Times :
          /\ t >= from => pricing'[t] = versions + 1
          /\ t = from - 1 => pricing'[t] <= pricing[t]
          /\ t < from - 1 => pricing'[t] = pricing[t]

CardNext == \E from \in Dates : Load(from)

CardSpec == CardInit /\ [][CardNext]_cardVars
=============================================================================
