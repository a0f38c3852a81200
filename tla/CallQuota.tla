------------------------------- MODULE CallQuota -------------------------------
(***************************************************************************)
(* What an admission control with separate check and count promises: a     *)
(* thread is granted a call while fewer than Max are counted, and counts   *)
(* it some time later, or not at all.  Where the end of a call may be      *)
(* reported that was never counted, each such miscount lets one call more  *)
(* through.                                                                *)
(***************************************************************************)
EXTENDS Integers

CONSTANTS
    Threads,   \* a finite set
    Max        \* a natural number

VARIABLES
    counted,   \* the calls counted
    granted,   \* the threads that were granted a call they have not counted
    credit     \* the ends reported of calls that were not counted

quotaVars == <<counted, granted, credit>>

QuotaInit == counted = 0 /\ granted = {} /\ credit = 0

Grant(t) ==
    /\ t \notin granted
    /\ counted < Max + credit
    /\ granted' = granted \cup {t}
    /\ UNCHANGED <<counted, credit>>

Count(t) ==
    /\ t \in granted
    /\ granted' = granted \ {t}
    /\ counted' = counted + 1
    /\ UNCHANGED credit

Withdraw(t) ==
    /\ t \in granted
    /\ granted' = granted \ {t}
    /\ UNCHANGED <<counted, credit>>

Uncount ==
    /\ counted > 0
    /\ counted' = counted - 1
    /\ UNCHANGED <<granted, credit>>

Miscount ==
    /\ credit' = credit + 1
    /\ UNCHANGED <<counted, granted>>

QuotaNext == Uncount \/ Miscount \/ \E t \in Threads : Grant(t) \/ Count(t) \/ Withdraw(t)

QuotaSpec == QuotaInit /\ [][QuotaNext]_quotaVars

\* A count that is uncounted only when it is above zero stays a natural number.
QuotaTypeOK == counted \in Nat /\ granted \subseteq Threads /\ credit \in Nat
=============================================================================
