------------------------------- MODULE VerdictMap -------------------------------
(***************************************************************************)
(* What the cache of verdicts promises: a verdict is kept for exactly Ttl   *)
(* ticks from the moment it is recorded, no more and no less, and a verdict *)
(* already there is not recorded again.  Nothing is promised once broken.   *)
(***************************************************************************)
EXTENDS Naturals

CONSTANTS
    Names,
    Ttl           \* ticks a verdict lives

VARIABLES
    life,         \* ticks each name's verdict has left; 0 when there is none
    broken

vars == <<life, broken>>

Init == /\ life = [n \in Names |-> 0]
        /\ broken = FALSE

Insert(n) == /\ life[n] = 0
             /\ life' = [life EXCEPT ![n] = Ttl]

Tick == /\ \E n \in Names : life[n] > 0
        /\ life' = [n \in Names |-> IF life[n] > 0 THEN life[n] - 1 ELSE 0]

Next == \/ /\ ~broken /\ ~broken'
           /\ Tick \/ \E n \in Names : Insert(n)
        \/ /\ broken'
           /\ life' \in [Names -> 0 .. Ttl]

Spec == Init /\ [][Next]_vars
===============================================================================
