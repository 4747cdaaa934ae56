--------------------------------- MODULE Dialer ---------------------------------
(***************************************************************************)
(* What a caller of async_connect may count on: each call ends at most once,*)
(* made or failed, and made only when the far end has accepted it.  The last*)
(* is not promised for a call whose handshake came in pieces.               *)
(***************************************************************************)
CONSTANT Calls

VARIABLES
    status,       \* status[c] \in {"idle", "dialing", "made", "failed"}
    accepted,     \* the calls the far end has accepted
    split         \* the calls one of whose handshake messages came in pieces

vars == <<status, accepted, split>>

Init == /\ status = [c \in Calls |-> "idle"]
        /\ accepted = {}
        /\ split = {}

Dial(c) == /\ status[c] = "idle"
           /\ \E s \in {"dialing", "failed"} : status' = [status EXCEPT ![c] = s]
           /\ UNCHANGED <<accepted, split>>

\* Something happens on the way.
OnTheWay(c) == /\ status[c] = "dialing"
               /\ accepted' \in {accepted, accepted \cup {c}}
               /\ split' \in {split, split \cup {c}}
               /\ UNCHANGED status

End(c) == /\ status[c] = "dialing"
          /\ \/ status' = [status EXCEPT ![c] = "failed"]
             \/ /\ c \in accepted \cup split
                /\ status' = [status EXCEPT ![c] = "made"]
          /\ UNCHANGED <<accepted, split>>

Next == \E c \in Calls : Dial(c) \/ OnTheWay(c) \/ End(c)

Spec == Init /\ [][Next]_vars
===============================================================================
