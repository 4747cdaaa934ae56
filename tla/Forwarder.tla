------------------------------- MODULE Forwarder -------------------------------
(***************************************************************************)
(* What the name server promises its clients, with no table, cache, message *)
(* id or connection in sight.  A request is idle until it arrives; then it  *)
(* is pending until it is answered, once, with the id the client chose, or  *)
(* dropped without an answer.  As long as no two exchanges have ever been   *)
(* given the same 16-bit id (mixed is FALSE) the answer is about the name   *)
(* the client asked for.  The server may go down, and then does nothing.    *)
(***************************************************************************)
EXTENDS Naturals

CONSTANTS
    Requests,     \* the requests clients send
    Names,        \* domain names
    ReqId,        \* the id each request carries
    ReqName       \* the name each request asks for

VARIABLES
    status,       \* status[r] \in {"idle", "pending", "answered", "dropped"}
    answers,      \* answers[r]: the answers r's client was sent, in order
    mixed,        \* two exchanges have shared an id
    down          \* the server has stopped

vars == <<status, answers, mixed, down>>

Pending == {r \in Requests : status[r] = "pending"}

Init ==
    /\ status = [r \in Requests |-> "idle"]
    /\ answers = [r \in Requests |-> << >>]
    /\ mixed = FALSE
    /\ down = FALSE

\* Once mixed, always mixed.
MayMix == mixed' \in {mixed, TRUE}

\* A request arrives.  It may be refused on the spot, and handling it may
\* give up another one.
Receive(r) ==
    /\ status[r] = "idle"
    /\ \E D \in SUBSET (Pending \cup {r}) :
          status' = [q \in Requests |-> IF q \in D THEN "dropped"
                                        ELSE IF q = r THEN "pending"
                                        ELSE status[q]]
    /\ MayMix
    /\ UNCHANGED <<answers, down>>

\* Some pending requests, possibly none, are given up.
Drop ==
    /\ \E D \in SUBSET Pending :
          status' = [q \in Requests |-> IF q \in D THEN "dropped"
                                        ELSE status[q]]
    /\ MayMix
    /\ UNCHANGED <<answers, down>>

Answer(r) ==
    /\ status[r] = "pending"
    /\ status' = [status EXCEPT ![r] = "answered"]
    /\ \E n \in Names :
          /\ mixed \/ n = ReqName[r]
          /\ answers' = [answers EXCEPT ![r] = << [id |-> ReqId[r], name |-> n] >>]
    /\ UNCHANGED <<mixed, down>>

GoDown ==
    /\ down' = TRUE
    /\ UNCHANGED <<status, answers, mixed>>

Next == /\ ~down
        /\ \/ \E r \in Requests : Receive(r) \/ Answer(r)
           \/ Drop
           \/ GoDown

Spec == Init /\ [][Next]_vars
===============================================================================
