------------------------------ MODULE AsyncConnect ------------------------------
(***************************************************************************)
(* Connections to server (async_connect.c), made directly or through a      *)
(* SOCKS5 proxy: a non-blocking connect, then for SOCKS5 a greeting and a   *)
(* request, each sent by one call of send and answered by one call of recv. *)
(* However a call ends, its callback is called and its context freed.       *)
(*                                                                          *)
(* The proxy and the network are the other side.  TCP gives bytes, not      *)
(* messages: an answer may arrive in pieces, and one recv takes what is     *)
(* there.  An answer to the greeting is <<5, method>>, one to the request   *)
(* <<5, reply, rest>>, where rest stands for the address that follows; only *)
(* the first two bytes of what recv found are ever looked at, and a byte    *)
(* that is missing reads as 0, because the buffer is cleared first.         *)
(***************************************************************************)
EXTENDS Naturals, Sequences

CONSTANTS
    Calls,        \* calls of async_connect
    Socks5,       \* its argument socks5 in each call
    NULL

\* What ctx->state can be, and what the loop can watch for.
States == {"connecting", "CLOSED", "HELLO_SENT", "HELLO_RCVD", "REQ_SENT"}
Watches == {"connect", "write", "read"}

ASSUME ConnectAssumption == /\ Socks5 \in [Calls -> BOOLEAN]
                            /\ NULL \notin States \cup Watches

VARIABLES
    state,        \* state[c]: ctx->state, "connecting" before it is set, or NULL
                  \*           when the call has no context
    watch,        \* watch[c]: what the loop watches for the call, or NULL
    fd,           \* fd[c]: its socket
    result,       \* result[c]: what its callback was given, in order
    crashed,      \* an assert has failed
    link,         \* link[c]: the TCP connection itself
    inbox,        \* inbox[c]: bytes that have arrived and were not read
    owed,         \* owed[c]: bytes of the proxy's answers still on the way
    willing,      \* the calls whose greeting the proxy has accepted
    split,        \* history: the calls one of whose answers came in pieces
    accepted      \* history: the calls whose far end said yes

ctxVars == <<state, watch, fd, result, crashed>>
netVars == <<link, inbox, owed, willing, split, accepted>>
vars == <<ctxVars, netVars>>

\* Answers of the proxy: yes and no.
Hello == {<<5, 0>>, <<5, 255>>}
Answer == {<<5, 0, 1>>, <<5, 1, 1>>}

-------------------------------------------------------------------------------
\* The call ends: its callback is called and its context freed.
Finish(c, res) ==
    /\ result' = [result EXCEPT ![c] = Append(@, res)]
    /\ state' = [state EXCEPT ![c] = NULL]

\* Mutant of Fail: the socket stays open.
FailLeaking(c) ==
    /\ watch' = [watch EXCEPT ![c] = NULL]
    /\ Finish(c, "failed")
    /\ UNCHANGED fd

Fail(c) ==
    /\ watch' = [watch EXCEPT ![c] = NULL]
    /\ fd' = [fd EXCEPT ![c] = "closed"]
    /\ Finish(c, "failed")

Made(c) ==
    /\ watch' = [watch EXCEPT ![c] = NULL]
    /\ Finish(c, "made")
    /\ UNCHANGED fd

\* Mutant of GoOn: the watcher is not started again.
GoOnDeaf(c, st, w) ==
    /\ state' = [state EXCEPT ![c] = st]
    /\ watch' = [watch EXCEPT ![c] = NULL]
    /\ UNCHANGED <<fd, result>>

\* The handshake goes on: next the loop watches for w.
GoOn(c, st, w) ==
    /\ state' = [state EXCEPT ![c] = st]
    /\ watch' = [watch EXCEPT ![c] = w]
    /\ UNCHANGED <<fd, result>>

\* async_connect: no memory, no socket or a connect refused at once fails the
\* call; otherwise the loop watches for the end of the connect.
AsyncConnect(c) ==
    /\ state[c] = NULL /\ result[c] = << >>
    /\ \/ /\ result' = [result EXCEPT ![c] = <<"failed">>]
          /\ UNCHANGED <<state, watch, fd, link>>
       \/ /\ state' = [state EXCEPT ![c] = "connecting"]
          /\ watch' = [watch EXCEPT ![c] = "connect"]
          /\ fd' = [fd EXCEPT ![c] = "open"]
          /\ link' = [link EXCEPT ![c] = "trying"]
          /\ UNCHANGED result
    /\ UNCHANGED <<crashed, inbox, owed, willing, split, accepted>>

\* connect_cb: getsockerror tells whether the connect has failed; it may also
\* tell that the connection has been reset since.
ConnectCb(c) ==
    /\ watch[c] = "connect" /\ link[c] # "trying"
    /\ \/ link[c] # "up" /\ Fail(c)
       \/ link[c] # "refused" /\ Socks5[c] /\ GoOn(c, "CLOSED", "write")
       \/ link[c] # "refused" /\ ~Socks5[c] /\ Made(c)
    /\ UNCHANGED <<crashed, netVars>>

\* Mutants of AfterSend: the greeting leaves the state as it was; the request
\* is taken for the end.
AfterSendSame(st) == IF st = "CLOSED" THEN "CLOSED" ELSE "REQ_SENT"
AfterSendEstab(st) == IF st = "CLOSED" THEN "HELLO_SENT" ELSE "ESTAB"

AfterSend(st) == IF st = "CLOSED" THEN "HELLO_SENT" ELSE "REQ_SENT"

\* The proxy gets the greeting or the request that call c sends in state st, and
\* will answer it yes or no; it answers no request after a no.
ProxyGets(c, st) ==
    \/ /\ link[c] = "up" /\ st = "CLOSED"
       /\ \E r \in Hello :
             /\ owed' = [owed EXCEPT ![c] = @ \o r]
             /\ willing' = IF r = <<5, 0>> THEN willing \cup {c} ELSE willing
       /\ UNCHANGED accepted
    \/ /\ link[c] = "up" /\ st = "HELLO_RCVD" /\ c \in willing
       /\ \E r \in Answer :
             /\ owed' = [owed EXCEPT ![c] = @ \o r]
             /\ accepted' = IF r = <<5, 0, 1>> THEN accepted \cup {c} ELSE accepted
       /\ UNCHANGED willing
    \/ /\ link[c] = "closed" \/ (st = "HELLO_RCVD" /\ c \notin willing)
       /\ UNCHANGED <<owed, willing, accepted>>

\* socks5_send_cb: the greeting or the request is sent, whole or not at all.
SendCb(c) ==
    /\ watch[c] = "write"
    /\ \/ /\ state[c] \notin {"CLOSED", "HELLO_RCVD"}
          /\ crashed' = TRUE
          /\ UNCHANGED <<state, watch, fd, result, owed, willing, accepted>>
       \/ /\ state[c] \in {"CLOSED", "HELLO_RCVD"}
          /\ \/ Fail(c) /\ UNCHANGED <<owed, willing, accepted>>
             \/ GoOn(c, AfterSend(state[c]), "read") /\ ProxyGets(c, state[c])
          /\ UNCHANGED crashed
    /\ UNCHANGED <<link, inbox, split>>

\* Mutant of Yes: a reply is not looked at beyond the version.
YesToAnything(buf) == buf[1] = 5

\* What the code takes for a yes, be it to the greeting or the request.
Yes(buf) == buf[1] = 5 /\ (Len(buf) >= 2 => buf[2] = 0)

\* Mutant of Unread: recv asks for the two bytes that are looked at.
UnreadAfterTwo(buf) == SubSeq(buf, 3, Len(buf))

\* What a recv of 263 bytes leaves of buf.
Unread(buf) == SubSeq(buf, 264, Len(buf))

\* socks5_recv_cb: one recv takes all there is.
RecvCb(c) ==
    /\ watch[c] = "read" /\ (inbox[c] # << >> \/ link[c] = "closed")
    /\ inbox' = [inbox EXCEPT ![c] = Unread(@)]
    /\ \/ /\ link[c] = "closed"
          /\ Fail(c)
          /\ UNCHANGED crashed
       \/ /\ inbox[c] # << >> /\ state[c] \notin {"HELLO_SENT", "REQ_SENT"}
          /\ crashed' = TRUE
          /\ UNCHANGED <<state, watch, fd, result>>
       \/ /\ inbox[c] # << >> /\ state[c] \in {"HELLO_SENT", "REQ_SENT"}
          /\ IF ~Yes(inbox[c]) THEN Fail(c)
             ELSE IF state[c] = "HELLO_SENT" THEN GoOn(c, "HELLO_RCVD", "write")
             ELSE Made(c)
          /\ UNCHANGED crashed
    /\ UNCHANGED <<link, owed, willing, split, accepted>>

-------------------------------------------------------------------------------
\* The other side

\* The connect ends.
NetConnect(c) ==
    /\ link[c] = "trying"
    /\ \E l \in {"up", "refused"} : link' = [link EXCEPT ![c] = l]
    /\ accepted' = IF link'[c] = "up" /\ ~Socks5[c] THEN accepted \cup {c} ELSE accepted
    /\ UNCHANGED <<ctxVars, inbox, owed, willing, split>>

\* The first n bytes of what the proxy owes arrive.
Arrive(c) ==
    /\ link[c] = "up" /\ fd[c] = "open"
    /\ \E n \in 1 .. Len(owed[c]) :
          /\ inbox' = [inbox EXCEPT ![c] = @ \o SubSeq(owed[c], 1, n)]
          /\ owed' = [owed EXCEPT ![c] = SubSeq(@, n + 1, Len(@))]
          /\ split' = IF n < Len(owed[c]) THEN split \cup {c} ELSE split
    /\ UNCHANGED <<ctxVars, link, willing, accepted>>

\* The proxy closes or resets the connection.
PeerCloses(c) ==
    /\ link[c] = "up" /\ state[c] # NULL
    /\ link' = [link EXCEPT ![c] = "closed"]
    /\ UNCHANGED <<ctxVars, inbox, owed, willing, split, accepted>>

-------------------------------------------------------------------------------
Init ==
    /\ state = [c \in Calls |-> NULL]
    /\ watch = [c \in Calls |-> NULL]
    /\ fd = [c \in Calls |-> "none"]
    /\ result = [c \in Calls |-> << >>]
    /\ crashed = FALSE
    /\ link = [c \in Calls |-> "none"]
    /\ inbox = [c \in Calls |-> << >>]
    /\ owed = [c \in Calls |-> << >>]
    /\ willing = {}
    /\ split = {}
    /\ accepted = {}

Handler(c) == ConnectCb(c) \/ SendCb(c) \/ RecvCb(c)

Next == /\ ~crashed
        /\ \E c \in Calls : \/ AsyncConnect(c) \/ Handler(c)
                            \/ NetConnect(c) \/ Arrive(c) \/ PeerCloses(c)

\* The loop calls the callback of a socket that is ready, and the kernel ends
\* every connect.  Nothing obliges a proxy to answer, and the code sets no time
\* limit to a handshake: that it answers or closes is assumed of it.
Fairness == \A c \in Calls :
    /\ WF_vars(~crashed /\ Handler(c))
    /\ WF_vars(~crashed /\ NetConnect(c))
    /\ WF_vars(~crashed /\ (Arrive(c) \/ PeerCloses(c)))

Spec == Init /\ [][Next]_vars /\ Fairness
-------------------------------------------------------------------------------
(* Properties *)

\* Every variable holds a value of its kind.
TypeOK ==
    /\ state \in [Calls -> States \cup {NULL}]
    /\ watch \in [Calls -> Watches \cup {NULL}]
    /\ fd \in [Calls -> {"none", "open", "closed"}]
    /\ result \in [Calls -> Seq({"made", "failed"})]
    /\ crashed \in BOOLEAN
    /\ link \in [Calls -> {"none", "trying", "refused", "up", "closed"}]
    /\ inbox \in [Calls -> Seq(0 .. 255)]
    /\ owed \in [Calls -> Seq(0 .. 255)]
    /\ willing \subseteq Calls /\ split \subseteq Calls /\ accepted \subseteq Calls

\* Whatever the proxy and the network do, a call's context, its watcher and its
\* socket go together: the loop watches a socket exactly while the context it
\* would hand to the callback exists, the socket is open exactly until the call
\* fails, and the caller hears of the end once.
NothingLeftBehind ==
    \A c \in Calls :
       /\ (state[c] # NULL) <=> (watch[c] # NULL)
       /\ Len(result[c]) <= 1
       /\ state[c] # NULL => result[c] = << >> /\ fd[c] = "open"
       /\ result[c] = <<"made">> => fd[c] = "open"
       /\ result[c] = <<"failed">> => fd[c] # "open"

\* The asserts "bad connection state" never fail: each watcher is started in a
\* state its callback expects, even when answers come in pieces.
StateExpected == ~crashed

\* When every answer of the proxy came in one piece, the caller gets a stream
\* from which the whole handshake has been read; what it reads next is the DNS
\* answer.
StreamAligned ==
    \A c \in Calls : result[c] = <<"made">> /\ c \notin split =>
       inbox[c] = << >> /\ owed[c] = << >>

\* The caller is told of every call in the end, provided the proxy answers or
\* closes: no branch of the handshake forgets to watch the socket.
CallbackComes == \A c \in Calls : state[c] # NULL ~> result[c] # << >>

Status(c) == IF result[c] # << >> THEN Head(result[c])
             ELSE IF state[c] # NULL THEN "dialing"
             ELSE "idle"

D == INSTANCE Dialer WITH status <- [c \in Calls |-> Status(c)]

\* async_connect does what Dialer promises.
ImplementsDialer == D!Spec
===============================================================================
