-------------------------------- MODULE Sockets --------------------------------
(***************************************************************************)
(* The forwarder with the descriptors of its TCP clients and of its own     *)
(* connections to server: the composition of module Sans with accept_cb,    *)
(* query_tcp_recv_cb and reply_tcp_send_cb.                                 *)
(*                                                                          *)
(* A descriptor is a small number, the kernel gives out the lowest free     *)
(* one, and the program keeps nothing but the number: in the watcher of a   *)
(* client that has not asked yet, in the query while it is in the table     *)
(* (nobody watches the socket meanwhile), in the watcher that sends the     *)
(* answer.  Whoever is at the other end of that number by then gets what    *)
(* is sent.  Module TcpExchange has the bytes and the event loop; here a    *)
(* client sends one whole query and its answer is sent at once.             *)
(*                                                                          *)
(* A connection to server has two watchers, and the callback of one may     *)
(* close the socket under the other, which TcpExchange says when.  Then     *)
(* select fails for ever, and of the program only its ticks go on: deaf.    *)
(***************************************************************************)
EXTENDS Sans

CONSTANTS
    Clients       \* the requests that come over TCP; the others come over UDP

ASSUME SocketsAssumption ==
    /\ Clients \subseteq Requests
    /\ Conns \subseteq Nat \ {0}
    /\ NULL \notin Requests \cup Conns

VARIABLES
    peer,         \* kernel: the client at the other end of each descriptor
    asking,       \* the descriptors with a watcher of query_recv
    answer,       \* the request whose answer reply_send is to write there
    sock,         \* the field sock of each client's query
    left,         \* the clients that have closed their end
    deaf,         \* a closed socket is watched: no callback is called any more
    reached       \* history: the requests whose answers reached each client

socketVars == <<peer, asking, answer, sock, left, reached>>
allVars == <<vars, socketVars, deaf>>

-------------------------------------------------------------------------------
\* Helpers

\* The numbers socket and accept may give; they give the lowest.
FreeFds == {fd \in Conns : conns[fd] = NULL /\ peer[fd] = NULL}
Lowest(fd) == fd \in FreeFds /\ \A d \in FreeFds : fd <= d

\* async_connect opens no descriptor but that one.
OpensLowest == \A c \in Conns : conns[c] = NULL /\ conns'[c] # NULL => Lowest(c)

Accepted(r) == \E fd \in Conns : peer[fd] = r
Called(r) == r \in arrived \/ Accepted(r) \/ r \in left

\* Mutants of Closed: the socket stays open; of AfterRead: it is closed.
ClosedNot(fd) == peer
AfterReadClosed(fd) == [peer EXCEPT ![fd] = NULL]

Closed(fd) == [peer EXCEPT ![fd] = NULL]

\* What a query that was read leaves of its socket: everything but the watcher.
AfterRead(fd) == peer

\* The clients reply_cb answers in this step.
Answered == {r \in Clients : got'[r] # got[r]}

\* Mutant of ReplySend: no watcher is started.
ReplySendNot == UNCHANGED socketVars

\* reply_send: a watcher on the number in the query.
ReplySend ==
    /\ answer' = [fd \in Conns |-> IF \E r \in Answered : sock[r] = fd
                                   THEN CHOOSE r \in Answered : sock[r] = fd
                                   ELSE answer[fd]]
    /\ UNCHANGED <<peer, asking, sock, left, reached>>

-------------------------------------------------------------------------------
\* The handlers

\* accept_cb: a client has called and there is a descriptor for it.
AcceptCb(r) ==
    /\ ~Called(r)
    /\ \E fd \in Conns : /\ Lowest(fd)
                         /\ peer' = [peer EXCEPT ![fd] = r]
                         /\ asking' = asking \cup {fd}
    /\ UNCHANGED <<vars, answer, sock, left, reached, deaf>>

\* query_tcp_recv_cb, when the query is complete: the watcher is stopped, the
\* number goes into the query, and the table takes the query or not.
WholeQuery(fd) ==
    /\ fd \in asking
    /\ asking' = asking \ {fd}
    /\ sock' = [sock EXCEPT ![peer[fd]] = fd]
    /\ peer' = AfterRead(fd)
    /\ RecvQuery(peer[fd])
    /\ OpensLowest
    /\ UNCHANGED <<answer, left, reached, deaf>>

\* query_tcp_recv_cb, when recv fails: the client has closed, or its length
\* came in two pieces.
RecvFailed(fd) ==
    /\ fd \in asking
    /\ asking' = asking \ {fd}
    /\ peer' = Closed(fd)
    /\ UNCHANGED <<vars, answer, sock, left, reached, deaf>>

\* reply_tcp_send_cb: all is written, or send fails; the socket is closed.
SendAnswer(fd) ==
    /\ answer[fd] # NULL
    /\ \/ /\ peer[fd] # NULL
          /\ reached' = [reached EXCEPT ![peer[fd]] = @ \cup {answer[fd]}]
       \/ /\ peer[fd] = NULL \/ peer[fd] \in left
          /\ UNCHANGED reached
    /\ answer' = [answer EXCEPT ![fd] = NULL]
    /\ peer' = Closed(fd)
    /\ UNCHANGED <<vars, asking, sock, left, deaf>>

\* A client closes its end.  Only a watcher would notice.
ClientCloses(r) ==
    /\ Accepted(r)
    /\ left' = left \cup {r}
    /\ UNCHANGED <<vars, peer, asking, answer, sock, reached, deaf>>

\* The handlers of Sans that no client's descriptor takes part in, but whose
\* connections take and give back numbers.
Elsewhere ==
    /\ \/ \E r \in Requests \ Clients : RecvQuery(r)
       \/ \E m \in sent : TestReply(m)
       \/ \E c \in Conns : ConnectDone(c)
    /\ OpensLowest
    /\ UNCHANGED <<socketVars, deaf>>

\* tick_cb, which ev_run calls whatever select does.
TickCb == Tick /\ OpensLowest /\ UNCHANGED <<socketVars, deaf>>

\* The socket of a connection to server is closed, by reply_tcp_recv_cb with
\* query_send's watcher on it or by query_tcp_send_cb with reply_recv's, or when
\* the other watcher has been stopped.
ClosedUnderWatcher == deaf' \in BOOLEAN

\* An upstream closes, or the connection fails.
UpstreamLost ==
    /\ \E c \in Conns : ConnLost(c)
    /\ ClosedUnderWatcher
    /\ OpensLowest
    /\ UNCHANGED socketVars

\* The handlers that answer.
ReplyArrives ==
    /\ \/ (\E m \in sent : UdpReply(m)) /\ UNCHANGED deaf
       \/ (\E c \in Conns : TcpReply(c)) /\ ClosedUnderWatcher
    /\ ReplySend

-------------------------------------------------------------------------------
SocketsInit ==
    /\ Init
    /\ peer = [fd \in Conns |-> NULL]
    /\ asking = {}
    /\ answer = [fd \in Conns |-> NULL]
    /\ sock = [r \in Clients |-> NULL]
    /\ left = {}
    /\ reached = [r \in Clients |-> {}]
    /\ deaf = FALSE

\* The callbacks ev_poll calls.
Callbacks ==
    /\ ~deaf
    /\ \/ \E r \in Clients : AcceptCb(r)
       \/ \E fd \in Conns : WholeQuery(fd) \/ RecvFailed(fd) \/ SendAnswer(fd)
       \/ Elsewhere \/ UpstreamLost \/ ReplyArrives

SocketsNext ==
    /\ ~crashed
    /\ \/ \E r \in Clients : ClientCloses(r)
       \/ TickCb
       \/ Callbacks

\* ev_run calls tick_cb from the clock.  As long as select does not fail, ev_poll
\* comes to the watcher that sends an answer: a client's socket has room for it,
\* and the callbacks that change the list of watchers, which begin the walk anew,
\* are those of finitely many requests.  Nothing makes the network or the clients
\* act.
SocketsFairness ==
    /\ WF_allVars(~crashed /\ TickCb)
    /\ \A fd \in Conns : WF_allVars(~crashed /\ ~deaf /\ SendAnswer(fd))

SocketsSpec == SocketsInit /\ [][SocketsNext]_allVars /\ SocketsFairness
-------------------------------------------------------------------------------
(* Properties *)

\* From the moment a query has been read until its answer is written, the
\* number in it belongs to the client that asked and to nobody else, neither
\* another client nor a connection to server, however many others come, expire
\* or close meanwhile; so what a client reads is the answer to its own request
\* (query->sock is kept and used much later, sans.c:567).
AnswerToAsker ==
    /\ \A s \in Busy(qlist) : qlist[s].req \in Clients =>
          LET r == qlist[s].req
          IN peer[sock[r]] = r /\ sock[r] \notin asking /\ answer[sock[r]] = NULL
    /\ \A fd \in Conns : /\ peer[fd] # NULL => conns[fd] = NULL
                         /\ answer[fd] # NULL => peer[fd] = answer[fd]
    /\ \A r \in Clients : reached[r] \subseteq {r}

\* An open client that nobody watches and no query names.
Forgotten(fd) == /\ peer[fd] # NULL
                 /\ fd \notin asking
                 /\ answer[fd] = NULL
                 /\ ~Pending(peer[fd])

\* A descriptor leaks in one way only: its client's request was dropped without
\* an answer.  One whose answer was made is closed when it has been sent.
LeaksOnlyIfDropped ==
    \A fd \in Conns : Forgotten(fd) => Status(peer[fd]) = "dropped"

\* A client that has sent its query is answered, closes, or is dropped: no
\* answer waits for ever between reply_cb and the socket, unless the loop has gone
\* deaf before it was sent.
ClientsSettled ==
    \A r \in Clients : r \in arrived ~>
        \/ reached[r] # {} \/ r \in left \/ Status(r) = "dropped" \/ crashed
        \/ deaf /\ Status(r) = "answered"
===============================================================================
