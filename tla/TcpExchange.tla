------------------------------ MODULE TcpExchange ------------------------------
(***************************************************************************)
(* DNS messages over TCP (dnsmsg.c) under the event loop (event.c): clients *)
(* that send a query and wait for its answer, and connections to server on  *)
(* which a query is sent and its answer awaited at the same time, by two    *)
(* watchers of one socket.                                                  *)
(*                                                                          *)
(* ev_poll asks select which sockets are ready and then walks the list of   *)
(* watchers; a callback that starts or stops a watcher ends the walk.  The  *)
(* walk is modelled a callback at a time, and the peers act between any two *)
(* callbacks.  A watcher is <<x, job>>: the job its callback does on the    *)
(* socket of x.  The callbacks of watchers that are not modelled here (UDP  *)
(* sockets, connects in progress) are AnswerByUdp and Connected.            *)
(*                                                                          *)
(* A message is its length, in two bytes, and its text.  What the program   *)
(* sends has a text of two bytes; what it gets has the length its peer      *)
(* says, be it none or more than there is room for, and a peer may send     *)
(* more than one.  TCP may deliver them, or take them from the sender, in   *)
(* pieces, or several at once.                                              *)
(***************************************************************************)
EXTENDS Naturals, Sequences, SequencesExt

CONSTANTS
    Clients,      \* TCP clients
    Upstreams,    \* connections to server, from the moment they are made
    LISTEN,       \* the socket clients connect to
    WLIST_SIZE,   \* slots of the list of watchers (128 in event.c)
    NS_PACKETSZ,  \* room for a text (2048)
    Sends,        \* the messages the peers send one after the other, each given by
                  \* the length of its text: functions from peers to sequences
    Sigpipe,      \* a send to a broken connection kills the process: there is
                  \* no SO_NOSIGPIPE to prevent it
    NULL

Sockets == Clients \cup Upstreams \cup {LISTEN}
Slots == 0 .. WLIST_SIZE - 1
Watchers == ({LISTEN} \X {"accept"}) \cup (Clients \X {"qrecv", "rsend"})
                                     \cup (Upstreams \X {"qsend", "rrecv"})

ASSUME ExchangeAssumption ==
    /\ {WLIST_SIZE, NS_PACKETSZ} \subseteq Nat \ {0}
    /\ Sends \subseteq [Clients \cup Upstreams -> Seq(Nat)]
    /\ Sigpipe \in BOOLEAN
    /\ Clients \cap Upstreams = {} /\ LISTEN \notin Clients \cup Upstreams
    /\ NULL \notin Watchers

VARIABLES
    wlist,        \* the list of watchers; NULL is an empty slot
    past,         \* the watchers whose context is past the length
    msglen,       \* msglen[x]: the length that was read, in the context on x
    poll,         \* ev_poll's walk: the slot it has come to and what select
                  \* found ready; NULL when ev_poll is about to call select
    fd,           \* fd[x]: the socket of x
    waiting,      \* the clients whose query is with the forwarder
    dead,         \* why the process is gone, or "no"
    link,         \* link[x]: the connection as the peer has left it
    inbox,        \* inbox[x]: bytes that have arrived and were not read
    owed,         \* owed[x]: bytes the peer has yet to send
    outbox,       \* outbox[x]: the bytes the peer has been sent
    sends,        \* sends[x]: the lengths of the messages of the peer
    handed,       \* history: handed[x]: the text that was handed over
    missed,       \* history: the connections on which recv returned less or more
                  \*          than the text it was to be the whole of
    pieces,       \* history: the connections on which a piece was cut off
    early         \* history: the upstreams that closed before they had the query

loopVars == <<wlist, past, poll, fd, waiting, dead>>
recvVars == <<msglen, handed, missed, sends>>
peerVars == <<link, inbox, owed, outbox, pieces, early, recvVars>>
vars == <<loopVars, peerVars>>

Text(l) == [j \in 1 .. l |-> 10 * l + j]
MessageOf(l) == <<0, l>> \o Text(l)
Message == MessageOf(2)

Watched == {wlist[s] : s \in Slots} \ {NULL}

Readable(x) == IF x = LISTEN THEN \E k \in Clients : link[k] = "calling"
               ELSE inbox[x] # << >> \/ link[x] \in {"fin", "reset", "broken"}
Writable(x) == link[x] # "none"

\* What watcher w waits for.
Event(w) == IF w[2] \in {"qsend", "rsend"} THEN "write" ELSE "read"
Fires(w) == /\ fd[w[1]] = "open"
            /\ IF Event(w) = "write" THEN Writable(w[1]) ELSE Readable(w[1])

\* Some watcher's socket has been closed: select only fails, with EBADF.
Deaf == \E w \in Watched : fd[w[1]] = "closed"

-------------------------------------------------------------------------------
\* ev_io_start and ev_io_stop on a list wl

First(S) == CHOOSE s \in S : \A t \in S : s <= t
Vacant(wl) == {s \in Slots : wl[s] = NULL}

Started(wl, w) == [wl EXCEPT ![First(Vacant(wl))] = w]
Stopped(wl, w) == [s \in Slots |-> IF wl[s] = w THEN NULL ELSE wl[s]]

\* The slots that the walk has yet to find ready.
Due == {s \in Slots : /\ s >= poll.slot
                      /\ wlist[s] # NULL
                      /\ <<wlist[s][1], Event(wlist[s])>> \in poll.ready}

\* ev_poll calls select.  It is called again and again when it fails.
Select ==
    /\ poll = NULL /\ ~Deaf
    /\ poll' = [slot |-> 0, ready |-> {<<w[1], Event(w)>> : w \in {v \in Watched : Fires(v)}}]
    /\ UNCHANGED <<wlist, past, fd, waiting, dead, peerVars>>

\* Mutant of WalkOn: the walk goes on although the list has changed.
WalkOnAlways(s) == poll' = [poll EXCEPT !.slot = s + 1]

\* After the callback of slot s the walk goes on, or ends if the list changed.
WalkOn(s) == poll' = IF wlist' = wlist THEN [poll EXCEPT !.slot = s + 1] ELSE NULL

WalkEnd ==
    /\ poll # NULL /\ Due = {}
    /\ poll' = NULL
    /\ UNCHANGED <<wlist, past, fd, waiting, dead, peerVars>>

-------------------------------------------------------------------------------
\* Callbacks.  Each is written for the watcher w it belongs to, on list wlist.

\* Mutant of Stop: the watcher stays.
StopNot(w) == wlist' = wlist /\ past' = past \ {w}

Stop(w) == wlist' = Stopped(wlist, w) /\ past' = past \ {w}
Close(x) == fd' = [fd EXCEPT ![x] = "closed"]
Give(w) == Stop(w) /\ Close(w[1]) /\ UNCHANGED <<waiting, dead>>

\* accept_cb
AcceptCb ==
    \E k \in Clients :
       /\ link[k] = "calling"
       /\ link' = [link EXCEPT ![k] = "up"]
       /\ fd' = [fd EXCEPT ![k] = "open"]
       /\ IF Vacant(wlist) = {} THEN dead' = "full" /\ UNCHANGED wlist
          ELSE wlist' = Started(wlist, <<k, "qrecv">>) /\ UNCHANGED dead
       /\ UNCHANGED <<past, waiting, inbox, owed, outbox, pieces, early, recvVars>>

\* reply_cb when it finds client k's query: reply_send
ReplySend(k, wl) ==
    /\ k \in waiting
    /\ waiting' = waiting \ {k}
    /\ IF Vacant(wl) = {} THEN dead' = "full" /\ wlist' = wl
       ELSE wlist' = Started(wl, <<k, "rsend">>) /\ UNCHANGED dead

\* A message has been read whole: a query goes to the forwarder, unless it is
\* bad or the table is full; the answer on an upstream, which is closed, goes to
\* a waiting client or to nobody.
WholeMessage(w) ==
    \/ /\ w[2] = "qrecv"
       /\ Stop(w)
       /\ waiting' \in {waiting, waiting \cup {w[1]}}
       /\ UNCHANGED <<fd, dead>>
    \/ /\ w[2] = "rrecv"
       /\ past' = past \ {w}
       /\ Close(w[1])
       /\ \/ wlist' = Stopped(wlist, w) /\ UNCHANGED <<waiting, dead>>
          \/ \E k \in Clients : ReplySend(k, Stopped(wlist, w))

\* Mutant of Gone: the end of the stream is not taken for an end.
GoneNever(n) == n < 0

\* recv failed or found the end of the stream.
Gone(n) == n <= 0

\* Mutant of Whole: whatever recv returned is the text.
WholeAnyway(n, x) == TRUE

\* recv returned as many bytes as the text has.
Whole(n, x) == n = msglen[x]

\* The length that a context keeps: a longer text is cut.
Kept(l) == Min({l, NS_PACKETSZ})

\* query_tcp_recv_cb and reply_tcp_recv_cb: two bytes of length, or all the
\* text there is and there is room for.  After a length of 0 another length is
\* read.  A piece of the text is stored and forgotten: offset, where the next one
\* goes, never moves, and only a piece as long as the whole text is taken for the
\* whole text; what came with it of the next message is forgotten, too.
RecvCb(w) ==
    LET x == w[1]
        bytes == IF link[x] \in {"reset", "broken"} THEN << >> ELSE inbox[x]
        n == Min({Len(bytes), IF w \in past THEN NS_PACKETSZ ELSE 2})
    IN /\ inbox' = [inbox EXCEPT ![x] = SubSeq(bytes, n + 1, Len(bytes))]
       /\ \/ /\ IF w \in past THEN Gone(n) ELSE n < 2
             /\ Give(w)
             /\ UNCHANGED <<msglen, handed, missed>>
          \/ /\ n = 2 /\ w \notin past
             /\ msglen' = [msglen EXCEPT ![x] = Kept(bytes[1] * 256 + bytes[2])]
             /\ past' = IF msglen'[x] = 0 THEN past ELSE past \cup {w}
             /\ UNCHANGED <<wlist, fd, waiting, dead, handed, missed>>
          \/ /\ w \in past /\ ~Gone(n) /\ ~Whole(n, x)
             /\ missed' = missed \cup {x}
             /\ UNCHANGED <<wlist, past, fd, waiting, dead, msglen, handed>>
          \/ /\ w \in past /\ ~Gone(n) /\ Whole(n, x)
             /\ WholeMessage(w)
             /\ handed' = [handed EXCEPT ![x] = SubSeq(bytes, 1, n)]
             /\ UNCHANGED <<msglen, missed>>
       /\ UNCHANGED <<link, owed, outbox, pieces, early, sends>>

\* Mutant of Part: the message is sent from its beginning again.
PartAgain(w) == <<0, 2>>

\* What the watcher has to send.
Part(w) == IF w \in past THEN Text(2) ELSE <<0, 2>>

\* How many of two bytes send takes.  Bound: of a connection on which a piece has
\* been cut off, both.
Taken(x) == IF x \in pieces THEN {2} ELSE 1 .. 2

\* The watcher is done, or its send failed: the socket of a client is closed,
\* and the socket of an upstream only when sending the text failed.
Sent(w) == IF w[2] = "rsend" THEN Give(w)
           ELSE Stop(w) /\ UNCHANGED <<fd, waiting, dead>>
SendFailed(w) == IF w[2] = "rsend" \/ w \in past THEN Give(w)
                 ELSE Stop(w) /\ UNCHANGED <<fd, waiting, dead>>

\* query_tcp_send_cb and reply_tcp_send_cb.  What is sent after the peer has
\* closed may break the connection.  A short send of the length counts as a
\* failure; of the text, all of it is sent again.
SendCb(w) ==
    LET x == w[1]
    IN /\ \/ /\ link[x] \in {"up", "fin"}
             /\ link' \in {link, [link EXCEPT ![x] = IF @ = "fin" THEN "broken" ELSE @]}
             /\ \E n \in Taken(x) :
                   /\ outbox' = [outbox EXCEPT ![x] = @ \o SubSeq(Part(w), 1, n)]
                   /\ pieces' = IF n = 1 THEN pieces \cup {x} ELSE pieces
                   /\ \/ n = 1 /\ w \notin past /\ SendFailed(w)
                      \/ n = 1 /\ w \in past /\ UNCHANGED <<wlist, past, fd, waiting, dead>>
                      \/ n = 2 /\ w \notin past /\ past' = past \cup {w}
                         /\ UNCHANGED <<wlist, fd, waiting, dead>>
                      \/ n = 2 /\ w \in past /\ Sent(w)
          \/ /\ link[x] = "reset" \/ (link[x] = "broken" /\ ~Sigpipe)
             /\ SendFailed(w)
             /\ UNCHANGED <<link, outbox, pieces>>
          \/ /\ link[x] = "broken" /\ Sigpipe
             /\ dead' = "sigpipe"
             /\ UNCHANGED <<wlist, past, fd, waiting, link, outbox, pieces>>
       /\ UNCHANGED <<inbox, owed, early, recvVars>>

\* The walk calls the callback of the next watcher that is ready.
Callback ==
    /\ poll # NULL /\ Due # {}
    /\ LET s == First(Due)
           w == wlist[s]
       IN /\ \/ w[2] = "accept" /\ AcceptCb
             \/ w[2] \in {"qrecv", "rrecv"} /\ RecvCb(w)
             \/ w[2] \in {"qsend", "rsend"} /\ SendCb(w)
          /\ WalkOn(s)

\* connect_cb of sans.c, called for upstream u: query_send, then reply_recv.
\* The watcher of the connect has been stopped, so the walk ends.
Connected(u) ==
    /\ poll # NULL
    /\ fd[u] = "none"
    /\ fd' = [fd EXCEPT ![u] = "open"]
    /\ link' = [link EXCEPT ![u] = "up"]
    /\ IF Cardinality(Vacant(wlist)) < 2 THEN dead' = "full" /\ UNCHANGED wlist
       ELSE /\ wlist' = Started(Started(wlist, <<u, "qsend">>), <<u, "rrecv">>)
            /\ UNCHANGED dead
    /\ poll' = NULL
    /\ UNCHANGED <<past, waiting, inbox, owed, outbox, pieces, early, recvVars>>

\* reply_cb for an answer that came over UDP.
AnswerByUdp(k) ==
    /\ poll # NULL
    /\ ReplySend(k, wlist)
    /\ poll' = NULL
    /\ UNCHANGED <<past, fd, peerVars>>

-------------------------------------------------------------------------------
\* The peers

ClientCalls(k) ==
    /\ link[k] = "none"
    /\ link' = [link EXCEPT ![k] = "calling"]
    /\ UNCHANGED <<loopVars, inbox, owed, outbox, pieces, early, recvVars>>

\* A length or a text ends where the peer still owes those bytes.
Between(x, bytes) ==
    \E k \in 1 .. Len(sends[x]) + 1 :
       LET rest == FlattenSeq([i \in 1 .. Len(sends[x]) - k + 1 |-> MessageOf(sends[x][i + k - 1])])
       IN \/ Len(bytes) = Len(rest)
          \/ k <= Len(sends[x]) /\ Len(bytes) = Len(rest) - 2

\* n more bytes arrive; server sends none before it has the query.  Bound: after a
\* piece was cut off, all that is owed comes at once.
Arrive(x) ==
    /\ link[x] = "up"
    /\ x \in Upstreams => Len(outbox[x]) >= 4
    /\ \E n \in (IF x \in pieces THEN {Len(owed[x])} ELSE 1 .. Len(owed[x])) \ {0} :
          /\ inbox' = [inbox EXCEPT ![x] = @ \o SubSeq(owed[x], 1, n)]
          /\ owed' = [owed EXCEPT ![x] = SubSeq(@, n + 1, Len(@))]
          /\ pieces' = IF Between(x, owed'[x]) THEN pieces ELSE pieces \cup {x}
    /\ UNCHANGED <<loopVars, link, outbox, early, recvVars>>

PeerCloses(x) ==
    /\ link[x] = "up"
    /\ \E l \in {"fin", "reset"} : link' = [link EXCEPT ![x] = l]
    /\ owed' = [owed EXCEPT ![x] = << >>]
    /\ early' = IF x \in Upstreams /\ Len(outbox[x]) < 4 THEN early \cup {x} ELSE early
    /\ UNCHANGED <<loopVars, inbox, outbox, pieces, recvVars>>

-------------------------------------------------------------------------------
Init ==
    /\ wlist = [s \in Slots |-> IF s = 0 THEN <<LISTEN, "accept">> ELSE NULL]
    /\ past = {}
    /\ poll = NULL
    /\ fd = [x \in Sockets |-> IF x = LISTEN THEN "open" ELSE "none"]
    /\ waiting = {}
    /\ dead = "no"
    /\ link = [x \in Sockets \ {LISTEN} |-> "none"]
    /\ inbox = [x \in Sockets \ {LISTEN} |-> << >>]
    /\ sends \in Sends
    /\ owed = [x \in Sockets \ {LISTEN} |->
                 FlattenSeq([i \in DOMAIN sends[x] |-> MessageOf(sends[x][i])])]
    /\ msglen = [x \in Sockets \ {LISTEN} |-> 0]
    /\ handed = [x \in Sockets \ {LISTEN} |-> << >>]
    /\ missed = {}
    /\ outbox = [x \in Sockets \ {LISTEN} |-> << >>]
    /\ pieces = {}
    /\ early = {}

Loop == Select \/ Callback \/ WalkEnd

Next ==
    /\ dead = "no"
    /\ \/ Loop
       \/ \E u \in Upstreams : Connected(u)
       \/ \E k \in Clients : ClientCalls(k) \/ AnswerByUdp(k)
       \/ \E x \in Clients \cup Upstreams : Arrive(x) \/ PeerCloses(x)

\* The loop runs.  That server answers or closes is assumed of it: dnsmsg.c sets
\* no time limit to an exchange.
Fairness ==
    /\ WF_vars(dead = "no" /\ Loop)
    /\ \A u \in Upstreams : WF_vars(dead = "no" /\ (Arrive(u) \/ PeerCloses(u)))

Spec == Init /\ [][Next]_vars /\ Fairness
-------------------------------------------------------------------------------
(* Properties *)

\* Every variable holds a value of its kind.
TypeOK ==
    /\ wlist \in [Slots -> Watchers \cup {NULL}]
    /\ past \subseteq Watched
    /\ fd \in [Sockets -> {"none", "open", "closed"}]
    /\ waiting \subseteq Clients
    /\ dead \in {"no", "sigpipe", "full"}
    /\ link \in [Sockets \ {LISTEN} ->
                   {"none", "calling", "up", "fin", "reset", "broken"}]
    /\ msglen \in [Sockets \ {LISTEN} -> 0 .. NS_PACKETSZ]
    /\ {inbox, owed, outbox, handed} \subseteq [Sockets \ {LISTEN} -> Seq(Nat)]
    /\ pieces \subseteq Sockets /\ missed \subseteq Sockets /\ early \subseteq Upstreams

\* What ev_poll is still going to call is open and ready at that time: it ends
\* its walk after a change of the list, so that it never acts on what select
\* said of a socket that has been closed or read since.  A recv that found
\* nothing would be taken for an error and close a good connection.
WalkIsFresh == TypeOK /\ (poll # NULL /\ dead = "no" => \A s \in Due : Fires(wlist[s]))

\* What is handed over from a connection, to query_add or reply_cb, is the text of
\* a message its peer sent, as much of it as there is room for, however many empty
\* messages came before and whatever came with it: never the end of one with the
\* beginning of the next.  Only after a recv that returned less or more than the
\* text it was to be may the next one take anything for it.
TextAsSent ==
    \A x \in Clients \cup Upstreams : handed[x] # << >> /\ x \notin missed =>
       \E l \in ToSet(sends[x]) : handed[x] = SubSeq(Text(l), 1, Kept(l))

\* A closed socket is watched, and the loop deaf for ever, only on account of an
\* upstream that closed before it had the whole query, or took it in pieces:
\* then one of the two watchers of the socket closes it under the other.
DeafOnlyIfEarly ==
    \A w \in Watched : fd[w[1]] = "closed" => w[1] \in (early \cup pieces) \cap Upstreams

\* Unless a piece was cut off, what a peer is sent is the message from its
\* beginning, and an exchange that ended without an error sent all of it.
SentInOrder ==
    \A x \in Clients \cup Upstreams :
       /\ x \notin pieces => outbox[x] = SubSeq(Message, 1, Len(outbox[x]))
       /\ x \in Clients /\ fd[x] = "closed" /\ link[x] = "up" /\ x \notin pieces =>
             outbox[x] = Message

\* Every exchange with server ends, when server answers in one piece or closes,
\* unless the process is gone or deaf: the watcher for the answer is stopped.
ExchangeEnds ==
    \A u \in Upstreams : <<u, "rrecv">> \in Watched ~>
       (<<u, "rrecv">> \notin Watched \/ u \in pieces \/ Deaf \/ dead # "no")

\* A connection the peer closes costs that connection only, whether it closes
\* before the first send of a message or between the two: when a send fails,
\* query_tcp_send_cb and reply_tcp_send_cb report it and go on (dnsmsg.c:449 and
\* dnsmsg.c:549, "send failed" in Chinese).
PeerCannotKill == dead # "sigpipe"

\* reply_recv is to "receive DNS reply asynchronously" and call back
\* (dnsmsg.h:37): when all of server's answer has been read from the socket, it
\* has been handed over and the socket is closed.
ReadIsHandedOver ==
    \A u \in Upstreams :
       fd[u] = "open" /\ link[u] = "up" /\ dead = "no" =>
          ~(owed[u] = << >> /\ inbox[u] = << >>)
===============================================================================
