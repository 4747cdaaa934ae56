---------------------------------- MODULE Sans ----------------------------------
(***************************************************************************)
(* The forwarder (sans.c) with its table of queries (query.c), its message  *)
(* ids (ns_newid in dns.c) and the network around it.                       *)
(*                                                                          *)
(* A client's query is put in the table under the client's own id, gets a   *)
(* fresh id at once, and is routed: if the cache holds a verdict on its     *)
(* name it goes to the server that verdict selects, otherwise a SOA probe   *)
(* goes to test_server.  A forged answer is recognised by its A record; the *)
(* query is renumbered once more and routed by the verdict.  The answer     *)
(* that carries the id of a query in the table goes back to its client,     *)
(* under the client's id, and the query is deleted.  A tick a second ages   *)
(* the table and the cache.                                                 *)
(*                                                                          *)
(* The loop is single-threaded, so a handler is one atomic action; the      *)
(* interleavings are those of messages, connections, ticks and clients.     *)
(* Datagrams may be lost, duplicated, reordered and delayed without limit:  *)
(* a datagram once sent stays in sent and may be answered at any time,      *)
(* any number of times or never.                                            *)
(***************************************************************************)
EXTENDS QueryTable, Sequences

CONSTANTS
    Requests,     \* queries that clients send, each once
    Names,        \* domain names
    Polluted,     \* the names whose answers are forged on the way
    ReqId,        \* the id the client gave each request; it may be 0
    ReqName,      \* the name each request asks for
    Ids,          \* ids ns_newid may choose: 1..65535 in the code
    Conns         \* bound: connections to server that can exist at a time

\* Types
AnyId == Ids \cup {0}
Query == [req : Requests, id : AnyId, qid : AnyId, ttl : 1 .. QueryTtl]
Conn == [st : {"connecting", "open"}, id : Ids, name : Names]
Datagram == [to : {"test", "cn", "server"}, id : Ids, name : Names]
Reply == [id : AnyId, name : Names]
Verdicts == {"unknown", "polluted", "clean"}

ASSUME SansAssumption ==
    /\ Polluted \subseteq Names
    /\ ReqName \in [Requests -> Names]
    /\ Ids \subseteq Nat \ {0}
    /\ ReqId \in [Requests -> AnyId]

ASSUME NullAssumption == NULL \notin Query /\ NULL \notin Conn

VARIABLES
    nspresolver,  \* the -u option: ask server over UDP instead of TCP
    qlist,        \* the table of queries
    cache,        \* verdict on each name: "polluted", "clean" or "unknown"
    conns,        \* the connections to server; NULL when closed
    sent,         \* every datagram sent to an upstream server
    forged,       \* the probes whose forged answer has come
    crashed,      \* an assert has failed: the process is gone
    arrived,      \* history: the requests that have come
    got,          \* history: the answers each request was sent
    expired,      \* history: the requests query_tick removed
    clash         \* history: an id was given out while in use elsewhere

programVars == <<qlist, cache, conns, crashed>>
networkVars == <<sent, forged>>
historyVars == <<arrived, got, expired, clash>>
vars == <<nspresolver, programVars, networkVars, historyVars>>

-------------------------------------------------------------------------------
\* Helpers

\* Mutant of FreshIds: ns_newid without its search of the table.
FreshIdsUnchecked(ql) == Ids

\* The ids ns_newid can return: no query in the table has one of them.
FreshIds(ql) == {id \in Ids : Hits(ql, id) = {}}

QName(q) == ReqName[q.req]

\* The id is in a datagram that may still be answered, or on a connection.
InFlight(id) == \/ \E m \in sent : m.id = id
                \/ \E c \in Conns : conns[c] # NULL /\ conns[c].id = id

\* Record that id is taken into use.
Note(id) == clash' = (clash \/ InFlight(id))

Send(to, id, name) == sent' = sent \cup {[to |-> to, id |-> id, name |-> name]}

\* async_connect for the query in slot s of table ql.  When no socket can be
\* made or connect fails at once, connect_cb(-1) runs before it returns and
\* deletes the query.
AsyncConnect(ql, s) ==
    \/ \E c \in Conns :
          /\ conns[c] = NULL
          /\ conns' = [conns EXCEPT ![c] = [st |-> "connecting", id |-> ql[s].id,
                                            name |-> QName(ql[s])]]
          /\ qlist' = ql
    \/ /\ qlist' = Deleted(ql, s)
       /\ UNCHANGED conns

\* Send the query in slot s of table ql to the server that answers it.
Route(ql, s, polluted) ==
    \/ /\ ~polluted
       /\ Send("cn", ql[s].id, QName(ql[s]))
       /\ qlist' = ql
       /\ UNCHANGED conns
    \/ /\ polluted /\ nspresolver
       /\ Send("server", ql[s].id, QName(ql[s]))
       /\ qlist' = ql
       /\ UNCHANGED conns
    \/ /\ polluted /\ ~nspresolver
       /\ AsyncConnect(ql, s)
       /\ UNCHANGED sent

Probe(ql, s) ==
    /\ Send("test", ql[s].id, QName(ql[s]))
    /\ qlist' = ql
    /\ UNCHANGED conns

-------------------------------------------------------------------------------
\* The handlers

\* query_cb(id): the query is looked up by the id it came with, so another
\* one that already has this id may be found in its place.
QueryCb(ql, id) ==
    \E s \in Slots, new \in FreshIds(ql) :
       /\ IsFirst(s, Hits(ql, id))
       /\ LET ql2 == Renumbered(ql, s, new)
              verdict == cache[QName(ql[s])]
          IN \/ verdict = "unknown" /\ Probe(ql2, s)
             \/ verdict # "unknown" /\ Route(ql2, s, verdict = "polluted")
       /\ clash' = (clash \/ InFlight(new) \/ Hits(qlist, id) # {})

\* A client's query arrives, over UDP or as a whole TCP message.  It is
\* dropped when it does not parse or the table is full.
RecvQuery(r) ==
    /\ r \notin arrived
    /\ arrived' = arrived \cup {r}
    /\ \/ UNCHANGED <<qlist, conns, sent, clash>>
       \/ \E s \in Slots :
             /\ IsFirst(s, Free(qlist))
             /\ QueryCb(Added(qlist, s, NewQuery(r, ReqId[r])), ReqId[r])
    /\ UNCHANGED <<nspresolver, cache, forged, crashed, got, expired>>

\* cache_insert of the verdict on a name: the first one is kept.
Learn(n, polluted) ==
    cache' = [cache EXCEPT ![n] = IF @ # "unknown" THEN @
                                  ELSE IF polluted THEN "polluted" ELSE "clean"]

\* test_cb for an answer to probe m that finds the query in slot s.  It is
\* renumbered first.  An answer that does not parse (or no memory for the
\* cache entry) leaves it there with an id nobody knows.
TestCb(m, s, forgery) ==
    \E new \in FreshIds(qlist) :
       /\ \/ /\ qlist' = Renumbered(qlist, s, new)
             /\ UNCHANGED <<cache, conns, sent>>
          \/ /\ Route(Renumbered(qlist, s, new), s, forgery)
             /\ Learn(m.name, forgery)
       /\ Note(new)

\* An answer to probe m arrives.  For a polluted name the forged answer, with
\* an A record, comes first and the genuine one later; for any other name only
\* the genuine one, without an A record.
TestReply(m) ==
    /\ m.to = "test"
    /\ \E forgery \in BOOLEAN :
          /\ IF forgery THEN m.name \in Polluted
                        ELSE m.name \in Polluted => m \in forged
          /\ forged' = IF forgery THEN forged \cup {m} ELSE forged
          /\ \/ /\ Hits(qlist, m.id) = {}
                /\ UNCHANGED <<qlist, cache, conns, sent, clash>>
             \/ \E s \in Slots : /\ IsFirst(s, Hits(qlist, m.id))
                                 /\ TestCb(m, s, forgery)
    /\ UNCHANGED <<nspresolver, crashed, arrived, got, expired>>

\* connect_cb: a connection is made (ok) or has failed.  It looks its query up
\* by id and asserts that there is one.
ConnectDone(c) ==
    /\ conns[c] # NULL
    /\ conns[c].st = "connecting"
    /\ \/ /\ Hits(qlist, conns[c].id) = {}
          /\ crashed' = TRUE
          /\ UNCHANGED <<qlist, conns>>
       \/ \E s \in Slots :
             /\ IsFirst(s, Hits(qlist, conns[c].id))
             /\ \/ /\ conns' = [conns EXCEPT ![c] =
                                  [@ EXCEPT !.st = "open", !.name = QName(qlist[s])]]
                   /\ UNCHANGED qlist
                \/ /\ conns' = [conns EXCEPT ![c] = NULL]
                   /\ qlist' = Deleted(qlist, s)
             /\ UNCHANGED crashed
    /\ UNCHANGED <<nspresolver, cache, networkVars, historyVars>>

\* Mutants of ReplyCb: the query stays in the table after it is answered; the
\* answer keeps the upstream id.
ReplyCbKeeping(id, name) ==
    \/ /\ Hits(qlist, id) = {}
       /\ UNCHANGED <<qlist, got>>
    \/ \E s \in Slots :
          /\ IsFirst(s, Hits(qlist, id))
          /\ got' = [got EXCEPT ![qlist[s].req] =
                       Append(@, [id |-> qlist[s].qid, name |-> name])]
          /\ UNCHANGED qlist
ReplyCbUpstreamId(id, name) ==
    \/ /\ Hits(qlist, id) = {}
       /\ UNCHANGED <<qlist, got>>
    \/ \E s \in Slots :
          /\ IsFirst(s, Hits(qlist, id))
          /\ got' = [got EXCEPT ![qlist[s].req] =
                       Append(@, [id |-> id, name |-> name])]
          /\ qlist' = Deleted(qlist, s)

\* reply_cb: the answer to a question sent under this id.  The query found is
\* answered with its client's id and deleted.
ReplyCb(id, name) ==
    \/ /\ Hits(qlist, id) = {}
       /\ UNCHANGED <<qlist, got>>
    \/ \E s \in Slots :
          /\ IsFirst(s, Hits(qlist, id))
          /\ got' = [got EXCEPT ![qlist[s].req] =
                       Append(@, [id |-> qlist[s].qid, name |-> name])]
          /\ qlist' = Deleted(qlist, s)

\* An answer from cn_server, or from server over UDP.
UdpReply(m) ==
    /\ m.to # "test"
    /\ ReplyCb(m.id, m.name)
    /\ UNCHANGED <<nspresolver, cache, conns, crashed, networkVars, arrived, expired, clash>>

\* A whole answer on a connection to server, which is closed first.
TcpReply(c) ==
    /\ conns[c] # NULL
    /\ conns[c].st = "open"
    /\ conns' = [conns EXCEPT ![c] = NULL]
    /\ ReplyCb(conns[c].id, conns[c].name)
    /\ UNCHANGED <<nspresolver, cache, crashed, networkVars, arrived, expired, clash>>

\* The connection fails or is closed by the server before a whole answer.
ConnLost(c) ==
    /\ conns[c] # NULL
    /\ conns[c].st = "open"
    /\ conns' = [conns EXCEPT ![c] = NULL]
    /\ UNCHANGED <<nspresolver, qlist, cache, crashed, networkVars, historyVars>>

\* tick_cb: queries age and expire; the cache forgets any of its verdicts
\* (module VerdictCache says which).
Tick ==
    /\ qlist' = Ticked(qlist)
    /\ expired' = expired \cup {qlist[s].req : s \in {t \in Busy(qlist) : qlist[t].ttl = 1}}
    /\ \E gone \in SUBSET {n \in Names : cache[n] # "unknown"} :
          cache' = [n \in Names |-> IF n \in gone THEN "unknown" ELSE cache[n]]
    /\ UNCHANGED <<nspresolver, conns, crashed, networkVars, arrived, got, clash>>

-------------------------------------------------------------------------------
Init ==
    /\ nspresolver \in BOOLEAN
    /\ qlist = EmptyTable
    /\ cache = [n \in Names |-> "unknown"]
    /\ conns = [c \in Conns |-> NULL]
    /\ sent = {}
    /\ forged = {}
    /\ crashed = FALSE
    /\ arrived = {}
    /\ got = [r \in Requests |-> << >>]
    /\ expired = {}
    /\ clash = FALSE

Next ==
    /\ ~crashed
    /\ \/ \E r \in Requests : RecvQuery(r)
       \/ \E m \in sent : TestReply(m) \/ UdpReply(m)
       \/ \E c \in Conns : ConnectDone(c) \/ TcpReply(c) \/ ConnLost(c)
       \/ Tick

\* ev_run calls tick_cb again and again whatever the other events are; nothing
\* makes the network or the clients act.
Fairness == WF_vars(~crashed /\ Tick)

Spec == Init /\ [][Next]_vars
FairSpec == Spec /\ Fairness
-------------------------------------------------------------------------------
(* Properties *)

\* Every variable holds a value of its kind; a query in the table has between
\* one and QueryTtl ticks left.
TypeOK ==
    /\ nspresolver \in BOOLEAN
    /\ qlist \in [Slots -> Query \cup {NULL}]
    /\ cache \in [Names -> Verdicts]
    /\ conns \in [Conns -> Conn \cup {NULL}]
    /\ sent \subseteq Datagram
    /\ forged \subseteq sent
    /\ crashed \in BOOLEAN
    /\ arrived \subseteq Requests
    /\ got \in [Requests -> Seq(Reply)]
    /\ expired \subseteq Requests
    /\ clash \in BOOLEAN

\* A client is sent at most one answer to a request, and it carries the id the
\* client chose, whatever ids the request had inside (reply_cb restores qid):
\* not after a duplicated or late answer, a renumbering or an id collision.
AnsweredOnce ==
    \A r \in Requests :
       /\ Len(got[r]) <= 1
       /\ \A k \in 1 .. Len(got[r]) : got[r][k].id = ReqId[r]

\* A request is in one slot at most, and in none once it has been answered or
\* has expired: query_add, query_delete and query_tick never leave a copy.
PendingOnce ==
    \A s \in Busy(qlist) :
       LET r == qlist[s].req
       IN /\ r \in arrived \ expired
          /\ got[r] = << >>
          /\ \A t \in Busy(qlist) : qlist[t].req = r => t = s

\* Queries in the table have different ids and none has id 0; a datagram or a
\* connection that carries the id of a query is about that query's name; a probe
\* whose forged answer came matches no query any more; no two connections, and
\* no connection and datagram, share an id.
Apart(ql, cs, sn, fg) ==
    /\ \A s \in Busy(ql) : ql[s].id \in Ids
    /\ \A s, t \in Busy(ql) : ql[s].id = ql[t].id => s = t
    /\ \A m \in sn, s \in Busy(ql) : ql[s].id = m.id => m.name = QName(ql[s])
    /\ \A m \in fg, s \in Busy(ql) : ql[s].id # m.id
    /\ \A c \in Conns : cs[c] # NULL =>
          /\ \A s \in Busy(ql) : ql[s].id = cs[c].id => cs[c].name = QName(ql[s])
          /\ \A m \in sn : m.id # cs[c].id
          /\ \A d \in Conns : cs[d] # NULL /\ cs[d].id = cs[c].id => d = c

\* Until an id is given out twice, everything that can still bring an answer is
\* kept apart by its id alone (ns_newid: "generate a new unique ID").
IdsApart == ~clash => Apart(qlist, conns, sent, forged)

\* Until an id is given out twice, an answer is about the name its client
\* asked for, although reply_cb and test_cb compare nothing but ids.
RightAnswer ==
    ~clash => \A r \in Requests : \A k \in 1 .. Len(got[r]) :
                 got[r][k].name = ReqName[r]

\* Until an id is given out twice, cn_server is asked only about names that
\* are not polluted and server only about names that are, even when the
\* genuine answer to a probe arrives after the forged one (test_cb has given
\* the query a new id by then).
Routed(sn, cs) ==
    /\ \A m \in sn : /\ m.to = "cn" => m.name \notin Polluted
                     /\ m.to = "server" => m.name \in Polluted
    /\ \A c \in Conns : cs[c] # NULL => cs[c].name \in Polluted

RoutedByVerdict == ~clash => Routed(sent, conns)

\* A name the cache calls polluted is polluted; until an id is given out
\* twice, a name it calls clean is not.
CacheSound ==
    \A n \in Names : /\ cache[n] = "polluted" => n \in Polluted
                     /\ cache[n] = "clean" /\ ~clash => n \notin Polluted

\* A connection being made whose query has left the table.
Orphan(c) == /\ conns[c] # NULL
             /\ conns[c].st = "connecting"
             /\ Hits(qlist, conns[c].id) = {}

\* Until an id is given out twice, a connection loses its query in one way
\* only: a request for its name has expired meanwhile.  The assert of
\* connect_cb fails for such a connection and for no other.
OrphanOnlyByTimeout ==
    /\ crashed => \E c \in Conns : Orphan(c)
    /\ ~clash => \A c \in Conns : Orphan(c) =>
                    \E r \in expired : ReqName[r] = conns[c].name

\* cache_insert never overwrites: a verdict changes only by being forgotten.
VerdictStable ==
    [][\A n \in Names : cache[n] # "unknown" => cache'[n] \in {cache[n], "unknown"}]_vars

\* Every request in the table leaves it (answered, given up or expired) unless
\* the process dies: no lost message, hung connection or stranded query keeps
\* a slot for ever.
Pending(r) == \E s \in Busy(qlist) : qlist[s].req = r
EventuallySettled == \A r \in Requests : Pending(r) ~> (~Pending(r) \/ crashed)

\* The process never dies of connect_cb's assert (sans.c:525), which says that
\* the query a connection was made for is still in the table.
ConnectFindsQuery == ~crashed

\* What the clients see of each request.
Status(r) == IF r \notin arrived THEN "idle"
             ELSE IF got[r] # << >> THEN "answered"
             ELSE IF Pending(r) THEN "pending"
             ELSE "dropped"

F == INSTANCE Forwarder WITH status <- [r \in Requests |-> Status(r)],
                             answers <- got, mixed <- clash, down <- crashed

\* The program does for its clients what Forwarder promises.
ImplementsForwarder == F!Spec
===============================================================================
