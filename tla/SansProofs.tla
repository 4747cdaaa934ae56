------------------------------- MODULE SansProofs -------------------------------
(***************************************************************************)
(* Proofs about the forwarder, for every set of requests, names, ids and    *)
(* connections, every table size and time to live, and any polluted set.    *)
(*                                                                          *)
(* Its composition with descriptors is still the forwarder, so that what is *)
(* proved about Sans holds of it; and the number of a descriptor, which is  *)
(* all that a query keeps of its TCP client, stays that client's.           *)
(***************************************************************************)
EXTENDS Sockets, TLAPS

Table == [Slots -> Query \cup {NULL}]
ConnTable == [Conns -> Conn \cup {NULL}]

\* A slot that is in use holds a query; the empty table is a table.
LEMMA BusyType ==
    /\ EmptyTable \in Table
    /\ \A ql \in Table : \A s \in Busy(ql) : s \in Slots /\ ql[s] \in Query
BY DEF EmptyTable, Table, Busy

\* The operations of query.c map tables to tables.
LEMMA NewQueryType ==
    ASSUME NEW r \in Requests
    PROVE  NewQuery(r, ReqId[r]) \in Query /\ NewQuery(r, ReqId[r]) # NULL
<1>1. ReqId[r] \in AnyId /\ QueryTtl \in 1 .. QueryTtl
  BY SansAssumption, TableAssumption
<1>2. NewQuery(r, ReqId[r]) \in Query
  BY <1>1 DEF NewQuery, Query
<1>3. QED
  BY <1>2, NullAssumption

LEMMA AddedType ==
    ASSUME NEW ql \in Table, NEW s \in Slots, NEW r \in Requests
    PROVE  Added(ql, s, NewQuery(r, ReqId[r])) \in Table
BY NewQueryType DEF Added, Table

LEMMA RenumberedType ==
    ASSUME NEW ql \in Table, NEW s \in Busy(ql), NEW id \in Ids
    PROVE  /\ Renumbered(ql, s, id) \in Table
           /\ Renumbered(ql, s, id)[s] \in Query
           /\ Renumbered(ql, s, id)[s].id = id
           /\ Renumbered(ql, s, id)[s].req = ql[s].req
           /\ Renumbered(ql, s, id)[s].qid = ql[s].qid
<1>1. s \in Slots /\ ql[s] \in Query
  BY BusyType
<1>2. [ql[s] EXCEPT !.id = id] \in Query
  BY <1>1 DEF Query, AnyId
<1>3. Renumbered(ql, s, id) = [ql EXCEPT ![s] = [ql[s] EXCEPT !.id = id]]
  BY DEF Renumbered
<1>4. Renumbered(ql, s, id)[s] = [ql[s] EXCEPT !.id = id]
  BY <1>1, <1>3 DEF Table
<1>5. /\ [ql[s] EXCEPT !.id = id].id = id
      /\ [ql[s] EXCEPT !.id = id].req = ql[s].req
      /\ [ql[s] EXCEPT !.id = id].qid = ql[s].qid
  BY <1>1 DEF Query
<1>6. Renumbered(ql, s, id) \in Table
  BY <1>1, <1>2, <1>3 DEF Table
<1>7. QED
  BY <1>2, <1>4, <1>5, <1>6

LEMMA DeletedType ==
    ASSUME NEW ql \in Table, NEW s \in Slots
    PROVE  Deleted(ql, s) \in Table
BY DEF Deleted, Table

LEMMA TickedType ==
    ASSUME NEW ql \in Table
    PROVE  Ticked(ql) \in Table
<1>1. ASSUME NEW s \in Slots, ql[s] # NULL, ql[s].ttl # 1
      PROVE  [ql[s] EXCEPT !.ttl = @ - 1] \in Query
  <2>1. ql[s] \in Query
    BY <1>1 DEF Table
  <2>2. ql[s].ttl - 1 \in 1 .. QueryTtl
    BY <1>1, <2>1, TableAssumption DEF Query
  <2>3. QED
    BY <2>1, <2>2 DEF Query
<1>2. QED
  BY <1>1 DEF Ticked, Table

\* Sending a query on, whichever way, keeps the types.
LEMMA DispatchType ==
    ASSUME TypeOK, NEW ql \in Table, NEW s \in Slots, ql[s] \in Query,
           ql[s].id \in Ids, NEW p \in BOOLEAN,
           Probe(ql, s) \/ Route(ql, s, p)
    PROVE  /\ qlist' \in Table
           /\ conns' \in ConnTable
           /\ sent' \subseteq Datagram
           /\ sent \subseteq sent'
<1> DEFINE n == QName(ql[s])
<1>0. n \in Names
  BY SansAssumption DEF QName, Query
<1>1. ASSUME NEW to \in {"test", "cn", "server"}, Send(to, ql[s].id, n)
      PROVE  sent' \subseteq Datagram /\ sent \subseteq sent'
  BY <1>0, <1>1 DEF Send, Datagram, TypeOK
<1>2. ASSUME AsyncConnect(ql, s)
      PROVE  qlist' \in Table /\ conns' \in ConnTable
  <2>1. [st |-> "connecting", id |-> ql[s].id, name |-> n] \in Conn
    BY <1>0 DEF Conn
  <2>2. QED
    BY <1>2, <2>1, DeletedType DEF AsyncConnect, TypeOK, ConnTable
<1>3. conns \in ConnTable /\ sent \subseteq Datagram
  BY DEF TypeOK, ConnTable
<1>4. QED
  BY <1>1, <1>2, <1>3 DEF Probe, Route

-------------------------------------------------------------------------------
(* Type correctness *)

LEMMA TypeInit == Init => TypeOK
<1> SUFFICES ASSUME Init PROVE TypeOK
  OBVIOUS
<1>1. qlist \in [Slots -> Query \cup {NULL}]
  BY BusyType DEF Init, Table
<1>2. got \in [Requests -> Seq(Reply)]
  BY DEF Init
<1>3. QED
  BY <1>1, <1>2 DEF Init, TypeOK, Verdicts

\* A query that arrives is stored, looked up by its id and sent on.
LEMMA RecvQueryType ==
    ASSUME TypeOK, NEW r \in Requests, RecvQuery(r)
    PROVE  TypeOK'
<1> DEFINE Typed == qlist' \in Table /\ conns' \in ConnTable /\ sent' \subseteq Datagram
                    /\ sent \subseteq sent' /\ clash' \in BOOLEAN
<1>1. Typed
  <2>1. CASE UNCHANGED <<qlist, conns, sent, clash>>
    BY <2>1 DEF TypeOK, Table, ConnTable
  <2>2. ASSUME NEW s0 \in Slots,
               QueryCb(Added(qlist, s0, NewQuery(r, ReqId[r])), ReqId[r])
        PROVE  Typed
    <3> DEFINE ql == Added(qlist, s0, NewQuery(r, ReqId[r]))
    <3>1. ql \in Table
      BY AddedType DEF TypeOK, Table
    <3>2. PICK s \in Slots, new \in FreshIds(ql) :
             /\ IsFirst(s, Hits(ql, ReqId[r]))
             /\ \/ Probe(Renumbered(ql, s, new), s)
                \/ \E p \in BOOLEAN : Route(Renumbered(ql, s, new), s, p)
             /\ clash' \in BOOLEAN
      BY <2>2 DEF QueryCb, TypeOK
    <3>3. s \in Busy(ql) /\ new \in Ids
      BY <3>2 DEF IsFirst, Hits, FreshIds
    <3> HIDE DEF ql
    <3> DEFINE ql2 == Renumbered(ql, s, new)
    <3>4. ql2 \in Table /\ ql2[s] \in Query /\ ql2[s].id \in Ids
      BY <3>1, <3>3, RenumberedType
    <3> HIDE DEF ql2
    <3>5. PICK p \in BOOLEAN : Probe(ql2, s) \/ Route(ql2, s, p)
      BY <3>2 DEF ql2
    <3>6. QED
      BY <3>2, <3>4, <3>5, DispatchType
  <2>3. QED
    BY <2>1, <2>2 DEF RecvQuery
<1>2. QED
  BY <1>1 DEF RecvQuery, TypeOK, Table, ConnTable

LEMMA TestReplyType ==
    ASSUME TypeOK, NEW m \in sent, TestReply(m)
    PROVE  TypeOK'
<1>1. PICK forgery \in BOOLEAN :
         /\ forged' = IF forgery THEN forged \cup {m} ELSE forged
         /\ \/ UNCHANGED <<qlist, cache, conns, sent, clash>>
            \/ \E s \in Slots : /\ IsFirst(s, Hits(qlist, m.id))
                                /\ TestCb(m, s, forgery)
  BY DEF TestReply
<1> DEFINE Typed == qlist' \in Table /\ conns' \in ConnTable /\ sent' \subseteq Datagram
                    /\ sent \subseteq sent' /\ clash' \in BOOLEAN /\ cache' \in [Names -> Verdicts]
<1>2. Typed
  <2>1. CASE UNCHANGED <<qlist, cache, conns, sent, clash>>
    BY <2>1 DEF TypeOK, Table, ConnTable
  <2>2. ASSUME NEW s \in Slots, IsFirst(s, Hits(qlist, m.id)), TestCb(m, s, forgery)
        PROVE  Typed
    <3>1. PICK new \in FreshIds(qlist) :
             /\ \/ /\ qlist' = Renumbered(qlist, s, new)
                   /\ UNCHANGED <<cache, conns, sent>>
                \/ /\ Route(Renumbered(qlist, s, new), s, forgery)
                   /\ Learn(m.name, forgery)
             /\ Note(new)
      BY <2>2 DEF TestCb
    <3> DEFINE ql2 == Renumbered(qlist, s, new)
    <3>2. s \in Busy(qlist) /\ new \in Ids /\ qlist \in Table
      BY <2>2, <3>1 DEF IsFirst, Hits, FreshIds, TypeOK, Table
    <3>3. ql2 \in Table /\ ql2[s] \in Query /\ ql2[s].id \in Ids
      BY <3>2, RenumberedType
    <3>4. clash' \in BOOLEAN
      BY <3>1 DEF Note, TypeOK
    <3>5. cache' \in [Names -> Verdicts]
      BY <3>1 DEF Learn, TypeOK, Verdicts
    <3> HIDE DEF ql2
    <3>6. CASE qlist' = ql2 /\ UNCHANGED <<cache, conns, sent>>
      BY <3>3, <3>4, <3>5, <3>6 DEF TypeOK, ConnTable
    <3>7. CASE Route(ql2, s, forgery)
      BY <3>3, <3>4, <3>5, <3>7, DispatchType
    <3>8. QED
      BY <3>1, <3>6, <3>7 DEF ql2
  <2>3. QED
    BY <1>1, <2>1, <2>2
<1>3. forged' \subseteq sent'
  BY <1>1, <1>2 DEF TypeOK
<1>4. QED
  BY <1>2, <1>3 DEF TestReply, TypeOK, Table, ConnTable

LEMMA ReplyCbType ==
    ASSUME TypeOK, NEW id \in Ids, NEW name \in Names, ReplyCb(id, name)
    PROVE  qlist' \in Table /\ got' \in [Requests -> Seq(Reply)]
<1>1. CASE UNCHANGED <<qlist, got>>
  BY <1>1 DEF TypeOK, Table
<1>2. ASSUME NEW s \in Slots, IsFirst(s, Hits(qlist, id)),
             got' = [got EXCEPT ![qlist[s].req] =
                       Append(@, [id |-> qlist[s].qid, name |-> name])],
             qlist' = Deleted(qlist, s)
      PROVE  qlist' \in Table /\ got' \in [Requests -> Seq(Reply)]
  <2>1. qlist[s] \in Query
    BY <1>2, BusyType DEF IsFirst, Hits, TypeOK, Table
  <2>2. [id |-> qlist[s].qid, name |-> name] \in Reply
    BY <2>1 DEF Query, Reply
  <2>3. got' \in [Requests -> Seq(Reply)]
    BY <1>2, <2>1, <2>2 DEF Query, TypeOK
  <2>4. QED
    BY <1>2, <2>3, DeletedType DEF TypeOK, Table
<1>3. QED
  BY <1>1, <1>2 DEF ReplyCb

LEMMA UdpReplyType ==
    ASSUME TypeOK, NEW m \in sent, UdpReply(m)
    PROVE  TypeOK'
<1>1. m.id \in Ids /\ m.name \in Names
  BY DEF TypeOK, Datagram
<1>2. QED
  BY <1>1, ReplyCbType DEF UdpReply, TypeOK, networkVars, Table

LEMMA ConnType ==
    ASSUME TypeOK, NEW c \in Conns, conns[c] # NULL
    PROVE  /\ conns[c] \in Conn
           /\ conns[c].id \in Ids
           /\ conns[c].name \in Names
BY DEF TypeOK, Conn

LEMMA ConnectDoneType ==
    ASSUME TypeOK, NEW c \in Conns, ConnectDone(c)
    PROVE  TypeOK'
<1> DEFINE Typed == qlist' \in Table /\ conns' \in ConnTable /\ crashed' \in BOOLEAN
<1>1. Typed
  <2>1. CASE crashed' = TRUE /\ UNCHANGED <<qlist, conns>>
    BY <2>1 DEF TypeOK, Table, ConnTable
  <2>2. ASSUME NEW s \in Slots, IsFirst(s, Hits(qlist, conns[c].id)),
               conns' = [conns EXCEPT ![c] =
                           [@ EXCEPT !.st = "open", !.name = QName(qlist[s])]],
               UNCHANGED <<qlist, crashed>>
        PROVE  Typed
    <3>1. qlist[s] \in Query
      BY <2>2, BusyType DEF IsFirst, Hits, TypeOK, Table
    <3>2. QName(qlist[s]) \in Names
      BY <3>1, SansAssumption DEF QName, Query
    <3>3. conns[c] \in Conn
      BY ConnType DEF ConnectDone
    <3>4. [conns[c] EXCEPT !.st = "open", !.name = QName(qlist[s])] \in Conn
      BY <3>2, <3>3 DEF Conn
    <3>5. conns' \in ConnTable
      BY <2>2, <3>4 DEF TypeOK, ConnTable
    <3>6. QED
      BY <2>2, <3>5 DEF TypeOK, Table
  <2>3. ASSUME NEW s \in Slots, conns' = [conns EXCEPT ![c] = NULL],
               qlist' = Deleted(qlist, s), UNCHANGED crashed
        PROVE  Typed
    BY <2>3, DeletedType DEF TypeOK, Table, ConnTable
  <2>4. QED
    BY <2>1, <2>2, <2>3 DEF ConnectDone
<1>2. QED
  BY <1>1 DEF ConnectDone, TypeOK, Table, ConnTable, networkVars, historyVars

LEMMA TcpReplyType ==
    ASSUME TypeOK, NEW c \in Conns, TcpReply(c) \/ ConnLost(c)
    PROVE  TypeOK'
<1>1. conns[c] # NULL /\ conns' = [conns EXCEPT ![c] = NULL]
  BY DEF TcpReply, ConnLost
<1>2. conns' \in [Conns -> Conn \cup {NULL}]
  BY <1>1 DEF TypeOK
<1>3. CASE TcpReply(c)
  BY <1>1, <1>2, <1>3, ConnType, ReplyCbType DEF TcpReply, TypeOK, networkVars, Table
<1>4. CASE ConnLost(c)
  BY <1>2, <1>4 DEF ConnLost, TypeOK, networkVars, historyVars
<1>5. QED
  BY <1>3, <1>4

LEMMA TickType == ASSUME TypeOK, Tick PROVE TypeOK'
<1>1. qlist' \in Table
  BY TickedType DEF Tick, TypeOK, Table
<1>2. expired' \subseteq Requests
  <2>1. \A s \in Busy(qlist) : qlist[s].req \in Requests
    BY BusyType DEF TypeOK, Table, Query
  <2>2. QED
    BY <2>1 DEF Tick, TypeOK
<1>3. cache' \in [Names -> Verdicts]
  BY DEF Tick, TypeOK, Verdicts
<1>4. QED
  BY <1>1, <1>2, <1>3 DEF Tick, TypeOK, Table, networkVars

\* Every step keeps the types.
LEMMA TypeStep == TypeOK /\ [Next]_vars => TypeOK'
<1> SUFFICES ASSUME TypeOK, [Next]_vars PROVE TypeOK'
  OBVIOUS
<1>1. CASE UNCHANGED vars
  BY <1>1 DEF vars, programVars, networkVars, historyVars, TypeOK
<1>2. CASE Next
  BY <1>2, RecvQueryType, TestReplyType, UdpReplyType, ConnectDoneType, TcpReplyType,
     TickType DEF Next
<1>3. QED
  BY <1>1, <1>2

\* Type correctness of the forwarder: in particular a query in the table has
\* between one and QueryTtl ticks left, whatever the handlers interleave.
THEOREM TypeCorrect == Spec => []TypeOK
BY TypeInit, TypeStep, PTL DEF Spec

-------------------------------------------------------------------------------
(* One answer per request.  A step other than an arrival only renumbers and  *)
(* removes queries, so the invariant about requests and slots follows from   *)
(* the fact that the table after the step is kept from the one before.       *)

Kept(ql, ql2) == \A s \in Busy(ql2) : /\ s \in Busy(ql)
                                      /\ ql2[s].req = ql[s].req
                                      /\ ql2[s].qid = ql[s].qid

QidKept == \A s \in Busy(qlist) : qlist[s].qid = ReqId[qlist[s].req]

\* Nothing has happened yet to a request that has not arrived.
Untouched == \A r \in Requests \ arrived : got[r] = << >> /\ r \notin expired

OnceInv == TypeOK /\ Untouched /\ PendingOnce /\ QidKept /\ AnsweredOnce

LEMMA KeptRenumbered ==
    ASSUME NEW ql \in Table, NEW s \in Busy(ql), NEW id \in Ids
    PROVE  /\ Kept(ql, Renumbered(ql, s, id))
           /\ Busy(Renumbered(ql, s, id)) = Busy(ql)
           /\ \A t \in Slots : t # s => Renumbered(ql, s, id)[t] = ql[t]
<1> DEFINE ql2 == Renumbered(ql, s, id)
<1>1. s \in Slots /\ ql[s] \in Query
  BY BusyType
<1>2. \A t \in Slots : t # s => ql2[t] = ql[t]
  BY <1>1 DEF Renumbered, Table
<1>3. ql2[s] \in Query /\ ql2[s].req = ql[s].req /\ ql2[s].qid = ql[s].qid
  BY RenumberedType
<1>4. ql2[s] # NULL
  BY <1>3, NullAssumption
<1>5. QED
  BY <1>1, <1>2, <1>3, <1>4 DEF Kept, Busy

LEMMA KeptDeleted ==
    ASSUME NEW ql \in Table, NEW s \in Slots
    PROVE  /\ Kept(ql, Deleted(ql, s))
           /\ Busy(Deleted(ql, s)) = Busy(ql) \ {s}
           /\ \A t \in Slots : t # s => Deleted(ql, s)[t] = ql[t]
BY DEF Kept, Busy, Deleted, Table

LEMMA KeptTicked ==
    ASSUME NEW ql \in Table
    PROVE  /\ Kept(ql, Ticked(ql))
           /\ Busy(Ticked(ql)) = {s \in Busy(ql) : ql[s].ttl # 1}
           /\ \A s \in Busy(Ticked(ql)) : Ticked(ql)[s].id = ql[s].id
<1>1. ASSUME NEW s \in Busy(ql), ql[s].ttl # 1
      PROVE  /\ Ticked(ql)[s] # NULL
             /\ Ticked(ql)[s].req = ql[s].req
             /\ Ticked(ql)[s].qid = ql[s].qid
             /\ Ticked(ql)[s].id = ql[s].id
  <2>1. s \in Slots /\ ql[s] \in Query /\ ql[s] # NULL
    BY BusyType DEF Busy
  <2>2. Ticked(ql)[s] = [ql[s] EXCEPT !.ttl = @ - 1]
    BY <1>1, <2>1 DEF Ticked
  <2>3. Ticked(ql)[s] \in Query \cup {NULL}
    BY <2>1, TickedType DEF Table
  <2>4. /\ Ticked(ql)[s].req = ql[s].req
        /\ Ticked(ql)[s].qid = ql[s].qid
        /\ Ticked(ql)[s].id = ql[s].id
    BY <2>1, <2>2 DEF Query
  <2>5. ql[s].ttl \in Nat /\ ql[s].ttl - 1 \in 1 .. QueryTtl
    BY <1>1, <2>1, TableAssumption DEF Query
  <2>6. Ticked(ql)[s] \in Query
    BY <2>1, <2>2, <2>5 DEF Query
  <2>7. QED
    BY <2>4, <2>6, NullAssumption
<1>2. \A s \in Slots : ql[s] = NULL \/ ql[s].ttl = 1 => Ticked(ql)[s] = NULL
  BY DEF Ticked
<1>3. QED
  BY <1>1, <1>2 DEF Kept, Busy

LEMMA KeptTransitive ==
    ASSUME NEW ql1, NEW ql2, NEW ql3, Kept(ql1, ql2), Kept(ql2, ql3)
    PROVE  Kept(ql1, ql3)
BY DEF Kept

LEMMA KeptDispatch ==
    ASSUME NEW ql \in Table, NEW s \in Slots, NEW p \in BOOLEAN,
           Probe(ql, s) \/ Route(ql, s, p)
    PROVE  Kept(ql, qlist')
BY KeptDeleted DEF Probe, Route, AsyncConnect, Kept

\* The invariant survives a step that keeps the table and adds nothing.
LEMMA OnceKept ==
    ASSUME OnceInv, TypeOK', Kept(qlist, qlist'), UNCHANGED <<arrived, got, expired>>
    PROVE  OnceInv'
BY DEF OnceInv, Untouched, PendingOnce, QidKept, AnsweredOnce, Kept

\* The table before the handler of an arrival, with the new query in slot s0.
LEMMA AddedBusy ==
    ASSUME NEW ql \in Table, NEW s0 \in Free(ql), NEW r \in Requests
    PROVE  /\ Added(ql, s0, NewQuery(r, ReqId[r])) \in Table
           /\ Busy(Added(ql, s0, NewQuery(r, ReqId[r]))) = Busy(ql) \cup {s0}
           /\ Added(ql, s0, NewQuery(r, ReqId[r]))[s0] = NewQuery(r, ReqId[r])
           /\ \A s \in Busy(ql) : /\ s # s0
                                  /\ Added(ql, s0, NewQuery(r, ReqId[r]))[s] = ql[s]
<1>1. s0 \in Slots /\ NewQuery(r, ReqId[r]) # NULL
  BY NewQueryType DEF Free
<1>2. Added(ql, s0, NewQuery(r, ReqId[r])) \in Table
  BY <1>1, AddedType
<1>3. QED
  BY <1>1, <1>2 DEF Added, Table, Busy, Free

LEMMA RecvQueryOnce ==
    ASSUME OnceInv, NEW r \in Requests, RecvQuery(r)
    PROVE  OnceInv'
<1>1. TypeOK'
  BY RecvQueryType DEF OnceInv
<1>2. CASE UNCHANGED qlist
  BY <1>1, <1>2 DEF RecvQuery, OnceInv, Untouched, PendingOnce, QidKept, AnsweredOnce, TypeOK
<1>3. ASSUME NEW s0 \in Slots, IsFirst(s0, Free(qlist)),
             QueryCb(Added(qlist, s0, NewQuery(r, ReqId[r])), ReqId[r])
      PROVE  OnceInv'
  <2> DEFINE ql == Added(qlist, s0, NewQuery(r, ReqId[r]))
  <2>1. /\ ql \in Table
        /\ Busy(ql) = Busy(qlist) \cup {s0}
        /\ ql[s0] = NewQuery(r, ReqId[r])
        /\ \A s \in Busy(qlist) : s # s0 /\ ql[s] = qlist[s]
    <3>1. qlist \in Table /\ s0 \in Free(qlist)
      BY <1>3 DEF IsFirst, OnceInv, TypeOK, Table
    <3>2. QED
      BY <3>1, AddedBusy
  <2>2. Kept(ql, qlist')
    <3> HIDE DEF ql
    <3>1. PICK s \in Busy(ql), new \in Ids, p \in BOOLEAN :
             Probe(Renumbered(ql, s, new), s) \/ Route(Renumbered(ql, s, new), s, p)
      BY <1>3 DEF QueryCb, IsFirst, Hits, FreshIds, ql
    <3>2. Renumbered(ql, s, new) \in Table /\ Kept(ql, Renumbered(ql, s, new))
      BY <2>1, RenumberedType, KeptRenumbered
    <3>3. Kept(Renumbered(ql, s, new), qlist')
      BY <3>1, <3>2, KeptDispatch DEF Busy
    <3>4. QED
      BY <3>2, <3>3, KeptTransitive
  <2>3. ql[s0].req = r /\ ql[s0].qid = ReqId[r]
    BY <2>1 DEF NewQuery
  <2> HIDE DEF ql
  <2>4. /\ r \notin arrived
        /\ arrived' = arrived \cup {r}
        /\ UNCHANGED <<got, expired>>
    BY DEF RecvQuery
  <2>5. got[r] = << >> /\ r \notin expired
    BY <2>4 DEF OnceInv, Untouched
  <2>6. QED
    BY <1>1, <2>1, <2>2, <2>3, <2>4, <2>5
    DEF OnceInv, Untouched, PendingOnce, QidKept, AnsweredOnce, Kept
<1>4. QED
  BY <1>2, <1>3 DEF RecvQuery

LEMMA TestReplyOnce ==
    ASSUME OnceInv, NEW m \in sent, TestReply(m)
    PROVE  OnceInv'
<1>1. TypeOK' /\ UNCHANGED <<arrived, got, expired>>
  BY TestReplyType DEF OnceInv, TestReply
<1>2. Kept(qlist, qlist')
  <2>1. CASE UNCHANGED qlist
    BY <2>1 DEF Kept
  <2>2. ASSUME NEW s \in Slots, IsFirst(s, Hits(qlist, m.id)),
               NEW p \in BOOLEAN, TestCb(m, s, p)
        PROVE  Kept(qlist, qlist')
    <3>1. s \in Busy(qlist) /\ qlist \in Table
      BY <2>2 DEF IsFirst, Hits, OnceInv, TypeOK, Table
    <3>2. PICK new \in Ids : \/ qlist' = Renumbered(qlist, s, new)
                             \/ Route(Renumbered(qlist, s, new), s, p)
      BY <2>2 DEF TestCb, FreshIds
    <3>3. Renumbered(qlist, s, new) \in Table /\ Kept(qlist, Renumbered(qlist, s, new))
      BY <3>1, RenumberedType, KeptRenumbered
    <3>4. CASE qlist' = Renumbered(qlist, s, new)
      BY <3>3, <3>4
    <3>5. CASE Route(Renumbered(qlist, s, new), s, p)
      <4>1. Kept(Renumbered(qlist, s, new), qlist')
        BY <3>3, <3>5, KeptDispatch
      <4>2. QED
        BY <3>3, <4>1, KeptTransitive
    <3>6. QED
      BY <3>2, <3>4, <3>5
  <2>3. QED
    BY <2>1, <2>2 DEF TestReply
<1>3. QED
  BY <1>1, <1>2, OnceKept

LEMMA ReplyCbOnce ==
    ASSUME OnceInv, TypeOK', NEW id \in Ids, NEW name \in Names, ReplyCb(id, name),
           UNCHANGED <<arrived, expired>>
    PROVE  OnceInv'
<1>1. CASE UNCHANGED <<qlist, got>>
  <2>1. Kept(qlist, qlist')
    BY <1>1 DEF Kept
  <2>2. QED
    BY <1>1, <2>1, OnceKept
<1>2. ASSUME NEW s \in Slots, IsFirst(s, Hits(qlist, id)),
             got' = [got EXCEPT ![qlist[s].req] =
                       Append(@, [id |-> qlist[s].qid, name |-> name])],
             qlist' = Deleted(qlist, s)
      PROVE  OnceInv'
  <2> DEFINE r == qlist[s].req
             a == [id |-> qlist[s].qid, name |-> name]
  <2>1. s \in Busy(qlist) /\ qlist \in Table
    BY <1>2 DEF IsFirst, Hits, OnceInv, TypeOK, Table
  <2>2. r \in Requests /\ r \in arrived \ expired /\ got[r] = << >> /\ a.id = ReqId[r]
    BY <2>1, BusyType DEF Query, OnceInv, PendingOnce, QidKept
  <2>3. got'[r] = <<a>> /\ \A q \in Requests : q # r => got'[q] = got[q]
    BY <1>2, <2>2 DEF OnceInv, TypeOK
  <2>4. /\ Kept(qlist, qlist')
        /\ \A t \in Busy(qlist') : qlist'[t].req # r
    BY <1>2, <2>1, KeptDeleted DEF OnceInv, PendingOnce, Kept
  <2> HIDE DEF a, r
  <2>5. Len(got'[r]) = 1 /\ got'[r][1].id = ReqId[r]
    BY <2>2, <2>3
  <2>6. AnsweredOnce'
    <3>1. \A k \in 1 .. Len(got'[r]) : got'[r][k].id = ReqId[r]
      BY <2>5
    <3>2. \A q \in Requests : q # r => Len(got'[q]) <= 1
                              /\ \A k \in 1 .. Len(got'[q]) : got'[q][k].id = ReqId[q]
      BY <2>3 DEF OnceInv, AnsweredOnce
    <3>3. Len(got'[r]) <= 1
      BY <2>5
    <3>4. QED
      BY <3>1, <3>2, <3>3 DEF AnsweredOnce
  <2>7. PendingOnce' /\ QidKept'
    BY <2>3, <2>4, BusyType DEF OnceInv, PendingOnce, QidKept, Kept, TypeOK, Table, Query
  <2>8. Untouched'
    BY <2>2, <2>3 DEF OnceInv, Untouched
  <2>9. QED
    BY <2>6, <2>7, <2>8 DEF OnceInv
<1>3. QED
  BY <1>1, <1>2 DEF ReplyCb

LEMMA UdpReplyOnce ==
    ASSUME OnceInv, NEW m \in sent, UdpReply(m)
    PROVE  OnceInv'
<1>1. m.id \in Ids /\ m.name \in Names
  BY DEF OnceInv, TypeOK, Datagram
<1>2. TypeOK'
  BY UdpReplyType DEF OnceInv
<1>3. QED
  BY <1>1, <1>2, ReplyCbOnce DEF UdpReply

LEMMA ConnOnce ==
    ASSUME OnceInv, NEW c \in Conns, ConnectDone(c) \/ TcpReply(c) \/ ConnLost(c)
    PROVE  OnceInv'
<1>1. TypeOK'
  BY ConnectDoneType, TcpReplyType DEF OnceInv
<1>2. CASE TcpReply(c)
  <2>1. conns[c].id \in Ids /\ conns[c].name \in Names
    BY <1>2, ConnType DEF TcpReply, OnceInv
  <2>2. QED
    BY <1>1, <1>2, <2>1, ReplyCbOnce DEF TcpReply
<1>3. CASE ConnectDone(c) \/ ConnLost(c)
  <2>1. UNCHANGED <<arrived, got, expired>>
    BY <1>3 DEF ConnectDone, ConnLost, historyVars
  <2>2. Kept(qlist, qlist')
    <3>1. qlist \in Table
      BY DEF OnceInv, TypeOK, Table
    <3>2. qlist' = qlist \/ \E s \in Slots : qlist' = Deleted(qlist, s)
      BY <1>3 DEF ConnectDone, ConnLost
    <3>3. CASE qlist' = qlist
      BY <3>3 DEF Kept
    <3>4. QED
      BY <3>1, <3>2, <3>3, KeptDeleted
  <2>3. QED
    BY <1>1, <2>1, <2>2, OnceKept
<1>4. QED
  BY <1>2, <1>3

LEMMA TickOnce == ASSUME OnceInv, Tick PROVE OnceInv'
<1>1. TypeOK'
  BY TickType DEF OnceInv
<1>2. /\ Kept(qlist, qlist')
      /\ Busy(qlist') = {s \in Busy(qlist) : qlist[s].ttl # 1}
  BY KeptTicked DEF Tick, OnceInv, TypeOK, Table
<1>3. /\ expired' = expired \cup
                     {qlist[s].req : s \in {t \in Busy(qlist) : qlist[t].ttl = 1}}
      /\ UNCHANGED <<arrived, got>>
  BY DEF Tick
<1>4. PendingOnce'
  BY <1>2, <1>3 DEF OnceInv, PendingOnce, Kept
<1>5. QidKept' /\ AnsweredOnce'
  BY <1>2, <1>3 DEF OnceInv, QidKept, AnsweredOnce, Kept
<1>6. Untouched'
  BY <1>3 DEF OnceInv, Untouched, PendingOnce
<1>7. QED
  BY <1>1, <1>4, <1>5, <1>6 DEF OnceInv

LEMMA OnceInit == Init => OnceInv
<1> SUFFICES ASSUME Init PROVE OnceInv
  OBVIOUS
<1>1. TypeOK
  BY TypeInit
<1>2. Busy(qlist) = {}
  BY DEF Init, EmptyTable, Busy
<1>3. \A r \in Requests : got[r] = << >> /\ r \notin expired
  BY DEF Init
<1>4. AnsweredOnce
  BY <1>3 DEF AnsweredOnce
<1>5. QED
  BY <1>1, <1>2, <1>3, <1>4 DEF OnceInv, Untouched, PendingOnce, QidKept

LEMMA OnceStep == OnceInv /\ [Next]_vars => OnceInv'
<1> SUFFICES ASSUME OnceInv, [Next]_vars PROVE OnceInv'
  OBVIOUS
<1>1. CASE UNCHANGED vars
  BY <1>1 DEF vars, programVars, networkVars, historyVars, OnceInv, TypeOK, Untouched,
     PendingOnce, QidKept, AnsweredOnce
<1>2. CASE Next
  BY <1>2, RecvQueryOnce, TestReplyOnce, UdpReplyOnce, ConnOnce, TickOnce DEF Next
<1>3. QED
  BY <1>1, <1>2

LEMMA OnceInvariant == Spec => []OnceInv
BY OnceInit, OnceStep, PTL DEF Spec

\* A request gets one answer at most and under its client's id, even when ids
\* collide, answers are duplicated or come late, and queries are renumbered.
THEOREM AnswersOnce == Spec => []AnsweredOnce
<1>1. OnceInv => AnsweredOnce
  BY DEF OnceInv
<1>2. QED
  BY <1>1, OnceInvariant, PTL

\* A request holds one slot at most, and none once answered or expired.
THEOREM HoldsOneSlot == Spec => []PendingOnce
<1>1. OnceInv => PendingOnce
  BY DEF OnceInv
<1>2. QED
  BY <1>1, OnceInvariant, PTL

-------------------------------------------------------------------------------
(***************************************************************************)
(* What the ids keep apart: until an id is given out twice, answers reach   *)
(* the request they belong to and names the server their verdict selects.   *)
(*                                                                          *)
(* The lemmas of the first part are about values, not about steps: what     *)
(* Apart says of a table, connections, datagrams and answered probes after  *)
(* one of them changes.  Each handler is a combination of these changes.    *)
(***************************************************************************)

\* Queries leave or keep their id and name; connections go or keep theirs.
LEMMA ApartLess ==
    ASSUME NEW ql, NEW cs, NEW sn, NEW fg, NEW ql2, NEW cs2,
           Apart(ql, cs, sn, fg),
           \A s \in Busy(ql2) : /\ s \in Busy(ql)
                                /\ ql2[s].id = ql[s].id
                                /\ ql2[s].req = ql[s].req,
           \A c \in Conns : cs2[c] # NULL => /\ cs[c] # NULL
                                             /\ cs2[c].id = cs[c].id
                                             /\ cs2[c].name = cs[c].name
    PROVE  Apart(ql2, cs2, sn, fg)
BY DEF Apart, QName

\* A query takes an id that nothing else has.
LEMMA ApartFresh ==
    ASSUME NEW ql, NEW cs, NEW sn, NEW fg, NEW ql2, NEW s, NEW new \in Ids,
           Apart(ql, cs, sn, fg),
           fg \subseteq sn,
           ql2[s].id = new,
           \A t \in Busy(ql2) : t # s => /\ t \in Busy(ql)
                                         /\ ql2[t].id = ql[t].id
                                         /\ ql2[t].req = ql[t].req
                                         /\ ql2[t].id # new,
           \A m \in sn : m.id # new,
           \A c \in Conns : cs[c] # NULL => cs[c].id # new
    PROVE  Apart(ql2, cs, sn, fg)
BY DEF Apart, QName

\* A datagram is sent about the query in slot s, under its id.
LEMMA ApartSend ==
    ASSUME NEW ql, NEW cs, NEW sn, NEW fg, NEW s \in Busy(ql), NEW d,
           Apart(ql, cs, sn, fg),
           d.id = ql[s].id, d.name = QName(ql[s]),
           \A c \in Conns : cs[c] # NULL => cs[c].id # d.id
    PROVE  Apart(ql, cs, sn \cup {d}, fg)
BY DEF Apart

\* A connection is started for the query in slot s, under its id.
LEMMA ApartConnect ==
    ASSUME NEW ql, NEW cs, NEW sn, NEW fg, NEW s \in Busy(ql), NEW c \in Conns, NEW cs2,
           Apart(ql, cs, sn, fg),
           cs2[c].id = ql[s].id, cs2[c].name = QName(ql[s]),
           \A d \in Conns : d # c => cs2[d] = cs[d],
           \A d \in Conns : cs[d] # NULL => cs[d].id # ql[s].id,
           \A m \in sn : m.id # ql[s].id
    PROVE  Apart(ql, cs2, sn, fg)
BY DEF Apart

\* The forged answer to m has come and no query has its id.
LEMMA ApartForged ==
    ASSUME NEW ql, NEW cs, NEW sn, NEW fg, NEW m,
           Apart(ql, cs, sn, fg),
           \A s \in Busy(ql) : ql[s].id # m.id
    PROVE  Apart(ql, cs, sn, fg \cup {m})
BY DEF Apart

-------------------------------------------------------------------------------
(* Sending a query on *)

\* Whatever way it is sent, no query changes; the one sent on may be deleted.
LEMMA DispatchSame ==
    ASSUME NEW ql \in Table, NEW s \in Busy(ql), NEW p \in BOOLEAN,
           Probe(ql, s) \/ Route(ql, s, p)
    PROVE  /\ \A t \in Busy(qlist') : t \in Busy(ql) /\ qlist'[t] = ql[t]
           /\ \A t \in Busy(ql) : t # s => t \in Busy(qlist') /\ qlist'[t] = ql[t]
<1>1. s \in Slots
  BY DEF Busy
<1>2. CASE qlist' = ql
  BY <1>2
<1>3. CASE qlist' = Deleted(ql, s)
  BY <1>1, <1>3 DEF Deleted, Busy, Table
<1>4. QED
  BY <1>2, <1>3 DEF Probe, Route, AsyncConnect

\* The three ways, with what they leave alone.
Asked(ql, s, to) == /\ Send(to, ql[s].id, QName(ql[s]))
                    /\ qlist' = ql
                    /\ conns' = conns

Connecting(ql, s, c) ==
    /\ conns[c] = NULL
    /\ conns' = [conns EXCEPT ![c] = [st |-> "connecting", id |-> ql[s].id,
                                      name |-> QName(ql[s])]]
    /\ qlist' = ql
    /\ sent' = sent

GivenUp(ql, s) == qlist' = Deleted(ql, s) /\ sent' = sent /\ conns' = conns

LEMMA DispatchCases ==
    ASSUME NEW ql, NEW s, NEW p \in BOOLEAN, Probe(ql, s) \/ Route(ql, s, p)
    PROVE  \/ \E to \in {"test", "cn", "server"} : Asked(ql, s, to)
           \/ \E c \in Conns : Connecting(ql, s, c)
           \/ GivenUp(ql, s)
BY DEF Probe, Route, AsyncConnect, Asked, Connecting, GivenUp

\* Table ql is the table before the step with the query in slot s put under the
\* id new: either a query that has just arrived, or one that matched no
\* connection.  new is not in use anywhere.
Launchable(ql, s, new) ==
    /\ ql \in Table
    /\ s \in Busy(ql)
    /\ new \in Ids
    /\ ql[s].id = new
    /\ ~InFlight(new)
    /\ \A t \in Busy(ql) : t # s => /\ t \in Busy(qlist)
                                    /\ ql[t] = qlist[t]
                                    /\ ql[t].id # new
    /\ \A t \in Busy(qlist) : \/ t # s /\ t \in Busy(ql)
                              \/ \A c \in Conns : conns[c] # NULL => conns[c].id # qlist[t].id

LEMMA LaunchApart ==
    ASSUME TypeOK, Apart(qlist, conns, sent, forged), NEW ql, NEW s, NEW new,
           Launchable(ql, s, new), NEW p \in BOOLEAN, Probe(ql, s) \/ Route(ql, s, p)
    PROVE  Apart(qlist', conns', sent', forged)
<1>1. /\ \A m \in sent : m.id # new
      /\ \A c \in Conns : conns[c] # NULL => conns[c].id # new
      /\ forged \subseteq sent
      /\ ql[s].id = new
  BY DEF Launchable, InFlight, TypeOK
<1>2. Apart(ql, conns, sent, forged)
  BY <1>1, ApartFresh DEF Launchable
<1>3. ASSUME NEW to, Asked(ql, s, to)
      PROVE  Apart(qlist', conns', sent', forged)
  <2> DEFINE d == [to |-> to, id |-> ql[s].id, name |-> QName(ql[s])]
  <2>1. d.id = ql[s].id /\ d.name = QName(ql[s]) /\ sent' = sent \cup {d}
    BY <1>3 DEF Asked, Send
  <2> HIDE DEF d
  <2>2. Apart(ql, conns, sent \cup {d}, forged)
    BY <1>1, <1>2, <2>1, ApartSend DEF Launchable
  <2>3. QED
    BY <1>3, <2>1, <2>2 DEF Asked
<1>4. ASSUME NEW c \in Conns, Connecting(ql, s, c)
      PROVE  Apart(qlist', conns', sent', forged)
  <2>1. /\ conns'[c].id = ql[s].id
        /\ conns'[c].name = QName(ql[s])
        /\ \A d \in Conns : d # c => conns'[d] = conns[d]
    BY <1>4 DEF Connecting, TypeOK
  <2>2. Apart(ql, conns', sent, forged)
    BY <1>1, <1>2, <2>1, ApartConnect DEF Launchable
  <2>3. QED
    BY <1>4, <2>2 DEF Connecting
<1>5. ASSUME GivenUp(ql, s)
      PROVE  Apart(qlist', conns', sent', forged)
  <2>1. \A t \in Busy(qlist') : t \in Busy(ql) /\ qlist'[t] = ql[t]
    BY DispatchSame DEF Launchable
  <2>2. QED
    BY <1>2, <1>5, <2>1, ApartLess DEF GivenUp
<1>6. QED
  BY <1>3, <1>4, <1>5, DispatchCases

\* A query sent on is asked of the server that its name is for.
LEMMA LaunchRouted ==
    ASSUME TypeOK, RoutedByVerdict, ~clash, NEW ql, NEW s, NEW p \in BOOLEAN,
           Probe(ql, s) \/ (Route(ql, s, p) /\ (p <=> QName(ql[s]) \in Polluted))
    PROVE  Routed(sent', conns')
<1> DEFINE n == QName(ql[s])
<1>1. CASE Probe(ql, s)
  BY <1>1 DEF Probe, Send, Routed, RoutedByVerdict
<1>2. CASE Route(ql, s, p) /\ (p <=> n \in Polluted)
  <2>1. CASE ~p /\ Send("cn", ql[s].id, n) /\ UNCHANGED conns
    BY <1>2, <2>1 DEF Send, Routed, RoutedByVerdict
  <2>2. CASE p /\ Send("server", ql[s].id, n) /\ UNCHANGED conns
    BY <1>2, <2>2 DEF Send, Routed, RoutedByVerdict
  <2>3. CASE p /\ AsyncConnect(ql, s) /\ UNCHANGED sent
    <3>1. \A c \in Conns : conns'[c] = conns[c] \/ conns'[c].name = n
      BY <2>3 DEF AsyncConnect, TypeOK
    <3>2. QED
      BY <1>2, <2>3, <3>1 DEF Routed, RoutedByVerdict
  <2>4. QED
    BY <1>2, <2>1, <2>2, <2>3 DEF Route
<1>3. QED
  BY <1>1, <1>2

\* No connection loses its query when one is sent on.
LEMMA LaunchOrphan ==
    ASSUME TypeOK, OrphanOnlyByTimeout, ~clash, NEW ql, NEW s, NEW new,
           Launchable(ql, s, new), NEW p \in BOOLEAN, Probe(ql, s) \/ Route(ql, s, p),
           expired' = expired
    PROVE  \A c \in Conns : Orphan(c)' => \E r \in expired' : ReqName[r] = conns'[c].name
<1> SUFFICES ASSUME NEW c \in Conns, Orphan(c)'
             PROVE  \E r \in expired' : ReqName[r] = conns'[c].name
  OBVIOUS
<1>1. ASSUME conns'[c] = conns[c]
      PROVE  \E r \in expired' : ReqName[r] = conns'[c].name
  <2>1. ASSUME NEW t \in Busy(qlist), qlist[t].id = conns[c].id
        PROVE  FALSE
    <3>1. conns[c] # NULL
      BY <1>1 DEF Orphan
    <3>2. t # s /\ t \in Busy(ql) /\ ql[t] = qlist[t]
      BY <2>1, <3>1 DEF Launchable
    <3>3. t \in Busy(qlist') /\ qlist'[t] = ql[t]
      BY <3>2, DispatchSame DEF Launchable
    <3>4. t \in Hits(qlist', conns'[c].id)
      BY <1>1, <2>1, <3>2, <3>3 DEF Hits
    <3>5. QED
      BY <3>4 DEF Orphan
  <2>2. Orphan(c)
    BY <1>1, <2>1 DEF Orphan, Hits
  <2>3. QED
    BY <1>1, <2>2 DEF OrphanOnlyByTimeout
<1>2. ASSUME conns'[c] # conns[c]
      PROVE  FALSE
  <2>1. Connecting(ql, s, c)
    <3>1. PICK d \in Conns : Connecting(ql, s, d)
      BY <1>2, DispatchCases DEF Asked, GivenUp
    <3>2. d = c
      BY <1>2, <3>1 DEF Connecting, TypeOK
    <3>3. QED
      BY <3>1, <3>2
  <2>2. conns'[c].id = ql[s].id /\ qlist' = ql
    BY <2>1 DEF Connecting, TypeOK
  <2>3. s \in Hits(qlist', conns'[c].id)
    BY <2>2 DEF Launchable, Hits
  <2>4. QED
    BY <2>3 DEF Orphan
<1>3. QED
  BY <1>1, <1>2

-------------------------------------------------------------------------------
(* The invariant *)

IdInv == /\ OnceInv
         /\ CacheSound
         /\ RightAnswer
         /\ RoutedByVerdict
         /\ IdsApart
         /\ OrphanOnlyByTimeout

LEMMA RecvQueryIds ==
    ASSUME IdInv, ~crashed, NEW r \in Requests, RecvQuery(r)
    PROVE  IdInv'
<1>1. OnceInv'
  BY RecvQueryOnce DEF IdInv
<1>2. UNCHANGED <<cache, forged, crashed, got, expired>> /\ (clash => clash')
  <2>1. CASE UNCHANGED clash
    BY <2>1 DEF RecvQuery
  <2>2. ASSUME NEW ql, NEW id, QueryCb(ql, id)
        PROVE  clash => clash'
    BY <2>2 DEF QueryCb
  <2>3. QED
    BY <2>1, <2>2 DEF RecvQuery
<1>3. CacheSound' /\ RightAnswer' /\ ~crashed'
  BY <1>2 DEF IdInv, CacheSound, RightAnswer
<1>4. SUFFICES ASSUME ~clash'
               PROVE  /\ RoutedByVerdict'
                      /\ Apart(qlist', conns', sent', forged')
                      /\ OrphanOnlyByTimeout'
  BY <1>1, <1>3 DEF IdInv, RoutedByVerdict, IdsApart, OrphanOnlyByTimeout
<1>5. ~clash
  BY <1>2, <1>4
<1>6. CASE UNCHANGED <<qlist, conns, sent>>
  BY <1>2, <1>3, <1>5, <1>6
  DEF IdInv, RoutedByVerdict, IdsApart, OrphanOnlyByTimeout, Orphan
<1>7. ASSUME NEW s0 \in Slots, IsFirst(s0, Free(qlist)),
             QueryCb(Added(qlist, s0, NewQuery(r, ReqId[r])), ReqId[r])
      PROVE  /\ RoutedByVerdict'
             /\ Apart(qlist', conns', sent', forged')
             /\ OrphanOnlyByTimeout'
  <2> DEFINE ql == Added(qlist, s0, NewQuery(r, ReqId[r]))
  <2>1. qlist \in Table /\ s0 \in Free(qlist)
    BY <1>7 DEF IsFirst, IdInv, OnceInv, TypeOK, Table
  <2>2. /\ ql \in Table
        /\ Busy(ql) = Busy(qlist) \cup {s0}
        /\ \A t \in Busy(qlist) : t # s0 /\ ql[t] = qlist[t]
    BY <2>1, AddedBusy
  <2> HIDE DEF ql
  <2>3. PICK s \in Slots, new \in FreshIds(ql) :
           /\ IsFirst(s, Hits(ql, ReqId[r]))
           /\ \/ /\ cache[QName(ql[s])] = "unknown"
                 /\ Probe(Renumbered(ql, s, new), s)
              \/ /\ cache[QName(ql[s])] # "unknown"
                 /\ Route(Renumbered(ql, s, new), s, cache[QName(ql[s])] = "polluted")
           /\ clash' = (clash \/ InFlight(new) \/ Hits(qlist, ReqId[r]) # {})
    BY <1>7 DEF QueryCb, ql
  <2> DEFINE ql2 == Renumbered(ql, s, new)
  <2>4. s = s0
    BY <1>4, <2>2, <2>3 DEF IsFirst, Hits
  <2>5. s \in Busy(ql) /\ new \in Ids /\ ~InFlight(new)
    BY <1>4, <2>3 DEF IsFirst, Hits, FreshIds
  <2>6. /\ ql2 \in Table /\ ql2[s].id = new /\ ql2[s].req = ql[s].req
        /\ Busy(ql2) = Busy(ql)
        /\ \A t \in Slots : t # s => ql2[t] = ql[t]
    BY <2>2, <2>5, RenumberedType, KeptRenumbered
  <2>7. \A t \in Busy(qlist) : t \in Slots /\ ql[t].id # new
    BY <2>2, <2>3 DEF FreshIds, Hits, Busy
  <2> HIDE DEF ql2
  <2>8. Launchable(ql2, s, new)
    BY <2>2, <2>4, <2>5, <2>6, <2>7 DEF Launchable
  <2>9. PICK p \in BOOLEAN : /\ Probe(ql2, s) \/ (Route(ql2, s, p)
                                    /\ (p <=> QName(ql2[s]) \in Polluted))
    <3>1. QName(ql2[s]) = QName(ql[s]) /\ QName(ql[s]) \in Names
      BY <2>2, <2>5, <2>6, BusyType, SansAssumption DEF QName, Query
    <3>2. CASE Probe(ql2, s)
      BY <3>2
    <3>3. CASE /\ cache[QName(ql[s])] # "unknown"
               /\ Route(ql2, s, cache[QName(ql[s])] = "polluted")
      <4>1. cache[QName(ql[s])] = "polluted" <=> QName(ql2[s]) \in Polluted
        BY <1>5, <3>1, <3>3 DEF IdInv, OnceInv, TypeOK, Verdicts, CacheSound
      <4>2. QED
        BY <3>3, <4>1
    <3>4. QED
      BY <2>3, <3>2, <3>3 DEF ql2
  <2>10. Probe(ql2, s) \/ Route(ql2, s, p)
    BY <2>9
  <2>11. Apart(qlist', conns', sent', forged')
    BY <1>2, <1>5, <2>8, <2>10, LaunchApart DEF IdInv, OnceInv, IdsApart
  <2>12. RoutedByVerdict'
    <3>1. TypeOK /\ RoutedByVerdict
      BY DEF IdInv, OnceInv
    <3>2. Routed(sent', conns')
      BY <1>5, <2>9, <3>1, LaunchRouted
    <3>3. QED
      BY <3>2 DEF RoutedByVerdict
  <2>13. OrphanOnlyByTimeout'
    BY <1>2, <1>3, <1>5, <2>8, <2>10, LaunchOrphan DEF IdInv, OnceInv, OrphanOnlyByTimeout
  <2>14. QED
    BY <2>11, <2>12, <2>13
<1>8. QED
  BY <1>6, <1>7 DEF RecvQuery

LEMMA TestReplyIds ==
    ASSUME IdInv, ~crashed, NEW m \in sent, TestReply(m)
    PROVE  IdInv'
<1>1. OnceInv'
  BY TestReplyOnce DEF IdInv
<1>2. UNCHANGED <<got, expired, crashed>>
  BY DEF TestReply
<1>3. PICK forgery \in BOOLEAN :
         /\ forgery => m.name \in Polluted
         /\ ~forgery => (m.name \in Polluted => m \in forged)
         /\ forged' = IF forgery THEN forged \cup {m} ELSE forged
         /\ \/ /\ Hits(qlist, m.id) = {}
               /\ UNCHANGED <<qlist, cache, conns, sent, clash>>
            \/ \E s \in Slots : /\ IsFirst(s, Hits(qlist, m.id))
                                /\ TestCb(m, s, forgery)
  BY DEF TestReply
<1>4. clash => clash'
  BY <1>3 DEF TestCb, Note
<1>5. RightAnswer' /\ ~crashed'
  BY <1>2, <1>4 DEF IdInv, RightAnswer
<1>6. ASSUME ~clash, NEW s \in Busy(qlist), qlist[s].id = m.id
      PROVE  m.name = QName(qlist[s]) /\ (forgery <=> m.name \in Polluted)
  BY <1>3, <1>6 DEF IdInv, IdsApart, Apart
<1>7. CacheSound'
  <2>1. CASE UNCHANGED cache
    BY <1>4, <2>1 DEF IdInv, CacheSound
  <2>2. ASSUME NEW s \in Slots, IsFirst(s, Hits(qlist, m.id)), Learn(m.name, forgery)
        PROVE  CacheSound'
    <3>1. \A n \in Names : \/ cache'[n] = cache[n]
                           \/ n = m.name /\ cache'[n] = IF forgery THEN "polluted" ELSE "clean"
      BY <2>2 DEF Learn, IdInv, OnceInv, TypeOK, Datagram
    <3>2. ~clash' => (forgery <=> m.name \in Polluted)
      BY <1>4, <1>6, <2>2 DEF IsFirst, Hits
    <3>3. QED
      BY <1>3, <1>4, <3>1, <3>2 DEF IdInv, CacheSound
  <2>3. QED
    BY <1>3, <2>1, <2>2 DEF TestCb
<1>8. SUFFICES ASSUME ~clash'
               PROVE  /\ RoutedByVerdict'
                      /\ Apart(qlist', conns', sent', forged')
                      /\ OrphanOnlyByTimeout'
  BY <1>1, <1>5, <1>7 DEF IdInv, RoutedByVerdict, IdsApart, OrphanOnlyByTimeout
<1>9. ~clash
  BY <1>4, <1>8
<1>10. CASE Hits(qlist, m.id) = {} /\ UNCHANGED <<qlist, cache, conns, sent, clash>>
  <2>1. Apart(qlist, conns, sent, forged) /\ \A s \in Busy(qlist) : qlist[s].id # m.id
    BY <1>9, <1>10 DEF Hits, IdInv, IdsApart
  <2>2. Apart(qlist', conns', sent', forged')
    BY <1>3, <1>10, <2>1, ApartForged
  <2>3. QED
    BY <1>2, <1>5, <1>9, <1>10, <2>2
    DEF IdInv, RoutedByVerdict, OrphanOnlyByTimeout, Orphan
<1>11. ASSUME NEW s \in Slots, IsFirst(s, Hits(qlist, m.id)), TestCb(m, s, forgery)
       PROVE  /\ RoutedByVerdict'
              /\ Apart(qlist', conns', sent', forged')
              /\ OrphanOnlyByTimeout'
  <2>1. PICK new \in FreshIds(qlist) :
           /\ \/ /\ qlist' = Renumbered(qlist, s, new)
                 /\ UNCHANGED <<cache, conns, sent>>
              \/ Route(Renumbered(qlist, s, new), s, forgery)
           /\ Note(new)
    BY <1>11 DEF TestCb
  <2> DEFINE ql == Renumbered(qlist, s, new)
  <2>2. /\ qlist \in Table /\ s \in Busy(qlist) /\ qlist[s].id = m.id
        /\ new \in Ids /\ ~InFlight(new)
        /\ Apart(qlist, conns, sent, forged)
    BY <1>8, <1>9, <1>11, <2>1
    DEF IsFirst, Hits, FreshIds, Note, IdInv, IdsApart, OnceInv, TypeOK, Table
  <2>3. /\ ql \in Table /\ ql[s].id = new /\ ql[s].req = qlist[s].req
        /\ Busy(ql) = Busy(qlist)
        /\ \A t \in Slots : t # s => ql[t] = qlist[t]
    BY <2>2, RenumberedType, KeptRenumbered
  <2>4. \A t \in Busy(qlist) : t \in Slots /\ qlist[t].id # new
    BY <2>1 DEF FreshIds, Hits, Busy
  <2> HIDE DEF ql
  <2>5. \A c \in Conns : conns[c] # NULL => conns[c].id # qlist[s].id
    BY <2>2 DEF Apart
  <2>6. Launchable(ql, s, new)
    BY <2>2, <2>3, <2>4, <2>5 DEF Launchable
  <2>7. \A t \in Busy(ql) : ql[t].id # m.id
    <3>1. m.id # new
      BY <2>2 DEF InFlight
    <3>2. \A t \in Busy(qlist) : t # s => qlist[t].id # m.id
      BY <2>2 DEF Apart
    <3>3. QED
      BY <2>3, <2>4, <3>1, <3>2
  <2>8. CASE qlist' = ql /\ UNCHANGED <<cache, conns, sent>>
    <3>1. /\ \A d \in sent : d.id # new
          /\ \A c \in Conns : conns[c] # NULL => conns[c].id # new
          /\ forged \subseteq sent
      BY <2>2 DEF InFlight, IdInv, OnceInv, TypeOK
    <3>2. Apart(ql, conns, sent, forged)
      BY <2>2, <2>6, <3>1, ApartFresh DEF Launchable
    <3>3. Apart(ql, conns, sent, forged \cup {m})
      BY <2>7, <3>2, ApartForged
    <3>4. Apart(qlist', conns', sent', forged')
      BY <1>3, <2>8, <3>2, <3>3
    <3>5. \A c \in Conns : Orphan(c)' => Orphan(c)
      BY <2>3, <2>5, <2>8 DEF Orphan, Hits, Busy
    <3>6. QED
      BY <1>2, <1>5, <1>9, <2>8, <3>4, <3>5 DEF IdInv, RoutedByVerdict, OrphanOnlyByTimeout
  <2>9. CASE Route(ql, s, forgery)
    <3>1. TypeOK /\ RoutedByVerdict /\ OrphanOnlyByTimeout
      BY DEF IdInv, OnceInv
    <3>2. Apart(qlist', conns', sent', forged)
      BY <2>2, <2>6, <2>9, <3>1, LaunchApart
    <3>3. \A t \in Busy(qlist') : qlist'[t].id # m.id
      BY <2>6, <2>7, <2>9, DispatchSame DEF Launchable
    <3>4. Apart(qlist', conns', sent', forged')
      BY <1>3, <3>2, <3>3, ApartForged
    <3>5. forgery <=> QName(ql[s]) \in Polluted
      BY <1>6, <1>9, <2>2, <2>3 DEF QName
    <3>6. Routed(sent', conns')
      BY <1>9, <2>9, <3>1, <3>5, LaunchRouted
    <3>7. \A c \in Conns : Orphan(c)' => \E r \in expired' : ReqName[r] = conns'[c].name
      BY <1>2, <1>9, <2>6, <2>9, <3>1, LaunchOrphan
    <3>8. QED
      BY <1>5, <3>4, <3>6, <3>7 DEF RoutedByVerdict, OrphanOnlyByTimeout
  <2>10. QED
    BY <2>1, <2>8, <2>9 DEF ql
<1>12. QED
  BY <1>3, <1>10, <1>11

\* The query that an id finds is answered about its own name.
LEMMA ReplyCbRight ==
    ASSUME OnceInv, RightAnswer, NEW id \in Ids, NEW name \in Names, ReplyCb(id, name),
           UNCHANGED clash,
           ~clash => \A s \in Busy(qlist) : qlist[s].id = id => name = QName(qlist[s])
    PROVE  RightAnswer'
<1>1. CASE UNCHANGED got
  BY <1>1 DEF RightAnswer
<1>2. ASSUME NEW s \in Slots, IsFirst(s, Hits(qlist, id)),
             got' = [got EXCEPT ![qlist[s].req] =
                       Append(@, [id |-> qlist[s].qid, name |-> name])]
      PROVE  RightAnswer'
  <2> DEFINE r == qlist[s].req
             a == [id |-> qlist[s].qid, name |-> name]
  <2>1. s \in Busy(qlist) /\ qlist[s].id = id
    BY <1>2 DEF IsFirst, Hits
  <2>2. r \in Requests /\ got[r] = << >>
    BY <2>1, BusyType DEF Query, OnceInv, PendingOnce, TypeOK, Table
  <2>3. got'[r] = <<a>> /\ \A q \in Requests : q # r => got'[q] = got[q]
    BY <1>2, <2>2 DEF OnceInv, TypeOK
  <2>4. ~clash => a.name = ReqName[r]
    BY <2>1 DEF QName
  <2> HIDE DEF a, r
  <2>5. \A k \in 1 .. Len(got'[r]) : got'[r][k] = a
    BY <2>3
  <2>6. QED
    BY <2>3, <2>4, <2>5 DEF RightAnswer
<1>3. QED
  BY <1>1, <1>2 DEF ReplyCb

\* An answer deletes at most the query that has its id.
LEMMA ReplyCbSame ==
    ASSUME OnceInv, NEW id, NEW name, ReplyCb(id, name)
    PROVE  /\ \A t \in Busy(qlist') : t \in Busy(qlist) /\ qlist'[t] = qlist[t]
           /\ \A t \in Busy(qlist) : \/ t \in Busy(qlist') /\ qlist'[t] = qlist[t]
                                     \/ qlist[t].id = id
<1>1. CASE UNCHANGED qlist
  BY <1>1
<1>2. ASSUME NEW s \in Slots, IsFirst(s, Hits(qlist, id)), qlist' = Deleted(qlist, s)
      PROVE  /\ \A t \in Busy(qlist') : t \in Busy(qlist) /\ qlist'[t] = qlist[t]
             /\ \A t \in Busy(qlist) : t = s \/ (t \in Busy(qlist') /\ qlist'[t] = qlist[t])
             /\ qlist[s].id = id
  <2>1. qlist \in Table /\ qlist[s].id = id
    BY <1>2 DEF IsFirst, Hits, OnceInv, TypeOK, Table
  <2>2. QED
    BY <1>2, <2>1 DEF Deleted, Busy, Table
<1>3. QED
  BY <1>1, <1>2 DEF ReplyCb

LEMMA UdpReplyIds ==
    ASSUME IdInv, ~crashed, NEW m \in sent, UdpReply(m)
    PROVE  IdInv'
<1>1. OnceInv' /\ m.id \in Ids /\ m.name \in Names
  BY UdpReplyOnce DEF IdInv, OnceInv, TypeOK, Datagram
<1>2. UNCHANGED <<cache, conns, crashed, sent, forged, expired, clash>> /\ ReplyCb(m.id, m.name)
  BY DEF UdpReply, networkVars
<1>3. CacheSound' /\ RoutedByVerdict'
  BY <1>2 DEF IdInv, CacheSound, RoutedByVerdict
<1>4. RightAnswer'
  BY <1>1, <1>2, ReplyCbRight DEF IdInv, IdsApart, Apart
<1>5. /\ \A t \in Busy(qlist') : t \in Busy(qlist) /\ qlist'[t] = qlist[t]
      /\ \A t \in Busy(qlist) : \/ t \in Busy(qlist') /\ qlist'[t] = qlist[t]
                                \/ qlist[t].id = m.id
  BY <1>2, ReplyCbSame DEF IdInv
<1>6. IdsApart'
  <2>1. SUFFICES ASSUME ~clash PROVE Apart(qlist', conns', sent', forged')
    BY <1>2 DEF IdsApart
  <2>2. Apart(qlist, conns, sent, forged)
    BY <2>1 DEF IdInv, IdsApart
  <2>3. Apart(qlist', conns, sent, forged)
    BY <1>5, <2>2, ApartLess
  <2>4. QED
    BY <1>2, <2>3
<1>7. ASSUME ~clash, NEW c \in Conns, Orphan(c)'
      PROVE  Orphan(c)
  BY <1>2, <1>5, <1>7 DEF IdInv, IdsApart, Apart, Orphan, Hits
<1>8. OrphanOnlyByTimeout'
  BY <1>2, <1>7 DEF IdInv, OrphanOnlyByTimeout
<1>9. QED
  BY <1>1, <1>3, <1>4, <1>6, <1>8 DEF IdInv

LEMMA OpenIds ==
    ASSUME IdInv, ~crashed, NEW c \in Conns, TcpReply(c) \/ ConnLost(c)
    PROVE  IdInv'
<1>1. OnceInv' /\ conns[c] # NULL /\ conns[c].id \in Ids /\ conns[c].name \in Names
  BY ConnOnce, ConnType DEF IdInv, OnceInv, TcpReply, ConnLost
<1>2. /\ UNCHANGED <<cache, crashed, sent, forged, expired, clash>>
      /\ conns' = [conns EXCEPT ![c] = NULL]
      /\ ReplyCb(conns[c].id, conns[c].name) \/ UNCHANGED <<qlist, got>>
  BY DEF TcpReply, ConnLost, networkVars, historyVars
<1>3. conns'[c] = NULL /\ \A d \in Conns : d # c => conns'[d] = conns[d]
  BY <1>2 DEF IdInv, OnceInv, TypeOK
<1>4. CacheSound' /\ RoutedByVerdict'
  BY <1>2, <1>3 DEF IdInv, CacheSound, Routed, RoutedByVerdict
<1>5. RightAnswer'
  <2>1. CASE UNCHANGED <<qlist, got>>
    BY <1>2, <2>1 DEF IdInv, RightAnswer
  <2>2. CASE ReplyCb(conns[c].id, conns[c].name)
    BY <1>1, <1>2, <2>2, ReplyCbRight DEF IdInv, IdsApart, Apart
  <2>3. QED
    BY <1>2, <2>1, <2>2
<1>6. /\ \A t \in Busy(qlist') : t \in Busy(qlist) /\ qlist'[t] = qlist[t]
      /\ \A t \in Busy(qlist) : \/ t \in Busy(qlist') /\ qlist'[t] = qlist[t]
                                \/ qlist[t].id = conns[c].id
  BY <1>2, ReplyCbSame DEF IdInv
<1>7. IdsApart'
  <2>1. SUFFICES ASSUME ~clash PROVE Apart(qlist', conns', sent', forged')
    BY <1>2 DEF IdsApart
  <2>2. Apart(qlist, conns, sent, forged)
    BY <2>1 DEF IdInv, IdsApart
  <2>3. Apart(qlist', conns', sent, forged)
    BY <1>3, <1>6, <2>2, ApartLess
  <2>4. QED
    BY <1>2, <2>3
<1>8. ASSUME ~clash, NEW d \in Conns, Orphan(d)'
      PROVE  Orphan(d) /\ conns'[d] = conns[d]
  <2>1. d # c /\ conns'[d] = conns[d] /\ conns[d] # NULL
    BY <1>3, <1>8 DEF Orphan
  <2>2. conns[d].id # conns[c].id
    BY <1>1, <1>8, <2>1 DEF IdInv, IdsApart, Apart
  <2>3. QED
    BY <1>6, <1>8, <2>1, <2>2 DEF Orphan, Hits
<1>9. OrphanOnlyByTimeout'
  BY <1>2, <1>8 DEF IdInv, OrphanOnlyByTimeout
<1>10. QED
  BY <1>1, <1>4, <1>5, <1>7, <1>9 DEF IdInv

LEMMA ConnectDoneIds ==
    ASSUME IdInv, ~crashed, NEW c \in Conns, ConnectDone(c)
    PROVE  IdInv'
<1>1. OnceInv' /\ TypeOK /\ conns[c] # NULL /\ conns[c] \in Conn
      /\ conns[c].st = "connecting"
  BY ConnOnce, ConnType DEF IdInv, OnceInv, ConnectDone
<1>2. UNCHANGED <<cache, sent, forged, got, expired, clash>>
  BY DEF ConnectDone, networkVars, historyVars
<1>3. CacheSound' /\ RightAnswer'
  BY <1>2 DEF IdInv, CacheSound, RightAnswer
<1>4. CASE /\ Hits(qlist, conns[c].id) = {}
           /\ crashed' = TRUE
           /\ UNCHANGED <<qlist, conns>>
  <2>1. Orphan(c)'
    BY <1>1, <1>4 DEF Orphan
  <2>2. OrphanOnlyByTimeout'
    BY <1>2, <1>4, <2>1 DEF IdInv, OrphanOnlyByTimeout, Orphan
  <2>3. IdsApart' /\ RoutedByVerdict'
    BY <1>2, <1>4 DEF IdInv, IdsApart, RoutedByVerdict
  <2>4. QED
    BY <1>1, <1>3, <2>2, <2>3 DEF IdInv
<1>5. ASSUME NEW s \in Slots, IsFirst(s, Hits(qlist, conns[c].id)),
             \/ /\ conns' = [conns EXCEPT ![c] =
                              [@ EXCEPT !.st = "open", !.name = QName(qlist[s])]]
                /\ UNCHANGED qlist
             \/ /\ conns' = [conns EXCEPT ![c] = NULL]
                /\ qlist' = Deleted(qlist, s),
             UNCHANGED crashed
      PROVE  IdInv'
  <2>1. /\ qlist \in Table /\ s \in Busy(qlist) /\ qlist[s].id = conns[c].id
        /\ \A d \in Conns : d # c => conns'[d] = conns[d]
    BY <1>5 DEF IsFirst, Hits, IdInv, OnceInv, TypeOK, Table
  <2>2. \/ conns'[c] = NULL
        \/ /\ conns'[c].st = "open"
           /\ conns'[c].id = conns[c].id
           /\ conns'[c].name = QName(qlist[s])
    BY <1>1, <1>5 DEF TypeOK, Conn
  <2>3. \/ qlist' = qlist
        \/ /\ conns'[c] = NULL
           /\ \A t \in Busy(qlist') : t \in Busy(qlist) /\ qlist'[t] = qlist[t]
           /\ \A t \in Busy(qlist) : t # s => t \in Busy(qlist') /\ qlist'[t] = qlist[t]
    BY <1>1, <1>5, <2>1 DEF Deleted, Busy, Table, TypeOK
  <2>4. ASSUME ~clash
        PROVE  /\ Apart(qlist', conns', sent', forged')
               /\ Routed(sent', conns')
    <3>1. Apart(qlist, conns, sent, forged) /\ Routed(sent, conns)
      BY <2>4 DEF IdInv, IdsApart, RoutedByVerdict
    <3>2. conns[c].name = QName(qlist[s])
      BY <1>1, <2>1, <3>1 DEF Apart
    <3>3. \A d \in Conns : conns'[d] # NULL => /\ conns[d] # NULL
                                              /\ conns'[d].id = conns[d].id
                                              /\ conns'[d].name = conns[d].name
      BY <1>1, <2>1, <2>2, <3>2
    <3>4. Apart(qlist', conns', sent, forged)
      BY <2>3, <3>1, <3>3, ApartLess
    <3>5. Routed(sent, conns')
      BY <3>1, <3>3 DEF Routed
    <3>6. QED
      BY <1>2, <3>4, <3>5
  <2>5. ASSUME ~clash, NEW d \in Conns, Orphan(d)'
        PROVE  Orphan(d) /\ conns'[d] = conns[d]
    <3>1. d # c /\ conns'[d] = conns[d] /\ conns[d] # NULL
      BY <2>1, <2>2, <2>5 DEF Orphan
    <3>2. conns[d].id # qlist[s].id
      BY <1>1, <2>1, <2>5, <3>1 DEF IdInv, IdsApart, Apart
    <3>3. QED
      BY <2>3, <2>5, <3>1, <3>2 DEF Orphan, Hits
  <2>6. OrphanOnlyByTimeout'
    BY <1>2, <1>5, <2>5 DEF IdInv, OrphanOnlyByTimeout
  <2>7. QED
    BY <1>1, <1>2, <1>3, <2>4, <2>6 DEF IdInv, IdsApart, RoutedByVerdict
<1>6. QED
  BY <1>4, <1>5 DEF ConnectDone

LEMMA TickIds ==
    ASSUME IdInv, ~crashed, Tick
    PROVE  IdInv'
<1>1. OnceInv'
  BY TickOnce DEF IdInv
<1>2. /\ UNCHANGED <<conns, crashed, sent, forged, got, clash>>
      /\ \A n \in Names : cache'[n] \in {cache[n], "unknown"}
      /\ expired' = expired \cup
                     {qlist[s].req : s \in {t \in Busy(qlist) : qlist[t].ttl = 1}}
  BY DEF Tick, networkVars
<1>3. CacheSound' /\ RightAnswer' /\ RoutedByVerdict'
  BY <1>2 DEF IdInv, CacheSound, RightAnswer, RoutedByVerdict
<1>4. /\ Busy(qlist') = {s \in Busy(qlist) : qlist[s].ttl # 1}
      /\ \A s \in Busy(qlist') : /\ qlist'[s].id = qlist[s].id
                                 /\ qlist'[s].req = qlist[s].req
  BY KeptTicked DEF Tick, Kept, IdInv, OnceInv, TypeOK, Table
<1>5. IdsApart'
  <2>1. SUFFICES ASSUME ~clash PROVE Apart(qlist', conns', sent', forged')
    BY <1>2 DEF IdsApart
  <2>2. Apart(qlist, conns, sent, forged)
    BY <2>1 DEF IdInv, IdsApart
  <2>3. Apart(qlist', conns, sent, forged)
    BY <1>4, <2>2, ApartLess
  <2>4. QED
    BY <1>2, <2>3
<1>6. ASSUME ~clash, NEW c \in Conns, Orphan(c)'
      PROVE  \E r \in expired' : ReqName[r] = conns'[c].name
  <2>1. CASE Orphan(c)
    BY <1>2, <1>6, <2>1 DEF IdInv, OrphanOnlyByTimeout
  <2>2. CASE ~Orphan(c)
    <3>1. PICK s \in Busy(qlist) : qlist[s].id = conns[c].id
      BY <1>2, <1>6, <2>2 DEF Orphan, Hits
    <3>2. s \notin Busy(qlist')
      BY <1>2, <1>4, <1>6, <3>1 DEF Orphan, Hits
    <3>3. qlist[s].req \in expired'
      BY <1>2, <1>4, <3>1, <3>2
    <3>4. conns[c].name = QName(qlist[s])
      BY <1>2, <1>6, <3>1 DEF IdInv, IdsApart, Apart, Orphan
    <3>5. QED
      BY <1>2, <3>3, <3>4 DEF QName
  <2>3. QED
    BY <2>1, <2>2
<1>7. OrphanOnlyByTimeout'
  BY <1>2, <1>6 DEF OrphanOnlyByTimeout
<1>8. QED
  BY <1>1, <1>3, <1>5, <1>7 DEF IdInv

-------------------------------------------------------------------------------
(* The theorems *)

LEMMA IdInit == Init => IdInv
<1> SUFFICES ASSUME Init PROVE IdInv
  OBVIOUS
<1>1. OnceInv
  BY OnceInit
<1>2. Busy(qlist) = {} /\ \A c \in Conns : conns[c] = NULL
  BY DEF Init, EmptyTable, Busy
<1>3. \A r \in Requests : Len(got[r]) = 0
  BY DEF Init
<1>4. RightAnswer
  BY <1>3 DEF RightAnswer
<1>5. IdsApart
  BY <1>2 DEF Init, IdsApart, Apart
<1>6. OrphanOnlyByTimeout
  BY <1>2 DEF Init, OrphanOnlyByTimeout, Orphan
<1>7. CacheSound /\ RoutedByVerdict
  BY <1>2 DEF Init, CacheSound, Routed, RoutedByVerdict
<1>8. QED
  BY <1>1, <1>4, <1>5, <1>6, <1>7 DEF IdInv

LEMMA IdStep == IdInv /\ [Next]_vars => IdInv'
<1> SUFFICES ASSUME IdInv, [Next]_vars PROVE IdInv'
  OBVIOUS
<1>1. CASE UNCHANGED vars
  <2>1. OnceInv'
    BY <1>1, OnceStep DEF IdInv
  <2>2. QED
    BY <1>1, <2>1 DEF vars, programVars, networkVars, historyVars, IdInv, CacheSound,
       RightAnswer, RoutedByVerdict, IdsApart, OrphanOnlyByTimeout, Orphan
<1>2. CASE Next
  BY <1>2, RecvQueryIds, TestReplyIds, UdpReplyIds, ConnectDoneIds, OpenIds, TickIds DEF Next
<1>3. QED
  BY <1>1, <1>2

LEMMA IdInvariant == Spec => []IdInv
BY IdInit, IdStep, PTL DEF Spec

\* While no id has been given out twice, an answer is about the name its client
\* asked for, although reply_cb and test_cb compare nothing but ids.
THEOREM AnswersAreRight == Spec => []RightAnswer
<1>1. IdInv => RightAnswer
  BY DEF IdInv
<1>2. QED
  BY <1>1, IdInvariant, PTL

\* While no id has been given out twice, cn_server is asked only about names that
\* are not polluted and server only about names that are, also when the genuine
\* answer to a probe follows the forged one.
THEOREM RoutesByVerdict == Spec => []RoutedByVerdict
<1>1. IdInv => RoutedByVerdict
  BY DEF IdInv
<1>2. QED
  BY <1>1, IdInvariant, PTL

\* The verdicts test_cb puts in the cache are right.
THEOREM VerdictsAreRight == Spec => []CacheSound
<1>1. IdInv => CacheSound
  BY DEF IdInv
<1>2. QED
  BY <1>1, IdInvariant, PTL

\* The ids ns_newid gives out keep queries, datagrams and connections apart.
THEOREM IdsStayApart == Spec => []IdsApart
<1>1. IdInv => IdsApart
  BY DEF IdInv
<1>2. QED
  BY <1>1, IdInvariant, PTL

\* connect_cb finds no query only when a request for that name has expired.
THEOREM OrphansTimedOut == Spec => []OrphanOnlyByTimeout
<1>1. IdInv => OrphanOnlyByTimeout
  BY DEF IdInv
<1>2. QED
  BY <1>1, IdInvariant, PTL

-------------------------------------------------------------------------------
(***************************************************************************)
(* The forwarder does for its clients what Forwarder promises, and a cached *)
(* verdict never changes into another.                                      *)
(***************************************************************************)

\* A step of the forwarder that gives no answer: no request that was not in the
\* table is in it afterwards.
LEMMA StatusDrop ==
    ASSUME OnceInv, OnceInv', UNCHANGED <<arrived, got, crashed>>, clash' \in {clash, TRUE},
           \A r \in Requests : Pending(r)' => Pending(r)
    PROVE  F!Drop
<1> DEFINE D == {r \in Requests : Status(r) = "pending" /\ ~Pending(r)'}
<1>1. D \in SUBSET F!Pending
  BY DEF F!Pending
<1>2. \A r \in Requests : Status(r)' = IF r \in D THEN "dropped" ELSE Status(r)
  BY DEF Status
<1>3. [r \in Requests |-> Status(r)]' =
         [q \in Requests |-> IF q \in D THEN "dropped"
                             ELSE [r \in Requests |-> Status(r)][q]]
  BY <1>2
<1> HIDE DEF D
<1>4. QED
  BY <1>1, <1>3 DEF F!Drop, F!MayMix

LEMMA KeptPending ==
    ASSUME Kept(qlist, qlist')
    PROVE  \A r \in Requests : Pending(r)' => Pending(r)
BY DEF Kept, Pending

LEMMA RecvQueryRefines ==
    ASSUME OnceInv, OnceInv', ~crashed, NEW r \in Requests, RecvQuery(r)
    PROVE  F!Receive(r)
<1>1. /\ r \notin arrived
      /\ arrived' = arrived \cup {r}
      /\ UNCHANGED <<got, crashed>>
      /\ got[r] = << >>
  BY DEF RecvQuery, OnceInv, Untouched
<1>2. clash' \in {clash, TRUE}
  BY DEF RecvQuery, QueryCb, OnceInv, TypeOK
<1>3. \A q \in Requests : q # r => (Pending(q)' => Pending(q))
  <2>1. CASE UNCHANGED qlist
    BY <2>1 DEF Pending
  <2>2. ASSUME NEW s0 \in Slots, IsFirst(s0, Free(qlist)),
               QueryCb(Added(qlist, s0, NewQuery(r, ReqId[r])), ReqId[r])
        PROVE  \A s \in Busy(qlist') : qlist'[s].req # r => Pending(qlist'[s].req)
    <3> DEFINE ql == Added(qlist, s0, NewQuery(r, ReqId[r]))
    <3>1. /\ ql \in Table
          /\ Busy(ql) = Busy(qlist) \cup {s0}
          /\ ql[s0] = NewQuery(r, ReqId[r])
          /\ \A s \in Busy(qlist) : s # s0 /\ ql[s] = qlist[s]
      <4>1. qlist \in Table /\ s0 \in Free(qlist)
        BY <2>2 DEF IsFirst, OnceInv, TypeOK, Table
      <4>2. QED
        BY <4>1, AddedBusy
    <3>2. ql[s0].req = r
      BY <3>1 DEF NewQuery
    <3> HIDE DEF ql
    <3>3. PICK s \in Busy(ql), new \in Ids, p \in BOOLEAN :
             Probe(Renumbered(ql, s, new), s) \/ Route(Renumbered(ql, s, new), s, p)
      BY <2>2 DEF QueryCb, IsFirst, Hits, FreshIds, ql
    <3>4. Renumbered(ql, s, new) \in Table /\ Kept(ql, Renumbered(ql, s, new))
      BY <3>1, RenumberedType, KeptRenumbered
    <3>5. Kept(Renumbered(ql, s, new), qlist')
      BY <3>3, <3>4, KeptDispatch DEF Busy
    <3>6. Kept(ql, qlist')
      BY <3>4, <3>5, KeptTransitive
    <3>7. QED
      BY <3>1, <3>2, <3>6 DEF Kept, Pending
  <2>3. QED
    BY <2>1, <2>2 DEF RecvQuery, Pending
<1> DEFINE D == {q \in Requests : /\ Status(q) = "pending" \/ q = r
                                  /\ ~Pending(q)'}
<1>4. D \in SUBSET (F!Pending \cup {r})
  BY DEF F!Pending
<1>5. \A q \in Requests : Status(q)' = IF q \in D THEN "dropped"
                                       ELSE IF q = r THEN "pending" ELSE Status(q)
  BY <1>1, <1>3 DEF Status
<1>6. [q \in Requests |-> Status(q)]' =
         [q \in Requests |-> IF q \in D THEN "dropped"
                             ELSE IF q = r THEN "pending"
                             ELSE [x \in Requests |-> Status(x)][q]]
  BY <1>5
<1>7. Status(r) = "idle"
  BY <1>1 DEF Status
<1> HIDE DEF D
<1>8. QED
  BY <1>1, <1>2, <1>4, <1>6, <1>7 DEF F!Receive, F!MayMix

LEMMA TestReplyRefines ==
    ASSUME OnceInv, OnceInv', NEW m \in sent, TestReply(m)
    PROVE  F!Drop
<1>1. UNCHANGED <<arrived, got, crashed>>
  BY DEF TestReply
<1>2. clash' \in {clash, TRUE}
  BY DEF TestReply, TestCb, Note, OnceInv, TypeOK
<1>3. Kept(qlist, qlist')
  <2>1. CASE UNCHANGED qlist
    BY <2>1 DEF Kept
  <2>2. ASSUME NEW s \in Slots, IsFirst(s, Hits(qlist, m.id)),
               NEW p \in BOOLEAN, TestCb(m, s, p)
        PROVE  Kept(qlist, qlist')
    <3>1. s \in Busy(qlist) /\ qlist \in Table
      BY <2>2 DEF IsFirst, Hits, OnceInv, TypeOK, Table
    <3>2. PICK new \in Ids : \/ qlist' = Renumbered(qlist, s, new)
                             \/ Route(Renumbered(qlist, s, new), s, p)
      BY <2>2 DEF TestCb, FreshIds
    <3>3. Renumbered(qlist, s, new) \in Table /\ Kept(qlist, Renumbered(qlist, s, new))
      BY <3>1, RenumberedType, KeptRenumbered
    <3>4. CASE qlist' = Renumbered(qlist, s, new)
      BY <3>3, <3>4
    <3>5. CASE Route(Renumbered(qlist, s, new), s, p)
      <4>1. Kept(Renumbered(qlist, s, new), qlist')
        BY <3>3, <3>5, KeptDispatch
      <4>2. QED
        BY <3>3, <4>1, KeptTransitive
    <3>6. QED
      BY <3>2, <3>4, <3>5
  <2>3. QED
    BY <2>1, <2>2 DEF TestReply
<1>4. QED
  BY <1>1, <1>2, <1>3, KeptPending, StatusDrop

\* An answer settles the request whose query it finds, or nothing happens.
LEMMA ReplyCbRefines ==
    ASSUME OnceInv, RightAnswer', NEW id \in Ids, NEW name \in Names, ReplyCb(id, name),
           UNCHANGED <<arrived, crashed, clash>>
    PROVE  (\E r \in Requests : F!Answer(r)) \/ UNCHANGED F!vars
<1>1. CASE UNCHANGED <<qlist, got>>
  <2>1. \A r \in Requests : Status(r)' = Status(r)
    BY <1>1 DEF Status, Pending
  <2>2. [r \in Requests |-> Status(r)]' = [r \in Requests |-> Status(r)]
    BY <2>1
  <2>3. QED
    BY <1>1, <2>2 DEF F!vars
<1>2. ASSUME NEW s \in Slots, IsFirst(s, Hits(qlist, id)),
             got' = [got EXCEPT ![qlist[s].req] =
                       Append(@, [id |-> qlist[s].qid, name |-> name])],
             qlist' = Deleted(qlist, s)
      PROVE  \E r \in Requests : F!Answer(r)
  <2> DEFINE r == qlist[s].req
             a == [id |-> ReqId[r], name |-> name]
  <2>1. s \in Busy(qlist) /\ qlist \in Table
    BY <1>2 DEF IsFirst, Hits, OnceInv, TypeOK, Table
  <2>2. /\ r \in Requests /\ r \in arrived /\ got[r] = << >>
        /\ qlist[s].qid = ReqId[r] /\ Pending(r)
    BY <2>1, BusyType DEF Query, OnceInv, PendingOnce, QidKept, Pending
  <2>3. got' = [got EXCEPT ![r] = <<a>>]
    BY <1>2, <2>2 DEF OnceInv, TypeOK
  <2>4. \A t \in Busy(qlist) : t # s => t \in Busy(qlist') /\ qlist'[t] = qlist[t]
    BY <1>2, <2>1 DEF Deleted, Busy, Table
  <2>5. \A t \in Busy(qlist') : t \in Busy(qlist) /\ qlist'[t] = qlist[t]
    BY <1>2, <2>1 DEF Deleted, Busy, Table
  <2> HIDE DEF a
  <2>6. got'[r] = <<a>> /\ \A q \in Requests : q # r => got'[q] = got[q]
    BY <2>2, <2>3 DEF OnceInv, TypeOK
  <2>7. \A q \in Requests : q # r => (Pending(q)' <=> Pending(q))
    BY <2>4, <2>5 DEF Pending
  <2>8. <<a>> # << >>
    BY DEF a
  <2> HIDE DEF r
  <2>9. \A q \in Requests : Status(q)' = IF q = r THEN "answered" ELSE Status(q)
    BY <2>2, <2>6, <2>7, <2>8 DEF Status
  <2>10. [q \in Requests |-> Status(q)]' =
            [[q \in Requests |-> Status(q)] EXCEPT ![r] = "answered"]
    BY <2>9
  <2>11. Status(r) = "pending"
    BY <2>2 DEF Status
  <2>12. clash \/ name = ReqName[r]
    <3>1. Len(got'[r]) = 1 /\ got'[r][1].name = name
      BY <2>6 DEF a
    <3>2. QED
      BY <2>2, <3>1 DEF RightAnswer
  <2>13. F!Answer(r)
    BY <2>2, <2>3, <2>10, <2>11, <2>12 DEF F!Answer, a
  <2>14. QED
    BY <2>2, <2>13
<1>3. QED
  BY <1>1, <1>2 DEF ReplyCb

LEMMA TickRefines ==
    ASSUME OnceInv, OnceInv', Tick
    PROVE  F!Drop
<1>1. UNCHANGED <<arrived, got, crashed, clash>>
  BY DEF Tick
<1>2. Kept(qlist, qlist')
  BY KeptTicked DEF Tick, OnceInv, TypeOK, Table
<1>3. QED
  BY <1>1, <1>2, KeptPending, StatusDrop DEF OnceInv, TypeOK

LEMMA ConnRefines ==
    ASSUME OnceInv, OnceInv', RightAnswer', NEW c \in Conns,
           ConnectDone(c) \/ TcpReply(c) \/ ConnLost(c)
    PROVE  \/ F!Drop
           \/ F!GoDown
           \/ \E r \in Requests : F!Answer(r)
           \/ UNCHANGED F!vars
<1>1. CASE TcpReply(c)
  <2>1. conns[c].id \in Ids /\ conns[c].name \in Names
    BY <1>1, ConnType DEF TcpReply, OnceInv
  <2>2. QED
    BY <1>1, <2>1, ReplyCbRefines DEF TcpReply
<1>2. CASE UNCHANGED <<qlist, arrived, got, clash>> /\ crashed' \in {crashed, TRUE}
  <2>1. \A r \in Requests : Status(r)' = Status(r)
    BY <1>2 DEF Status, Pending
  <2>2. [r \in Requests |-> Status(r)]' = [r \in Requests |-> Status(r)]
    BY <2>1
  <2>3. QED
    BY <1>2, <2>2 DEF F!vars, F!GoDown
<1>3. ASSUME NEW s \in Slots, qlist' = Deleted(qlist, s),
             UNCHANGED <<arrived, got, crashed, clash>>
      PROVE  F!Drop
  <2>1. Kept(qlist, qlist')
    BY <1>3, KeptDeleted DEF OnceInv, TypeOK, Table
  <2>2. QED
    BY <1>3, <2>1, KeptPending, StatusDrop DEF OnceInv, TypeOK
<1>4. QED
  BY <1>1, <1>2, <1>3 DEF ConnectDone, ConnLost, historyVars, OnceInv, TypeOK

LEMMA RefinesInit == Init => F!Init
<1> SUFFICES ASSUME Init PROVE F!Init
  OBVIOUS
<1>1. \A r \in Requests : Status(r) = "idle"
  BY DEF Init, Status
<1>2. [r \in Requests |-> Status(r)] = [r \in Requests |-> "idle"]
  BY <1>1
<1>3. QED
  BY <1>2 DEF Init, F!Init

LEMMA RefinesStep == IdInv /\ IdInv' /\ [Next]_vars => [F!Next]_F!vars
<1> SUFFICES ASSUME IdInv, IdInv', [Next]_vars PROVE [F!Next]_F!vars
  OBVIOUS
<1>0. OnceInv /\ OnceInv' /\ RightAnswer'
  BY DEF IdInv
<1>1. CASE UNCHANGED vars
  <2>1. \A r \in Requests : Status(r)' = Status(r)
    BY <1>1 DEF vars, programVars, historyVars, Status, Pending
  <2>2. [r \in Requests |-> Status(r)]' = [r \in Requests |-> Status(r)]
    BY <2>1
  <2>3. QED
    BY <1>1, <2>2 DEF vars, programVars, historyVars, F!vars
<1>2. CASE Next
  <2>1. ASSUME NEW r \in Requests, RecvQuery(r), ~crashed
        PROVE  F!Next
    BY <1>0, <2>1, RecvQueryRefines DEF F!Next
  <2>2. ASSUME NEW m \in sent, TestReply(m), ~crashed
        PROVE  F!Next
    BY <1>0, <2>2, TestReplyRefines DEF F!Next
  <2>3. ASSUME NEW m \in sent, UdpReply(m), ~crashed
        PROVE  [F!Next]_F!vars
    <3>1. m.id \in Ids /\ m.name \in Names
      BY <1>0, <2>3 DEF OnceInv, TypeOK, Datagram
    <3>2. (\E r \in Requests : F!Answer(r)) \/ UNCHANGED F!vars
      BY <1>0, <2>3, <3>1, ReplyCbRefines DEF UdpReply
    <3>3. QED
      BY <2>3, <3>2 DEF F!Next
  <2>4. ASSUME NEW c \in Conns, ConnectDone(c) \/ TcpReply(c) \/ ConnLost(c), ~crashed
        PROVE  [F!Next]_F!vars
    BY <1>0, <2>4, ConnRefines DEF F!Next
  <2>5. ASSUME Tick, ~crashed
        PROVE  F!Next
    BY <1>0, <2>5, TickRefines DEF F!Next
  <2>6. QED
    BY <1>2, <2>1, <2>2, <2>3, <2>4, <2>5 DEF Next
<1>3. QED
  BY <1>1, <1>2

\* Every request is answered at most once, under its client's id and, while no id
\* has been given out twice, about its own name, or dropped; a request that is
\* answered or dropped stays so.
THEOREM ForwarderImplemented == Spec => ImplementsForwarder
<1>1. Init => F!Init
  BY RefinesInit
<1>2. IdInv /\ IdInv' /\ [Next]_vars => [F!Next]_F!vars
  BY RefinesStep
<1>3. QED
  BY <1>1, <1>2, IdInvariant, PTL DEF Spec, F!Spec, ImplementsForwarder

LEMMA VerdictStep ==
    ASSUME TypeOK, [Next]_vars
    PROVE  \A n \in Names : cache[n] # "unknown" => cache'[n] \in {cache[n], "unknown"}
<1>1. CASE UNCHANGED cache
  BY <1>1
<1>2. CASE Tick
  BY <1>2 DEF Tick
<1>3. ASSUME NEW m \in sent, TestReply(m)
      PROVE  \A n \in Names : cache[n] # "unknown" => cache'[n] \in {cache[n], "unknown"}
  <2>1. UNCHANGED cache \/ \E p \in BOOLEAN : Learn(m.name, p)
    BY <1>3 DEF TestReply, TestCb
  <2>2. QED
    BY <2>1 DEF Learn, TypeOK
<1>4. QED
  BY <1>1, <1>2, <1>3 DEF Next, vars, programVars, RecvQuery, UdpReply, ConnectDone,
     TcpReply, ConnLost

\* cache_insert keeps the first verdict: a later answer to another probe of the
\* same name never turns it round.
THEOREM VerdictsStable == Spec => VerdictStable
<1>1. TypeOK /\ [Next]_vars =>
         [\A n \in Names : cache[n] # "unknown" => cache'[n] \in {cache[n], "unknown"}]_vars
  BY VerdictStep
<1>2. QED
  BY <1>1, TypeCorrect, PTL DEF Spec, VerdictStable

-------------------------------------------------------------------------------
(* Sockets *)

FdTable == [Conns -> Clients \cup {NULL}]

SocketsType ==
    /\ peer \in FdTable
    /\ answer \in FdTable
    /\ asking \subseteq Conns
    /\ sock \in [Clients -> Conns \cup {NULL}]
    /\ reached \in [Clients -> SUBSET Clients]

\* A client has one descriptor, and no connection to server has it.
OneFd ==
    /\ \A fd, d \in Conns : peer[fd] # NULL /\ peer[fd] = peer[d] => fd = d
    /\ \A fd \in Conns : peer[fd] # NULL => conns[fd] = NULL

\* What is written where, and was read by whom.
OwnAnswer ==
    /\ \A fd \in Conns : answer[fd] # NULL => peer[fd] = answer[fd]
    /\ \A r \in Clients : reached[r] \subseteq {r}

\* Where a client is watched, its request has not come; where its query is in the
\* table, the query has the number of its descriptor and nobody watches that; and
\* where nobody is about to answer it, its request is in the table or dropped.
AskingIdle ==
    \A fd \in asking : /\ peer[fd] # NULL
                       /\ answer[fd] = NULL
                       /\ \A r \in Clients : peer[fd] = r => Status(r) = "idle"
Named(r) == sock[r] \in Conns /\ peer[sock[r]] = r /\ sock[r] \notin asking /\ answer[sock[r]] = NULL
PendingNamed == \A r \in Clients : Status(r) = "pending" => Named(r)
QuietSettled ==
    \A fd \in Conns, r \in Clients : peer[fd] = r /\ fd \notin asking /\ answer[fd] = NULL =>
       Status(r) \in {"pending", "dropped"}

SocketsInv == /\ SocketsType
              /\ OneFd
              /\ OwnAnswer
              /\ AskingIdle
              /\ PendingNamed
              /\ QuietSettled

-------------------------------------------------------------------------------
(* Steps of the forwarder, as changes of the status of requests *)

Same(q) == Status(q)' = Status(q)
Settling(q) == Same(q) \/ (Status(q) = "pending" /\ Status(q)' = "dropped")

LEMMA DropStatus ==
    ASSUME F!Drop
    PROVE  \A q \in Requests : Settling(q)
<1>1. PICK D \in SUBSET F!Pending :
         [r \in Requests |-> Status(r)]' =
            [q \in Requests |-> IF q \in D THEN "dropped" ELSE [r \in Requests |-> Status(r)][q]]
  BY DEF F!Drop
<1>2. \A q \in Requests : Status(q)' = IF q \in D THEN "dropped" ELSE Status(q)
  BY <1>1
<1>3. \A q \in D : Status(q) = "pending"
  BY DEF F!Pending
<1>4. QED
  BY <1>2, <1>3 DEF Settling, Same

LEMMA UnchangedStatus ==
    ASSUME UNCHANGED F!vars
    PROVE  \A q \in Requests : Same(q)
<1>1. [r \in Requests |-> Status(r)]' = [r \in Requests |-> Status(r)]
  BY DEF F!vars
<1>2. QED
  BY <1>1 DEF Same

LEMMA ReceiveStatus ==
    ASSUME NEW r \in Requests, F!Receive(r)
    PROVE  /\ Status(r) = "idle"
           /\ Status(r)' \in {"pending", "dropped"}
           /\ \A q \in Requests : q # r => Settling(q)
<1>1. PICK D \in SUBSET (F!Pending \cup {r}) :
         [x \in Requests |-> Status(x)]' =
            [q \in Requests |-> IF q \in D THEN "dropped"
                                ELSE IF q = r THEN "pending"
                                ELSE [x \in Requests |-> Status(x)][q]]
  BY DEF F!Receive
<1>2. \A q \in Requests : Status(q)' = IF q \in D THEN "dropped"
                                       ELSE IF q = r THEN "pending" ELSE Status(q)
  BY <1>1
<1>3. \A q \in D : q # r => Status(q) = "pending"
  BY DEF F!Pending
<1>4. Status(r) = "idle"
  BY DEF F!Receive
<1>5. QED
  BY <1>2, <1>3, <1>4 DEF Settling, Same

LEMMA AnswerStatus ==
    ASSUME TypeOK, NEW r \in Requests, F!Answer(r)
    PROVE  /\ Status(r) = "pending"
           /\ Status(r)' = "answered"
           /\ \A q \in Requests : q # r => Same(q) /\ got'[q] = got[q]
           /\ got'[r] # got[r]
<1>1. /\ [x \in Requests |-> Status(x)]' = [[x \in Requests |-> Status(x)] EXCEPT ![r] = "answered"]
      /\ Status(r) = "pending"
  BY DEF F!Answer
<1>2. \A q \in Requests : Status(q)' = IF q = r THEN "answered" ELSE Status(q)
  BY <1>1
<1>3. PICK n \in Names : got' = [got EXCEPT ![r] = << [id |-> ReqId[r], name |-> n] >>]
  BY DEF F!Answer
<1>4. got[r] = << >>
  BY <1>1 DEF Status
<1>5. QED
  BY <1>1, <1>2, <1>3, <1>4 DEF Same, TypeOK

\* What the steps of the forwarder that answer nobody do to the requests of the
\* clients with descriptors: nothing, or one is dropped.
LEMMA ConnSettles ==
    ASSUME OnceInv, NEW c \in Conns, ConnectDone(c) \/ ConnLost(c)
    PROVE  \A q \in Requests : Settling(q)
<1>1. UNCHANGED <<arrived, got>>
  BY DEF ConnectDone, ConnLost, historyVars
<1>2. Kept(qlist, qlist')
  <2>1. CASE UNCHANGED qlist
    BY <2>1 DEF Kept
  <2>2. ASSUME NEW s \in Slots, IsFirst(s, Hits(qlist, conns[c].id)), qlist' = Deleted(qlist, s)
        PROVE  Kept(qlist, qlist')
    BY <2>2, KeptDeleted DEF OnceInv, TypeOK, Table
  <2>3. QED
    BY <2>1, <2>2 DEF ConnectDone, ConnLost
<1>3. \A q \in Requests : Pending(q)' => Pending(q)
  BY <1>2, KeptPending
<1>4. QED
  BY <1>1, <1>3 DEF Settling, Same, Status

LEMMA ElsewhereSettles ==
    ASSUME SocketsInv, IdInv, IdInv', ~crashed, Elsewhere \/ TickCb \/ UpstreamLost
    PROVE  \A q \in Clients : Settling(q)
<1>0. OnceInv /\ OnceInv' /\ Clients \subseteq Requests
  BY SocketsAssumption DEF IdInv
<1>1. ASSUME NEW r \in Requests \ Clients, RecvQuery(r)
      PROVE  \A q \in Clients : Settling(q)
  BY <1>0, <1>1, RecvQueryRefines, ReceiveStatus
<1>2. ASSUME NEW m \in sent, TestReply(m)
      PROVE  \A q \in Clients : Settling(q)
  BY <1>0, <1>2, TestReplyRefines, DropStatus
<1>3. ASSUME NEW c \in Conns, ConnectDone(c) \/ ConnLost(c)
      PROVE  \A q \in Clients : Settling(q)
  BY <1>0, <1>3, ConnSettles
<1>4. ASSUME Tick
      PROVE  \A q \in Clients : Settling(q)
  BY <1>0, <1>4, TickRefines, DropStatus
<1>5. QED
  BY <1>1, <1>2, <1>3, <1>4 DEF Elsewhere, TickCb, UpstreamLost

LEMMA ReplySettles ==
    ASSUME IdInv, IdInv', ReplyArrives
    PROVE  \/ \E r \in Requests : F!Answer(r)
           \/ UNCHANGED F!vars
<1>0. OnceInv /\ OnceInv' /\ RightAnswer'
  BY DEF IdInv
<1>1. ASSUME NEW id \in Ids, NEW name \in Names, ReplyCb(id, name),
             UNCHANGED <<arrived, crashed, clash>>
      PROVE  (\E r \in Requests : F!Answer(r)) \/ UNCHANGED F!vars
  BY <1>0, <1>1, ReplyCbRefines
<1>2. ASSUME NEW m \in sent, UdpReply(m)
      PROVE  (\E r \in Requests : F!Answer(r)) \/ UNCHANGED F!vars
  <2>1. m.id \in Ids /\ m.name \in Names
    BY <1>0 DEF OnceInv, TypeOK, Datagram
  <2>2. QED
    BY <1>1, <1>2, <2>1 DEF UdpReply
<1>3. ASSUME NEW c \in Conns, TcpReply(c)
      PROVE  (\E r \in Requests : F!Answer(r)) \/ UNCHANGED F!vars
  <2>1. conns[c].id \in Ids /\ conns[c].name \in Names
    BY <1>0, <1>3, ConnType DEF TcpReply, OnceInv
  <2>2. QED
    BY <1>1, <1>3, <2>1 DEF TcpReply
<1>4. QED
  BY <1>2, <1>3 DEF ReplyArrives

-------------------------------------------------------------------------------
(* The invariant is kept *)

\* A step that takes a descriptor for a connection takes a free one.
LEMMA OpensFree ==
    ASSUME OpensLowest, OneFd
    PROVE  \A fd \in Conns : peer[fd] # NULL => conns'[fd] = NULL
BY DEF OpensLowest, Lowest, FreeFds, OneFd

LEMMA AcceptKeeps ==
    ASSUME SocketsInv, NEW r \in Clients, AcceptCb(r)
    PROVE  SocketsInv'
<1>1. PICK fd \in Conns : /\ Lowest(fd)
                          /\ peer' = [peer EXCEPT ![fd] = r]
                          /\ asking' = asking \cup {fd}
  BY DEF AcceptCb
<1>2. /\ conns[fd] = NULL /\ peer[fd] = NULL
      /\ r \notin arrived
      /\ \A d \in Conns : peer[d] # r
      /\ UNCHANGED <<qlist, conns, arrived, got, answer, sock, reached>>
  BY <1>1 DEF AcceptCb, Called, Accepted, Lowest, FreeFds, vars, programVars, historyVars
<1>3. \A q : Status(q)' = Status(q)
  BY <1>2 DEF Status, Pending
<1>4. Status(r) = "idle" /\ r # NULL
  BY <1>2, SocketsAssumption DEF Status
<1>5. peer'[fd] = r /\ \A d \in Conns : d # fd => peer'[d] = peer[d]
  BY <1>1 DEF SocketsInv, SocketsType, FdTable
<1>6. answer[fd] = NULL
  BY <1>2 DEF SocketsInv, OwnAnswer
<1>7. SocketsType'
  BY <1>1, <1>2 DEF SocketsInv, SocketsType, FdTable
<1>8. OneFd' /\ OwnAnswer'
  BY <1>2, <1>5, <1>6 DEF SocketsInv, OneFd, OwnAnswer
<1>9. AskingIdle'
  BY <1>1, <1>2, <1>3, <1>4, <1>5, <1>6 DEF SocketsInv, AskingIdle, SocketsType
<1>10. PendingNamed'
  <2>1. \A q \in Clients : Named(q) => sock[q] # fd
    BY <1>2, SocketsAssumption DEF Named
  <2>2. \A q \in Clients : Named(q) => Named(q)'
    BY <1>1, <1>2, <1>5, <2>1 DEF Named
  <2>3. QED
    BY <1>3, <2>2 DEF SocketsInv, PendingNamed
<1>11. QuietSettled'
  BY <1>1, <1>2, <1>3, <1>5 DEF SocketsInv, QuietSettled
<1>12. QED
  BY <1>7, <1>8, <1>9, <1>10, <1>11 DEF SocketsInv

LEMMA QueryKeeps ==
    ASSUME SocketsInv, IdInv, IdInv', ~crashed, NEW fd \in Conns, WholeQuery(fd)
    PROVE  SocketsInv'
<1>0. PICK r \in Clients : r = peer[fd] /\ r # NULL
  BY SocketsAssumption DEF SocketsInv, SocketsType, FdTable, AskingIdle, WholeQuery
<1>1. /\ fd \in asking
      /\ peer[fd] = r
      /\ asking' = asking \ {fd}
      /\ sock' = [sock EXCEPT ![r] = fd]
      /\ RecvQuery(r)
      /\ OpensLowest
      /\ UNCHANGED <<peer, answer, reached>>
  BY <1>0 DEF WholeQuery, AfterRead
<1>2. r \in Clients /\ r # NULL /\ r \in Requests
  BY <1>0, SocketsAssumption
<1>3. F!Receive(r)
  BY <1>1, <1>2, RecvQueryRefines DEF IdInv
<1>4. /\ Status(r)' \in {"pending", "dropped"}
      /\ \A q \in Clients : q # r => Settling(q)
  BY <1>2, <1>3, ReceiveStatus, SocketsAssumption
<1>5. sock'[r] = fd /\ \A q \in Clients : q # r => sock'[q] = sock[q]
  BY <1>1, <1>2 DEF SocketsInv, SocketsType
<1>6. \A d \in Conns : peer[d] = r => d = fd
  BY <1>1, <1>2 DEF SocketsInv, OneFd
<1>7. answer[fd] = NULL
  BY <1>1 DEF SocketsInv, AskingIdle
<1>9. SocketsType'
  BY <1>1, <1>2 DEF SocketsInv, SocketsType
<1>10. OneFd' /\ OwnAnswer'
  BY <1>1, OpensFree DEF SocketsInv, OneFd, OwnAnswer
<1>11. AskingIdle'
  <2>1. ASSUME NEW d \in asking', NEW q \in Clients, peer[d] = q
        PROVE  Status(q)' = "idle"
    <3>1. d \in asking /\ d \in Conns /\ d # fd
      BY <1>1 DEF SocketsInv, SocketsType
    <3>2. Status(q) = "idle" /\ q # r
      BY <1>6, <2>1, <3>1 DEF SocketsInv, AskingIdle
    <3>3. QED
      BY <1>4, <3>2 DEF Settling, Same
  <2>2. QED
    BY <1>1, <2>1 DEF SocketsInv, AskingIdle
<1>12. PendingNamed'
  <2> SUFFICES ASSUME NEW q \in Clients, Status(q)' = "pending"
               PROVE  Named(q)'
    BY DEF PendingNamed
  <2>1. CASE q = r
    BY <1>1, <1>5, <1>7, <2>1 DEF Named
  <2>2. CASE q # r
    <3>1. Status(q) = "pending"
      BY <1>4, <2>2 DEF Settling, Same
    <3>2. Named(q)
      BY <3>1 DEF SocketsInv, PendingNamed
    <3>3. QED
      BY <1>1, <1>5, <2>2, <3>2 DEF Named
  <2>3. QED
    BY <2>1, <2>2
<1>13. QuietSettled'
  <2>1. ASSUME NEW d \in Conns, NEW q \in Clients, peer[d] = q,
               d \notin asking', answer[d] = NULL
        PROVE  Status(q)' \in {"pending", "dropped"}
    <3>1. CASE q = r
      BY <1>4, <3>1
    <3>2. CASE q # r
      <4>1. d \notin asking
        BY <1>1, <2>1, <3>2
      <4>2. Status(q) \in {"pending", "dropped"}
        BY <2>1, <4>1 DEF SocketsInv, QuietSettled
      <4>3. QED
        BY <1>4, <3>2, <4>2 DEF Settling, Same
    <3>3. QED
      BY <3>1, <3>2
  <2>2. QED
    BY <1>1, <2>1 DEF QuietSettled
<1>14. QED
  BY <1>9, <1>10, <1>11, <1>12, <1>13 DEF SocketsInv

\* A descriptor is closed whose client nobody has in the table.
LEMMA CloseKeeps ==
    ASSUME SocketsInv, NEW fd \in Conns,
           peer' = Closed(fd),
           asking' = asking \ {fd},
           answer' = [answer EXCEPT ![fd] = NULL],
           fd \in asking \/ answer[fd] # NULL,
           reached' \in [Clients -> SUBSET Clients],
           \A r \in Clients : reached'[r] \subseteq reached[r] \cup {r},
           UNCHANGED <<vars, sock>>
    PROVE  SocketsInv'
<1>1. peer'[fd] = NULL /\ \A d \in Conns : d # fd => peer'[d] = peer[d]
  BY DEF Closed, SocketsInv, SocketsType, FdTable
<1>2. answer'[fd] = NULL /\ \A d \in Conns : d # fd => answer'[d] = answer[d]
  BY DEF SocketsInv, SocketsType, FdTable
<1>3. fd \notin asking' /\ \A d \in Conns : d # fd => (d \in asking' <=> d \in asking)
  OBVIOUS
<1>4. UNCHANGED <<qlist, conns, arrived, got>>
  BY DEF vars, programVars, historyVars
<1>5. \A q : Status(q)' = Status(q)
  BY <1>4 DEF Status, Pending
<1>6. SocketsType'
  BY DEF SocketsInv, SocketsType, FdTable, Closed
<1>7. OneFd' /\ OwnAnswer'
  BY <1>1, <1>2, <1>4 DEF SocketsInv, OneFd, OwnAnswer
<1>8. AskingIdle'
  BY <1>1, <1>2, <1>3, <1>5 DEF SocketsInv, SocketsType, AskingIdle
<1>9. PendingNamed'
  BY <1>1, <1>2, <1>3, <1>5 DEF SocketsInv, PendingNamed, Named
<1>10. QuietSettled'
  BY <1>1, <1>2, <1>3, <1>5, SocketsAssumption DEF SocketsInv, QuietSettled
<1>11. QED
  BY <1>6, <1>7, <1>8, <1>9, <1>10 DEF SocketsInv

LEMMA SendKeeps ==
    ASSUME SocketsInv, NEW fd \in Conns, SendAnswer(fd)
    PROVE  SocketsInv'
<1>1. answer[fd] # NULL /\ peer[fd] = answer[fd] /\ fd \notin asking
  BY DEF SendAnswer, SocketsInv, OwnAnswer, AskingIdle
<1>2. PICK r \in Clients : peer[fd] = r /\ answer[fd] = r
  BY <1>1 DEF SocketsInv, SocketsType, FdTable
<1>3. /\ reached' \in [Clients -> SUBSET Clients]
      /\ \A q \in Clients : reached'[q] \subseteq reached[q] \cup {q}
  <2>1. CASE UNCHANGED reached
    BY <2>1 DEF SocketsInv, SocketsType
  <2>2. CASE reached' = [reached EXCEPT ![r] = @ \cup {r}]
    BY <2>2 DEF SocketsInv, SocketsType
  <2>3. QED
    BY <1>2, <2>1, <2>2 DEF SendAnswer
<1>4. /\ peer' = Closed(fd)
      /\ answer' = [answer EXCEPT ![fd] = NULL]
      /\ asking' = asking \ {fd}
      /\ UNCHANGED <<vars, sock>>
  BY <1>1 DEF SendAnswer
<1>5. QED
  BY <1>1, <1>3, <1>4, CloseKeeps

LEMMA RecvFailedKeeps ==
    ASSUME SocketsInv, NEW fd \in Conns, RecvFailed(fd)
    PROVE  SocketsInv'
<1>1. /\ fd \in asking
      /\ asking' = asking \ {fd}
      /\ peer' = Closed(fd)
      /\ UNCHANGED <<vars, answer, sock, reached>>
  BY DEF RecvFailed
<1>2. answer[fd] = NULL
  BY <1>1 DEF SocketsInv, AskingIdle
<1>3. answer' = [answer EXCEPT ![fd] = NULL]
  BY <1>1, <1>2 DEF SocketsInv, SocketsType, FdTable
<1>4. /\ reached' \in [Clients -> SUBSET Clients]
      /\ \A r \in Clients : reached'[r] \subseteq reached[r] \cup {r}
  BY <1>1 DEF SocketsInv, SocketsType
<1>5. QED
  BY <1>1, <1>3, <1>4, CloseKeeps

\* A step that touches no client's descriptor.
LEMMA SettlingKeeps ==
    ASSUME SocketsInv, UNCHANGED <<peer, asking, answer, sock, reached>>,
           \A q \in Clients : Settling(q),
           \A fd \in Conns : peer[fd] # NULL => conns'[fd] = NULL
    PROVE  SocketsInv'
<1>1. SocketsType' /\ OwnAnswer'
  BY DEF SocketsInv, SocketsType, OwnAnswer
<1>2. OneFd'
  BY DEF SocketsInv, OneFd
<1>3. AskingIdle'
  BY DEF SocketsInv, AskingIdle, Settling, Same
<1>4. PendingNamed'
  BY DEF SocketsInv, PendingNamed, Named, Settling, Same
<1>5. QuietSettled'
  BY DEF SocketsInv, QuietSettled, Settling, Same
<1>6. QED
  BY <1>1, <1>2, <1>3, <1>4, <1>5 DEF SocketsInv

LEMMA ReplyKeeps ==
    ASSUME SocketsInv, IdInv, IdInv', ReplyArrives
    PROVE  SocketsInv'
<1>1. /\ answer' = [fd \in Conns |-> IF \E r \in Answered : sock[r] = fd
                                     THEN CHOOSE r \in Answered : sock[r] = fd
                                     ELSE answer[fd]]
      /\ UNCHANGED <<peer, asking, sock, left, reached>>
  BY DEF ReplyArrives, ReplySend
<1>2. \A fd \in Conns : conns'[fd] # NULL => conns[fd] # NULL
  <2>1. ASSUME NEW m \in sent, UdpReply(m)
        PROVE  UNCHANGED conns
    BY <2>1 DEF UdpReply
  <2>2. ASSUME NEW c \in Conns, TcpReply(c)
        PROVE  \A fd \in Conns : conns'[fd] # NULL => conns[fd] # NULL
    BY <2>2 DEF TcpReply, IdInv, OnceInv, TypeOK
  <2>3. QED
    BY <2>1, <2>2 DEF ReplyArrives
<1>3. \A fd \in Conns : peer[fd] # NULL => conns'[fd] = NULL
  BY <1>2 DEF SocketsInv, OneFd
<1>4. ASSUME NEW r \in Requests, F!Answer(r)
      PROVE  SocketsInv'
  <2>1. /\ Status(r) = "pending"
        /\ Status(r)' = "answered"
        /\ \A q \in Requests : q # r => Same(q) /\ got'[q] = got[q]
        /\ got'[r] # got[r]
    BY <1>4, AnswerStatus DEF IdInv, OnceInv
  <2>2. Answered = {r} \cap Clients
    BY <2>1, SocketsAssumption DEF Answered
  <2>3. CASE r \notin Clients
    <3>1. answer' = answer
      BY <1>1, <2>2, <2>3 DEF SocketsInv, SocketsType, FdTable
    <3>2. \A q \in Clients : Settling(q)
      BY <2>1, <2>3, SocketsAssumption DEF Settling
    <3>3. QED
      BY <1>1, <1>3, <3>1, <3>2, SettlingKeeps
  <2>4. CASE r \in Clients
    <3>1. PICK fd \in Conns : /\ sock[r] = fd
                              /\ peer[fd] = r
                              /\ fd \notin asking
                              /\ answer[fd] = NULL
      BY <2>1, <2>4 DEF SocketsInv, PendingNamed, Named
    <3>2. /\ answer'[fd] = r
          /\ \A d \in Conns : d # fd => answer'[d] = answer[d]
          /\ answer' \in FdTable
      <4>1. \A d \in Conns : (\E q \in Answered : sock[q] = d) <=> d = fd
        BY <2>2, <2>4, <3>1
      <4>2. (CHOOSE q \in Answered : sock[q] = fd) = r
        BY <2>2, <2>4, <3>1
      <4>3. answer' = [d \in Conns |-> IF d = fd THEN r ELSE answer[d]]
        BY <1>1, <4>1, <4>2
      <4>4. QED
        BY <2>4, <4>3 DEF SocketsInv, SocketsType, FdTable
    <3>3. r # NULL /\ \A d \in Conns : peer[d] = r => d = fd
      BY <2>4, <3>1, SocketsAssumption DEF SocketsInv, OneFd
    <3>4. \A q \in Clients : q # r => Same(q)
      BY <2>1, SocketsAssumption
    <3>5. SocketsType'
      BY <1>1, <3>2 DEF SocketsInv, SocketsType
    <3>6. OneFd' /\ OwnAnswer'
      BY <1>1, <1>3, <3>1, <3>2 DEF SocketsInv, OneFd, OwnAnswer
    <3>7. AskingIdle'
      BY <1>1, <2>1, <3>1, <3>2, <3>4 DEF SocketsInv, SocketsType, AskingIdle, Same
    <3>8. PendingNamed'
      BY <1>1, <2>1, <3>1, <3>2, <3>4 DEF SocketsInv, PendingNamed, Named, Same
    <3>9. QuietSettled'
      <4>1. ASSUME NEW d \in Conns, NEW q \in Clients, peer[d] = q,
                   d \notin asking, answer'[d] = NULL
            PROVE  Status(q)' \in {"pending", "dropped"}
        <5>1. d # fd
          BY <3>2, <3>3, <4>1
        <5>2. q # r /\ answer[d] = NULL
          BY <3>2, <3>3, <4>1, <5>1
        <5>3. Status(q) \in {"pending", "dropped"}
          BY <4>1, <5>2 DEF SocketsInv, QuietSettled
        <5>4. QED
          BY <3>4, <5>2, <5>3 DEF Same
      <4>2. QED
        BY <1>1, <4>1 DEF QuietSettled
    <3>10. QED
      BY <3>5, <3>6, <3>7, <3>8, <3>9 DEF SocketsInv
  <2>5. QED
    BY <2>3, <2>4
<1>5. CASE UNCHANGED F!vars
  <2>1. \A q \in Clients : Settling(q)
    BY <1>5, UnchangedStatus, SocketsAssumption DEF Settling
  <2>2. got' = got
    BY <1>5 DEF F!vars
  <2>3. answer' = answer
    BY <1>1, <2>2 DEF Answered, SocketsInv, SocketsType, FdTable
  <2>4. QED
    BY <1>1, <1>3, <2>1, <2>3, SettlingKeeps
<1>6. QED
  BY <1>4, <1>5, ReplySettles

-------------------------------------------------------------------------------
(* The composition *)

LEMMA InitKept == SocketsInit => SocketsInv
<1> SUFFICES ASSUME SocketsInit PROVE SocketsInv
  OBVIOUS
<1>1. \A r \in Requests : Status(r) = "idle"
  BY DEF SocketsInit, Init, Status
<1>2. SocketsType
  BY DEF SocketsInit, SocketsType, FdTable
<1>3. OneFd /\ OwnAnswer /\ AskingIdle
  BY DEF SocketsInit, OneFd, OwnAnswer, AskingIdle
<1>4. PendingNamed
  BY <1>1, SocketsAssumption DEF PendingNamed
<1>5. QuietSettled
  BY SocketsAssumption DEF SocketsInit, QuietSettled
<1>6. QED
  BY <1>2, <1>3, <1>4, <1>5 DEF SocketsInv

\* With descriptors or without, the forwarder takes the same steps: a client is a
\* request, and who calls, closes or is written to is none of its business.
LEMMA StepIsSans == SocketsInv /\ [SocketsNext]_allVars => [Next]_vars
<1> SUFFICES ASSUME SocketsInv, [SocketsNext]_allVars PROVE [Next]_vars
  OBVIOUS
<1>1. CASE UNCHANGED allVars
  BY <1>1 DEF allVars
<1>2. ASSUME NEW r \in Clients, AcceptCb(r) \/ ClientCloses(r)
      PROVE  UNCHANGED vars
  BY <1>2 DEF AcceptCb, ClientCloses
<1>3. ASSUME NEW fd \in Conns, RecvFailed(fd) \/ SendAnswer(fd)
      PROVE  UNCHANGED vars
  BY <1>3 DEF RecvFailed, SendAnswer
<1>4. ASSUME NEW fd \in Conns, WholeQuery(fd)
      PROVE  \E r \in Requests : RecvQuery(r)
  <2>1. peer[fd] \in Requests /\ RecvQuery(peer[fd])
    BY <1>4, SocketsAssumption DEF WholeQuery, SocketsInv, SocketsType, FdTable, AskingIdle
  <2>2. QED
    BY <2>1
<1>5. ASSUME ~crashed, Elsewhere \/ TickCb \/ UpstreamLost
      PROVE  Next
  BY <1>5 DEF Elsewhere, TickCb, UpstreamLost, Next
<1>6. ASSUME ~crashed, ReplyArrives
      PROVE  Next
  BY <1>6 DEF ReplyArrives, Next
<1>7. QED
  BY <1>1, <1>2, <1>3, <1>4, <1>5, <1>6 DEF SocketsNext, Callbacks, Next

LEMMA StepKept == SocketsInv /\ IdInv /\ [SocketsNext]_allVars => SocketsInv' /\ IdInv'
<1> SUFFICES ASSUME SocketsInv, IdInv, [SocketsNext]_allVars PROVE SocketsInv' /\ IdInv'
  OBVIOUS
<1>1. IdInv'
  BY StepIsSans, IdStep
<1>2. CASE UNCHANGED allVars
  <2>1. \A q \in Clients : Settling(q)
    BY <1>2 DEF allVars, vars, programVars, historyVars, Settling, Same, Status, Pending
  <2>2. QED
    BY <1>1, <1>2, <2>1, SettlingKeeps DEF allVars, socketVars, vars, programVars, SocketsInv, OneFd
<1>3. ASSUME NEW r \in Clients, AcceptCb(r)
      PROVE  SocketsInv'
  BY <1>3, AcceptKeeps
<1>4. ASSUME NEW r \in Clients, ClientCloses(r)
      PROVE  SocketsInv'
  <2>1. \A q \in Clients : Settling(q)
    BY <1>4 DEF ClientCloses, vars, programVars, historyVars, Settling, Same, Status, Pending
  <2>2. QED
    BY <1>4, <2>1, SettlingKeeps DEF ClientCloses, vars, programVars, SocketsInv, OneFd
<1>5. ASSUME ~crashed, NEW fd \in Conns, WholeQuery(fd)
      PROVE  SocketsInv'
  BY <1>1, <1>5, QueryKeeps
<1>6. ASSUME NEW fd \in Conns, RecvFailed(fd) \/ SendAnswer(fd)
      PROVE  SocketsInv'
  BY <1>6, RecvFailedKeeps, SendKeeps
<1>7. ASSUME ~crashed, Elsewhere \/ TickCb \/ UpstreamLost
      PROVE  SocketsInv'
  <2>1. \A q \in Clients : Settling(q)
    BY <1>1, <1>7, ElsewhereSettles
  <2>2. \A fd \in Conns : peer[fd] # NULL => conns'[fd] = NULL
    BY <1>7, OpensFree DEF Elsewhere, TickCb, UpstreamLost, SocketsInv
  <2>3. QED
    BY <1>7, <2>1, <2>2, SettlingKeeps DEF Elsewhere, TickCb, UpstreamLost, socketVars
<1>8. ASSUME ReplyArrives
      PROVE  SocketsInv'
  BY <1>1, <1>8, ReplyKeeps
<1>9. QED
  BY <1>1, <1>2, <1>3, <1>4, <1>5, <1>6, <1>7, <1>8 DEF SocketsNext, Callbacks

LEMMA SocketsInvariant == SocketsSpec => [](SocketsInv /\ IdInv)
<1>1. SocketsInit => SocketsInv /\ IdInv
  BY InitKept, IdInit DEF SocketsInit
<1>2. QED
  BY <1>1, StepKept, PTL DEF SocketsSpec

\* The composition with descriptors is a refinement of the forwarder, so every
\* theorem about Sans holds of it: what accept_cb, query_tcp_recv_cb and
\* reply_tcp_send_cb do with sockets never lets the table do what it could not.
THEOREM SocketsIsForwarder == SocketsSpec => Spec
<1>1. SocketsInit => Init
  BY DEF SocketsInit
<1>2. QED
  BY <1>1, StepIsSans, SocketsInvariant, PTL DEF SocketsSpec, Spec

\* The number of a descriptor that a query keeps until its answer is written is
\* still its own client's, and a client reads no answer but its own (query->sock,
\* sans.c:567): for every number of clients, connections and slots.
THEOREM AnswersToAskers == SocketsSpec => []AnswerToAsker
<1>1. SocketsInv /\ IdInv => AnswerToAsker
  <2> SUFFICES ASSUME SocketsInv, IdInv PROVE AnswerToAsker
    OBVIOUS
  <2>1. ASSUME NEW s \in Busy(qlist), qlist[s].req \in Clients
        PROVE  Named(qlist[s].req)
    <3>1. /\ qlist[s].req \in arrived
          /\ got[qlist[s].req] = << >>
          /\ Pending(qlist[s].req)
      BY DEF IdInv, OnceInv, PendingOnce, Pending
    <3>2. Status(qlist[s].req) = "pending"
      BY <3>1 DEF Status
    <3>3. QED
      BY <2>1, <3>2 DEF SocketsInv, PendingNamed
  <2>2. QED
    BY <2>1 DEF AnswerToAsker, Named, SocketsInv, OneFd, OwnAnswer
<1>2. QED
  BY <1>1, SocketsInvariant, PTL

\* The only descriptors nobody will ever close are those of clients whose request
\* was dropped (dnsmsg.c:203 stops the watcher and leaves the socket to the query).
THEOREM OnlyDroppedLeak == SocketsSpec => []LeaksOnlyIfDropped
<1>1. SocketsInv => LeaksOnlyIfDropped
  <2> SUFFICES ASSUME SocketsInv, NEW fd \in Conns, Forgotten(fd)
               PROVE  Status(peer[fd]) = "dropped"
    BY DEF LeaksOnlyIfDropped
  <2>1. Status(peer[fd]) \in {"pending", "dropped"}
    BY DEF Forgotten, SocketsInv, SocketsType, FdTable, QuietSettled
  <2>2. Status(peer[fd]) # "pending"
    BY DEF Forgotten, Status
  <2>3. QED
    BY <2>1, <2>2
<1>2. QED
  BY <1>1, SocketsInvariant, PTL
===============================================================================
