------------------------------ MODULE QueryTable ------------------------------
(***************************************************************************)
(* The table of outstanding queries (query.c): a fixed array of slots, each *)
(* holding a query or NULL.  The module has no state of its own: it gives   *)
(* the operations of query.c as operators on a table value, and the         *)
(* forwarder (module Sans) holds the table in its variable qlist.           *)
(*                                                                          *)
(* Every loop of query.c runs from slot 0 upwards and stops at the first    *)
(* slot that fits, so "the slot the loop returns" is the least element of   *)
(* a set of slots.  It is stated as a predicate, IsFirst, and a caller      *)
(* binds it with \E: no slot satisfies it exactly when the C function       *)
(* returns NULL or -1.                                                      *)
(***************************************************************************)
EXTENDS Naturals

CONSTANTS
    QLIST_SIZE,   \* number of slots (128 in query.c)
    QueryTtl,     \* ticks a query lives (10 in query_add)
    NULL          \* an empty slot

ASSUME TableAssumption == /\ QLIST_SIZE \in Nat \ {0}
                          /\ QueryTtl \in Nat \ {0}

Slots == 0 .. QLIST_SIZE - 1

EmptyTable == [s \in Slots |-> NULL]

Busy(ql) == {s \in Slots : ql[s] # NULL}

Free(ql) == {s \in Slots : ql[s] = NULL}

\* The slots query_search and query_delete would accept for this id.
Hits(ql, id) == {s \in Busy(ql) : ql[s].id = id}

\* s is the slot at which an upward scan for a member of S stops.
IsFirst(s, S) == /\ s \in S
                 /\ \A t \in S : s <= t

\* The query that query_add stores: its own id is kept as qid, the id the
\* answer must carry, while id is about to be replaced.
NewQuery(req, id) == [req |-> req, id |-> id, qid |-> id, ttl |-> QueryTtl]

\* query_add puts the query in the first free slot; s is that slot.
Added(ql, s, query) == [ql EXCEPT ![s] = query]

\* Mutant of Renumbered: the query keeps its id.
NotRenumbered(ql, s, id) == ql

\* query->id = ns_newid()
Renumbered(ql, s, id) == [ql EXCEPT ![s].id = id]

Deleted(ql, s) == [ql EXCEPT ![s] = NULL]

\* Mutants of Ticked: a query at zero leaves a tick late; none ever leaves.
TickedLate(ql) ==
    [s \in Slots |-> IF ql[s] = NULL THEN NULL
                     ELSE IF ql[s].ttl = 0 THEN NULL
                     ELSE [ql[s] EXCEPT !.ttl = @ - 1]]
TickedForever(ql) ==
    [s \in Slots |-> IF ql[s] = NULL \/ ql[s].ttl = 1
                     THEN ql[s]
                     ELSE [ql[s] EXCEPT !.ttl = @ - 1]]

\* query_tick: one tick less for every query, and those at zero leave.
Ticked(ql) ==
    [s \in Slots |-> IF ql[s] = NULL \/ ql[s].ttl = 1
                     THEN NULL
                     ELSE [ql[s] EXCEPT !.ttl = @ - 1]]
===============================================================================
