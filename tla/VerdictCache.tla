------------------------------ MODULE VerdictCache ------------------------------
(***************************************************************************)
(* The cache of verdicts (cache.c): a hash table of singly linked chains.   *)
(* cache_insert and cache_tick are modelled one list cell at a time, over a *)
(* heap whose freed cells malloc may hand out again, because cache_tick     *)
(* goes on from a cell it has just freed: it takes entry->next from it, and *)
(* keeps it as last, the cell whose next field it will write.               *)
(*                                                                          *)
(* A freed cell keeps its fields or not, depending on the allocator.  So    *)
(* whoever reads one either finds what was in it, its next field and the    *)
(* record its data field leads to, which is never freed, and goes on from   *)
(* there; or finds something wild, and that is the end of the process:      *)
(* crashed.                                                                 *)
(*                                                                          *)
(* A client of the cache never runs while one of its loops does, so nothing *)
(* is interleaved with the walk.  cache_search is the walk of cache_insert. *)
(***************************************************************************)
EXTENDS Naturals, FiniteSets

CONSTANTS
    Names,        \* domain names (the record type is always ns_t_block)
    Buckets,      \* indices of htable, 0 .. HASH_SIZE - 1
    Bucket,       \* hash(name, ns_t_block)
    Cells,        \* bound: list cells the heap can hold
    Ttl,          \* ticks a verdict lives: 518400 in test_cb
    NULL

Ptr == Cells \cup {NULL}

\* The loops, with their variables.
Inserting == [op : {"insert"}, name : Names, entry : Ptr]
Ticking == [op : {"tick"}, bucket : Buckets, entry : Ptr, last : Ptr]

ASSUME CacheAssumption ==
    /\ IsFiniteSet(Buckets) /\ Buckets # {} /\ Buckets = 0 .. Cardinality(Buckets) - 1
    /\ IsFiniteSet(Cells)
    /\ Names # {} /\ Bucket \in [Names -> Buckets]
    /\ Ttl \in Nat \ {0}
    /\ NULL \notin Cells \cup Inserting \cup Ticking

VARIABLES
    htable,       \* htable[b]: the first cell of chain b, or NULL
    cell,         \* cell[c]: its name, ttl and next, if live; what is left of
                  \*          them if it has been freed
    live,         \* the cells allocated and not freed
    at,           \* the running loop, or NULL: where it has got to
    crashed,      \* the process has used memory it does not own
    age,          \* history: ticks since the start, counted up to Ttl
    tangled       \* history: an entry was put before two of the same age

vars == <<htable, cell, live, at, crashed, age, tangled>>

-------------------------------------------------------------------------------
\* The cells that the pointer p leads to.
Reach(p) ==
    LET step[k \in 0 .. Cardinality(Cells)] ==
          IF k = 0 THEN {p} \ {NULL}
          ELSE step[k - 1] \cup ({cell[c].next : c \in step[k - 1]} \ {NULL})
    IN step[Cardinality(Cells)]

Chain(b) == Reach(htable[b])

Idle == at = NULL

\* Mutants of Link: the new cell is put behind the first one; the head is
\* assigned before it is copied.
LinkSecond(c, n) ==
    LET h == htable[Bucket[n]]
    IN IF h = NULL
       THEN /\ cell' = [cell EXCEPT ![c] = [name |-> n, ttl |-> Ttl, next |-> NULL]]
            /\ htable' = [htable EXCEPT ![Bucket[n]] = c]
       ELSE /\ cell' = [cell EXCEPT ![c] = [name |-> n, ttl |-> Ttl, next |-> cell[h].next],
                                    ![h].next = c]
            /\ UNCHANGED htable
LinkSwapped(c, n) ==
    /\ cell' = [cell EXCEPT ![c] = [name |-> n, ttl |-> Ttl, next |-> c]]
    /\ htable' = [htable EXCEPT ![Bucket[n]] = c]

\* The new cell becomes the head of its chain.
Link(c, n) ==
    /\ cell' = [cell EXCEPT ![c] = [name |-> n, ttl |-> Ttl, next |-> htable[Bucket[n]]]]
    /\ htable' = [htable EXCEPT ![Bucket[n]] = c]

\* Mutant of Same: the loop of cache_insert never finds the name.
SameNever(c, n) == FALSE

Same(c, n) == cell[c].name = n

\* test_cb has a verdict for cache_insert.
InsertStart(n) ==
    /\ Idle
    /\ at' = [op |-> "insert", name |-> n, entry |-> htable[Bucket[n]]]
    /\ UNCHANGED <<htable, cell, live, crashed, age, tangled>>

\* Its loop looks at one entry: the name is there already, or the next one is
\* looked at.  What is found in an entry that was freed may be wild.
InsertStep ==
    /\ at # NULL /\ at.op = "insert" /\ at.entry # NULL
    /\ \/ at.entry \notin live /\ crashed' = TRUE /\ UNCHANGED at
       \/ /\ at' = IF Same(at.entry, at.name) THEN NULL
                   ELSE [at EXCEPT !.entry = cell[at.entry].next]
          /\ UNCHANGED crashed
    /\ UNCHANGED <<htable, cell, live, age, tangled>>

\* The name is not there: an entry is made, unless there is no memory.
InsertEnd ==
    /\ at # NULL /\ at.op = "insert" /\ at.entry = NULL
    /\ at' = NULL
    /\ \/ UNCHANGED <<htable, cell, live, tangled>>
       \/ \E c \in Cells \ live :
             /\ Link(c, at.name)
             /\ live' = live \cup {c}
             /\ tangled' = (tangled \/ \E d, e \in Chain(Bucket[at.name]) :
                                      d # e /\ cell[d].ttl = cell[e].ttl /\ cell[e].ttl < Ttl)
    /\ UNCHANGED <<crashed, age>>

\* cache_tick begins with the first chain.
TickStart ==
    /\ Idle
    /\ at' = [op |-> "tick", bucket |-> 0, entry |-> htable[0], last |-> NULL]
    /\ age' = IF age < Ttl THEN age + 1 ELSE age
    /\ UNCHANGED <<htable, cell, live, crashed, tangled>>

\* Entry e, whose ttl has come to 0, is taken out of the chain: the whole chain
\* goes if e is its first entry.
Unlink(e) ==
    IF at.last = NULL
    THEN /\ htable' = [htable EXCEPT ![at.bucket] = NULL]
         /\ cell' = [cell EXCEPT ![e].ttl = 0]
    ELSE /\ cell' = [cell EXCEPT ![e].ttl = 0, ![at.last].next = cell[e].next]
         /\ UNCHANGED htable

\* Mutant of Expired: an entry leaves a tick early.
ExpiredEarly(e) == cell[e].ttl <= 2

\* The ttl of entry e comes to 0 at this tick.
Expired(e) == cell[e].ttl = 1

\* One entry is aged, and freed when its time is over.  The ttl of an entry that
\* was freed has come to 0: aged once more it wraps, and 0 stands for that too
\* (bound: no entry is aged another 2^32 times, to be freed twice).
TickStep ==
    /\ at # NULL /\ at.op = "tick" /\ at.entry # NULL
    /\ LET e == at.entry
           onwards == [at EXCEPT !.last = e, !.entry = cell[e].next]
       IN \/ /\ e \notin live
             /\ \/ crashed' = TRUE /\ UNCHANGED at
                \/ at' = onwards /\ UNCHANGED crashed
             /\ UNCHANGED <<htable, cell, live>>
          \/ /\ e \in live /\ ~Expired(e)
             /\ cell' = [cell EXCEPT ![e].ttl = @ - 1]
             /\ at' = onwards
             /\ UNCHANGED <<htable, live, crashed>>
          \/ /\ e \in live /\ Expired(e)
             /\ Unlink(e)
             /\ live' = live \ {e}
             /\ at' = onwards
             /\ crashed' \in BOOLEAN   \* whether e's next field is wild by now
    /\ UNCHANGED <<age, tangled>>

\* The chain is done; the next one, or the end.
TickEnd ==
    /\ at # NULL /\ at.op = "tick" /\ at.entry = NULL
    /\ at' = IF at.bucket + 1 \in Buckets
             THEN [at EXCEPT !.bucket = @ + 1, !.entry = htable[at.bucket + 1],
                             !.last = NULL]
             ELSE NULL
    /\ UNCHANGED <<htable, cell, live, crashed, age, tangled>>

-------------------------------------------------------------------------------
Init ==
    /\ htable = [b \in Buckets |-> NULL]
    /\ cell = [c \in Cells |-> [name |-> CHOOSE n \in Names : TRUE, ttl |-> 0, next |-> NULL]]
    /\ live = {}
    /\ at = NULL
    /\ crashed = FALSE
    /\ age = 0
    /\ tangled = FALSE

Next == /\ ~crashed
        /\ \/ \E n \in Names : InsertStart(n)
           \/ InsertStep \/ InsertEnd
           \/ TickStart \/ TickStep \/ TickEnd

\* A loop, once begun, runs: the process does nothing else.
Running == ~crashed /\ (InsertStep \/ InsertEnd \/ TickStep \/ TickEnd)

Spec == Init /\ [][Next]_vars /\ WF_vars(Running)
-------------------------------------------------------------------------------
(* Properties *)

Entry == [name : Names, ttl : 0 .. Ttl, next : Ptr]

\* Every variable holds a value of its kind; a ttl never wraps below 0.
TypeOK ==
    /\ htable \in [Buckets -> Ptr]
    /\ cell \in [Cells -> Entry]
    /\ live \subseteq Cells
    /\ at \in {NULL} \cup Inserting \cup Ticking
    /\ crashed \in BOOLEAN
    /\ age \in 0 .. Ttl
    /\ tangled \in BOOLEAN

\* Between two loops, and as long as no entry has been put before two of the
\* same age, the chains hold exactly the allocated cells, each in the chain of
\* its name and no name twice; and they are sorted, newest first, which is what
\* makes it right for cache_tick to empty a chain when its head expires.
ChainsSound ==
    /\ TypeOK
    /\ Idle /\ ~crashed /\ ~tangled =>
          /\ live = UNION {Chain(b) : b \in Buckets}
          /\ \A b \in Buckets : \A c \in Chain(b) :
                /\ Bucket[cell[c].name] = b
                /\ \A d \in Reach(cell[c].next) : /\ cell[d].ttl <= cell[c].ttl
                                                  /\ cell[d].name # cell[c].name

\* Whatever is inserted, nothing goes wrong in the first Ttl ticks, six days:
\* the process has touched no memory it does not own, and no chain leads to a
\* cell that was freed.
NoTroubleBeforeTtl ==
    age < Ttl => /\ ~crashed
                 /\ \A b \in Buckets : Chain(b) \subseteq live

\* A loop that has begun ends, unless an entry has been put before two of one
\* age: until then no chain leads back into itself, although cache_tick goes on
\* from cells it has freed and malloc hands them out again.  After that it may:
\* cache_tick has left a pointer to a freed cell (cache.c:181-185), malloc makes
\* that cell the head of the same chain, and the next walk goes in a circle.
LoopsEnd == at # NULL ~> (at = NULL \/ crashed \/ tangled)

\* The tick that is running has yet to age cell c.
Ahead(c) ==
    /\ at # NULL /\ at.op = "tick"
    /\ c \in Reach(at.entry) \/ Bucket[cell[c].name] > at.bucket

\* The ticks the verdict on n has left, the running one counted as over.
Life(n) ==
    LET found == {c \in Chain(Bucket[n]) \cap live : cell[c].name = n}
        left(c) == IF Ahead(c) THEN cell[c].ttl - 1 ELSE cell[c].ttl
    IN IF found = {} THEN 0
       ELSE CHOOSE l \in {left(c) : c \in found} : \A c \in found : left(c) <= l

V == INSTANCE VerdictMap WITH life <- [n \in Names |-> Life(n)],
                              broken <- crashed \/ tangled

\* A verdict lives exactly Ttl ticks, although the tick that expires the first
\* entry of a chain throws the whole chain away.
ImplementsVerdictMap == V!Spec
===============================================================================
