--------------------------- MODULE VerdictCacheProofs ---------------------------
(***************************************************************************)
(* Theorems about the cache of verdicts, for any number of names, buckets   *)
(* and cells, any time to live and any hash.                                *)
(***************************************************************************)
EXTENDS VerdictCache, Induction, FiniteSetTheorems

-------------------------------------------------------------------------------
(* What a pointer leads to *)

Closed(cl, S) == \A c \in S : cl[c].next \in S \cup {NULL}

\* The cells that hold pointers.
Heap(cl) == \A c \in Cells : cl[c].next \in Ptr

StepOf(cl, S) == S \cup ({cl[c].next : c \in S} \ {NULL})

StepAt(cl, p, f, k) == IF k = 0 THEN {p} \ {NULL} ELSE StepOf(cl, f[k - 1])

StepsOf(cl, p) == CHOOSE f : f = [k \in 0 .. Cardinality(Cells) |-> StepAt(cl, p, f, k)]

ReachOf(cl, p) == StepsOf(cl, p)[Cardinality(Cells)]

LEMMA ReachIs == \A p : Reach(p) = ReachOf(cell, p)
BY DEF Reach, ReachOf, StepsOf, StepAt, StepOf

LEMMA ReachIsNext == \A p : Reach(p)' = ReachOf(cell', p)
BY DEF Reach, ReachOf, StepsOf, StepAt, StepOf

LEMMA StepsExist ==
    ASSUME NEW cl, NEW p, NEW m \in Nat
    PROVE  \E f : f = [k \in 0 .. m |-> StepAt(cl, p, f, k)]
<1> DEFINE T == {i \in Nat : \E f : f = [k \in 0 .. i |-> StepAt(cl, p, f, k)]}
<1>1. 0 \in T
  <2> DEFINE f == [k \in 0 .. 0 |-> {p} \ {NULL}]
  <2>1. f = [k \in 0 .. 0 |-> StepAt(cl, p, f, k)]
    BY DEF StepAt
  <2>2. QED
    BY <2>1
<1>2. ASSUME NEW i \in Nat, i \in T
      PROVE  i + 1 \in T
  <2>1. PICK f : f = [k \in 0 .. i |-> StepAt(cl, p, f, k)]
    BY <1>2
  <2> DEFINE g == [k \in 0 .. i + 1 |-> IF k = i + 1 THEN StepAt(cl, p, f, k) ELSE f[k]]
  <2>2. \A k \in 0 .. i + 1 : g[k] = StepAt(cl, p, g, k)
    <3>1. TAKE k \in 0 .. i + 1
    <3>2. k # 0 => g[k - 1] = f[k - 1]
      OBVIOUS
    <3>3. StepAt(cl, p, g, k) = StepAt(cl, p, f, k)
      BY <3>2 DEF StepAt
    <3>4. k # i + 1 => k \in 0 .. i /\ f[k] = StepAt(cl, p, f, k)
      BY <2>1
    <3>5. QED
      BY <3>3, <3>4
  <2>3. g = [k \in 0 .. i + 1 |-> g[k]]
    OBVIOUS
  <2> HIDE DEF g
  <2>4. [k \in 0 .. i + 1 |-> g[k]] = [k \in 0 .. i + 1 |-> StepAt(cl, p, g, k)]
    BY <2>2
  <2>5. g = [k \in 0 .. i + 1 |-> StepAt(cl, p, g, k)]
    BY <2>3, <2>4
  <2>6. QED
    BY <2>5
<1> HIDE DEF T
<1>3. m \in T
  BY <1>1, <1>2, SetInduction
<1>4. QED
  BY <1>3 DEF T

LEMMA StepsOfSteps ==
    ASSUME NEW cl, NEW p
    PROVE  /\ Cardinality(Cells) \in Nat
           /\ StepsOf(cl, p)[0] = {p} \ {NULL}
           /\ \A k \in Nat : k + 1 <= Cardinality(Cells) =>
                 StepsOf(cl, p)[k + 1] = StepOf(cl, StepsOf(cl, p)[k])
<1> DEFINE N == Cardinality(Cells)
           f == StepsOf(cl, p)
<1>1. N \in Nat
  BY CacheAssumption, FS_CardinalityType
<1>2. \E g : g = [k \in 0 .. N |-> StepAt(cl, p, g, k)]
  BY <1>1, StepsExist
<1>3. f = [k \in 0 .. N |-> StepAt(cl, p, f, k)]
  BY <1>2 DEF StepsOf
<1> HIDE DEF f
<1>4. f[0] = {p} \ {NULL}
  BY <1>1, <1>3 DEF StepAt
<1>5. ASSUME NEW k \in Nat, k + 1 <= N
      PROVE  f[k + 1] = StepOf(cl, f[k])
  <2>1. k + 1 \in 0 .. N /\ k + 1 # 0 /\ (k + 1) - 1 = k
    BY <1>1, <1>5
  <2>2. QED
    BY <1>3, <2>1 DEF StepAt
<1>6. QED
  BY <1>1, <1>4, <1>5 DEF f

\* Reach(p) is the smallest set of cells with p that next does not leave.
LEMMA ReachLeast ==
    ASSUME NEW cl, NEW p, NEW S, p # NULL => p \in S, Closed(cl, S)
    PROVE  ReachOf(cl, p) \subseteq S
<1> DEFINE f == StepsOf(cl, p)
           T == {k \in Nat : k <= Cardinality(Cells) => f[k] \subseteq S}
<1>1. 0 \in T
  BY StepsOfSteps
<1>2. ASSUME NEW k \in Nat, k \in T
      PROVE  k + 1 \in T
  <2>1. SUFFICES ASSUME k + 1 <= Cardinality(Cells)
                 PROVE  f[k + 1] \subseteq S
    OBVIOUS
  <2>2. f[k + 1] = StepOf(cl, f[k])
    BY <2>1, StepsOfSteps
  <2>3. f[k] \subseteq S
    BY <1>2, <2>1, StepsOfSteps
  <2> HIDE DEF f
  <2>4. QED
    BY <2>2, <2>3 DEF StepOf, Closed
<1> HIDE DEF T
<1>3. Cardinality(Cells) \in T
  BY <1>1, <1>2, SetInduction, StepsOfSteps
<1>4. QED
  BY <1>3, StepsOfSteps DEF T, ReachOf

\* Every step finds a new cell or none is left: there are no more steps than cells.
LEMMA ReachClosed ==
    ASSUME NEW cl, Heap(cl), NEW p \in Ptr
    PROVE  /\ ReachOf(cl, p) \subseteq Cells
           /\ p # NULL => p \in ReachOf(cl, p)
           /\ Closed(cl, ReachOf(cl, p))
<1> DEFINE N == Cardinality(Cells)
           f == StepsOf(cl, p)
           T == {k \in Nat : k <= N => /\ f[k] \subseteq Cells
                                       /\ p # NULL => p \in f[k]
                                       /\ Closed(cl, f[k]) \/ Cardinality(f[k]) >= k + 1}
<1>0. N \in Nat /\ IsFiniteSet(Cells)
  BY StepsOfSteps, CacheAssumption
<1>1. 0 \in T
  <2>1. f[0] = {p} \ {NULL}
    BY StepsOfSteps
  <2> HIDE DEF f
  <2>2. CASE p = NULL
    BY <2>1, <2>2 DEF Closed
  <2>3. CASE p # NULL
    <3>1. f[0] = {p} /\ p \in Cells
      BY <2>1, <2>3 DEF Ptr
    <3>2. Cardinality(f[0]) = 1
      BY <3>1, FS_Singleton
    <3>3. QED
      BY <3>1, <3>2
  <2>4. QED
    BY <2>2, <2>3
<1>2. ASSUME NEW k \in Nat, k \in T
      PROVE  k + 1 \in T
  <2>1. SUFFICES ASSUME k + 1 <= N
                 PROVE  /\ f[k + 1] \subseteq Cells
                        /\ p # NULL => p \in f[k + 1]
                        /\ Closed(cl, f[k + 1]) \/ Cardinality(f[k + 1]) >= (k + 1) + 1
    OBVIOUS
  <2>2. f[k + 1] = StepOf(cl, f[k])
    BY <2>1, StepsOfSteps
  <2>3. /\ f[k] \subseteq Cells
        /\ p # NULL => p \in f[k]
        /\ Closed(cl, f[k]) \/ Cardinality(f[k]) >= k + 1
    BY <1>0, <1>2, <2>1
  <2> HIDE DEF f
  <2>4. f[k + 1] \subseteq Cells /\ f[k] \subseteq f[k + 1]
    BY <2>2, <2>3 DEF StepOf, Heap, Ptr
  <2>5. CASE Closed(cl, f[k])
    <3>1. f[k + 1] = f[k]
      BY <2>2, <2>5 DEF StepOf, Closed
    <3>2. QED
      BY <2>3, <2>4, <2>5, <3>1
  <2>6. CASE ~Closed(cl, f[k])
    <3>1. PICK c \in f[k] : cl[c].next \notin f[k] \cup {NULL}
      BY <2>6 DEF Closed
    <3>2. PICK d : d = cl[c].next
      OBVIOUS
    <3>3. d \in f[k + 1] /\ d \notin f[k]
      BY <2>2, <3>1, <3>2 DEF StepOf
    <3>4. IsFiniteSet(f[k]) /\ IsFiniteSet(f[k + 1])
      BY <1>0, <2>3, <2>4, FS_Subset
    <3>5. Cardinality(f[k] \cup {d}) = Cardinality(f[k]) + 1 /\ Cardinality(f[k]) \in Nat
      BY <3>3, <3>4, FS_AddElement, FS_CardinalityType
    <3>6. f[k] \cup {d} \in SUBSET f[k + 1]
      BY <2>4, <3>3
    <3>7. Cardinality(f[k] \cup {d}) <= Cardinality(f[k + 1])
      BY <3>4, <3>6, FS_Subset
    <3>8. Cardinality(f[k + 1]) \in Nat
      BY <3>4, FS_CardinalityType
    <3>9. Cardinality(f[k + 1]) >= (k + 1) + 1
      BY <2>3, <2>6, <3>5, <3>7, <3>8
    <3>10. QED
      BY <2>3, <2>4, <3>9
  <2>7. QED
    BY <2>5, <2>6
<1> HIDE DEF T
<1>3. N \in T
  BY <1>0, <1>1, <1>2, SetInduction
<1>4. /\ f[N] \subseteq Cells
      /\ p # NULL => p \in f[N]
      /\ Closed(cl, f[N]) \/ Cardinality(f[N]) >= N + 1
  BY <1>0, <1>3 DEF T
<1>5. Cardinality(f[N]) <= N /\ Cardinality(f[N]) \in Nat
  BY <1>0, <1>4, FS_Subset, FS_CardinalityType
<1>6. QED
  BY <1>0, <1>4, <1>5 DEF ReachOf

LEMMA ReachNull ==
    ASSUME NEW cl
    PROVE  ReachOf(cl, NULL) = {}
<1> DEFINE S == {}
<1>1. ReachOf(cl, NULL) \subseteq S
  <2>1. Closed(cl, S)
    BY DEF Closed
  <2> HIDE DEF S
  <2>2. QED
    BY <2>1, ReachLeast
<1>2. QED
  BY <1>1

LEMMA ReachWithin ==
    ASSUME NEW cl, Heap(cl), NEW p \in Ptr, NEW q \in ReachOf(cl, p)
    PROVE  /\ ReachOf(cl, q) \subseteq ReachOf(cl, p)
           /\ ReachOf(cl, cl[q].next) \subseteq ReachOf(cl, p)
<1>1. Closed(cl, ReachOf(cl, p)) /\ NULL \notin ReachOf(cl, p)
  BY ReachClosed, CacheAssumption
<1>2. ReachOf(cl, q) \subseteq ReachOf(cl, p)
  BY <1>1, ReachLeast
<1>3. cl[q].next # NULL => cl[q].next \in ReachOf(cl, p)
  BY <1>1 DEF Closed
<1>4. QED
  BY <1>1, <1>2, <1>3, ReachLeast

\* A cell, and what it leads to.
LEMMA ReachUnfold ==
    ASSUME NEW cl, Heap(cl), NEW p \in Cells
    PROVE  ReachOf(cl, p) = {p} \cup ReachOf(cl, cl[p].next)
<1>1. p \in Ptr /\ cl[p].next \in Ptr /\ p # NULL
  BY CacheAssumption DEF Heap, Ptr
<1>2. p \in ReachOf(cl, p)
  BY <1>1, ReachClosed
<1>3. ReachOf(cl, cl[p].next) \subseteq ReachOf(cl, p)
  BY <1>1, <1>2, ReachWithin
<1>4. Closed(cl, ReachOf(cl, cl[p].next))
      /\ (cl[p].next # NULL => cl[p].next \in ReachOf(cl, cl[p].next))
  BY <1>1, ReachClosed
<1>5. Closed(cl, {p} \cup ReachOf(cl, cl[p].next))
  BY <1>4 DEF Closed
<1>6. ReachOf(cl, p) \subseteq {p} \cup ReachOf(cl, cl[p].next)
  BY <1>5, ReachLeast
<1>7. QED
  BY <1>2, <1>3, <1>6

\* What a pointer leads to depends on nothing else.
LEMMA ReachSame ==
    ASSUME NEW cl, NEW cl2, Heap(cl), Heap(cl2), NEW p \in Ptr, NEW S, p # NULL => p \in S,
           Closed(cl, S), \A c \in S : cl2[c].next = cl[c].next
    PROVE  ReachOf(cl2, p) = ReachOf(cl, p)
<1>1. ReachOf(cl, p) \subseteq S
  BY ReachLeast
<1>2. Closed(cl, ReachOf(cl, p)) /\ (p # NULL => p \in ReachOf(cl, p))
  BY ReachClosed
<1>3. Closed(cl2, ReachOf(cl, p))
  BY <1>1, <1>2 DEF Closed
<1>4. ReachOf(cl2, p) \subseteq ReachOf(cl, p)
  BY <1>2, <1>3, ReachLeast
<1>5. Closed(cl2, ReachOf(cl2, p)) /\ (p # NULL => p \in ReachOf(cl2, p))
  BY ReachClosed
<1>6. Closed(cl, ReachOf(cl2, p))
  BY <1>1, <1>4, <1>5 DEF Closed
<1>7. ReachOf(cl, p) \subseteq ReachOf(cl2, p)
  BY <1>5, <1>6, ReachLeast
<1>8. QED
  BY <1>4, <1>7

LEMMA ReachAllSame ==
    ASSUME NEW cl, NEW cl2, Heap(cl), Heap(cl2), \A c \in Cells : cl2[c].next = cl[c].next
    PROVE  \A p \in Ptr : ReachOf(cl2, p) = ReachOf(cl, p)
<1>1. Closed(cl, Cells) /\ \A p \in Ptr : p # NULL => p \in Cells
  BY DEF Closed, Heap, Ptr
<1>2. QED
  BY <1>1, ReachSame

\* Of two cells a pointer leads to, one leads to the other.
LEMMA ReachLinear ==
    ASSUME NEW cl, Heap(cl), NEW p \in Ptr, NEW c \in ReachOf(cl, p), NEW d \in ReachOf(cl, p)
    PROVE  d \in ReachOf(cl, c) \/ c \in ReachOf(cl, d)
<1> DEFINE S == {x \in ReachOf(cl, p) : c \in ReachOf(cl, x)} \cup ReachOf(cl, c)
<1>1. /\ ReachOf(cl, p) \subseteq Cells /\ Closed(cl, ReachOf(cl, p))
      /\ p # NULL /\ p \in ReachOf(cl, p)
  BY ReachClosed, ReachNull
<1>2. c \in Cells /\ c \in Ptr /\ c # NULL
  BY <1>1, CacheAssumption DEF Ptr
<1>3. c \in ReachOf(cl, c) /\ Closed(cl, ReachOf(cl, c))
  BY <1>2, ReachClosed
<1>4. Closed(cl, S)
  <2>1. SUFFICES ASSUME NEW x \in S
                 PROVE  cl[x].next \in S \cup {NULL}
    BY DEF Closed
  <2>2. CASE x \in ReachOf(cl, c)
    BY <1>3, <2>2 DEF Closed
  <2>3. CASE x \notin ReachOf(cl, c)
    <3>1. x \in ReachOf(cl, p) /\ c \in ReachOf(cl, x) /\ x \in Cells /\ x # c
      BY <1>1, <1>3, <2>3
    <3>2. c \in ReachOf(cl, cl[x].next)
      BY <3>1, ReachUnfold
    <3>3. cl[x].next \in ReachOf(cl, p) \cup {NULL}
      BY <1>1, <3>1 DEF Closed
    <3>4. QED
      BY <3>2, <3>3
  <2>4. QED
    BY <2>2, <2>3
<1>5. p \in S
  BY <1>1
<1> HIDE DEF S
<1>6. d \in S
  BY <1>4, <1>5, ReachLeast
<1>7. QED
  BY <1>6 DEF S

\* The last cell of a chain, e, has one before it, l.
Tail2(cl, l, e) == l \in Cells /\ e \in Cells /\ l # e /\ cl[l].next = e /\ cl[e].next = NULL

LEMMA OneBefore ==
    ASSUME NEW cl, Heap(cl), NEW p \in Ptr, NEW l \in ReachOf(cl, p), NEW e, Tail2(cl, l, e),
           NEW c \in ReachOf(cl, p), cl[c].next = e
    PROVE  c = l
<1>1. c \in Cells /\ l \in Cells /\ e \in Cells /\ e # NULL /\ cl[e].next = NULL /\ cl[l].next = e
  BY ReachClosed, CacheAssumption DEF Tail2
<1>2. ReachOf(cl, e) = {e}
  BY <1>1, ReachUnfold, ReachNull
<1>3. ReachOf(cl, c) = {c, e} /\ ReachOf(cl, l) = {l, e}
  BY <1>1, <1>2, ReachUnfold
<1>4. c # e /\ l # e
  BY <1>1
<1>5. l \in {c, e} \/ c \in {l, e}
  BY <1>3, ReachLinear
<1>6. QED
  BY <1>4, <1>5

\* Without e, a pointer leads to what it led to, but for e.
LEMMA ReachCut ==
    ASSUME NEW cl, NEW cl2, Heap(cl), Heap(cl2), NEW p \in Ptr, NEW l, NEW e, p # e,
           Tail2(cl, l, e), cl2[l].next = NULL,
           \A c \in Cells \ {l} : cl2[c].next = cl[c].next
    PROVE  /\ ReachOf(cl2, p) \subseteq ReachOf(cl, p)
           /\ ReachOf(cl, p) \ {e} \subseteq ReachOf(cl2, p)
<1>1. /\ ReachOf(cl, p) \subseteq Cells /\ Closed(cl, ReachOf(cl, p))
      /\ ReachOf(cl2, p) \subseteq Cells /\ Closed(cl2, ReachOf(cl2, p))
      /\ p # NULL => p \in ReachOf(cl, p) /\ p \in ReachOf(cl2, p)
  BY ReachClosed
<1>2. Closed(cl2, ReachOf(cl, p))
  BY <1>1 DEF Closed
<1>3. Closed(cl, ReachOf(cl2, p) \cup {e})
  BY <1>1 DEF Closed, Tail2
<1>4. ReachOf(cl, p) \subseteq ReachOf(cl2, p) \cup {e}
  BY <1>1, <1>3, ReachLeast
<1>5. QED
  BY <1>1, <1>2, <1>4, ReachLeast

-------------------------------------------------------------------------------
(* The inductive invariant *)

In(c) == Bucket[cell[c].name]

Inserts == at # NULL /\ at.op = "insert"
Ticks == at # NULL /\ at.op = "tick"

Before(c) == Ticks /\ (c \in ReachOf(cell, at.entry) \/ In(c) > at.bucket)

\* What cell c has left to live when the tick that is running is over.
Left(c) == IF Before(c) THEN cell[c].ttl - 1 ELSE cell[c].ttl

\* Chain(b).
Chained(b) == ReachOf(cell, htable[b])

\* Pointers lead to live cells and stay in their bucket.
Hung ==
    /\ \A c \in live : /\ cell[c].next \in live \cup {NULL}
                       /\ cell[c].next # NULL => In(cell[c].next) = In(c)
    /\ \A b \in Buckets : /\ htable[b] \in live \cup {NULL}
                          /\ htable[b] # NULL => In(htable[b]) = b

\* Newest first, and no name twice.
Sorted == \A c \in live : \A d \in ReachOf(cell, cell[c].next) :
             Left(d) <= Left(c) /\ cell[d].name # cell[c].name

\* Cells of the same age are the newest of their bucket, or an entry was put
\* before them.
Twins == ~tangled => \A c, d, e \in live :
            c # d /\ In(c) = In(d) /\ Left(c) = Left(d) /\ In(e) = In(c) => Left(e) <= Left(c)

\* What is not in a chain is what cache_tick still has to free.
Found == \A c \in live : c \in Chained(In(c)) \/ (Ticks /\ c \in ReachOf(cell, at.entry))

Aged == \A c \in live : Left(c) + age >= Ttl

\* The name cache_insert looks for is ahead, if anywhere.
Searches == Inserts => /\ at.entry \in live \cup {NULL}
                       /\ at.entry # NULL => In(at.entry) = Bucket[at.name]
                       /\ \A c \in live : cell[c].name = at.name => c \in ReachOf(cell, at.entry)

\* cache_tick is at the head of its chain; behind a live cell; or behind one it
\* has freed: that was the head, and what is left expires too, or the tail.
Walks == Ticks => /\ at.entry \in live \cup {NULL}
                  /\ at.entry # NULL => In(at.entry) = at.bucket
                  /\ at.last = NULL => htable[at.bucket] = at.entry
                  /\ at.last \in live => /\ In(at.last) = at.bucket
                                         /\ cell[at.last].next = at.entry
                  /\ at.last \notin live \cup {NULL} =>
                        \/ at.entry = NULL
                        \/ /\ htable[at.bucket] = NULL
                           /\ \A c \in live : In(c) = at.bucket => Left(c) = 0

\* Nothing has gone wrong yet, or could have.
Sane == ~crashed /\ (tangled => age < Ttl)

Structure == Hung /\ Sorted /\ Twins /\ Found /\ Aged /\ Searches /\ Walks

CacheInv ==
    /\ TypeOK
    /\ \A c \in live : cell[c].ttl >= 1
    /\ age < Ttl => ~crashed
    /\ Sane => Structure

-------------------------------------------------------------------------------
(* Types *)

Typed == TypeOK /\ \A c \in live : cell[c].ttl >= 1

LEMMA CellTypes ==
    ASSUME TypeOK
    PROVE  /\ Heap(cell)
           /\ \A c \in live : c \in Cells /\ c \in Ptr /\ c # NULL
           /\ \A c \in Cells : /\ cell[c].ttl \in 0 .. Ttl /\ cell[c].name \in Names
                               /\ cell[c].next \in Ptr /\ In(c) \in Buckets
           /\ \A b \in Buckets : htable[b] \in Ptr
<1>1. cell \in [Cells -> Entry] /\ live \subseteq Cells /\ htable \in [Buckets -> Ptr]
  BY DEF TypeOK
<1>2. \A c \in Cells : /\ cell[c].ttl \in 0 .. Ttl /\ cell[c].name \in Names
                       /\ cell[c].next \in Ptr
  BY <1>1 DEF Entry
<1>3. \A c \in Cells : In(c) \in Buckets
  BY <1>2, CacheAssumption DEF In
<1>4. QED
  BY <1>1, <1>2, <1>3, CacheAssumption DEF Heap, Ptr

LEMMA HeapType ==
    ASSUME NEW cl \in [Cells -> Entry]
    PROVE  Heap(cl)
BY DEF Entry, Heap

LEMMA BucketTypes ==
    /\ Buckets \subseteq Nat /\ 0 \in Buckets
    /\ \A b \in Buckets : b # 0 => b - 1 \in Buckets
    /\ \A b \in Buckets : b + 1 \notin Buckets => \A a \in Buckets : a <= b
<1>1. PICK k \in Nat : k = Cardinality(Buckets) /\ Buckets = 0 .. k - 1
  BY CacheAssumption, FS_CardinalityType
<1>2. k # 0
  <2>1. 0 .. 0 - 1 = {}
    OBVIOUS
  <2>2. QED
    BY <1>1, <2>1, CacheAssumption
<1>3. /\ \A b \in Buckets : b \in Nat /\ b <= k - 1
      /\ \A b \in Nat : b <= k - 1 => b \in Buckets
  <2>1. /\ \A b \in 0 .. k - 1 : b \in Nat /\ b <= k - 1
        /\ \A b \in Nat : b <= k - 1 => b \in 0 .. k - 1
    OBVIOUS
  <2>2. QED
    BY <1>1, <2>1, Zenon
<1>4. Buckets \subseteq Nat /\ 0 \in Buckets
  BY <1>2, <1>3
<1>5. \A b \in Buckets : b # 0 => b - 1 \in Buckets
  BY <1>3
<1>6. \A b \in Buckets : b + 1 \notin Buckets => \A a \in Buckets : a <= b
  BY <1>3
<1>7. QED
  BY <1>4, <1>5, <1>6

LEMMA AtTypes ==
    ASSUME TypeOK
    PROVE  /\ Inserts => at \in Inserting /\ at.entry \in Ptr /\ at.name \in Names /\ ~Ticks
           /\ Ticks => /\ at \in Ticking /\ at.entry \in Ptr /\ at.last \in Ptr
                       /\ at.bucket \in Buckets /\ ~Inserts
           /\ at = NULL => ~Inserts /\ ~Ticks
BY DEF TypeOK, Inserts, Ticks, Inserting, Ticking

LEMMA NullIsNoRun == \A r \in Inserting \cup Ticking : r # NULL
BY CacheAssumption

LEMMA InitTypes == Init => Typed
<1> SUFFICES ASSUME Init
             PROVE  Typed
  OBVIOUS
<1>1. PICK n \in Names : n = CHOOSE m \in Names : TRUE
  BY CacheAssumption
<1>2. [name |-> n, ttl |-> 0, next |-> NULL] \in Entry
  BY CacheAssumption DEF Entry, Ptr
<1>3. cell \in [Cells -> Entry]
  BY <1>1, <1>2 DEF Init
<1>4. htable \in [Buckets -> Ptr] /\ age \in 0 .. Ttl
  BY CacheAssumption DEF Init, Ptr
<1>5. QED
  BY <1>3, <1>4 DEF Init, Typed, TypeOK

LEMMA NextTypes == Typed /\ Next => Typed'
<1> SUFFICES ASSUME Typed, Next
             PROVE  Typed'
  OBVIOUS
<1>1. /\ TypeOK /\ Heap(cell) /\ live \subseteq Cells /\ cell \in [Cells -> Entry]
      /\ htable \in [Buckets -> Ptr] /\ Ttl \in Nat \ {0} /\ age \in 0 .. Ttl
      /\ \A c \in live : cell[c].ttl >= 1
      /\ \A c \in Cells : /\ cell[c].ttl \in 0 .. Ttl /\ cell[c].name \in Names
                          /\ cell[c].next \in Ptr
  BY CellTypes, CacheAssumption DEF Typed, TypeOK
<1>2. ASSUME NEW n \in Names, InsertStart(n)
      PROVE  Typed'
  <2>1. htable[Bucket[n]] \in Ptr
    BY <1>1, CacheAssumption
  <2>2. at' \in Inserting
    BY <1>2, <2>1 DEF InsertStart, Inserting
  <2>3. QED
    BY <1>1, <1>2, <2>2 DEF InsertStart, Typed, TypeOK
<1>3. CASE InsertStep
  <2>1. at \in Inserting /\ at.entry \in Cells
    BY <1>1, <1>3, AtTypes DEF InsertStep, Inserts, Ptr
  <2>2. [at EXCEPT !.entry = cell[at.entry].next] \in Inserting
    BY <1>1, <2>1 DEF Inserting
  <2>3. at' \in {NULL} \cup Inserting /\ crashed' \in BOOLEAN
    BY <1>1, <1>3, <2>1, <2>2 DEF InsertStep, TypeOK
  <2>4. QED
    BY <1>1, <1>3, <2>3 DEF InsertStep, Typed, TypeOK
<1>4. CASE InsertEnd
  <2>1. at.name \in Names
    BY <1>1, <1>4, AtTypes DEF InsertEnd, Inserts
  <2>2. CASE UNCHANGED <<htable, cell, live, tangled>>
    BY <1>1, <1>4, <2>2 DEF InsertEnd, Typed, TypeOK
  <2>3. ASSUME NEW c \in Cells \ live, Link(c, at.name), live' = live \cup {c},
               tangled' \in BOOLEAN
        PROVE  Typed'
    <3>1. Bucket[at.name] \in Buckets
      BY <2>1, CacheAssumption
    <3>2. [name |-> at.name, ttl |-> Ttl, next |-> htable[Bucket[at.name]]] \in Entry
      BY <1>1, <2>1, <3>1 DEF Entry
    <3>3. cell' \in [Cells -> Entry] /\ cell'[c].ttl = Ttl /\ \A d \in Cells \ {c} : cell'[d] = cell[d]
      BY <1>1, <2>3, <3>2 DEF Link
    <3>4. htable' \in [Buckets -> Ptr]
      BY <1>1, <2>3, <3>1 DEF Link, Ptr
    <3>5. \A d \in live' : cell'[d].ttl >= 1
      BY <1>1, <2>3, <3>3
    <3>6. QED
      BY <1>1, <1>4, <2>3, <3>3, <3>4, <3>5 DEF InsertEnd, Typed, TypeOK
  <2>4. QED
    BY <1>1, <1>4, <2>2, <2>3 DEF InsertEnd, TypeOK
<1>5. CASE TickStart
  <2>1. at' \in Ticking
    BY <1>1, <1>5, BucketTypes DEF TickStart, Ticking, Ptr
  <2>2. age' \in 0 .. Ttl
    BY <1>1, <1>5 DEF TickStart
  <2>3. QED
    BY <1>1, <1>5, <2>1, <2>2 DEF TickStart, Typed, TypeOK
<1>6. CASE TickStep
  <2> DEFINE e == at.entry
  <2>1. at \in Ticking /\ e \in Cells /\ at.last \in Ptr /\ at.bucket \in Buckets
    BY <1>1, <1>6, AtTypes DEF TickStep, Ticks, Ptr
  <2>2. [at EXCEPT !.last = e, !.entry = cell[e].next] \in Ticking
    BY <1>1, <2>1 DEF Ticking, Ptr
  <2>3. CASE e \notin live /\ UNCHANGED <<htable, cell, live>>
    <3>1. at' \in {at, [at EXCEPT !.last = e, !.entry = cell[e].next]} /\ crashed' \in BOOLEAN
      BY <1>1, <1>6, <2>3 DEF TickStep, TypeOK
    <3>2. at' \in Ticking
      BY <2>1, <2>2, <3>1
    <3>3. QED
      BY <1>1, <1>6, <2>3, <3>1, <3>2 DEF TickStep, Typed, TypeOK
  <2>4. ASSUME e \in live, ~Expired(e), cell' = [cell EXCEPT ![e].ttl = @ - 1],
               at' = [at EXCEPT !.last = e, !.entry = cell[e].next],
               UNCHANGED <<htable, live, crashed>>
        PROVE  Typed'
    <3>1. cell[e].ttl - 1 \in 0 .. Ttl /\ cell[e].ttl - 1 >= 1
      BY <1>1, <2>1, <2>4 DEF Expired
    <3>2. /\ cell' \in [Cells -> Entry]
          /\ cell'[e].ttl = cell[e].ttl - 1 /\ \A c \in Cells \ {e} : cell'[c] = cell[c]
      BY <1>1, <2>1, <2>4, <3>1 DEF Entry
    <3>3. \A c \in live' : cell'[c].ttl >= 1
      BY <1>1, <2>4, <3>1, <3>2
    <3>4. QED
      BY <1>1, <1>6, <2>2, <2>4, <3>2, <3>3 DEF TickStep, Typed, TypeOK
  <2>5. ASSUME e \in live, Expired(e), Unlink(e), live' = live \ {e},
               at' = [at EXCEPT !.last = e, !.entry = cell[e].next], crashed' \in BOOLEAN
        PROVE  Typed'
    <3>1. CASE at.last = NULL
      <4>1. htable' = [htable EXCEPT ![at.bucket] = NULL] /\ cell' = [cell EXCEPT ![e].ttl = 0]
        BY <2>5, <3>1 DEF Unlink
      <4>2. htable' \in [Buckets -> Ptr]
        BY <1>1, <4>1 DEF Ptr
      <4>3. cell' \in [Cells -> Entry] /\ \A c \in Cells \ {e} : cell'[c] = cell[c]
        BY <1>1, <2>1, <4>1 DEF Entry
      <4>4. \A c \in live' : cell'[c].ttl >= 1
        BY <1>1, <2>5, <4>3
      <4>5. QED
        BY <1>1, <1>6, <2>2, <2>5, <4>2, <4>3, <4>4 DEF TickStep, Typed, TypeOK
    <3>2. CASE at.last # NULL
      <4>1. /\ cell' = [cell EXCEPT ![e].ttl = 0, ![at.last].next = cell[e].next]
            /\ htable' = htable /\ at.last \in Cells
        BY <2>1, <2>5, <3>2 DEF Unlink, Ptr
      <4>2. cell' \in [Cells -> Entry] /\ \A c \in Cells \ {e} : cell'[c].ttl = cell[c].ttl
        BY <1>1, <2>1, <4>1 DEF Entry
      <4>3. \A c \in live' : cell'[c].ttl >= 1
        BY <1>1, <2>5, <4>2
      <4>4. QED
        BY <1>1, <1>6, <2>2, <2>5, <4>1, <4>2, <4>3 DEF TickStep, Typed, TypeOK
    <3>3. QED
      BY <3>1, <3>2
  <2>6. QED
    BY <1>6, <2>3, <2>4, <2>5 DEF TickStep
<1>7. CASE TickEnd
  <2>1. at \in Ticking
    BY <1>1, <1>7, AtTypes DEF TickEnd, Ticks
  <2>2. at.bucket + 1 \in Buckets =>
           [at EXCEPT !.bucket = @ + 1, !.entry = htable[at.bucket + 1], !.last = NULL] \in Ticking
    BY <1>1, <2>1 DEF Ticking, Ptr
  <2>3. at' \in {NULL} \cup Ticking
    BY <1>7, <2>2 DEF TickEnd
  <2>4. QED
    BY <1>1, <1>7, <2>3 DEF TickEnd, Typed, TypeOK
<1>8. QED
  BY <1>2, <1>3, <1>4, <1>5, <1>6, <1>7 DEF Next

-------------------------------------------------------------------------------
(* The chains *)

LEMMA Leads ==
    ASSUME Typed, Hung, NEW p \in live \cup {NULL}
    PROVE  /\ ReachOf(cell, p) \subseteq live
           /\ \A c \in ReachOf(cell, p) : p # NULL /\ In(c) = In(p)
<1> DEFINE S == {c \in live : p # NULL /\ In(c) = In(p)}
<1>1. p # NULL => p \in S
  OBVIOUS
<1>2. Closed(cell, S)
  BY DEF Closed, Hung
<1> HIDE DEF S
<1>3. ReachOf(cell, p) \subseteq S
  BY <1>1, <1>2, ReachLeast
<1>4. QED
  BY <1>3 DEF S

LEMMA Acyclic ==
    ASSUME Typed, Hung, Sorted, NEW c \in live
    PROVE  /\ c \notin ReachOf(cell, cell[c].next)
           /\ ReachOf(cell, c) = {c} \cup ReachOf(cell, cell[c].next)
           /\ ReachOf(cell, cell[c].next) \subseteq live
           /\ \A d \in ReachOf(cell, cell[c].next) : In(d) = In(c)
<1>1. Heap(cell) /\ c \in Cells
  BY CellTypes DEF Typed
<1>2. cell[c].next \in live \cup {NULL} /\ (cell[c].next # NULL => In(cell[c].next) = In(c))
  BY DEF Hung
<1>3. ReachOf(cell, c) = {c} \cup ReachOf(cell, cell[c].next)
  BY <1>1, ReachUnfold
<1>4. c \notin ReachOf(cell, cell[c].next)
  BY DEF Sorted
<1>5. QED
  BY <1>2, <1>3, <1>4, Leads

LEMMA LeftType ==
    ASSUME Typed, NEW c \in live
    PROVE  /\ Left(c) \in 0 .. Ttl
           /\ cell[c].ttl = IF Before(c) THEN Left(c) + 1 ELSE Left(c)
           /\ Before(c) \in BOOLEAN
<1>1. cell[c].ttl \in 0 .. Ttl /\ cell[c].ttl >= 1 /\ Ttl \in Nat
  BY CellTypes, CacheAssumption DEF Typed
<1>2. QED
  BY <1>1 DEF Left, Before, Ticks

\* The cell behind which cache_tick goes on, if it is live, is in its chain.
LEMMA LastChained ==
    ASSUME Typed, Structure, Ticks, at.last \in live
    PROVE  /\ at.last \in Chained(at.bucket)
           /\ at.last \notin ReachOf(cell, at.entry)
<1>1. In(at.last) = at.bucket /\ cell[at.last].next = at.entry
  BY DEF Structure, Walks
<1>2. at.last \notin ReachOf(cell, at.entry)
  BY <1>1, Acyclic DEF Structure
<1>3. QED
  BY <1>1, <1>2 DEF Structure, Found

\* What happens to every live cell alike changes nothing between them.
LEMMA Alike ==
    ASSUME Typed, Typed', Hung, Sorted, Twins, live' \subseteq live, tangled' = tangled,
           NEW k \in {0, 1},
           \A c \in live' : /\ Left(c)' = Left(c) - k
                            /\ cell'[c].name = cell[c].name
                            /\ ReachOf(cell', cell'[c].next) \subseteq ReachOf(cell, cell[c].next)
                            /\ ReachOf(cell', cell'[c].next) \subseteq live'
    PROVE  Sorted' /\ Twins'
<1>1. \A c \in live : Left(c) \in Nat
  BY LeftType
<1>2. \A c \in live' : In(c)' = In(c)
  BY DEF In
<1>3. \A c, d \in live' : Left(c)' <= Left(d)' <=> Left(c) <= Left(d)
  BY <1>1
<1>4. \A c, d \in live' : Left(c)' = Left(d)' <=> Left(c) = Left(d)
  BY <1>1
<1>5. Sorted'
  <2>1. SUFFICES ASSUME NEW c \in live', NEW d \in ReachOf(cell', cell'[c].next)
                 PROVE  Left(d)' <= Left(c)' /\ cell'[d].name # cell'[c].name
    BY DEF Sorted
  <2>2. c \in live /\ d \in live' /\ d \in ReachOf(cell, cell[c].next)
    OBVIOUS
  <2>3. Left(d) <= Left(c) /\ cell[d].name # cell[c].name
    BY <2>2 DEF Sorted
  <2>4. QED
    BY <1>3, <2>2, <2>3
<1>6. Twins'
  <2>1. SUFFICES ASSUME ~tangled, NEW c \in live', NEW d \in live', NEW e \in live',
                        c # d, In(c)' = In(d)', Left(c)' = Left(d)', In(e)' = In(c)'
                 PROVE  Left(e)' <= Left(c)'
    BY DEF Twins
  <2>2. c \in live /\ d \in live /\ e \in live
    OBVIOUS
  <2>3. In(c) = In(d) /\ Left(c) = Left(d) /\ In(e) = In(c)
    BY <1>2, <1>4, <2>1
  <2>4. Left(e) <= Left(c)
    BY <2>1, <2>2, <2>3 DEF Twins
  <2>5. QED
    BY <1>3, <2>4
<1>7. QED
  BY <1>5, <1>6

\* As long as the chains stay as they are.
LEMMA ChainsStay ==
    ASSUME Typed, Typed', Hung, Sorted, Twins, UNCHANGED <<htable, cell, live, tangled>>,
           NEW k \in {0, 1}, \A c \in live : Left(c)' = Left(c) - k
    PROVE  Hung' /\ Sorted' /\ Twins'
<1>1. Hung'
  BY DEF Hung, In
<1>2. ASSUME NEW c \in live'
      PROVE  /\ Left(c)' = Left(c) - k
             /\ cell'[c].name = cell[c].name
             /\ ReachOf(cell', cell'[c].next) \subseteq ReachOf(cell, cell[c].next)
             /\ ReachOf(cell', cell'[c].next) \subseteq live'
  <2>1. c \in live /\ cell' = cell
    OBVIOUS
  <2>2. ReachOf(cell, cell[c].next) \subseteq live
    BY <2>1, Acyclic
  <2>3. QED
    BY <2>1, <2>2
<1>3. live' \subseteq live /\ tangled' = tangled
  OBVIOUS
<1>4. QED
  BY <1>1, <1>2, <1>3, Alike

\* No verdict comes and none goes before its time: every cell has k ticks less left,
\* and those that are freed had none.
Lasting(k) == /\ live' \subseteq live
              /\ \A c \in live' : Left(c)' = Left(c) - k /\ cell'[c].name = cell[c].name
              /\ \A c \in live \ live' : Left(c) = 0

LEMMA InsertStartStep ==
    ASSUME Typed, Typed', Structure, NEW n \in Names, InsertStart(n)
    PROVE  Structure' /\ Lasting(0)
<1>1. /\ at = NULL /\ at' \in Inserting /\ at'.op = "insert" /\ at'.name = n
      /\ at'.entry = htable[Bucket[n]] /\ UNCHANGED <<htable, cell, live, tangled, age>>
      /\ Bucket[n] \in Buckets
  BY AtTypes, CellTypes, CacheAssumption DEF InsertStart, Idle, Inserting, Typed
<1>2. ~Ticks /\ ~Ticks' /\ at' # NULL
  BY <1>1, NullIsNoRun DEF Ticks
<1>3. \A c \in live : Left(c)' = Left(c) - 0
  <2>1. \A c \in live : Left(c)' = Left(c) /\ Left(c) \in Nat
    BY <1>1, <1>2, LeftType DEF Left, Before
  <2>2. QED
    BY <2>1
<1>4. Hung' /\ Sorted' /\ Twins'
  BY <1>1, <1>3, ChainsStay DEF Structure
<1>5. \A c \in live : c \in Chained(In(c))
  BY <1>2 DEF Structure, Found
<1>6. Found'
  BY <1>1, <1>5 DEF Found, Chained, In
<1>7. Aged'
  BY <1>1, <1>2 DEF Structure, Aged, Left, Before
<1>8. Searches'
  <2>1. htable[Bucket[n]] \in live \cup {NULL}
        /\ (htable[Bucket[n]] # NULL => In(htable[Bucket[n]]) = Bucket[n])
    BY <1>1 DEF Structure, Hung
  <2>2. \A c \in live : cell[c].name = n => c \in ReachOf(cell, htable[Bucket[n]])
    BY <1>5 DEF In, Chained
  <2>3. QED
    BY <1>1, <2>1, <2>2 DEF Searches, In
<1>9. Walks'
  BY <1>2 DEF Walks
<1>10. QED
  BY <1>1, <1>3, <1>4, <1>6, <1>7, <1>8, <1>9 DEF Structure, Lasting

LEMMA InsertStepStep ==
    ASSUME Typed, Typed', Structure, InsertStep
    PROVE  Structure' /\ Lasting(0) /\ crashed' = crashed
<1> DEFINE e == at.entry
<1>1. /\ Inserts /\ at \in Inserting /\ ~Ticks /\ at.entry # NULL
      /\ UNCHANGED <<htable, cell, live, tangled, age>>
  BY AtTypes DEF InsertStep, Inserts, Typed
<1>2. /\ e \in live /\ In(e) = Bucket[at.name]
      /\ \A c \in live : cell[c].name = at.name => c \in ReachOf(cell, e)
  BY <1>1 DEF Structure, Searches
<1>3. /\ at' = IF cell[e].name = at.name THEN NULL ELSE [at EXCEPT !.entry = cell[e].next]
      /\ crashed' = crashed
  BY <1>2 DEF InsertStep, Same
<1>4. \/ at' = NULL
      \/ /\ cell[e].name # at.name /\ at' \in Inserting
         /\ at'.op = "insert" /\ at'.name = at.name /\ at'.entry = cell[e].next
  <2>1. cell[e].next \in Ptr
    BY <1>2, CellTypes DEF Typed
  <2>2. QED
    BY <1>1, <1>3, <2>1 DEF Inserting
<1>5. ~Ticks'
  BY <1>4 DEF Ticks
<1>6. \A c \in live : Left(c)' = Left(c) /\ Left(c) \in Nat
  BY <1>1, <1>5, LeftType DEF Left, Before
<1>7. \A c \in live : Left(c)' = Left(c) - 0
  BY <1>6
<1>8. Hung' /\ Sorted' /\ Twins'
  BY <1>1, <1>7, ChainsStay DEF Structure
<1>9. Found'
  BY <1>1 DEF Structure, Found, Chained, In
<1>10. Aged'
  BY <1>1, <1>6 DEF Structure, Aged
<1>11. Searches'
  <2>1. CASE at' = NULL
    BY <2>1 DEF Searches, Inserts
  <2>2. CASE at' # NULL
    <3>1. cell[e].name # at.name /\ at'.name = at.name /\ at'.entry = cell[e].next
      BY <1>4, <2>2
    <3>2. /\ cell[e].next \in live \cup {NULL}
          /\ cell[e].next # NULL => In(cell[e].next) = Bucket[at.name]
      BY <1>2 DEF Structure, Hung
    <3>3. ReachOf(cell, e) = {e} \cup ReachOf(cell, cell[e].next)
      BY <1>2, Acyclic DEF Structure
    <3>4. \A c \in live : cell[c].name = at.name => c \in ReachOf(cell, cell[e].next)
      BY <1>2, <3>1, <3>3
    <3>5. QED
      BY <1>1, <3>1, <3>2, <3>4 DEF Searches, In
  <2>3. QED
    BY <2>1, <2>2
<1>12. Walks'
  BY <1>5 DEF Walks
<1>13. QED
  BY <1>1, <1>3, <1>7, <1>8, <1>9, <1>10, <1>11, <1>12 DEF Structure, Lasting

\* No name is in the cache that cache_insert has not found.
LEMMA NotThere ==
    ASSUME Typed, Structure, InsertEnd
    PROVE  /\ \A c \in live : cell[c].name # at.name
           /\ ~Ticks /\ Inserts /\ at.name \in Names /\ Bucket[at.name] \in Buckets
<1>1. Inserts /\ ~Ticks /\ at.entry = NULL /\ at.name \in Names
  BY AtTypes DEF InsertEnd, Inserts, Typed
<1>2. \A c \in live : cell[c].name = at.name => c \in ReachOf(cell, NULL)
  BY <1>1 DEF Structure, Searches
<1>3. QED
  BY <1>1, <1>2, ReachNull, CacheAssumption

LEMMA LinkStep ==
    ASSUME Typed, Typed', Structure, InsertEnd, NEW x \in Cells \ live,
           Link(x, at.name), live' = live \cup {x},
           tangled' = (tangled \/ \E d, e \in Chain(Bucket[at.name]) :
                          d # e /\ cell[d].ttl = cell[e].ttl /\ cell[e].ttl < Ttl)
    PROVE  /\ Structure'
           /\ \A c \in live : Left(c)' = Left(c) /\ cell'[c].name = cell[c].name
           /\ Left(x)' = Ttl /\ cell'[x].name = at.name
<1> DEFINE n == at.name
           b0 == Bucket[n]
           h == htable[b0]
<1>1. /\ \A c \in live : cell[c].name # n
      /\ ~Ticks /\ n \in Names /\ b0 \in Buckets /\ at' = NULL /\ age' = age
  BY NotThere DEF InsertEnd
<1>2. /\ cell' = [cell EXCEPT ![x] = [name |-> n, ttl |-> Ttl, next |-> h]]
      /\ htable' = [htable EXCEPT ![b0] = x]
  BY DEF Link
<1>3. /\ Heap(cell) /\ Heap(cell') /\ cell \in [Cells -> Entry] /\ live \subseteq Cells
      /\ htable \in [Buckets -> Ptr] /\ Ttl \in Nat
      /\ \A c \in live : cell[c].ttl \in 0 .. Ttl
  BY CellTypes, HeapType, CacheAssumption DEF Typed, TypeOK
<1>4. /\ cell'[x].name = n /\ cell'[x].ttl = Ttl /\ cell'[x].next = h
      /\ \A c \in live : cell'[c] = cell[c]
      /\ htable'[b0] = x /\ \A b \in Buckets : b # b0 => htable'[b] = htable[b]
  BY <1>1, <1>2, <1>3
<1> HIDE DEF n, b0, h
<1>5. ~Ticks' /\ ~Inserts'
  BY <1>1 DEF Ticks, Inserts
<1>6. /\ \A c \in live : In(c)' = In(c) /\ Left(c)' = cell[c].ttl /\ Left(c) = cell[c].ttl
      /\ \A c \in live : Bucket[cell'[c].name] = In(c)
      /\ In(x)' = b0 /\ Left(x)' = Ttl /\ Bucket[cell'[x].name] = b0
  BY <1>1, <1>4, <1>5 DEF In, Left, Before, b0
<1>7. h \in live \cup {NULL} /\ (h # NULL => In(h) = b0)
  BY <1>1 DEF Structure, Hung, h
<1>8. Closed(cell, live)
  BY DEF Structure, Hung, Closed
<1>9. ASSUME NEW p \in live \cup {NULL}
      PROVE  ReachOf(cell', p) = ReachOf(cell, p) /\ ReachOf(cell, p) \subseteq live
  <2>1. p \in Ptr /\ (p # NULL => p \in live)
    BY <1>3 DEF Ptr
  <2>2. \A c \in live : cell'[c].next = cell[c].next
    BY <1>4
  <2>3. ReachOf(cell', p) = ReachOf(cell, p)
    BY <1>3, <1>8, <2>1, <2>2, ReachSame
  <2>4. QED
    BY <2>3, Leads DEF Structure
<1>10. ReachOf(cell', x) = {x} \cup ReachOf(cell, h)
  <2>1. ReachOf(cell', x) = {x} \cup ReachOf(cell', h)
    BY <1>3, <1>4, ReachUnfold
  <2>2. QED
    BY <1>7, <1>9, <2>1
<1>11. x \notin live /\ x # NULL
  BY CacheAssumption
<1>12. Hung'
  <2>1. ASSUME NEW c \in live'
        PROVE  /\ cell'[c].next \in live' \cup {NULL}
               /\ cell'[c].next # NULL =>
                     Bucket[cell'[cell'[c].next].name] = Bucket[cell'[c].name]
    <3>1. CASE c = x
      BY <1>4, <1>6, <1>7, <3>1
    <3>2. CASE c # x
      <4>1. c \in live /\ cell'[c].next = cell[c].next
        BY <1>4, <2>1, <3>2
      <4>2. cell[c].next \in live \cup {NULL} /\ (cell[c].next # NULL => In(cell[c].next) = In(c))
        BY <4>1 DEF Structure, Hung
      <4>3. QED
        BY <1>6, <4>1, <4>2
    <3>3. QED
      BY <3>1, <3>2
  <2>2. ASSUME NEW b \in Buckets
        PROVE  /\ htable'[b] \in live' \cup {NULL}
               /\ htable'[b] # NULL => Bucket[cell'[htable'[b]].name] = b
    <3>1. CASE b = b0
      BY <1>4, <1>6, <3>1
    <3>2. CASE b # b0
      <4>1. htable'[b] = htable[b]
        BY <1>4, <3>2
      <4>2. htable[b] \in live \cup {NULL} /\ (htable[b] # NULL => In(htable[b]) = b)
        BY DEF Structure, Hung
      <4>3. QED
        BY <1>6, <4>1, <4>2
    <3>3. QED
      BY <3>1, <3>2
  <2>3. QED
    BY <2>1, <2>2 DEF Hung, In
<1>13. Sorted'
  <2>1. SUFFICES ASSUME NEW c \in live', NEW d \in ReachOf(cell', cell'[c].next)
                 PROVE  Left(d)' <= Left(c)' /\ cell'[d].name # cell'[c].name
    BY DEF Sorted
  <2>2. CASE c = x
    <3>1. d \in live /\ d # x
      BY <1>4, <1>7, <1>9, <1>11, <2>1, <2>2
    <3>2. QED
      BY <1>1, <1>3, <1>4, <1>6, <2>2, <3>1
  <2>3. CASE c # x
    <3>1. c \in live /\ cell'[c].next = cell[c].next
      BY <1>4, <2>3
    <3>2. cell[c].next \in live \cup {NULL}
      BY <3>1 DEF Structure, Hung
    <3>3. d \in live /\ d \in ReachOf(cell, cell[c].next)
      BY <1>9, <2>1, <3>1, <3>2
    <3>4. Left(d) <= Left(c) /\ cell[d].name # cell[c].name
      BY <3>1, <3>3 DEF Structure, Sorted
    <3>5. QED
      BY <1>4, <1>6, <3>1, <3>3, <3>4
  <2>4. QED
    BY <2>2, <2>3
<1>14. \A c \in live : c \in Chained(In(c))
  BY <1>1 DEF Structure, Found
<1>15. Twins'
  <2>1. SUFFICES ASSUME ~tangled', NEW c \in live', NEW d \in live', NEW e \in live',
                        c # d, In(c)' = In(d)', Left(c)' = Left(d)', In(e)' = In(c)'
                 PROVE  Left(e)' <= Left(c)'
    BY DEF Twins
  <2>2. \A i \in live' : Left(i)' \in Nat /\ Left(i)' <= Ttl
    BY <1>3, <1>6
  <2>3. CASE c = x \/ d = x
    BY <1>6, <2>1, <2>2, <2>3
  <2>4. CASE c # x /\ d # x /\ In(c)' = b0
    <3>1. c \in live /\ d \in live /\ In(c) = b0 /\ In(d) = b0
      BY <1>6, <2>1, <2>4
    <3>2. c \in Chain(b0) /\ d \in Chain(b0)
      BY <1>14, <3>1, ReachIs DEF Chain, Chained
    <3>3. ~(cell[d].ttl = cell[c].ttl /\ cell[c].ttl < Ttl)
      BY <2>1, <3>2 DEF b0, n
    <3>4. cell[d].ttl = cell[c].ttl /\ Left(c)' = cell[c].ttl
      BY <1>6, <2>1, <3>1
    <3>5. Left(c)' = Ttl
      BY <1>3, <3>1, <3>3, <3>4
    <3>6. QED
      BY <2>2, <3>5
  <2>5. CASE c # x /\ d # x /\ In(c)' # b0
    <3>1. c \in live /\ d \in live /\ e \in live
      BY <1>6, <2>1, <2>5
    <3>2. In(c) = In(d) /\ Left(c) = Left(d) /\ In(e) = In(c)
      BY <1>6, <2>1, <3>1
    <3>3. Left(e) <= Left(c)
      BY <2>1, <3>1, <3>2 DEF Structure, Twins
    <3>4. QED
      BY <1>6, <3>1, <3>3
  <2>6. QED
    BY <2>3, <2>4, <2>5
<1>16. Found'
  <2>1. SUFFICES ASSUME NEW c \in live'
                 PROVE  c \in ReachOf(cell', htable'[In(c)'])
    BY DEF Found, Chained
  <2>2. CASE c = x
    BY <1>4, <1>6, <1>10, <2>2
  <2>3. CASE c # x
    <3>1. c \in live /\ In(c)' = In(c) /\ In(c) \in Buckets /\ c \in ReachOf(cell, htable[In(c)])
      BY <1>6, <1>14, <2>3, CellTypes DEF Chained, Typed
    <3>2. CASE In(c) = b0
      BY <1>4, <1>10, <3>1, <3>2 DEF h
    <3>3. CASE In(c) # b0
      <4>1. htable'[In(c)'] = htable[In(c)] /\ htable[In(c)] \in live \cup {NULL}
        BY <1>4, <3>1, <3>3 DEF Structure, Hung
      <4>2. QED
        BY <1>9, <3>1, <4>1
    <3>4. QED
      BY <3>2, <3>3
  <2>4. QED
    BY <2>2, <2>3
<1>17. Aged'
  <2>1. age \in Nat /\ \A c \in live : Left(c) + age >= Ttl
    BY DEF Structure, Aged, Typed, TypeOK
  <2>2. QED
    BY <1>1, <1>3, <1>6, <2>1 DEF Aged
<1>18. Searches' /\ Walks'
  BY <1>5 DEF Searches, Walks
<1>19. QED
  BY <1>4, <1>6, <1>12, <1>13, <1>15, <1>16, <1>17, <1>18 DEF Structure, n

LEMMA InsertEndStep ==
    ASSUME Typed, Typed', Structure, InsertEnd
    PROVE  /\ Structure'
           /\ \/ Lasting(0)
              \/ \E x \in Cells \ live :
                    /\ live' = live \cup {x}
                    /\ \A c \in live : Left(c)' = Left(c) /\ cell'[c].name = cell[c].name
                    /\ Left(x)' = Ttl /\ cell'[x].name = at.name
<1>1. CASE UNCHANGED <<htable, cell, live, tangled>>
  <2>1. ~Ticks /\ at' = NULL /\ age' = age /\ ~Ticks' /\ ~Inserts'
    BY NotThere DEF InsertEnd, Ticks, Inserts
  <2>2. \A c \in live : Left(c)' = Left(c) /\ Left(c) \in Nat
    BY <1>1, <2>1, LeftType DEF Left, Before
  <2>3. \A c \in live : Left(c)' = Left(c) - 0
    BY <2>2
  <2>4. Hung' /\ Sorted' /\ Twins'
    BY <1>1, <2>3, ChainsStay DEF Structure
  <2>5. Found' /\ Aged'
    BY <1>1, <2>1, <2>2 DEF Structure, Found, Chained, In, Aged
  <2>6. QED
    BY <1>1, <2>1, <2>3, <2>4, <2>5 DEF Structure, Searches, Walks, Lasting
<1>2. CASE ~UNCHANGED <<htable, cell, live, tangled>>
  <2>1. PICK x \in Cells \ live :
              /\ Link(x, at.name)
              /\ live' = live \cup {x}
              /\ tangled' = (tangled \/ \E d, e \in Chain(Bucket[at.name]) :
                               d # e /\ cell[d].ttl = cell[e].ttl /\ cell[e].ttl < Ttl)
    BY <1>2 DEF InsertEnd
  <2>2. QED
    BY <2>1, LinkStep
<1>3. QED
  BY <1>1, <1>2

LEMMA TickStartStep ==
    ASSUME Typed, Typed', Structure, TickStart
    PROVE  Structure' /\ Lasting(1)
<1>1. /\ at = NULL /\ at' \in Ticking /\ at' # NULL /\ at'.op = "tick" /\ at'.bucket = 0
      /\ at'.entry = htable[0] /\ at'.last = NULL
      /\ UNCHANGED <<htable, cell, live, tangled>>
  <2>1. htable[0] \in Ptr
    BY BucketTypes, CellTypes DEF Typed
  <2>2. at' \in Ticking
    BY <2>1, BucketTypes DEF TickStart, Ticking, Ptr
  <2>3. QED
    BY <2>2, NullIsNoRun DEF TickStart, Idle
<1>2. ~Ticks /\ ~Inserts /\ Ticks' /\ ~Inserts'
  BY <1>1 DEF Ticks, Inserts
<1>3. \A c \in live : c \in Chained(In(c)) /\ In(c) \in Nat
  BY <1>2, CellTypes, BucketTypes DEF Structure, Found, Typed
<1>4. \A c \in live : Before(c)'
  BY <1>1, <1>2, <1>3 DEF Before, Chained, In
<1>5. \A c \in live : /\ Left(c)' = cell[c].ttl - 1 /\ Left(c) = cell[c].ttl
                      /\ cell[c].ttl \in Nat /\ cell[c].ttl >= 1
  BY <1>1, <1>2, <1>4, CellTypes DEF Left, Before, Typed
<1>6. \A c \in live : Left(c)' = Left(c) - 1
  BY <1>5
<1>7. Hung' /\ Sorted' /\ Twins'
  BY <1>1, <1>6, ChainsStay DEF Structure
<1>8. Found'
  BY <1>1, <1>3 DEF Found, Chained, In
<1>9. Aged'
  <2>1. age \in Nat /\ Ttl \in Nat /\ age <= Ttl /\ \A c \in live : Left(c) + age >= Ttl
    BY CacheAssumption DEF Structure, Aged, Typed, TypeOK
  <2>2. age' = IF age < Ttl THEN age + 1 ELSE age
    BY DEF TickStart
  <2>3. \A c \in live : Left(c)' + age' >= Ttl
    BY <1>5, <2>1, <2>2
  <2>4. QED
    BY <1>1, <2>3 DEF Aged
<1>10. Walks'
  <2>1. htable[0] \in live \cup {NULL} /\ (htable[0] # NULL => In(htable[0]) = 0)
    BY BucketTypes DEF Structure, Hung
  <2>2. NULL \notin live
    BY CellTypes DEF Typed
  <2>3. QED
    BY <1>1, <2>1, <2>2 DEF Walks, In
<1>11. QED
  BY <1>1, <1>2, <1>6, <1>7, <1>8, <1>9, <1>10 DEF Structure, Searches, Lasting

LEMMA TickEndStep ==
    ASSUME Typed, Typed', Structure, TickEnd
    PROVE  Structure' /\ Lasting(0)
<1> DEFINE b == at.bucket
<1>1. /\ Ticks /\ ~Inserts /\ at.entry = NULL /\ at \in Ticking /\ b \in Buckets /\ b \in Nat
      /\ UNCHANGED <<htable, cell, live, tangled, age>>
  BY AtTypes, BucketTypes DEF TickEnd, Ticks, Typed
<1>2. \/ at' = NULL /\ b + 1 \notin Buckets
      \/ /\ b + 1 \in Buckets /\ at' \in Ticking /\ at' # NULL /\ at'.op = "tick"
         /\ at'.bucket = b + 1 /\ at'.entry = htable[b + 1] /\ at'.last = NULL
  <2>1. CASE b + 1 \in Buckets
    <3>1. htable[b + 1] \in Ptr
      BY <2>1, CellTypes DEF Typed
    <3>2. at' = [at EXCEPT !.bucket = b + 1, !.entry = htable[b + 1], !.last = NULL]
      BY <2>1 DEF TickEnd
    <3>3. at' \in Ticking /\ at'.op = "tick" /\ at'.bucket = b + 1 /\ at'.entry = htable[b + 1] /\ at'.last = NULL
      BY <1>1, <2>1, <3>1, <3>2 DEF Ticking, Ptr
    <3>4. QED
      BY <2>1, <3>3, NullIsNoRun
  <2>2. CASE b + 1 \notin Buckets
    BY <2>2 DEF TickEnd
  <2>3. QED
    BY <2>1, <2>2
<1>3. ~Inserts'
  BY <1>2 DEF Inserts
<1>4. \A c \in live : /\ c \in Chained(In(c)) /\ In(c) \in Buckets /\ In(c) \in Nat
                      /\ Before(c) <=> In(c) > b
  BY <1>1, ReachNull, CellTypes, BucketTypes DEF Structure, Found, Before, Typed
<1>5. \A c \in live : Before(c)' <=> In(c) > b
  <2>1. CASE at' = NULL
    <3>1. \A a \in Buckets : a <= b
      BY <1>1, <1>2, <2>1, BucketTypes
    <3>2. \A c \in live : ~(In(c) > b)
      BY <1>1, <1>4, <3>1
    <3>3. ~Ticks'
      BY <2>1 DEF Ticks
    <3>4. QED
      BY <3>2, <3>3 DEF Before
  <2>2. CASE at' # NULL
    <3>1. SUFFICES ASSUME NEW c \in live
                   PROVE  Before(c)' <=> In(c) > b
      OBVIOUS
    <3>2. Ticks' /\ at'.bucket = b + 1 /\ at'.entry = htable[b + 1] /\ b + 1 \in Buckets
      BY <1>2, <2>2 DEF Ticks
    <3>3. Before(c)' <=> (c \in ReachOf(cell, htable[b + 1]) \/ In(c) > b + 1)
      BY <1>1, <3>2 DEF Before, In
    <3>4. htable[b + 1] \in live \cup {NULL} /\ (htable[b + 1] # NULL => In(htable[b + 1]) = b + 1)
      BY <3>2 DEF Structure, Hung
    <3>5. c \in ReachOf(cell, htable[b + 1]) => In(c) = b + 1
      BY <3>4, Leads DEF Structure
    <3>6. In(c) = b + 1 => c \in ReachOf(cell, htable[b + 1])
      BY <1>4, <3>1 DEF Chained
    <3>7. QED
      BY <1>1, <1>4, <3>1, <3>3, <3>5, <3>6
  <2>3. QED
    BY <2>1, <2>2
<1>6. \A c \in live : Left(c)' = Left(c) /\ Left(c) \in Nat
  BY <1>1, <1>4, <1>5, LeftType DEF Left
<1>7. \A c \in live : Left(c)' = Left(c) - 0
  BY <1>6
<1>8. Hung' /\ Sorted' /\ Twins'
  BY <1>1, <1>7, ChainsStay DEF Structure
<1>9. Found'
  BY <1>1, <1>4 DEF Found, Chained, In
<1>10. Aged'
  BY <1>1, <1>6 DEF Structure, Aged
<1>11. Walks'
  <2>1. CASE at' = NULL
    BY <2>1 DEF Walks, Ticks
  <2>2. CASE at' # NULL
    <3>1. /\ at'.bucket = b + 1 /\ at'.entry = htable[b + 1] /\ at'.last = NULL /\ b + 1 \in Buckets
      BY <1>2, <2>2
    <3>2. htable[b + 1] \in live \cup {NULL} /\ (htable[b + 1] # NULL => In(htable[b + 1]) = b + 1)
      BY <3>1 DEF Structure, Hung
    <3>3. NULL \notin live
      BY CellTypes DEF Typed
    <3>4. QED
      BY <1>1, <3>1, <3>2, <3>3 DEF Walks, In
  <2>3. QED
    BY <2>1, <2>2
<1>12. QED
  BY <1>1, <1>3, <1>7, <1>8, <1>9, <1>10, <1>11 DEF Structure, Searches, Lasting

-------------------------------------------------------------------------------
(* A cell is aged, or freed *)

Onwards(e) == /\ Ticks' /\ ~Inserts' /\ at'.bucket = at.bucket
              /\ at'.last = e /\ at'.entry = cell[e].next

LEMMA TickStepAt ==
    ASSUME Typed, Structure, TickStep
    PROVE  /\ Ticks /\ ~Inserts /\ at.bucket \in Buckets
           /\ at.entry \in live /\ In(at.entry) = at.bucket /\ Before(at.entry)
           /\ at' = [at EXCEPT !.last = at.entry, !.entry = cell[at.entry].next] => Onwards(at.entry)
<1>1. Ticks /\ ~Inserts /\ at \in Ticking /\ at.entry # NULL /\ at.bucket \in Buckets
  BY AtTypes DEF TickStep, Ticks, Typed
<1>2. at.entry \in live /\ In(at.entry) = at.bucket
  BY <1>1 DEF Structure, Walks
<1>3. Before(at.entry)
  BY <1>1, <1>2, Acyclic DEF Structure, Before
<1>4. ASSUME at' = [at EXCEPT !.last = at.entry, !.entry = cell[at.entry].next]
      PROVE  Onwards(at.entry)
  <2>1. cell[at.entry].next \in Ptr /\ at.entry \in Ptr
    BY <1>2, CellTypes DEF Typed
  <2>2. /\ at' \in Ticking /\ at'.op = "tick" /\ at'.bucket = at.bucket /\ at'.last = at.entry
        /\ at'.entry = cell[at.entry].next
    BY <1>1, <1>4, <2>1 DEF Ticking
  <2>3. at' # NULL
    BY <2>2, NullIsNoRun
  <2>4. QED
    BY <2>2, <2>3 DEF Onwards, Ticks, Inserts
<1>5. QED
  BY <1>1, <1>2, <1>3, <1>4

\* Behind the entry that is aged or freed, the others are before their tick or not
\* as they were.
LEMMA BeforeStays ==
    ASSUME Typed, Structure, TickStep, NEW c \in live, c # at.entry
    PROVE  Before(c) <=> c \in ReachOf(cell, cell[at.entry].next) \/ In(c) > at.bucket
<1>1. Ticks /\ at.entry \in live
  BY TickStepAt
<1>2. ReachOf(cell, at.entry) = {at.entry} \cup ReachOf(cell, cell[at.entry].next)
  BY <1>1, Acyclic DEF Structure
<1>3. QED
  BY <1>1, <1>2 DEF Before

GoesOnFrom(e) == at' = [at EXCEPT !.last = e, !.entry = cell[e].next]

Ages(e) == cell' = [cell EXCEPT ![e].ttl = @ - 1]

LEMMA AgeStep ==
    ASSUME Typed, Typed', Structure, TickStep, NEW e, e = at.entry, ~Expired(e),
           Ages(e), GoesOnFrom(e), UNCHANGED <<htable, live>>
    PROVE  Structure' /\ Lasting(0)
<1>1. /\ Ticks /\ at.bucket \in Buckets /\ e \in live /\ In(e) = at.bucket /\ Before(e)
      /\ Onwards(e) /\ age' = age /\ tangled' = tangled
  BY TickStepAt DEF TickStep, GoesOnFrom
<1>2. /\ Heap(cell) /\ Heap(cell') /\ cell \in [Cells -> Entry] /\ live \subseteq Cells
      /\ at.bucket \in Nat /\ \A c \in Cells : In(c) \in Nat
  BY <1>1, CellTypes, HeapType, BucketTypes DEF Typed, TypeOK
<1>3. /\ \A c \in Cells : cell'[c].next = cell[c].next /\ cell'[c].name = cell[c].name
      /\ \A c \in Cells \ {e} : cell'[c] = cell[c]
      /\ cell'[e].ttl = cell[e].ttl - 1
  BY <1>1, <1>2 DEF Entry, Ages
<1>4. \A p \in Ptr : ReachOf(cell', p) = ReachOf(cell, p)
  <2>1. \A c \in Cells : cell'[c].next = cell[c].next
    BY <1>3
  <2>2. QED
    BY <1>2, <2>1, ReachAllSame
<1>5. \A c \in live : In(c)' = In(c) /\ Bucket[cell'[c].name] = In(c)
  BY <1>2, <1>3 DEF In
<1>6. cell[e].next \in Ptr /\ cell[e].next \in live \cup {NULL}
      /\ (cell[e].next # NULL => In(cell[e].next) = at.bucket)
  BY <1>1, <1>2 DEF Heap, Structure, Hung
<1>7. \A c \in live : Before(c)' <=> c \in ReachOf(cell, cell[e].next) \/ In(c) > at.bucket
  BY <1>1, <1>4, <1>5, <1>6 DEF Before, Onwards
<1>8. \A c \in live : Left(c)' = Left(c) /\ Left(c) \in Nat
  <2>1. TAKE c \in live
  <2>2. Left(c) \in Nat
    BY LeftType
  <2>3. CASE c = e
    <3>1. e \notin ReachOf(cell, cell[e].next)
      BY <1>1, Acyclic DEF Structure
    <3>2. ~Before(e)'
      BY <1>1, <1>2, <1>7, <3>1
    <3>3. QED
      BY <1>1, <1>3, <2>2, <2>3, <3>2 DEF Left
  <2>4. CASE c # e
    <3>1. Before(c)' <=> Before(c)
      BY <1>7, <2>4, BeforeStays
    <3>2. cell'[c] = cell[c]
      BY <1>2, <1>3, <2>4
    <3>3. CASE Before(c)
      BY <2>2, <3>1, <3>2, <3>3 DEF Left
    <3>4. CASE ~Before(c)
      BY <2>2, <3>1, <3>2, <3>4 DEF Left
    <3>5. QED
      BY <3>3, <3>4
  <2>5. QED
    BY <2>3, <2>4
<1>9. Hung'
  <2>1. \A c \in live : cell[c].next \in live \cup {NULL} /\ (cell[c].next # NULL => In(cell[c].next) = In(c))
    BY DEF Structure, Hung
  <2>2. \A b \in Buckets : htable[b] \in live \cup {NULL} /\ (htable[b] # NULL => In(htable[b]) = b)
    BY DEF Structure, Hung
  <2>3. \A c \in live : /\ cell'[c].next \in live \cup {NULL}
                        /\ cell'[c].next # NULL =>
                              Bucket[cell'[cell'[c].next].name] = Bucket[cell'[c].name]
    BY <1>2, <1>3, <1>5, <2>1
  <2>4. \A b \in Buckets : /\ htable[b] \in live \cup {NULL}
                           /\ htable[b] # NULL => Bucket[cell'[htable[b]].name] = b
    BY <1>5, <2>2
  <2>5. QED
    BY <2>3, <2>4 DEF Hung, In
<1>10. Sorted' /\ Twins'
  <2>1. ASSUME NEW c \in live'
        PROVE  /\ Left(c)' = Left(c) - 0
               /\ cell'[c].name = cell[c].name
               /\ ReachOf(cell', cell'[c].next) \subseteq ReachOf(cell, cell[c].next)
               /\ ReachOf(cell', cell'[c].next) \subseteq live'
    <3>1. c \in live /\ c \in Cells /\ cell[c].next \in Ptr /\ Left(c) \in Nat
      BY <1>2, <1>8 DEF Heap
    <3>2. ReachOf(cell, cell[c].next) \subseteq live
      BY <3>1, Acyclic DEF Structure
    <3>3. ReachOf(cell', cell'[c].next) = ReachOf(cell, cell[c].next)
      BY <1>3, <1>4, <3>1
    <3>4. Left(c)' = Left(c) - 0
      BY <1>8, <3>1
    <3>5. cell'[c].name = cell[c].name
      BY <1>3, <3>1
    <3>6. QED
      BY <3>2, <3>3, <3>4, <3>5
  <2>2. live' \subseteq live
    OBVIOUS
  <2>3. QED
    BY <1>1, <2>1, <2>2, Alike DEF Structure
<1>11. e \in Chained(at.bucket)
  <2>1. CASE at.last = NULL
    <3>1. htable[at.bucket] = e
      BY <1>1, <2>1 DEF Structure, Walks
    <3>2. QED
      BY <1>1, <3>1, Acyclic DEF Structure, Chained
  <2>2. CASE at.last \in live
    <3>1. cell[at.last].next = e /\ at.last \in ReachOf(cell, htable[at.bucket])
      BY <1>1, <2>2, LastChained DEF Structure, Walks, Chained
    <3>2. Closed(cell, ReachOf(cell, htable[at.bucket])) /\ e # NULL
      BY <1>1, <1>2, CellTypes, ReachClosed DEF Typed
    <3>3. QED
      BY <3>1, <3>2 DEF Closed, Chained
  <2>3. CASE at.last \notin live \cup {NULL}
    <3>1. Left(e) = 0
      BY <1>1, <2>3, CellTypes DEF Structure, Walks, Typed
    <3>2. QED
      BY <1>1, <3>1, LeftType DEF Expired
  <2>4. QED
    BY <2>1, <2>2, <2>3
<1>12. Found'
  <2>1. SUFFICES ASSUME NEW c \in live
                 PROVE  \/ c \in ReachOf(cell', htable'[In(c)'])
                        \/ c \in ReachOf(cell', at'.entry)
    BY <1>1 DEF Found, Chained, Onwards
  <2>2. htable[In(c)] \in Ptr
    BY <1>2, CellTypes DEF Typed
  <2>3. CASE c \in Chained(In(c))
    BY <1>4, <1>5, <2>2, <2>3 DEF Chained
  <2>4. CASE c \notin Chained(In(c))
    <3>1. c \in ReachOf(cell, e) /\ c # e
      BY <1>1, <1>11, <2>4 DEF Structure, Found
    <3>2. c \in ReachOf(cell, cell[e].next)
      BY <1>1, <3>1, Acyclic DEF Structure
    <3>3. QED
      BY <1>1, <1>4, <1>6, <3>2 DEF Onwards
  <2>5. QED
    BY <2>3, <2>4
<1>13. Aged'
  BY <1>1, <1>8 DEF Structure, Aged
<1>14. Walks'
  <2>1. e # NULL
    BY <1>1, CellTypes DEF Typed
  <2>2. cell[e].next # NULL => Bucket[cell'[cell[e].next].name] = at.bucket
    BY <1>5, <1>6
  <2>3. Bucket[cell'[e].name] = at.bucket /\ cell'[e].next = cell[e].next
    BY <1>1, <1>2, <1>3, <1>5
  <2>4. QED
    BY <1>1, <1>6, <2>1, <2>2, <2>3 DEF Walks, In, Onwards
<1>15. QED
  <2>1. Structure'
    BY <1>1, <1>9, <1>10, <1>12, <1>13, <1>14 DEF Structure, Searches, Onwards
  <2>2. Lasting(0)
    BY <1>2, <1>3, <1>8 DEF Lasting
  <2>3. QED
    BY <2>1, <2>2

\* What the free of entry e does to everything but its chain.
Frees(e) == /\ e = at.entry /\ live' = live \ {e} /\ GoesOnFrom(e)
            /\ cell[e].ttl = 1 /\ ~tangled

LEMMA FreeFacts ==
    ASSUME Typed, Typed', Structure, TickStep, NEW e, Frees(e)
    PROVE  /\ Ticks /\ at.bucket \in Buckets /\ at.bucket \in Nat
           /\ e \in live /\ e \in Cells /\ e # NULL /\ In(e) = at.bucket /\ Left(e) = 0
           /\ Onwards(e) /\ age' = age /\ tangled' = tangled /\ ~Inserts'
           /\ cell[e].next \in live' \cup {NULL}
           /\ cell[e].next # NULL => In(cell[e].next) = at.bucket
           /\ Heap(cell) /\ Heap(cell')
           /\ \A c \in live : c \in Cells /\ In(c) \in Nat /\ In(c) \in Buckets
<1>1. /\ Ticks /\ at.bucket \in Buckets /\ e \in live /\ In(e) = at.bucket /\ Before(e)
      /\ Onwards(e) /\ age' = age /\ tangled' = tangled /\ at.bucket \in Nat /\ ~Inserts'
  BY TickStepAt, BucketTypes DEF TickStep, GoesOnFrom, Frees, Onwards
<1>2. /\ Heap(cell) /\ Heap(cell') /\ e \in Cells /\ e # NULL
      /\ \A c \in live : c \in Cells /\ In(c) \in Nat /\ In(c) \in Buckets
  BY <1>1, CellTypes, HeapType, BucketTypes DEF Typed, TypeOK
<1>3. Left(e) = 0
  BY <1>1 DEF Left, Frees
<1>4. /\ cell[e].next \in live \cup {NULL}
      /\ cell[e].next # NULL => In(cell[e].next) = at.bucket
  BY <1>1 DEF Structure, Hung
<1>5. cell[e].next # e
  <2>1. e \notin ReachOf(cell, cell[e].next)
    BY <1>1, Acyclic DEF Structure
  <2>2. cell[e].next \in Ptr
    BY <1>2 DEF Heap
  <2>3. QED
    BY <1>2, <2>1, <2>2, ReachClosed
<1>6. QED
  BY <1>1, <1>2, <1>3, <1>4, <1>5 DEF Frees

\* The head has expired, now or before: all of its chain is freed.
Falls(e) == /\ htable'[at.bucket] = NULL
            /\ \A b \in Buckets : b # at.bucket => htable'[b] = htable[b]
            /\ \A c \in live' : cell'[c] = cell[c]
            /\ \A c \in live' : In(c) = at.bucket =>
                  c \in ReachOf(cell, cell[e].next) /\ Left(c) = 0

LEMMA FallStep ==
    ASSUME Typed, Typed', Structure, TickStep, NEW e, Frees(e), Falls(e)
    PROVE  Structure' /\ Lasting(0)
<1>1. /\ Ticks /\ at.bucket \in Buckets /\ at.bucket \in Nat
      /\ e \in live /\ e \in Cells /\ e # NULL /\ In(e) = at.bucket /\ Left(e) = 0
      /\ Onwards(e) /\ age' = age /\ tangled' = tangled
      /\ cell[e].next \in live' \cup {NULL}
      /\ cell[e].next # NULL => In(cell[e].next) = at.bucket
      /\ Heap(cell) /\ Heap(cell')
      /\ \A c \in live : c \in Cells /\ In(c) \in Nat /\ In(c) \in Buckets
  BY FreeFacts
<1>2. live' = live \ {e} /\ e = at.entry
  BY DEF Frees
<1>3. /\ \A c \in live' : cell'[c] = cell[c] /\ c \in live /\ c # e
      /\ \A c \in live' : Bucket[cell'[c].name] = In(c) /\ In(c)' = In(c)
      /\ \A c \in live' : cell'[c].next = cell[c].next
  BY <1>2 DEF Falls, In
<1>4. e \notin ReachOf(cell, cell[e].next)
  BY <1>1, Acyclic DEF Structure
\* None that is left leads to e.
<1>5. ASSUME NEW c \in live'
      PROVE  cell[c].next \in live' \cup {NULL}
  <2>1. cell[c].next \in live \cup {NULL} /\ (cell[c].next # NULL => In(cell[c].next) = In(c))
    BY <1>3 DEF Structure, Hung
  <2>2. ASSUME cell[c].next = e
        PROVE  FALSE
    <3>1. In(c) = at.bucket
      BY <1>1, <2>1, <2>2
    <3>2. c \in ReachOf(cell, cell[e].next)
      BY <3>1 DEF Falls
    <3>3. Closed(cell, ReachOf(cell, cell[e].next))
      BY <1>1, ReachClosed DEF Heap
    <3>4. QED
      BY <1>1, <1>4, <2>2, <3>2, <3>3 DEF Closed
  <2>3. QED
    BY <1>2, <2>1, <2>2
<1>6. ASSUME NEW p \in live' \cup {NULL}
      PROVE  ReachOf(cell', p) = ReachOf(cell, p) /\ ReachOf(cell', p) \subseteq live'
  <2>1. Closed(cell, live') /\ p \in Ptr /\ (p # NULL => p \in live')
    BY <1>1, <1>3, <1>5 DEF Closed, Ptr
  <2>2. ReachOf(cell', p) = ReachOf(cell, p)
    BY <1>1, <1>3, <2>1, ReachSame
  <2>3. ReachOf(cell, p) \subseteq live'
    BY <2>1, ReachLeast
  <2>4. QED
    BY <2>2, <2>3
<1>7. ASSUME NEW c \in live'
      PROVE  Left(c)' = Left(c) /\ Left(c) \in Nat
  <2>1. Left(c) \in Nat
    BY <1>3, LeftType
  <2>2. Before(c)' <=> c \in ReachOf(cell, cell[e].next) \/ In(c) > at.bucket
    BY <1>1, <1>3, <1>6 DEF Before, Onwards
  <2>3. Before(c) <=> c \in ReachOf(cell, cell[e].next) \/ In(c) > at.bucket
    BY <1>2, <1>3, BeforeStays
  <2>4. cell'[c].ttl = cell[c].ttl
    BY <1>3
  <2>5. CASE Before(c)
    BY <2>1, <2>2, <2>3, <2>4, <2>5 DEF Left
  <2>6. CASE ~Before(c)
    BY <2>1, <2>2, <2>3, <2>4, <2>6 DEF Left
  <2>7. QED
    BY <2>5, <2>6
<1>8. ASSUME NEW b \in Buckets, b # at.bucket
      PROVE  /\ htable'[b] = htable[b] /\ htable[b] \in live' \cup {NULL}
             /\ htable[b] # NULL => In(htable[b]) = b
  <2>1. htable[b] \in live \cup {NULL} /\ (htable[b] # NULL => In(htable[b]) = b)
    BY DEF Structure, Hung
  <2>2. htable[b] # e
    BY <1>1, <1>8, <2>1
  <2>3. QED
    BY <1>2, <1>8, <2>1, <2>2 DEF Falls
<1>9. Hung'
  <2>1. ASSUME NEW c \in live'
        PROVE  /\ cell'[c].next \in live' \cup {NULL}
               /\ cell'[c].next # NULL =>
                     Bucket[cell'[cell'[c].next].name] = Bucket[cell'[c].name]
    <3>1. cell[c].next # NULL => In(cell[c].next) = In(c)
      BY <1>3 DEF Structure, Hung
    <3>2. QED
      BY <1>3, <1>5, <3>1
  <2>2. ASSUME NEW b \in Buckets
        PROVE  /\ htable'[b] \in live' \cup {NULL}
               /\ htable'[b] # NULL => Bucket[cell'[htable'[b]].name] = b
    <3>1. CASE b = at.bucket
      BY <3>1 DEF Falls
    <3>2. CASE b # at.bucket
      BY <1>3, <1>8, <3>2
    <3>3. QED
      BY <3>1, <3>2
  <2>3. QED
    BY <2>1, <2>2 DEF Hung, In
<1>10. Sorted' /\ Twins'
  <2>1. ASSUME NEW c \in live'
        PROVE  /\ Left(c)' = Left(c) - 0
               /\ cell'[c].name = cell[c].name
               /\ ReachOf(cell', cell'[c].next) \subseteq ReachOf(cell, cell[c].next)
               /\ ReachOf(cell', cell'[c].next) \subseteq live'
    <3>1. Left(c)' = Left(c) - 0
      BY <1>7
    <3>2. cell'[c].name = cell[c].name /\ cell'[c].next = cell[c].next
      BY <1>3
    <3>3. QED
      BY <1>5, <1>6, <3>1, <3>2
  <2>2. live' \subseteq live
    BY <1>2
  <2>3. QED
    BY <1>1, <2>1, <2>2, Alike DEF Structure
<1>11. Found'
  <2>1. SUFFICES ASSUME NEW c \in live'
                 PROVE  \/ c \in ReachOf(cell', htable'[In(c)'])
                        \/ c \in ReachOf(cell', at'.entry)
    BY <1>1 DEF Found, Chained, Onwards
  <2>2. CASE In(c) = at.bucket
    BY <1>1, <1>6, <2>2 DEF Falls, Onwards
  <2>3. CASE In(c) # at.bucket
    <3>1. c \in live /\ In(c) \in Buckets /\ In(c)' = In(c)
      BY <1>1, <1>3
    <3>2. c \notin ReachOf(cell, at.entry)
      BY <1>1, <1>2, <2>3, Leads DEF Structure
    <3>3. c \in ReachOf(cell, htable[In(c)])
      BY <3>1, <3>2 DEF Structure, Found, Chained
    <3>4. QED
      BY <1>6, <1>8, <2>3, <3>1, <3>3
  <2>4. QED
    BY <2>2, <2>3
<1>12. Aged'
  BY <1>1, <1>2, <1>7 DEF Structure, Aged
<1>13. Walks'
  <2>1. cell[e].next # NULL => Bucket[cell'[cell[e].next].name] = at.bucket
    BY <1>1, <1>3
  <2>2. \A c \in live' : Bucket[cell'[c].name] = at.bucket => Left(c)' = 0
    BY <1>3, <1>7 DEF Falls
  <2>3. e \notin live' /\ htable'[at.bucket] = NULL
    BY <1>2 DEF Falls
  <2>4. QED
    BY <1>1, <2>1, <2>2, <2>3 DEF Walks, In, Onwards
<1>14. QED
  <2>1. Structure'
    BY <1>1, <1>9, <1>10, <1>11, <1>12, <1>13 DEF Structure, Searches, Onwards
  <2>2. \A c \in live' : Left(c)' = Left(c) - 0
    BY <1>7
  <2>3. Lasting(0)
    BY <1>1, <1>2, <1>3, <2>2 DEF Lasting
  <2>4. QED
    BY <2>1, <2>3

\* An entry behind a live one has expired: it is the last of its chain, since two of
\* one age would be the newest, and the one before it is not.
Cuts(e, l) == /\ l = at.last /\ l \in live
              /\ htable' = htable
              /\ \A c \in live' : cell'[c].name = cell[c].name /\ cell'[c].ttl = cell[c].ttl
              /\ cell'[l].next = cell[e].next
              /\ \A c \in Cells \ {l} : cell'[c].next = cell[c].next

LEMMA LastOfChain ==
    ASSUME Typed, Typed', Structure, TickStep, NEW e, Frees(e), NEW l, Cuts(e, l)
    PROVE  /\ Tail2(cell, l, e) /\ cell[e].next = NULL /\ ReachOf(cell, e) = {e}
           /\ l \in live' /\ In(l) = at.bucket
           /\ \A c \in live' : In(c) = at.bucket => c \in Chained(at.bucket)
           /\ \A c \in live' : cell[c].next = e => c = l
           /\ \A b \in Buckets : htable[b] # e
<1>1. /\ Ticks /\ at.bucket \in Buckets /\ at.bucket \in Nat
      /\ e \in live /\ e \in Cells /\ e # NULL /\ In(e) = at.bucket /\ Left(e) = 0
      /\ Heap(cell)
      /\ \A c \in live : c \in Cells /\ In(c) \in Nat /\ In(c) \in Buckets
  BY FreeFacts
<1>2. live' = live \ {e} /\ e = at.entry
  BY DEF Frees
<1>3. /\ l \in live /\ l \in Chained(at.bucket) /\ l \notin ReachOf(cell, e)
      /\ In(l) = at.bucket /\ cell[l].next = e
  BY <1>1, <1>2, LastChained DEF Cuts, Structure, Walks
<1>4. ReachOf(cell, e) = {e} \cup ReachOf(cell, cell[e].next)
  BY <1>1, Acyclic DEF Structure
<1>5. l # e
  BY <1>3, <1>4
<1>6. Left(l) # 0 /\ Left(l) \in Nat
  <2>1. ~Before(l)
    BY <1>1, <1>2, <1>3 DEF Before
  <2>2. Left(l) \in Nat /\ cell[l].ttl >= 1 /\ cell[l].ttl = Left(l)
    BY <1>3, <2>1, LeftType DEF Typed
  <2>3. QED
    BY <2>2
<1>7. cell[e].next = NULL
  <2>1. SUFFICES ASSUME cell[e].next # NULL
                 PROVE  FALSE
    OBVIOUS
  <2>2. PICK d \in live : d = cell[e].next /\ In(d) = at.bucket
    BY <1>1, <2>1 DEF Structure, Hung
  <2>3. d \in ReachOf(cell, cell[e].next) /\ d # e
    <3>1. d \in Ptr /\ d # NULL
      BY CellTypes DEF Typed
    <3>2. d \in ReachOf(cell, d)
      BY <1>1, <3>1, ReachClosed
    <3>3. e \notin ReachOf(cell, cell[e].next)
      BY <1>1, Acyclic DEF Structure
    <3>4. QED
      BY <2>2, <3>2, <3>3
  <2>4. Left(d) = 0
    <3>1. Left(d) <= 0
      BY <1>1, <2>3 DEF Structure, Sorted
    <3>2. Left(d) \in Nat
      BY LeftType
    <3>3. QED
      BY <3>1, <3>2
  <2>5. Left(l) <= Left(d)
    BY <1>1, <1>3, <2>2, <2>3, <2>4 DEF Structure, Twins, Frees
  <2>6. QED
    BY <1>6, <2>4, <2>5
<1>8. Tail2(cell, l, e)
  BY <1>1, <1>3, <1>5, <1>7 DEF Tail2
<1>9. ReachOf(cell, e) = {e}
  BY <1>4, <1>7, ReachNull
<1>10. ASSUME NEW c \in live', In(c) = at.bucket
       PROVE  c \in Chained(at.bucket)
  BY <1>2, <1>9, <1>10 DEF Structure, Found
<1>11. ASSUME NEW c \in live', cell[c].next = e
       PROVE  c = l
  <2>1. In(c) = at.bucket
    BY <1>1, <1>2, <1>11 DEF Structure, Hung
  <2>2. c \in Chained(at.bucket)
    BY <1>10, <2>1
  <2>3. htable[at.bucket] \in Ptr
    BY <1>1, CellTypes DEF Typed
  <2>4. QED
    BY <1>1, <1>3, <1>8, <1>11, <2>2, <2>3, OneBefore DEF Chained
<1>12. ASSUME NEW b \in Buckets, htable[b] = e
       PROVE  FALSE
  <2>1. b = at.bucket
    BY <1>1, <1>12 DEF Structure, Hung
  <2>2. QED
    BY <1>3, <1>5, <1>9, <1>12, <2>1 DEF Chained
<1>13. QED
  BY <1>2, <1>3, <1>5, <1>7, <1>8, <1>9, <1>10, <1>11, <1>12

LEMMA CutStep ==
    ASSUME Typed, Typed', Structure, TickStep, NEW e, Frees(e), NEW l, Cuts(e, l)
    PROVE  Structure' /\ Lasting(0)
<1>1. /\ Ticks /\ at.bucket \in Buckets /\ at.bucket \in Nat
      /\ e \in live /\ e \in Cells /\ e # NULL /\ In(e) = at.bucket /\ Left(e) = 0
      /\ Onwards(e) /\ age' = age /\ tangled' = tangled /\ ~Inserts'
      /\ Heap(cell) /\ Heap(cell')
      /\ \A c \in live : c \in Cells /\ In(c) \in Nat /\ In(c) \in Buckets
  BY FreeFacts
<1>2. live' = live \ {e} /\ e = at.entry
  BY DEF Frees
<1>3. /\ Tail2(cell, l, e) /\ cell[e].next = NULL /\ ReachOf(cell, e) = {e}
      /\ l \in live' /\ In(l) = at.bucket
      /\ \A c \in live' : In(c) = at.bucket => c \in Chained(at.bucket)
      /\ \A c \in live' : cell[c].next = e => c = l
      /\ \A b \in Buckets : htable[b] # e
  BY LastOfChain
<1>4. /\ htable' = htable /\ cell'[l].next = NULL
      /\ \A c \in Cells \ {l} : cell'[c].next = cell[c].next
      /\ \A c \in live' : cell'[c].name = cell[c].name /\ cell'[c].ttl = cell[c].ttl
  BY <1>3 DEF Cuts
<1>5. \A c \in live' : Bucket[cell'[c].name] = In(c) /\ In(c)' = In(c) /\ c \in live /\ c # e
                       /\ c \in Cells
  BY <1>1, <1>2, <1>4 DEF In
<1>6. ASSUME NEW c \in live'
      PROVE  /\ c # l => cell'[c].next = cell[c].next /\ cell[c].next # e
             /\ cell'[c].next \in live' \cup {NULL}
             /\ cell'[c].next # NULL => In(cell'[c].next) = In(c)
  <2>1. cell[c].next \in live \cup {NULL} /\ (cell[c].next # NULL => In(cell[c].next) = In(c))
    BY <1>5 DEF Structure, Hung
  <2>2. CASE c = l
    BY <1>4, <2>2
  <2>3. CASE c # l
    BY <1>2, <1>3, <1>4, <1>5, <2>1, <2>3
  <2>4. QED
    BY <2>2, <2>3
<1>7. ASSUME NEW p \in live' \cup {NULL}
      PROVE  /\ ReachOf(cell', p) \subseteq ReachOf(cell, p)
             /\ ReachOf(cell, p) \ {e} \subseteq ReachOf(cell', p)
             /\ ReachOf(cell', p) \subseteq live'
  <2>1. p \in Ptr /\ p # e /\ (p # NULL => p \in live')
    BY <1>1, <1>5 DEF Ptr
  <2>2. Closed(cell', live')
    BY <1>6 DEF Closed
  <2>3. ReachOf(cell', p) \subseteq live'
    BY <2>1, <2>2, ReachLeast
  <2>4. /\ ReachOf(cell', p) \subseteq ReachOf(cell, p)
        /\ ReachOf(cell, p) \ {e} \subseteq ReachOf(cell', p)
    BY <1>1, <1>3, <1>4, <2>1, ReachCut
  <2>5. QED
    BY <2>3, <2>4
<1>8. ASSUME NEW c \in live'
      PROVE  Left(c)' = Left(c) /\ Left(c) \in Nat
  <2>1. Left(c) \in Nat
    BY <1>5, LeftType
  <2>2. Before(c)' <=> In(c) > at.bucket
    BY <1>1, <1>3, <1>5, ReachNull DEF Before, Onwards
  <2>3. Before(c) <=> In(c) > at.bucket
    BY <1>2, <1>3, <1>5, BeforeStays, ReachNull
  <2>4. cell'[c].ttl = cell[c].ttl
    BY <1>4
  <2>5. CASE Before(c)
    BY <2>1, <2>2, <2>3, <2>4, <2>5 DEF Left
  <2>6. CASE ~Before(c)
    BY <2>1, <2>2, <2>3, <2>4, <2>6 DEF Left
  <2>7. QED
    BY <2>5, <2>6
<1>9. \A b \in Buckets : /\ htable[b] \in live' \cup {NULL}
                         /\ htable[b] # NULL => In(htable[b]) = b
  BY <1>2, <1>3 DEF Structure, Hung
<1>10. Hung'
  <2>1. \A c \in live' : /\ cell'[c].next \in live' \cup {NULL}
                         /\ cell'[c].next # NULL =>
                               Bucket[cell'[cell'[c].next].name] = Bucket[cell'[c].name]
    BY <1>5, <1>6
  <2>2. \A b \in Buckets : /\ htable'[b] \in live' \cup {NULL}
                           /\ htable'[b] # NULL => Bucket[cell'[htable'[b]].name] = b
    BY <1>4, <1>5, <1>9
  <2>3. QED
    BY <2>1, <2>2 DEF Hung, In
<1>11. Sorted' /\ Twins'
  <2>1. ASSUME NEW c \in live'
        PROVE  /\ Left(c)' = Left(c) - 0
               /\ cell'[c].name = cell[c].name
               /\ ReachOf(cell', cell'[c].next) \subseteq ReachOf(cell, cell[c].next)
               /\ ReachOf(cell', cell'[c].next) \subseteq live'
    <3>1. Left(c)' = Left(c) - 0
      BY <1>8
    <3>2. cell'[c].name = cell[c].name
      BY <1>4
    <3>3. ReachOf(cell', cell'[c].next) \subseteq live'
      BY <1>6, <1>7
    <3>4. ReachOf(cell', cell'[c].next) \subseteq ReachOf(cell, cell[c].next)
      <4>1. CASE c = l
        BY <1>4, <4>1, ReachNull
      <4>2. CASE c # l
        BY <1>6, <1>7, <4>2
      <4>3. QED
        BY <4>1, <4>2
    <3>5. QED
      BY <3>1, <3>2, <3>3, <3>4
  <2>2. live' \subseteq live
    BY <1>2
  <2>3. QED
    BY <1>1, <2>1, <2>2, Alike DEF Structure
<1>12. Found'
  <2>1. SUFFICES ASSUME NEW c \in live'
                 PROVE  c \in ReachOf(cell', htable'[In(c)'])
    BY DEF Found, Chained
  <2>2. c \in ReachOf(cell, htable[In(c)])
    BY <1>2, <1>3, <1>5 DEF Structure, Found, Chained
  <2>3. QED
    BY <1>1, <1>4, <1>5, <1>7, <1>9, <2>2
<1>13. Aged'
  BY <1>1, <1>2, <1>8 DEF Structure, Aged
<1>14. Walks'
  BY <1>1, <1>2, <1>3 DEF Walks, Onwards
<1>15. QED
  <2>1. Structure'
    BY <1>1, <1>10, <1>11, <1>12, <1>13, <1>14 DEF Structure, Searches
  <2>2. \A c \in live' : Left(c)' = Left(c) - 0
    BY <1>8
  <2>3. Lasting(0)
    BY <1>1, <1>2, <1>4, <2>2 DEF Lasting
  <2>4. QED
    BY <2>1, <2>3

LEMMA TickStepStep ==
    ASSUME Typed, Typed', Structure, Sane', TickStep
    PROVE  Structure' /\ Lasting(0)
<1> DEFINE e == at.entry
<1>1. /\ Ticks /\ at.bucket \in Buckets /\ e \in live /\ In(e) = at.bucket /\ Before(e)
      /\ age' = age /\ tangled' = tangled /\ ~crashed'
  BY TickStepAt DEF TickStep, Sane
<1>2. /\ cell \in [Cells -> Entry] /\ live \subseteq Cells /\ e \in Cells
      /\ htable \in [Buckets -> Ptr] /\ Heap(cell) /\ NULL \notin live
      /\ at.last \in Ptr
  BY <1>1, CellTypes, AtTypes DEF Typed, TypeOK
<1>3. CASE ~Expired(e)
  <2>1. /\ cell' = [cell EXCEPT ![e].ttl = @ - 1]
        /\ at' = [at EXCEPT !.last = e, !.entry = cell[e].next]
        /\ UNCHANGED <<htable, live>>
    BY <1>1, <1>3 DEF TickStep
  <2>2. QED
    BY <1>3, <2>1, AgeStep DEF Ages, GoesOnFrom
<1>4. CASE Expired(e)
  <2>1. Unlink(e) /\ live' = live \ {e} /\ GoesOnFrom(e) /\ cell[e].ttl = 1
    BY <1>1, <1>4 DEF TickStep, GoesOnFrom, Expired
  <2>2. Left(e) = 0
    BY <1>1, <2>1 DEF Left
  <2>3. ~tangled
    <3>1. age >= Ttl /\ age \in Nat /\ Ttl \in Nat
      BY <1>1, <2>2, CacheAssumption DEF Structure, Aged, Typed, TypeOK
    <3>2. ~(age < Ttl)
      BY <3>1
    <3>3. QED
      BY <1>1, <3>2 DEF Sane
  <2>4. Frees(e)
    BY <2>1, <2>3 DEF Frees
  <2>5. CASE at.last \in live
    <3>1. at.last # NULL /\ at.last \in Cells
      BY <1>2, <2>5
    <3>2. /\ cell' = [cell EXCEPT ![e].ttl = 0, ![at.last].next = cell[e].next]
          /\ htable' = htable
      BY <2>1, <3>1 DEF Unlink
    <3>3. /\ \A c \in live' : cell'[c].name = cell[c].name /\ cell'[c].ttl = cell[c].ttl
          /\ cell'[at.last].next = cell[e].next
          /\ \A c \in Cells \ {at.last} : cell'[c].next = cell[c].next
      BY <1>2, <2>1, <3>1, <3>2 DEF Entry
    <3>4. Cuts(e, at.last)
      BY <2>5, <3>2, <3>3 DEF Cuts
    <3>5. QED
      BY <2>4, <3>4, CutStep
  <2>6. CASE at.last \notin live
    <3>1. /\ htable'[at.bucket] = NULL
          /\ \A b \in Buckets : b # at.bucket => htable'[b] = htable[b]
          /\ \A c \in live' : cell'[c] = cell[c]
          /\ ReachOf(cell, htable[at.bucket]) \subseteq ReachOf(cell, e)
          /\ at.last # NULL => \A c \in live : In(c) = at.bucket => Left(c) = 0
      <4>1. CASE at.last = NULL
        <5>1. /\ htable' = [htable EXCEPT ![at.bucket] = NULL]
              /\ cell' = [cell EXCEPT ![e].ttl = 0]
          BY <2>1, <4>1 DEF Unlink
        <5>2. htable[at.bucket] = e
          BY <1>1, <4>1 DEF Structure, Walks
        <5>3. QED
          BY <1>1, <1>2, <2>1, <4>1, <5>1, <5>2
      <4>2. CASE at.last # NULL
        <5>1. /\ cell' = [cell EXCEPT ![e].ttl = 0, ![at.last].next = cell[e].next]
              /\ htable' = htable
          BY <2>1, <4>2 DEF Unlink
        <5>2. e # NULL
          BY <1>1, <1>2
        <5>3. /\ htable[at.bucket] = NULL
              /\ \A c \in live : In(c) = at.bucket => Left(c) = 0
          BY <1>1, <2>6, <4>2, <5>2 DEF Structure, Walks
        <5>4. \A c \in live' : cell'[c] = cell[c]
          BY <1>2, <2>1, <2>6, <5>1
        <5>5. QED
          BY <5>1, <5>3, <5>4, ReachNull
      <4>3. QED
        BY <4>1, <4>2
    <3>2. ASSUME NEW c \in live', In(c) = at.bucket
          PROVE  c \in ReachOf(cell, cell[e].next) /\ Left(c) = 0
      <4>1. c \in live /\ c # e
        BY <2>1
      <4>2. c \in ReachOf(cell, e)
        BY <3>1, <3>2, <4>1 DEF Structure, Found, Chained
      <4>3. c \in ReachOf(cell, cell[e].next)
        BY <1>1, <4>1, <4>2, Acyclic DEF Structure
      <4>4. Left(c) \in Nat
        BY <4>1, LeftType
      <4>5. Left(c) <= Left(e)
        BY <1>1, <4>3 DEF Structure, Sorted
      <4>6. QED
        BY <2>2, <4>3, <4>4, <4>5
    <3>3. Falls(e)
      BY <3>1, <3>2 DEF Falls
    <3>4. QED
      BY <2>4, <3>3, FallStep
  <2>7. QED
    BY <2>5, <2>6
<1>5. QED
  BY <1>3, <1>4

-------------------------------------------------------------------------------
(* The invariant *)

LEMMA InitInv == Init => CacheInv
<1> SUFFICES ASSUME Init
             PROVE  CacheInv
  OBVIOUS
<1>1. Typed
  BY InitTypes
<1>2. live = {} /\ at = NULL /\ ~crashed /\ \A b \in Buckets : htable[b] = NULL
  BY DEF Init
<1>3. ~Inserts /\ ~Ticks
  BY <1>2 DEF Inserts, Ticks
<1>4. Structure
  BY <1>2, <1>3 DEF Structure, Hung, Sorted, Twins, Found, Aged, Searches, Walks
<1>5. QED
  BY <1>1, <1>2, <1>4 DEF CacheInv, Typed

\* In the first Ttl ticks nothing is freed.
LEMMA NoCrashEarly ==
    ASSUME Typed, Structure, Next, age' < Ttl
    PROVE  ~crashed'
<1>1. /\ age \in Nat /\ Ttl \in Nat /\ ~crashed
  BY CacheAssumption DEF Typed, TypeOK, Next
<1>2. CASE InsertStep
  BY <1>1, <1>2, InsertStepStep, NextTypes
<1>3. CASE TickStep
  <2>1. at.entry \in live /\ Before(at.entry) /\ age' = age
    BY <1>3, TickStepAt DEF TickStep
  <2>2. Left(at.entry) + age >= Ttl /\ cell[at.entry].ttl = Left(at.entry) + 1
        /\ Left(at.entry) \in Nat
    BY <2>1, LeftType DEF Structure, Aged
  <2>3. ~Expired(at.entry)
    BY <1>1, <2>1, <2>2 DEF Expired
  <2>4. QED
    BY <1>1, <1>3, <2>1, <2>3 DEF TickStep
<1>4. CASE InsertEnd \/ TickStart \/ TickEnd \/ \E n \in Names : InsertStart(n)
  BY <1>1, <1>4 DEF InsertEnd, TickStart, TickEnd, InsertStart
<1>5. QED
  BY <1>2, <1>3, <1>4 DEF Next

\* What has gone wrong stays so.
LEMMA SaneBefore ==
    ASSUME Typed, Next, Sane'
    PROVE  Sane /\ (tangled => tangled')
<1>1. /\ age \in Nat /\ Ttl \in Nat /\ ~crashed /\ tangled \in BOOLEAN
  BY CacheAssumption DEF Typed, TypeOK, Next
<1>2. age' \in Nat /\ age' >= age
  BY <1>1 DEF Next, InsertStart, InsertStep, InsertEnd, TickStart, TickStep, TickEnd
<1>3. tangled => tangled'
  BY <1>1 DEF Next, InsertStart, InsertStep, InsertEnd, TickStart, TickStep, TickEnd
<1>4. Sane
  BY <1>1, <1>2, <1>3 DEF Sane
<1>5. QED
  BY <1>3, <1>4

LEMMA NextInv == CacheInv /\ [Next]_vars => CacheInv'
<1> SUFFICES ASSUME CacheInv, [Next]_vars
             PROVE  CacheInv'
  OBVIOUS
<1>1. Typed
  BY DEF CacheInv, Typed
<1>2. CASE Next
  <2>1. Typed'
    BY <1>1, <1>2, NextTypes
  <2>2. age' < Ttl => ~crashed'
    <3>1. SUFFICES ASSUME age' < Ttl
                   PROVE  ~crashed'
      OBVIOUS
    <3>2. age < Ttl /\ ~crashed
      <4>1. age \in Nat /\ Ttl \in Nat /\ ~crashed
        BY <1>1, <1>2, CacheAssumption DEF Typed, TypeOK, Next
      <4>2. age' \in Nat /\ age' >= age
        BY <1>2, <4>1 DEF Next, InsertStart, InsertStep, InsertEnd, TickStart, TickStep, TickEnd
      <4>3. QED
        BY <3>1, <4>1, <4>2
    <3>3. Structure
      BY <3>2 DEF CacheInv, Sane
    <3>4. QED
      BY <1>1, <1>2, <3>1, <3>3, NoCrashEarly
  <2>3. ASSUME Sane'
        PROVE  Structure'
    <3>1. Structure
      BY <1>1, <1>2, <2>3, SaneBefore DEF CacheInv
    <3>2. ASSUME NEW n \in Names, InsertStart(n)
          PROVE  Structure'
      BY <1>1, <2>1, <3>1, <3>2, InsertStartStep
    <3>3. CASE InsertStep
      BY <1>1, <2>1, <3>1, <3>3, InsertStepStep
    <3>4. CASE InsertEnd
      BY <1>1, <2>1, <3>1, <3>4, InsertEndStep
    <3>5. CASE TickStart
      BY <1>1, <2>1, <3>1, <3>5, TickStartStep
    <3>6. CASE TickStep
      BY <1>1, <2>1, <2>3, <3>1, <3>6, TickStepStep
    <3>7. CASE TickEnd
      BY <1>1, <2>1, <3>1, <3>7, TickEndStep
    <3>8. QED
      BY <1>2, <3>2, <3>3, <3>4, <3>5, <3>6, <3>7 DEF Next
  <2>4. QED
    BY <2>1, <2>2, <2>3 DEF CacheInv, Typed
<1>3. CASE UNCHANGED vars
  BY <1>3 DEF CacheInv, vars, TypeOK, Sane, Structure, Hung, Sorted, Twins, Found, Aged, Searches,
              Walks, Inserts, Ticks, Before, Left, In, Chained
<1>4. QED
  BY <1>2, <1>3

LEMMA CacheInvariant == Spec => []CacheInv
<1>1. Init => CacheInv
  BY InitInv
<1>2. CacheInv /\ [Next]_vars => CacheInv'
  BY NextInv
<1>3. QED
  BY <1>1, <1>2, PTL DEF Spec

LEMMA ChainsInv == CacheInv => ChainsSound
<1> SUFFICES ASSUME CacheInv
             PROVE  ChainsSound
  OBVIOUS
<1>1. Typed
  BY DEF CacheInv, Typed
<1>2. ASSUME Idle, ~crashed, ~tangled
      PROVE  /\ live = UNION {Chain(b) : b \in Buckets}
             /\ \A b \in Buckets : \A c \in Chain(b) :
                   /\ Bucket[cell[c].name] = b
                   /\ \A d \in Reach(cell[c].next) : /\ cell[d].ttl <= cell[c].ttl
                                                     /\ cell[d].name # cell[c].name
  <2>1. Structure
    BY <1>2 DEF CacheInv, Sane
  <2>2. \A b \in Buckets : Chain(b) = Chained(b)
    BY ReachIs DEF Chain, Chained
  <2>3. ~Ticks /\ \A c \in live : Left(c) = cell[c].ttl
    BY <1>2 DEF Idle, Ticks, Left, Before
  <2>4. ASSUME NEW b \in Buckets
        PROVE  /\ Chained(b) \subseteq live
               /\ \A c \in Chained(b) : In(c) = b
    <3>1. htable[b] \in live \cup {NULL} /\ (htable[b] # NULL => In(htable[b]) = b)
      BY <2>1 DEF Structure, Hung
    <3>2. QED
      BY <1>1, <2>1, <3>1, Leads DEF Structure, Chained
  <2>5. \A c \in live : In(c) \in Buckets /\ c \in Chained(In(c))
    BY <1>1, <2>1, <2>3, CellTypes DEF Structure, Found, Typed
  <2>6. live = UNION {Chained(b) : b \in Buckets}
    BY <2>4, <2>5
  <2>7. ASSUME NEW b \in Buckets, NEW c \in Chained(b), NEW d \in Reach(cell[c].next)
        PROVE  cell[d].ttl <= cell[c].ttl /\ cell[d].name # cell[c].name
    <3>1. c \in live
      BY <2>4
    <3>2. d \in ReachOf(cell, cell[c].next)
      BY <2>7, ReachIs
    <3>3. d \in live
      BY <1>1, <2>1, <3>1, <3>2, Acyclic DEF Structure
    <3>4. Left(d) <= Left(c) /\ cell[d].name # cell[c].name
      BY <2>1, <3>1, <3>2 DEF Structure, Sorted
    <3>5. QED
      BY <2>3, <3>1, <3>3, <3>4
  <2>8. QED
    BY <2>2, <2>4, <2>6, <2>7 DEF In
<1>3. QED
  BY <1>1, <1>2 DEF ChainsSound, Typed

LEMMA TroubleInv == CacheInv => NoTroubleBeforeTtl
<1> SUFFICES ASSUME CacheInv, age < Ttl
             PROVE  ~crashed /\ \A b \in Buckets : Chain(b) \subseteq live
  BY DEF NoTroubleBeforeTtl
<1>1. Typed /\ ~crashed /\ Structure
  BY DEF CacheInv, Typed, Sane
<1>2. ASSUME NEW b \in Buckets
      PROVE  Chain(b) \subseteq live
  <2>1. htable[b] \in live \cup {NULL}
    BY <1>1 DEF Structure, Hung
  <2>2. ReachOf(cell, htable[b]) \subseteq live
    BY <1>1, <2>1, Leads DEF Structure
  <2>3. QED
    BY <2>2, ReachIs DEF Chain
<1>3. QED
  BY <1>1, <1>2

\* Whenever cache_insert and cache_tick are not running, the chains hold the
\* allocated cells and no other, in the bucket of their hash, newest first and no
\* name twice, until an entry has been put before two of one age.
THEOREM CacheChainsSound == Spec => []ChainsSound
BY CacheInvariant, ChainsInv, PTL

\* cache_tick and cache_insert touch no freed cell, and no chain of htable leads to
\* one, in the first Ttl ticks.
THEOREM CacheNoTrouble == Spec => []NoTroubleBeforeTtl
BY CacheInvariant, TroubleInv, PTL

-------------------------------------------------------------------------------
(* What the cache promises *)

\* The cells that Life(n) is taken from.
Holders(n) == {c \in Chain(Bucket[n]) \cap live : cell[c].name = n}

LeftOf(c) == IF Ahead(c) THEN cell[c].ttl - 1 ELSE cell[c].ttl

LEMMA LifeIs ==
    \A n : Life(n) = IF Holders(n) = {} THEN 0
                     ELSE CHOOSE l \in {LeftOf(c) : c \in Holders(n)} :
                             \A c \in Holders(n) : LeftOf(c) <= l
BY Zenon DEF Life, Holders, LeftOf

LEMMA LeftIs ==
    /\ \A c : LeftOf(c) = Left(c)
    /\ \A n : Holders(n) = {c \in Chained(Bucket[n]) \cap live : cell[c].name = n}
<1>1. \A c : Ahead(c) <=> Before(c)
  BY ReachIs DEF Ahead, Before, Ticks, In
<1>2. \A c : LeftOf(c) = Left(c)
  BY <1>1 DEF Left, LeftOf
<1>3. \A n : Holders(n) = {c \in Chained(Bucket[n]) \cap live : cell[c].name = n}
  BY ReachIs DEF Holders, Chain, Chained
<1>4. QED
  BY <1>2, <1>3

\* The name's verdict is a longest one, if it has any.
LEMMA LongestIs ==
    ASSUME Typed, NEW n, Holders(n) # {}
    PROVE  \E c \in Holders(n) : Life(n) = Left(c) /\ \A d \in Holders(n) : Left(d) <= Left(c)
<1>1. \A c \in Holders(n) : Left(c) \in 0 .. Ttl
  BY LeftType, LeftIs
<1>2. Ttl \in Nat
  BY CacheAssumption
<1> DEFINE T == {Ttl - Left(c) : c \in Holders(n)}
<1>3. T \subseteq Nat /\ T # {}
  BY <1>1, <1>2
<1>4. PICK x \in T : \A y \in T : x <= y
  BY <1>3, LeastNat
<1>5. PICK m \in Holders(n) : x = Ttl - Left(m)
  BY <1>4
<1>6. \A d \in Holders(n) : Left(d) <= Left(m)
  <2>1. TAKE d \in Holders(n)
  <2>2. Ttl - Left(m) <= Ttl - Left(d)
    BY <1>4, <1>5
  <2>3. Left(m) \in Nat /\ Left(d) \in Nat
    BY <1>1
  <2>4. QED
    BY <1>2, <2>2, <2>3
<1> HIDE DEF T
<1>7. \E l \in {LeftOf(c) : c \in Holders(n)} : \A c \in Holders(n) : LeftOf(c) <= l
  <2>1. LeftOf(m) \in {LeftOf(c) : c \in Holders(n)} /\ \A c \in Holders(n) : LeftOf(c) <= LeftOf(m)
    BY <1>6, LeftIs
  <2>2. QED
    BY <2>1
<1>8. /\ Life(n) \in {LeftOf(c) : c \in Holders(n)}
      /\ \A c \in Holders(n) : LeftOf(c) <= Life(n)
  BY <1>7, LifeIs
<1>9. QED
  BY <1>8, LeftIs

LEMMA LifeType ==
    ASSUME Typed, NEW n
    PROVE  Life(n) \in 0 .. Ttl
<1>1. CASE Holders(n) = {}
  BY <1>1, LifeIs, CacheAssumption
<1>2. CASE Holders(n) # {}
  BY <1>2, LongestIs, LeftType, LeftIs
<1>3. QED
  BY <1>1, <1>2

\* A cell that is not in its chain any more is on its way to be freed.
LEMMA StillChained ==
    ASSUME Typed, Structure, NEW c \in live, Left(c) # 0
    PROVE  c \in Chained(In(c))
<1>1. SUFFICES ASSUME Ticks, c \in ReachOf(cell, at.entry)
               PROVE  c \in Chained(In(c))
  BY DEF Structure, Found
<1>2. at.entry \in live \cup {NULL} /\ at.entry # NULL /\ In(c) = at.bucket
  <2>1. at.entry \in live \cup {NULL} /\ (at.entry # NULL => In(at.entry) = at.bucket)
    BY <1>1 DEF Structure, Walks
  <2>2. QED
    BY <1>1, <2>1, Leads DEF Structure
<1>3. at.bucket \in Buckets /\ Heap(cell) /\ htable[at.bucket] \in Ptr
  BY <1>1, AtTypes, CellTypes DEF Typed
<1>4. CASE at.last = NULL
  BY <1>1, <1>2, <1>4 DEF Structure, Walks, Chained
<1>5. CASE at.last \in live
  <2>1. at.last \in ReachOf(cell, htable[at.bucket]) /\ cell[at.last].next = at.entry
    BY <1>1, <1>5, LastChained DEF Structure, Walks, Chained
  <2>2. ReachOf(cell, cell[at.last].next) \subseteq ReachOf(cell, htable[at.bucket])
    BY <1>3, <2>1, ReachWithin
  <2>3. QED
    BY <1>1, <1>2, <2>1, <2>2 DEF Chained
<1>6. CASE at.last \notin live \cup {NULL}
  BY <1>1, <1>2, <1>6 DEF Structure, Walks
<1>7. QED
  BY <1>4, <1>5, <1>6

\* A name has one cell.
LEMMA OneHolder ==
    ASSUME Typed, Structure, NEW n \in Names, NEW c \in Holders(n), NEW d \in Holders(n)
    PROVE  c = d
<1>1. /\ c \in live /\ d \in live /\ cell[c].name = n /\ cell[d].name = n
      /\ c \in ReachOf(cell, htable[Bucket[n]]) /\ d \in ReachOf(cell, htable[Bucket[n]])
  BY LeftIs DEF Chained
<1>2. Heap(cell) /\ htable[Bucket[n]] \in Ptr
  BY CellTypes, CacheAssumption DEF Typed
<1>3. d \in ReachOf(cell, c) \/ c \in ReachOf(cell, d)
  BY <1>1, <1>2, ReachLinear
<1>4. /\ ReachOf(cell, c) = {c} \cup ReachOf(cell, cell[c].next)
      /\ ReachOf(cell, d) = {d} \cup ReachOf(cell, cell[d].next)
  BY <1>1, Acyclic DEF Structure
<1>5. d \notin ReachOf(cell, cell[c].next) /\ c \notin ReachOf(cell, cell[d].next)
  BY <1>1 DEF Structure, Sorted
<1>6. QED
  BY <1>3, <1>4, <1>5

\* A name's verdict lives as long as the live cell with that name that has ticks left.
Alive == /\ \A n \in Names : Life(n) \in 0 .. Ttl
         /\ \A c \in live : Left(c) # 0 => Life(cell[c].name) = Left(c)
         /\ \A n \in Names : Life(n) # 0 => \E c \in live : cell[c].name = n /\ Left(c) = Life(n)
         /\ \A c \in live : Left(c) \in 0 .. Ttl /\ cell[c].name \in Names

LEMMA AliveInv == Typed /\ Structure => Alive
<1> SUFFICES ASSUME Typed, Structure
             PROVE  Alive
  OBVIOUS
<1>1. \A c \in live : Left(c) \in 0 .. Ttl /\ cell[c].name \in Names
  BY LeftType, CellTypes DEF Typed
<1>2. ASSUME NEW c \in live, Left(c) # 0
      PROVE  Life(cell[c].name) = Left(c)
  <2>1. c \in Holders(cell[c].name)
    BY <1>2, StillChained, LeftIs DEF In
  <2>2. PICK d \in Holders(cell[c].name) : Life(cell[c].name) = Left(d)
    BY <2>1, LongestIs
  <2>3. d = c
    BY <1>1, <2>1, <2>2, OneHolder
  <2>4. QED
    BY <2>2, <2>3
<1>3. ASSUME NEW n \in Names, Life(n) # 0
      PROVE  \E c \in live : cell[c].name = n /\ Left(c) = Life(n)
  <2>1. Holders(n) # {}
    BY <1>3, LifeIs
  <2>2. PICK c \in Holders(n) : Life(n) = Left(c)
    BY <2>1, LongestIs
  <2>3. QED
    BY <2>2, LeftIs
<1>4. QED
  BY <1>1, <1>2, <1>3, LifeType DEF Alive

LEMMA NothingHappens ==
    ASSUME Alive, Alive', Lasting(0)
    PROVE  \A n \in Names : Life(n)' = Life(n)
<1>1. \A c \in live' : c \in live /\ Left(c)' = Left(c) /\ cell'[c].name = cell[c].name
  BY DEF Lasting, Alive
<1>2. \A c \in live : Left(c) # 0 => c \in live'
  BY DEF Lasting
<1>3. SUFFICES ASSUME NEW n \in Names
               PROVE  Life(n)' = Life(n)
  OBVIOUS
<1>4. CASE Life(n) # 0
  <2>1. PICK c \in live : cell[c].name = n /\ Left(c) = Life(n)
    BY <1>4 DEF Alive
  <2>2. c \in live' /\ Left(c)' = Life(n) /\ cell'[c].name = n
    BY <1>1, <1>2, <1>4, <2>1
  <2>3. Life(cell[c].name)' = Left(c)'
    BY <1>4, <2>2 DEF Alive
  <2>4. QED
    BY <2>2, <2>3
<1>5. CASE Life(n) = 0 /\ Life(n)' # 0
  <2>1. PICK c \in live' : cell'[c].name = n /\ Left(c)' = Life(n)'
    BY <1>5 DEF Alive
  <2>2. c \in live /\ Left(c) # 0 /\ cell[c].name = n
    BY <1>1, <1>5, <2>1
  <2>3. Life(cell[c].name) = Left(c)
    BY <2>2 DEF Alive
  <2>4. QED
    BY <1>5, <2>2, <2>3
<1>6. QED
  BY <1>4, <1>5

LEMMA TickPasses ==
    ASSUME Alive, Alive', Lasting(1)
    PROVE  \A n \in Names : Life(n)' = IF Life(n) > 0 THEN Life(n) - 1 ELSE 0
<1>1. \A c \in live' : /\ c \in live /\ Left(c)' = Left(c) - 1 /\ cell'[c].name = cell[c].name
                       /\ Left(c) \in Nat /\ Left(c)' \in Nat /\ Left(c) # 0
  BY DEF Lasting, Alive
<1>2. \A c \in live : Left(c) # 0 => c \in live'
  BY DEF Lasting
<1>3. SUFFICES ASSUME NEW n \in Names
               PROVE  Life(n)' = IF Life(n) > 0 THEN Life(n) - 1 ELSE 0
  OBVIOUS
<1>4. Life(n) \in Nat /\ Life(n)' \in Nat
  BY DEF Alive
<1>5. ASSUME Life(n)' # 0
      PROVE  Life(n) = Life(n)' + 1
  <2>1. PICK c \in live' : cell'[c].name = n /\ Left(c)' = Life(n)'
    BY <1>5 DEF Alive
  <2>2. c \in live /\ Left(c) # 0 /\ cell[c].name = n /\ Left(c) = Life(n)' + 1
    BY <1>1, <2>1
  <2>3. Life(cell[c].name) = Left(c)
    BY <2>2 DEF Alive
  <2>4. QED
    BY <2>2, <2>3
<1>6. ASSUME Life(n) # 0, Life(n) # 1
      PROVE  Life(n)' = Life(n) - 1
  <2>1. PICK c \in live : cell[c].name = n /\ Left(c) = Life(n)
    BY <1>6 DEF Alive
  <2>2. c \in live' /\ Left(c)' = Life(n) - 1 /\ cell'[c].name = n /\ Left(c)' # 0
    BY <1>1, <1>2, <1>4, <1>6, <2>1
  <2>3. Life(cell[c].name)' = Left(c)'
    BY <2>2 DEF Alive
  <2>4. QED
    BY <2>2, <2>3
<1>7. QED
  BY <1>4, <1>5, <1>6

LEMMA VerdictComes ==
    ASSUME Alive, Alive', NEW n \in Names, NEW x \in Cells \ live, live' = live \cup {x},
           \A c \in live : cell[c].name # n,
           \A c \in live : Left(c)' = Left(c) /\ cell'[c].name = cell[c].name,
           Left(x)' = Ttl, cell'[x].name = n
    PROVE  /\ Life(n) = 0 /\ Life(n)' = Ttl
           /\ \A m \in Names : m # n => Life(m)' = Life(m)
<1>1. Life(n) = 0
  BY DEF Alive
<1>2. Life(n)' = Ttl
  <2>1. Ttl # 0 /\ x \in live'
    BY CacheAssumption
  <2>2. Life(cell[x].name)' = Left(x)'
    BY <2>1 DEF Alive
  <2>3. QED
    BY <2>2
<1>3. ASSUME NEW m \in Names, m # n
      PROVE  Life(m)' = Life(m)
  <2>1. CASE Life(m) # 0
    <3>1. PICK c \in live : cell[c].name = m /\ Left(c) = Life(m)
      BY <2>1 DEF Alive
    <3>2. c \in live' /\ Left(c)' = Life(m) /\ cell'[c].name = m
      BY <3>1
    <3>3. Life(cell[c].name)' = Left(c)'
      BY <2>1, <3>2 DEF Alive
    <3>4. QED
      BY <3>2, <3>3
  <2>2. CASE Life(m) = 0 /\ Life(m)' # 0
    <3>1. PICK c \in live' : cell'[c].name = m /\ Left(c)' = Life(m)'
      BY <2>2 DEF Alive
    <3>2. c \in live /\ Left(c) # 0 /\ cell[c].name = m
      BY <1>3, <2>2, <3>1
    <3>3. Life(cell[c].name) = Left(c)
      BY <3>2 DEF Alive
    <3>4. QED
      BY <2>2, <3>2, <3>3
  <2>3. QED
    BY <2>1, <2>2
<1>4. QED
  BY <1>1, <1>2, <1>3

LifeTyped == \A n \in Names : Life(n) \in 0 .. Ttl

LEMMA LifeIsTyped == Typed => LifeTyped
BY LifeType DEF LifeTyped

LEMMA MapInit == Init => V!Init
<1> SUFFICES ASSUME Init
             PROVE  V!Init
  OBVIOUS
<1>1. live = {} /\ ~crashed /\ ~tangled
  BY DEF Init
<1>2. \A n \in Names : Life(n) = 0
  BY <1>1, LifeIs, LeftIs
<1>3. QED
  BY <1>1, <1>2 DEF V!Init, Init

LEMMA MapNext == CacheInv /\ CacheInv' /\ [Next]_vars => [V!Next]_(V!vars)
<1> SUFFICES ASSUME CacheInv, CacheInv', [Next]_vars
             PROVE  V!Next \/ UNCHANGED V!vars
  OBVIOUS
<1>1. Typed /\ Typed'
  BY DEF CacheInv, Typed
<1>2. CASE crashed' \/ tangled'
  <2>1. LifeTyped'
    BY <1>1, LifeIsTyped, PTL
  <2>2. [n \in Names |-> Life(n)]' \in [Names -> 0 .. Ttl]
    BY <2>1 DEF LifeTyped
  <2>3. QED
    BY <1>2, <2>2 DEF V!Next
<1>3. CASE ~crashed' /\ ~tangled'
  <2>1. Sane /\ ~tangled
    BY <1>1, <1>3, SaneBefore DEF Sane, vars
  <2>2. Structure /\ Structure' /\ ~crashed
    BY <1>3, <2>1 DEF CacheInv, Sane
  <2>3. Alive /\ Alive'
    BY <1>1, <2>2, AliveInv, PTL
  <2>4. ASSUME Lasting(0)
        PROVE  UNCHANGED V!vars
    <3>1. \A n \in Names : Life(n)' = Life(n)
      BY <2>3, <2>4, NothingHappens
    <3>2. [n \in Names |-> Life(n)]' = [n \in Names |-> Life(n)]
      BY <3>1
    <3>3. (crashed \/ tangled)' = (crashed \/ tangled)
      BY <1>3, <2>1, <2>2
    <3>4. QED
      BY <3>2, <3>3 DEF V!vars
  <2>5. ASSUME NEW n \in Names, InsertStart(n)
        PROVE  UNCHANGED V!vars
    BY <1>1, <2>2, <2>4, <2>5, InsertStartStep
  <2>6. CASE InsertStep
    BY <1>1, <2>2, <2>4, <2>6, InsertStepStep
  <2>7. CASE TickStep
    BY <1>1, <1>3, <2>2, <2>4, <2>7, TickStepStep DEF Sane
  <2>8. CASE TickEnd
    BY <1>1, <2>2, <2>4, <2>8, TickEndStep
  <2>9. CASE InsertEnd
    <3>1. CASE Lasting(0)
      BY <2>4, <3>1
    <3>2. CASE ~Lasting(0)
      <4>1. PICK x \in Cells \ live :
                  /\ live' = live \cup {x}
                  /\ \A c \in live : Left(c)' = Left(c) /\ cell'[c].name = cell[c].name
                  /\ Left(x)' = Ttl /\ cell'[x].name = at.name
        BY <1>1, <2>2, <2>9, <3>2, InsertEndStep
      <4>2. at.name \in Names /\ \A c \in live : cell[c].name # at.name
        BY <1>1, <2>2, <2>9, NotThere
      <4>3. PICK n \in Names : n = at.name
        BY <4>2
      <4>4. /\ Life(n) = 0 /\ Life(n)' = Ttl
            /\ \A m \in Names : m # n => Life(m)' = Life(m)
        BY <2>3, <4>1, <4>2, <4>3, VerdictComes
      <4>5. /\ [m \in Names |-> Life(m)][n] = 0
            /\ [m \in Names |-> Life(m)]' = [[m \in Names |-> Life(m)] EXCEPT ![n] = Ttl]
        BY <4>4
      <4>6. V!Insert(n)
        BY <4>5 DEF V!Insert
      <4>7. QED
        BY <1>3, <2>1, <2>2, <4>6 DEF V!Next
    <3>3. QED
      BY <3>1, <3>2
  <2>10. CASE TickStart
    <3>1. Lasting(1)
      BY <1>1, <2>2, <2>10, TickStartStep
    <3>2. \A n \in Names : Life(n)' = IF Life(n) > 0 THEN Life(n) - 1 ELSE 0
      BY <2>3, <3>1, TickPasses
    <3>3. \A n \in Names : Life(n) \in Nat
      BY <2>3 DEF Alive
    <3>4. CASE \E n \in Names : Life(n) > 0
      <4>1. V!Tick
        BY <3>2, <3>4 DEF V!Tick
      <4>2. QED
        BY <1>3, <2>1, <2>2, <4>1 DEF V!Next
    <3>5. CASE ~\E n \in Names : Life(n) > 0
      <4>1. \A n \in Names : Life(n)' = Life(n)
        BY <3>2, <3>3, <3>5
      <4>2. [n \in Names |-> Life(n)]' = [n \in Names |-> Life(n)]
        BY <4>1
      <4>3. (crashed \/ tangled)' = (crashed \/ tangled)
        BY <1>3, <2>1, <2>2
      <4>4. QED
        BY <4>2, <4>3 DEF V!vars
    <3>6. QED
      BY <3>4, <3>5
  <2>11. CASE UNCHANGED vars
    <3>1. Lasting(0)
      BY <1>1, <2>3, <2>11 DEF vars, Lasting, Left, Before, Ticks, In, Alive
    <3>2. QED
      BY <2>4, <3>1
  <2>12. QED
    BY <2>5, <2>6, <2>7, <2>8, <2>9, <2>10, <2>11 DEF Next
<1>4. QED
  BY <1>2, <1>3

\* The table of chains does what VerdictMap promises: whatever is inserted and
\* whenever the ticks come, a verdict that is put into it is there for exactly Ttl
\* ticks, unless an entry has been put before two of one age; the whole chains that
\* cache_tick throws away hold nothing that has a tick left.
THEOREM CacheImplementsMap == Spec => ImplementsVerdictMap
<1>1. Init => V!Init
  BY MapInit
<1>2. CacheInv /\ CacheInv' /\ [Next]_vars => [V!Next]_(V!vars)
  BY MapNext
<1>3. QED
  BY <1>1, <1>2, CacheInvariant, PTL DEF Spec, ImplementsVerdictMap, V!Spec
===============================================================================
